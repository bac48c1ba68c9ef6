--------------------------- MODULE GNEvents_proofs ---------------------------
(***************************************************************************)
(* TypeOK and AccessesAtomic for all applications, whatever their programs *)
(* do with events, any number of kernels that die and a semaphore that was *)
(* left taken or is posted too often.  For the animation, of any number of *)
(* frames, and the matrix multiplication of GNPrograms: NoDataRace,        *)
(* ResultsRight and ValuesKeptApart.  Their invariants say how the places  *)
(* of the processes in their programs, the values of the events and what   *)
(* the areas of memory hold belong together.                               *)
(***************************************************************************)
EXTENDS GNPrograms, SequenceTheorems, TLAPS

\* Only processes of the application run.
OfApp == \A p \in Processes : at[p] # 0 => p \in DOMAIN app.program

\* The one permit is in the semaphore, or with one process that accesses a
\* register, or lost with a kernel that has died.
Permit ==
    /\ \A p, q \in Processes : InSection(p) /\ InSection(q) => p = q
    /\ \A p \in Processes : InSection(p) => AtEvent(p)
    /\ \A p \in Processes : InSection(p) => sem = 0 /\ orphaned = 0
    /\ orphaned + sem <= 1

EventsInv == TypeOK /\ OfApp /\ (Intact => Permit /\ RegistersAtomic)

\* The invariant of a system whose semaphore was not posted once too often.
SoundInv == Intact /\ EventsInv

-----------------------------------------------------------------------------
\* What a running process may be about to do.
LEMMA InstructionTyped ==
    ASSUME TypeOK, OfApp, NEW p \in Processes, Running(p)
    PROVE  /\ p \in DOMAIN app.program
           /\ at[p] \in 1 .. Len(app.program[p])
           /\ Instruction(p) \in InstructionsOf(app)
<1>1. p \in DOMAIN app.program /\ at[p] \in Nat \ {0}
  BY DEF TypeOK, OfApp, Running
<1>2. app.program[p] \in Seq(InstructionsOf(app))
  BY <1>1, EventsAssumption DEF TypeOK
<1>3. at[p] \in 1 .. Len(app.program[p])
  BY <1>1, <1>2 DEF Running
<1>4. app.program[p][at[p]] \in InstructionsOf(app)
  BY <1>2, <1>3
<1> QED BY <1>1, <1>3, <1>4 DEF Instruction

LEMMA EventTyped ==
    ASSUME TypeOK, OfApp, NEW p \in Processes, AtEvent(p)
    PROVE  /\ EventOf(p) \in DOMAIN app.word
           /\ Instruction(p).value \in 0 .. Word - 1
<1>1. Instruction(p) \in InstructionsOf(app)
  BY InstructionTyped DEF AtEvent
<1>2. Instruction(p).op \in {"write", "wait"} /\ Word \in Nat
  BY EventsAssumption DEF AtEvent
<1> DEFINE i == Instruction(p)
<1>3. \/ i \in [op : {"write"}, event : DOMAIN app.word, value : 0 .. Word - 1]
      \/ i \in [op : {"wait"}, event : DOMAIN app.word, value : 1 .. Word - 1]
  <2> HIDE DEF i
  <2>1. i.op \in {"write", "wait"} /\ i \in InstructionsOf(app)
    BY <1>1, <1>2 DEF i
  <2> QED BY <2>1 DEF InstructionsOf
<1>4. i.event \in DOMAIN app.word /\ i.value \in 0 .. Word - 1
  <2> HIDE DEF i
  <2> QED BY <1>2, <1>3
<1> QED BY <1>4 DEF EventOf

LEMMA AdvancedTyped ==
    ASSUME TypeOK, NEW p \in Processes
    PROVE  Advanced(p) \in Nat
  BY DEF TypeOK, Advanced

LEMMA AfterWriteTyped ==
    ASSUME TypeOK, NEW e \in DOMAIN app.word,
           NEW old \in 0 .. Word - 1, NEW v \in 0 .. Word - 1
    PROVE  AfterWrite(e, old, v) \in 0 .. Word - 1
<1>1. (old + v) % Word \in 0 .. Word - 1
  BY EventsAssumption
<1> QED BY <1>1 DEF AfterWrite

-----------------------------------------------------------------------------
LEMMA EventsInit == Init => EventsInv
<1> SUFFICES ASSUME Init PROVE EventsInv
  OBVIOUS
<1>1. Host \in DOMAIN app.program
  BY EventsAssumption DEF Init
<1>2. TypeOK
  <2>1. /\ app.word \in [DOMAIN app.word -> 0 .. Word - 1]
        /\ app.area \in [DOMAIN app.area -> Seq(STRING)]
        /\ Word \in Nat /\ Word > 2
    BY EventsAssumption DEF Init
  <2>2. /\ sem \in Nat /\ (spare = 0 => sem \in {0, 1})
        /\ crashes \in 0 .. MaxCrashes /\ orphaned \in 0 .. crashes + 1
        /\ spare \in 0 .. MaxSpare
    BY EventsAssumption DEF Init
  <2> QED BY <2>1, <2>2 DEF Init, TypeOK
<1>3. OfApp
  BY <1>1 DEF Init, OfApp
<1>4. ASSUME Intact PROVE Permit
  BY <1>2, <1>4 DEF Init, Permit, InSection, Intact, TypeOK
<1>5. RegistersAtomic
  BY DEF Init, RegistersAtomic
<1> QED BY <1>2, <1>3, <1>4, <1>5 DEF EventsInv

\* A process that is not at an event leaves the registers alone, and so do the
\* steps of an access but its last.
LEMMA EnterKeeps ==
    ASSUME EventsInv, NEW p \in Processes, Enter(p)
    PROVE  EventsInv'
<1> USE DEF EventsInv
<1>1. TypeOK'
  <2>1. sem' \in Nat /\ (spare' = 0 => sem' \in {0, 1})
    BY DEF TypeOK, Enter
  <2> QED BY <2>1 DEF TypeOK, Enter
<1>2. OfApp'
  BY DEF TypeOK, OfApp, Enter
<1> SUFFICES ASSUME Intact PROVE (Permit /\ RegistersAtomic)'
  BY <1>1, <1>2 DEF Intact, Enter
<1>3. /\ sem = 1 /\ sem' = 0 /\ orphaned' = 0
      /\ \A q \in Processes : ~InSection(q)
      /\ \A q \in Processes : InSection(q)' => q = p
  BY DEF TypeOK, Permit, Enter, InSection, Intact
<1>4. AtEvent(p)'
  BY DEF Enter, AtEvent, Running, Instruction
<1>5. Permit'
  BY <1>3, <1>4 DEF Permit
<1>6. RegistersAtomic'
  BY DEF TypeOK, RegistersAtomic, Enter, EventOf, Instruction
<1> QED BY <1>5, <1>6

LEMMA LoadKeeps ==
    ASSUME EventsInv, NEW p \in Processes, Load(p)
    PROVE  EventsInv'
<1> USE DEF EventsInv
<1>1. EventOf(p) \in DOMAIN app.word
  BY EventTyped DEF Load
<1>2. TypeOK'
  BY <1>1 DEF TypeOK, Load
<1>3. OfApp'
  BY DEF TypeOK, OfApp, Load
<1> SUFFICES ASSUME Intact PROVE (Permit /\ RegistersAtomic)'
  BY <1>2, <1>3 DEF Intact, Load
<1>4. /\ \A q \in Processes : InSection(q)' <=> InSection(q)
      /\ \A q \in Processes : AtEvent(q)' <=> AtEvent(q)
      /\ sem' = sem /\ orphaned' = orphaned
  BY DEF TypeOK, Load, InSection, AtEvent, Running, Instruction
<1>5. Permit'
  BY <1>4 DEF Permit
<1>6. RegistersAtomic'
  BY DEF TypeOK, RegistersAtomic, Load, EventOf, Instruction
<1> QED BY <1>5, <1>6

\* The last step of an access gives the permit back.
LEMMA StoreKeeps ==
    ASSUME EventsInv, NEW p \in Processes, AtEvent(p),
           NEW word \in 0 .. Word - 1, Store(p, word),
           NEW next \in Nat, NEW kept \in 0 .. Word - 1,
           at' = [at EXCEPT ![p] = next],
           hand' = [hand EXCEPT ![p] = kept]
    PROVE  EventsInv'
<1> USE DEF EventsInv
<1>1. InSection(p) /\ p \in DOMAIN app.program
  BY InstructionTyped DEF Store, InSection, AtEvent
<1>2. Intact => sem = 0 /\ orphaned = 0 /\ sem' = 1 /\ orphaned' = 0
  BY <1>1 DEF Permit, Store
<1>3. TypeOK'
  <2>1. sem' \in Nat /\ (spare' = 0 => sem' \in {0, 1})
    BY <1>2 DEF TypeOK, Store, Intact
  <2> QED BY <2>1 DEF TypeOK, Store
<1>4. OfApp'
  BY <1>1 DEF TypeOK, OfApp, Store
<1> SUFFICES ASSUME Intact PROVE (Permit /\ RegistersAtomic)'
  BY <1>3, <1>4 DEF Intact, Store
<1>5. \A q \in Processes : ~InSection(q)'
  <2> TAKE q \in Processes
  <2>1. CASE q = p
    BY <2>1 DEF TypeOK, Store, InSection
  <2>2. CASE q # p
    BY <2>2, <1>1 DEF TypeOK, Permit, Store, InSection
  <2> QED BY <2>1, <2>2
<1>6. Permit'
  BY <1>2, <1>5 DEF Permit
<1>7. RegistersAtomic'
  BY <1>5 DEF RegistersAtomic, InSection
<1> QED BY <1>6, <1>7

LEMMA FinishKeeps ==
    ASSUME EventsInv, NEW p \in Processes,
           FinishWrite(p) \/ FinishRead(p) \/ FinishRewrite(p)
    PROVE  EventsInv'
<1> USE DEF EventsInv
<1>1. AtEvent(p) /\ TypeOK /\ Advanced(p) \in Nat
  BY AdvancedTyped DEF FinishWrite, FinishRead, FinishRewrite, IsAt, AtEvent
<1>2. /\ EventOf(p) \in DOMAIN app.word
      /\ Instruction(p).value \in 0 .. Word - 1
  BY <1>1, EventTyped
<1>3. /\ seen[p] \in 0 .. Word - 1 /\ hand[p] \in 0 .. Word - 1
      /\ at[p] \in Nat /\ 0 \in 0 .. Word - 1
      /\ at = [at EXCEPT ![p] = at[p]] /\ hand = [hand EXCEPT ![p] = hand[p]]
  BY <1>1, EventsAssumption DEF TypeOK
<1>4. CASE FinishWrite(p)
  <2>1. AfterWrite(EventOf(p), seen[p], Instruction(p).value) \in 0 .. Word - 1
    BY <1>1, <1>2, <1>3, AfterWriteTyped
  <2> QED BY <1>1, <1>3, <1>4, <2>1, StoreKeeps DEF FinishWrite
<1>5. CASE FinishRead(p)
  <2>1. CASE at' = [at EXCEPT ![p] = Advanced(p)] /\ hand' = hand
    BY <1>1, <1>3, <1>5, <2>1, StoreKeeps DEF FinishRead
  <2>2. CASE at' = at /\ hand' = [hand EXCEPT ![p] = seen[p]]
    BY <1>1, <1>3, <1>5, <2>2, StoreKeeps DEF FinishRead
  <2> QED BY <1>5, <2>1, <2>2 DEF FinishRead
<1>6. CASE FinishRewrite(p)
  <2>1. AfterWrite(EventOf(p), seen[p], hand[p]) \in 0 .. Word - 1
    BY <1>1, <1>2, <1>3, AfterWriteTyped
  <2> QED BY <1>1, <1>3, <1>6, <2>1, StoreKeeps DEF FinishRewrite
<1> QED BY <1>4, <1>5, <1>6

LEMMA WorkTyped ==
    ASSUME TypeOK, OfApp, NEW p \in Processes, Running(p),
           Instruction(p).op = "work"
    PROVE  /\ Instruction(p).from \in DOMAIN app.area
           /\ Instruction(p).by \in Seq(STRING)
<1> DEFINE i == Instruction(p)
<1>1. i \in InstructionsOf(app) /\ i.op = "work"
  BY InstructionTyped
<1>2. i.from \in DOMAIN app.area /\ i.by \in Seq(STRING)
  <2> HIDE DEF i
  <2> QED BY <1>1 DEF InstructionsOf
<1> QED BY <1>2

LEMMA StartTyped ==
    ASSUME TypeOK, OfApp, NEW p \in Processes, Running(p),
           Instruction(p).op = "start"
    PROVE  /\ Instruction(p).kernel \in DOMAIN app.program
           /\ Instruction(p).kernel \in Processes
<1> DEFINE i == Instruction(p)
<1>1. i \in InstructionsOf(app) /\ i.op = "start"
  BY InstructionTyped
<1>2. i.kernel \in DOMAIN app.program
  <2> HIDE DEF i
  <2> QED BY <1>1 DEF InstructionsOf
<1>3. DOMAIN app.program \subseteq Processes
  BY DEF TypeOK, Processes
<1> QED BY <1>2, <1>3

LEMMA WorkKeeps ==
    ASSUME EventsInv, NEW p \in Processes,
           StartKernel(p) \/ BeginWork(p) \/ FinishWork(p)
    PROVE  EventsInv'
<1> USE DEF EventsInv
<1>1. /\ Running(p) /\ p \in DOMAIN app.program /\ ~InSection(p)
      /\ Advanced(p) \in Nat
      /\ step[p] \in {"ready", "working"}
  BY InstructionTyped, AdvancedTyped
  DEF StartKernel, BeginWork, FinishWork, IsAt, InSection
<1>2. TypeOK'
  <2>1. CASE StartKernel(p)
    BY <1>1, <2>1 DEF TypeOK, StartKernel
  <2>2. CASE BeginWork(p)
    <3>1. Instruction(p).from \in DOMAIN app.area
      BY <2>2, WorkTyped DEF BeginWork, IsAt
    <3> QED BY <2>2, <3>1 DEF TypeOK, BeginWork
  <2>3. CASE FinishWork(p)
    <3>1. carried[p] \o Instruction(p).by \in Seq(STRING)
      BY <2>3, WorkTyped DEF FinishWork, IsAt, TypeOK
    <3>2. area' \in [DOMAIN app.area -> Seq(STRING)]
      BY <2>3, <3>1 DEF TypeOK, FinishWork
    <3> QED BY <1>1, <2>3, <3>2 DEF TypeOK, FinishWork
  <2> QED BY <2>1, <2>2, <2>3
<1>3. OfApp'
  <2>1. CASE StartKernel(p)
    <3>1. Instruction(p).kernel \in DOMAIN app.program
      BY <2>1, StartTyped DEF StartKernel, IsAt
    <3> QED BY <1>1, <2>1, <3>1 DEF TypeOK, OfApp, StartKernel
  <2>2. CASE BeginWork(p)
    BY <2>2 DEF OfApp, BeginWork
  <2>3. CASE FinishWork(p)
    BY <1>1, <2>3 DEF TypeOK, OfApp, FinishWork
  <2> QED BY <2>1, <2>2, <2>3
<1> SUFFICES ASSUME Intact PROVE (Permit /\ RegistersAtomic)'
  BY <1>2, <1>3 DEF Intact, StartKernel, BeginWork, FinishWork
\* A process in an access is another one, and has not just been started.
<1>4. /\ app' = app /\ seen' = seen /\ reg' = reg
      /\ sem' = sem /\ orphaned' = orphaned
  BY DEF StartKernel, BeginWork, FinishWork
<1>5. ASSUME NEW q \in Processes, InSection(q)'
      PROVE  step'[q] = step[q] /\ InSection(q) /\ q # p /\ at'[q] = at[q]
  <2>1. step'[q] = step[q] /\ InSection(q) /\ q # p
    BY <1>1, <1>5 DEF TypeOK, InSection, StartKernel, BeginWork, FinishWork
  <2>2. at[q] # 0
    BY <2>1 DEF Permit, AtEvent, Running
  <2> QED BY <2>1, <2>2 DEF TypeOK, StartKernel, BeginWork, FinishWork
<1>6. ASSUME NEW q \in Processes, InSection(q)'
      PROVE  AtEvent(q)' /\ EventOf(q)' = EventOf(q)
  <2>1. AtEvent(q) /\ at'[q] = at[q]
    BY <1>5, <1>6 DEF Permit
  <2> QED BY <1>4, <2>1 DEF AtEvent, Running, EventOf, Instruction
<1>7. Permit'
  BY <1>4, <1>5, <1>6 DEF Permit
<1>8. RegistersAtomic'
  <2> SUFFICES ASSUME NEW q \in Processes, step'[q] = "loaded"
               PROVE  seen'[q] = reg'[EventOf(q)']
    BY DEF RegistersAtomic
  <2>1. InSection(q)'
    BY DEF InSection
  <2>2. step[q] = "loaded" /\ EventOf(q)' = EventOf(q)
    BY <1>5, <1>6, <2>1
  <2> QED BY <1>4, <2>2 DEF RegistersAtomic
<1> QED BY <1>7, <1>8

LEMMA CrashKeeps ==
    ASSUME EventsInv, NEW p \in Processes, Crash(p)
    PROVE  EventsInv'
<1> USE DEF EventsInv
<1>1. TypeOK'
  <2>1. /\ crashes' \in 0 .. MaxCrashes /\ orphaned' \in 0 .. crashes' + 1
    BY EventsAssumption DEF TypeOK, Crash
  <2>2. 0 \in 0 .. Word - 1
    BY EventsAssumption
  <2> QED BY <2>1, <2>2 DEF TypeOK, Crash
<1>2. OfApp'
  BY DEF TypeOK, OfApp, Crash
<1> SUFFICES ASSUME Intact PROVE (Permit /\ RegistersAtomic)'
  BY <1>1, <1>2 DEF Intact, Crash
<1>3. ASSUME NEW q \in Processes, InSection(q)'
      PROVE  /\ q # p /\ InSection(q) /\ step'[q] = step[q]
             /\ AtEvent(q)' /\ EventOf(q)' = EventOf(q)
  <2>1. q # p /\ InSection(q) /\ step'[q] = step[q] /\ at'[q] = at[q]
    BY <1>3 DEF TypeOK, InSection, Crash
  <2>2. AtEvent(q) /\ app' = app
    BY <2>1 DEF Permit, Crash
  <2> QED BY <2>1, <2>2 DEF AtEvent, Running, EventOf, Instruction
<1>4. Permit'
  <2>1. CASE InSection(p)
    <3>1. \A q \in Processes : ~InSection(q)'
      BY <1>3, <2>1 DEF Permit
    <3>2. sem' = 0 /\ orphaned' = 1
      BY <2>1 DEF Permit, Crash
    <3> QED BY <3>1, <3>2 DEF Permit
  <2>2. CASE ~InSection(p)
    <3>1. sem' = sem /\ orphaned' = orphaned
      BY <2>2 DEF Crash
    <3> QED BY <1>3, <3>1 DEF Permit
  <2> QED BY <2>1, <2>2
<1>5. RegistersAtomic'
  <2> SUFFICES ASSUME NEW q \in Processes, step'[q] = "loaded"
               PROVE  seen'[q] = reg'[EventOf(q)']
    BY DEF RegistersAtomic
  <2>1. InSection(q)' /\ reg' = reg /\ seen' = seen
    BY DEF InSection, Crash
  <2> QED BY <1>3, <2>1 DEF RegistersAtomic
<1> QED BY <1>4, <1>5

\* A post for a process that died gives its permit back; after one for nobody
\* nothing but the types is left to show.
LEMMA RecoverKeeps == ASSUME EventsInv, RecoverSem PROVE EventsInv'
<1> USE DEF EventsInv
<1>1. CASE Intact'
  <2>1. /\ Intact /\ orphaned = 1 /\ sem = 0
        /\ \A q \in Processes : ~InSection(q)
    BY <1>1 DEF TypeOK, Permit, RecoverSem, Intact
  <2>2. TypeOK'
    BY <2>1 DEF TypeOK, RecoverSem
  <2>3. OfApp'
    BY DEF OfApp, RecoverSem
  <2>4. \A q \in Processes : ~InSection(q)'
    BY <2>1 DEF InSection, RecoverSem
  <2>5. Permit'
    BY <2>1, <2>4 DEF Permit, RecoverSem
  <2>6. RegistersAtomic'
    BY <2>4 DEF RegistersAtomic, InSection
  <2> QED BY <2>2, <2>3, <2>5, <2>6
<1>2. CASE ~Intact'
  <2>1. /\ sem' \in Nat /\ orphaned' \in 0 .. crashes' + 1
        /\ spare' \in 0 .. MaxSpare /\ crashes' = crashes
    BY EventsAssumption DEF TypeOK, RecoverSem
  <2>2. TypeOK'
    BY <1>2, <2>1 DEF TypeOK, RecoverSem, Intact
  <2>3. OfApp'
    BY DEF OfApp, RecoverSem
  <2> QED BY <1>2, <2>2, <2>3
<1> QED BY <1>1, <1>2

LEMMA EventsStep == EventsInv /\ [Next]_vars => EventsInv'
<1> SUFFICES ASSUME EventsInv, [Next]_vars PROVE EventsInv'
  OBVIOUS
<1>1. ASSUME NEW p \in Processes, Enter(p) PROVE EventsInv'
  BY <1>1, EnterKeeps
<1>2. ASSUME NEW p \in Processes, Step(p) PROVE EventsInv'
  BY <1>2, LoadKeeps, FinishKeeps, WorkKeeps DEF Step
<1>3. ASSUME NEW p \in Processes, Crash(p) PROVE EventsInv'
  BY <1>3, CrashKeeps
<1>4. CASE RecoverSem
  BY <1>4, RecoverKeeps
<1>5. CASE UNCHANGED vars
  BY <1>5 DEF vars, EventsInv, TypeOK, OfApp, Permit, RegistersAtomic, InSection,
              AtEvent, Running, EventOf, Instruction, Intact
<1> QED BY <1>1, <1>2, <1>3, <1>4, <1>5 DEF Next

\* Once posted too often, the semaphore stays so.
LEMMA SpareStays == ASSUME TypeOK, [Next]_vars, Intact' PROVE Intact
<1>1. spare \in Nat /\ spare' = 0
  BY EventsAssumption DEF TypeOK, Intact
<1>2. spare' = spare \/ spare' = spare + 1
  BY DEF Next, vars, Enter, Step, Load, FinishWrite, FinishRead, FinishRewrite, Store,
         StartKernel, BeginWork, FinishWork, Crash, RecoverSem
<1> QED BY <1>1, <1>2 DEF Intact

\* The types, for every application and every Word.
THEOREM TypeCorrect == Spec => []TypeOK
<1>1. EventsInv => TypeOK
  BY DEF EventsInv
<1> QED BY <1>1, EventsInit, EventsStep, PTL DEF Spec

\* AccessesAtomic (the bodies of write_sync_register and read_sync_register):
\* no access to a register of any number of processes is lost or seen twice, nor
\* after kernels have died and the semaphore was recovered, as long as it was
\* posted for nobody else.
THEOREM RegisterAccessesAtomic == Spec => []AccessesAtomic
<1>1. EventsInv => AccessesAtomic
  BY DEF EventsInv, AccessesAtomic
<1> QED BY <1>1, EventsInit, EventsStep, PTL DEF Spec

-----------------------------------------------------------------------------
(* The animation.  Its kernels hand a baton on: scale has it from its      *)
(* start, then 1 is in the event, copy has it, 2 is in the event, smooth   *)
(* has it, until smooth reports its end.                                   *)

\* Where the client (instruction r of a frame), scale (a), copy (b) and smooth
\* (c) are, the value of the event, the value smooth keeps, and the values of the
\* termination events of scale, copy and smooth.
GifControl(r, a, b, c, sync, kept, scaled, copied, smoothed) ==
    /\ r \in 1 .. 12 /\ a \in 0 .. 3 /\ b \in 0 .. 4 /\ c \in 0 .. 3
    /\ sync \in 0 .. 2 /\ kept \in 0 .. 1
    /\ scaled \in 0 .. 1 /\ copied \in 0 .. 1 /\ smoothed \in 0 .. 1
    \* There is one baton.
    /\ a \in {1, 2} => sync = 0 /\ kept = 0 /\ b \notin {2, 3} /\ c \notin {2, 3}
    /\ sync # 0 => kept = 0 /\ b \notin {2, 3} /\ c \notin {2, 3}
    /\ kept # 0 => b \notin {2, 3} /\ c = 1
    /\ b \in {2, 3} => c \notin {2, 3}
    \* It goes from scale to copy to smooth.
    /\ sync = 2 \/ c \in {2, 3} => b \in {0, 4} /\ r >= 7
    /\ smoothed = 1 => sync = 0 /\ a \notin {1, 2} /\ b \in {0, 4}
    /\ r \notin 6 .. 10 => sync = 0
    \* A kernel runs between its start and the wait for its end.
    /\ a # 0 => r \in 6 .. 8 /\ scaled = 0
    /\ b # 0 => r \in 7 .. 9 /\ copied = 0
    /\ c # 0 => r \in 8 .. 10 /\ smoothed = 0
    /\ scaled = 1 => r \in 6 .. 8
    /\ copied = 1 => r \in 7 .. 9
    /\ smoothed = 1 => r \in 8 .. 10

\* What the areas hold of frame f.
GifPictures(f, r, a, b, c, sync, kept, smoothed, mem) ==
    /\ r >= 2 => mem[<<"B1">>] = <<f>>
    /\ a = 2 \/ sync # 0 \/ kept # 0 \/ b \in {2, 3} \/ c \in {2, 3}
         => mem[<<"B2">>] = <<f, "scale">>
    /\ b = 3 \/ sync = 2 \/ c \in {2, 3} \/ smoothed = 1 \/ r >= 11
         => mem[<<"B3", "edge">>] = <<f, "scale", "copy">>
    /\ c = 3 \/ smoothed = 1 \/ r >= 11
         => mem[<<"B3", "inside">>] = <<f, "scale", "smooth">>

Edge(f) == <<f, "scale", "copy">>
Inside(f) == <<f, "scale", "smooth">>

\* What the client has saved in the first n - 1 frames and in frame n.
GifFiles(n, r, mem) ==
    /\ \A j \in DOMAIN Frames :
         /\ mem[<<Frames[j]>>] = <<Frames[j]>>
         /\ mem[<<Frames[j], "edge">>] \in {<<>>, Edge(Frames[j])}
         /\ mem[<<Frames[j], "inside">>] \in {<<>>, Inside(Frames[j])}
         /\ j < n \/ (j = n /\ r = 12) => mem[<<Frames[j], "edge">>] = Edge(Frames[j])
         /\ j < n => mem[<<Frames[j], "inside">>] = Inside(Frames[j])

\* A process that works has taken what it works on.
GifWork(f, r) ==
    /\ step["scale"] = "working" => at["scale"] = 1 /\ carried["scale"] = <<f>>
    /\ step["copy"] = "working" => at["copy"] = 2 /\ carried["copy"] = <<f, "scale">>
    /\ step["smooth"] = "working" => at["smooth"] = 2 /\ carried["smooth"] = <<f, "scale">>
    /\ step[Host] = "working" =>
         \/ r = 1 /\ carried[Host] = <<f>>
         \/ r = 11 /\ carried[Host] = Edge(f)
         \/ r = 12 /\ carried[Host] = Inside(f)

GifState(n, r) ==
    /\ n \in 1 .. Len(Frames) + 1
    /\ n = Len(Frames) + 1 => r = 1
    /\ at[Host] = 12 * (n - 1) + r
    /\ GifControl(r, at["scale"], at["copy"], at["smooth"], reg["sync"], hand["smooth"],
                  reg["scaled"], reg["copied"], reg["smoothed"])
    /\ GifPictures(Frames[n], r, at["scale"], at["copy"], at["smooth"], reg["sync"],
                   hand["smooth"], reg["smoothed"], area)
    /\ GifFiles(n, r, area)
    /\ GifWork(Frames[n], r)
    /\ hand[Host] = 0 /\ hand["scale"] = 0 /\ hand["copy"] = 0

GifInv == \E n \in 1 .. Len(Frames) + 1, r \in 1 .. 12 : GifState(n, r)

-----------------------------------------------------------------------------
(* The matrix multiplication: 2 in the event, in the hand of the client or *)
(* taken by the kernel, then 1.                                            *)

MatrixControl(h, k, buffer, kept, ended) ==
    /\ h \in 1 .. 7 /\ k \in 0 .. 4
    /\ buffer \in 0 .. 2 /\ kept \in {0, 2} /\ ended \in 0 .. 1
    /\ buffer # 0 => kept = 0 /\ k # 3
    /\ kept # 0 => k # 3 /\ h = 4
    /\ buffer = 1 => k \in {0, 4} /\ h = 4
    /\ k # 0 => h \in 4 .. 6 /\ ended = 0
    /\ ended = 1 => h \in 4 .. 6
    /\ h >= 5 => buffer = 0 /\ kept = 0 /\ k \in {0, 4}

MatrixPictures(h, k, buffer, mem) ==
    /\ mem[<<"A", "B">>] = <<"A", "B">>
    /\ h >= 2 => mem[<<"B1", "B2">>] = <<"A", "B">>
    /\ k \in {2, 3, 4} \/ buffer = 1 \/ h >= 5 => mem[<<"B3">>] = <<"A", "B", "multiply">>
    /\ mem[<<"C">>] \in {<<>>, <<"A", "B", "multiply">>}
    /\ h >= 6 => mem[<<"C">>] = <<"A", "B", "multiply">>

MatrixWork ==
    /\ step["multiply"] = "working" => at["multiply"] = 1 /\ carried["multiply"] = <<"A", "B">>
    /\ step[Host] = "working" =>
         \/ at[Host] = 1 /\ carried[Host] = <<"A", "B">>
         \/ at[Host] = 5 /\ carried[Host] = <<"A", "B", "multiply">>

MatrixInv ==
    /\ MatrixControl(at[Host], at["multiply"], reg["buffer"], hand[Host], reg["ended"])
    /\ MatrixPictures(at[Host], at["multiply"], reg["buffer"], area)
    /\ MatrixWork
    /\ hand["multiply"] = 0

ProgramsInv ==
    /\ app = Gif => GifInv
    /\ app = Matrix => MatrixInv

-----------------------------------------------------------------------------
(* Lemmas for both applications.                                           *)

\* The registers seen by whole accesses: what a process has loaded is still there
\* when it stores.
LEMMA WriteIsAtomic ==
    ASSUME SoundInv, NEW p \in Processes, FinishWrite(p)
    PROVE  /\ reg' = [reg EXCEPT ![EventOf(p)] =
                        AfterWrite(EventOf(p), reg[EventOf(p)], Instruction(p).value)]
           /\ at' = [at EXCEPT ![p] = Advanced(p)]
           /\ hand' = hand
  BY DEF SoundInv, EventsInv, RegistersAtomic, FinishWrite, IsAt, Store

LEMMA ReadIsAtomic ==
    ASSUME SoundInv, NEW p \in Processes, FinishRead(p)
    PROVE  /\ hand[p] = 0
           /\ reg' = [reg EXCEPT ![EventOf(p)] = 0]
           /\ \/ /\ reg[EventOf(p)] = Instruction(p).value
                 /\ at' = [at EXCEPT ![p] = Advanced(p)]
                 /\ hand' = hand
              \/ /\ reg[EventOf(p)] # Instruction(p).value
                 /\ hand' = [hand EXCEPT ![p] = reg[EventOf(p)]]
                 /\ at' = at
  BY DEF SoundInv, EventsInv, RegistersAtomic, FinishRead, IsAt, Store

LEMMA RewriteIsAtomic ==
    ASSUME SoundInv, NEW p \in Processes, FinishRewrite(p)
    PROVE  /\ hand[p] # 0
           /\ reg' = [reg EXCEPT ![EventOf(p)] =
                        AfterWrite(EventOf(p), reg[EventOf(p)], hand[p])]
           /\ hand' = [hand EXCEPT ![p] = 0]
           /\ at' = at
  BY DEF SoundInv, EventsInv, RegistersAtomic, FinishRewrite, IsAt, Store

\* A write to an empty register leaves the value written, one of 0 the register.
LEMMA EmptyWritten ==
    ASSUME NEW e, NEW v \in 0 .. 2, app.index[e] % 8 # 0
    PROVE  AfterWrite(e, 0, v) = v
<1>1. Word \in Nat /\ Word > 2
  BY EventsAssumption
<1>2. (0 + v) % Word = v
  BY <1>1
<1> QED BY <1>2 DEF AfterWrite

LEMMA ZeroWritten ==
    ASSUME NEW e, NEW old \in 0 .. Word - 1, app.index[e] % 8 # 0
    PROVE  AfterWrite(e, old, 0) = old
<1>1. Word \in Nat /\ Word > 2
  BY EventsAssumption
<1>2. (old + 0) % Word = old
  BY <1>1
<1> QED BY <1>2 DEF AfterWrite

\* What a sequence is when more is made of it.
LEMMA Appended ==
    ASSUME NEW S, NEW x \in S, NEW y \in S, NEW z \in S
    PROVE  <<x>> \o <<y>> = <<x, y>> /\ <<x, y>> \o <<z>> = <<x, y, z>>
<1>1. <<x>> \in Seq(S) /\ <<y>> \in Seq(S) /\ <<z>> \in Seq(S)
  OBVIOUS
<1>2. /\ <<x, y>> \in Seq(S) /\ Len(<<x, y>>) = 2
      /\ <<x, y>>[1] = x /\ <<x, y>>[2] = y
  OBVIOUS
<1>3. /\ <<x, y, z>> \in Seq(S) /\ Len(<<x, y, z>>) = 3
      /\ <<x, y, z>>[1] = x /\ <<x, y, z>>[2] = y /\ <<x, y, z>>[3] = z
  OBVIOUS
<1>4. <<x>> \o <<y>> = <<x, y>>
  <2> DEFINE s == <<x>> \o <<y>>
             t == <<x, y>>
  <2>1. s \in Seq(S) /\ Len(s) = 2 /\ s[1] = x /\ s[2] = y
    BY <1>1
  <2>2. t \in Seq(S) /\ Len(t) = 2 /\ t[1] = x /\ t[2] = y
    BY <1>2
  <2> HIDE DEF s, t
  <2>3. s = t
    BY <2>1, <2>2
  <2> QED BY <2>3 DEF s, t
<1>5. <<x, y>> \o <<z>> = <<x, y, z>>
  <2>1. ASSUME NEW p \in Seq(S), NEW u \in Seq(S), NEW t \in Seq(S),
               Len(p) = 2, Len(u) = 1, Len(t) = 3,
               t[1] = p[1], t[2] = p[2], t[3] = u[1]
        PROVE  p \o u = t
    <3>1. p \o u \in Seq(S)
      OBVIOUS
    <3>2. Len(p \o u) = Len(p) + Len(u)
      OBVIOUS
    <3>3. \A i \in 1 .. Len(p) + Len(u) :
            (p \o u)[i] = IF i <= Len(p) THEN p[i] ELSE u[i - Len(p)]
      BY ConcatProperties
    <3>4. (p \o u)[1] = p[1] /\ (p \o u)[2] = p[2] /\ (p \o u)[3] = u[1]
      <4> DEFINE q == p \o u
                 m == Len(p)
                 k == Len(u)
      <4>1. m = 2 /\ k = 1 /\ \A i \in 1 .. m + k : q[i] = IF i <= m THEN p[i] ELSE u[i - m]
        BY <2>1, <3>3
      <4> HIDE DEF q, m, k
      <4>2. q[1] = p[1] /\ q[2] = p[2] /\ q[3] = u[1]
        BY <4>1
      <4> QED BY <4>2 DEF q
    <3>5. Len(p \o u) = 3
      BY <2>1, <3>2
    <3>6. \A i \in 1 .. 3 : i = 1 \/ i = 2 \/ i = 3
      OBVIOUS
    <3> QED BY <2>1, <3>1, <3>4, <3>5, <3>6, SeqEqual
  <2>2. Len(<<z>>) = 1 /\ <<z>>[1] = z
    OBVIOUS
  <2> QED BY <1>1, <1>2, <1>3, <2>1, <2>2
<1> QED BY <1>4, <1>5

LEMMA NothingAppended ==
    ASSUME NEW S, NEW s \in Seq(S)
    PROVE  s \o <<>> = s
  OBVIOUS

\* A step of an access but its last changes nothing that the invariants below
\* speak of; nor does recover_sem.
Quiet ==
    /\ UNCHANGED <<app, reg, at, hand, area, carried>>
    /\ \A p \in Processes : step'[p] = "working" => step[p] = "working"

LEMMA QuietSteps ==
    ASSUME SoundInv,
           \/ \E p \in Processes : Enter(p) \/ Load(p)
           \/ RecoverSem
           \/ UNCHANGED vars
    PROVE  Quiet
<1>1. step \in [Processes -> {"ready", "entered", "loaded", "working"}]
  BY DEF SoundInv, EventsInv, TypeOK
<1>2. ASSUME NEW p \in Processes, Enter(p) PROVE Quiet
  BY <1>1, <1>2 DEF Enter, Quiet
<1>3. ASSUME NEW p \in Processes, Load(p) PROVE Quiet
  BY <1>1, <1>3 DEF Load, Quiet
<1>4. CASE RecoverSem
  BY <1>4 DEF RecoverSem, Quiet
<1>5. CASE UNCHANGED vars
  BY <1>5 DEF vars, Quiet
<1> QED BY <1>2, <1>3, <1>4, <1>5

-----------------------------------------------------------------------------
(* The programs of the animation.                                          *)

LEMMA GifApp ==
    ASSUME app = Gif
    PROVE  /\ DOMAIN app.program = {Host, "scale", "copy", "smooth"}
           /\ app.program[Host] = GifHost
           /\ app.program["scale"] = ScaleKernel
           /\ app.program["copy"] = CopyKernel
           /\ app.program["smooth"] = SmoothKernel
           /\ app.word = [e \in GifEvents |-> 0]
           /\ \A e \in GifEvents : app.index[e] % 8 # 0
           /\ app.area = [b \in GifBuffers \cup FrameSet \cup Saved |->
                            IF b \in FrameSet THEN b ELSE <<>>]
           /\ app.result = [s \in Saved |->
                 IF s[2] = "edge" THEN <<s[1], "scale", "copy">>
                                  ELSE <<s[1], "scale", "smooth">>]
<1>1. Host \notin {"scale", "copy", "smooth"}
  BY ProgramsAssumption
<1>2. /\ app.program = [p \in {Host, "scale", "copy", "smooth"} |->
                    CASE p = Host     -> GifHost
                      [] p = "scale"  -> ScaleKernel
                      [] p = "copy"   -> CopyKernel
                      [] p = "smooth" -> SmoothKernel]
      /\ app.index = [e \in GifEvents |-> CASE e = "sync" -> 1 [] e = "scaled" -> 3
                                        [] e = "smoothed" -> 5 [] e = "copied" -> 7]
  BY DEF Gif
<1>3. /\ DOMAIN app.program = {Host, "scale", "copy", "smooth"}
      /\ app.program[Host] = GifHost
      /\ app.program["scale"] = ScaleKernel
      /\ app.program["copy"] = CopyKernel
      /\ app.program["smooth"] = SmoothKernel
  <2> HIDE DEF GifHost, ScaleKernel, CopyKernel, SmoothKernel
  <2> QED BY <1>1, <1>2
<1>4. \A e \in GifEvents : app.index[e] % 8 # 0
  BY <1>2 DEF GifEvents
<1>5. /\ app.word = [e \in GifEvents |-> 0]
      /\ app.area = [b \in GifBuffers \cup FrameSet \cup Saved |->
                       IF b \in FrameSet THEN b ELSE <<>>]
      /\ app.result = [s \in Saved |->
            IF s[2] = "edge" THEN <<s[1], "scale", "copy">>
                             ELSE <<s[1], "scale", "smooth">>]
  BY DEF Gif
<1> QED BY <1>3, <1>4, <1>5

LEMMA GifProcesses ==
    ASSUME app \in Apps, app = Gif
    PROVE  /\ {Host, "scale", "copy", "smooth"} \subseteq Processes
           /\ Host \notin {"scale", "copy", "smooth"}
<1>1. DOMAIN app.program \subseteq Processes
  BY DEF Processes
<1> QED BY <1>1, GifApp, ProgramsAssumption

\* What each kernel does where it is.
LEMMA ScaleAt ==
    ASSUME app = Gif, at["scale"] \in 0 .. 3
    PROVE  /\ Running("scale") <=> at["scale"] # 0
           /\ at["scale"] = 1 =>
                Instruction("scale") = Work(<<"B1">>, {<<"B2">>}, <<"scale">>)
           /\ at["scale"] = 2 => Instruction("scale") = Write("sync", 1)
           /\ at["scale"] = 3 => Instruction("scale") = Write("scaled", 1)
           /\ Advanced("scale") = IF at["scale"] = 3 THEN 0 ELSE at["scale"] + 1
<1>1. app.program["scale"] = ScaleKernel /\ "scale" # Host
  BY GifApp, ProgramsAssumption
<1>2. /\ Len(ScaleKernel) = 3
      /\ ScaleKernel[1] = Work(<<"B1">>, {<<"B2">>}, <<"scale">>)
      /\ ScaleKernel[2] = Write("sync", 1)
      /\ ScaleKernel[3] = Write("scaled", 1)
  BY DEF ScaleKernel
<1> QED BY <1>1, <1>2 DEF Running, Instruction, Advanced

LEMMA CopyAt ==
    ASSUME app = Gif, at["copy"] \in 0 .. 4
    PROVE  /\ Running("copy") <=> at["copy"] # 0
           /\ at["copy"] = 1 => Instruction("copy") = Wait("sync", 1)
           /\ at["copy"] = 2 =>
                Instruction("copy") =
                  Work(<<"B2">>, {<<"B3", "edge">>, <<"B3", "inside">>}, <<"copy">>)
           /\ at["copy"] = 3 => Instruction("copy") = Write("sync", 2)
           /\ at["copy"] = 4 => Instruction("copy") = Write("copied", 1)
           /\ Advanced("copy") = IF at["copy"] = 4 THEN 0 ELSE at["copy"] + 1
<1>1. app.program["copy"] = CopyKernel /\ "copy" # Host
  BY GifApp, ProgramsAssumption
<1>2. /\ Len(CopyKernel) = 4
      /\ CopyKernel[1] = Wait("sync", 1)
      /\ CopyKernel[2] =
           Work(<<"B2">>, {<<"B3", "edge">>, <<"B3", "inside">>}, <<"copy">>)
      /\ CopyKernel[3] = Write("sync", 2)
      /\ CopyKernel[4] = Write("copied", 1)
  BY DEF CopyKernel
<1> QED BY <1>1, <1>2 DEF Running, Instruction, Advanced

LEMMA SmoothAt ==
    ASSUME app = Gif, at["smooth"] \in 0 .. 3
    PROVE  /\ Running("smooth") <=> at["smooth"] # 0
           /\ at["smooth"] = 1 => Instruction("smooth") = Wait("sync", 2)
           /\ at["smooth"] = 2 =>
                Instruction("smooth") = Work(<<"B2">>, {<<"B3", "inside">>}, <<"smooth">>)
           /\ at["smooth"] = 3 => Instruction("smooth") = Write("smoothed", 1)
           /\ Advanced("smooth") = IF at["smooth"] = 3 THEN 0 ELSE at["smooth"] + 1
<1>1. app.program["smooth"] = SmoothKernel /\ "smooth" # Host
  BY GifApp, ProgramsAssumption
<1>2. /\ Len(SmoothKernel) = 3
      /\ SmoothKernel[1] = Wait("sync", 2)
      /\ SmoothKernel[2] = Work(<<"B2">>, {<<"B3", "inside">>}, <<"smooth">>)
      /\ SmoothKernel[3] = Write("smoothed", 1)
  BY DEF SmoothKernel
<1> QED BY <1>1, <1>2 DEF Running, Instruction, Advanced

\* The client is at instruction r of frame n.
LEMMA FrameInstructions ==
    ASSUME NEW f
    PROVE  /\ Len(GifFrame(f)) = 12
           /\ GifFrame(f)[1] = Work(<<f>>, {<<"B1">>}, <<>>)
           /\ GifFrame(f)[2] = Write("scaled", 0)
           /\ GifFrame(f)[3] = Write("copied", 0)
           /\ GifFrame(f)[4] = Write("smoothed", 0)
           /\ GifFrame(f)[5] = Start("scale")
           /\ GifFrame(f)[6] = Start("copy")
           /\ GifFrame(f)[7] = Start("smooth")
           /\ GifFrame(f)[8] = Wait("scaled", 1)
           /\ GifFrame(f)[9] = Wait("copied", 1)
           /\ GifFrame(f)[10] = Wait("smoothed", 1)
           /\ GifFrame(f)[11] = Work(<<"B3", "edge">>, {<<f, "edge">>}, <<>>)
           /\ GifFrame(f)[12] = Work(<<"B3", "inside">>, {<<f, "inside">>}, <<>>)
  BY DEF GifFrame, WriteToMemory, ReadFromMemory

LEMMA HostAt ==
    ASSUME app = Gif, NEW n \in 1 .. Len(Frames) + 1, NEW r \in 1 .. 12,
           n = Len(Frames) + 1 => r = 1,
           at[Host] = 12 * (n - 1) + r
    PROVE  /\ Running(Host) <=> n <= Len(Frames)
           /\ n <= Len(Frames) => Instruction(Host) = GifFrame(Frames[n])[r]
           /\ Advanced(Host) = at[Host] + 1
<1>1. Len(Frames) \in Nat
  BY ProgramsAssumption
<1>2. FrameLength = 12
  BY FrameInstructions DEF FrameLength
<1>3. GifHost = [i \in 1 .. 12 * Len(Frames) |->
                   GifFrame(Frames[1 + ((i - 1) \div 12)])[1 + ((i - 1) % 12)]]
  BY <1>2 DEF GifHost
<1>4. app.program[Host] = GifHost
  BY GifApp
<1>5. Len(GifHost) = 12 * Len(Frames)
  BY <1>1, <1>3
<1>6. Running(Host) <=> n <= Len(Frames)
  <2>1. at[Host] # 0
    BY <1>1
  <2>2. 12 * (n - 1) + r <= 12 * Len(Frames) <=> n <= Len(Frames)
    BY <1>1
  <2> QED BY <1>4, <1>5, <2>1, <2>2 DEF Running
<1>7. ASSUME n <= Len(Frames) PROVE Instruction(Host) = GifFrame(Frames[n])[r]
  <2> DEFINE i == 12 * (n - 1) + r
  <2>1. i \in 1 .. 12 * Len(Frames)
    BY <1>1, <1>7
  <2>2. 1 + ((i - 1) \div 12) = n /\ 1 + ((i - 1) % 12) = r
    BY <1>1
  <2> HIDE DEF i
  <2>3. GifHost[i] = GifFrame(Frames[n])[r]
    BY <1>3, <2>1, <2>2
  <2> QED BY <1>4, <2>3 DEF Instruction, i
<1> QED BY <1>6, <1>7 DEF Advanced

-----------------------------------------------------------------------------
(* Steps of the animation.                                                 *)

\* The areas of the buffers and of the files are different ones.
LEMMA AreaNames ==
    /\ GifBuffers \cap (FrameSet \cup Saved) = {}
    /\ FrameSet \cap Saved = {}
    /\ \A j \in DOMAIN Frames :
         /\ <<Frames[j]>> \in FrameSet
         /\ <<Frames[j], "edge">> \in Saved /\ <<Frames[j], "inside">> \in Saved
<1>1. \A j \in DOMAIN Frames : Frames[j] \notin {"B1", "B2", "B3"}
  BY ProgramsAssumption
<1> QED BY <1>1 DEF GifBuffers, FrameSet, Saved

LEMMA FilesKept ==
    ASSUME NEW n, NEW r, GifFiles(n, r, area),
           \A b \in FrameSet \cup Saved : area'[b] = area[b]
    PROVE  GifFiles(n, r, area')
  BY AreaNames DEF GifFiles

\* A work instruction in two steps.
Begun(p, from) ==
    /\ UNCHANGED <<app, reg, at, hand, area>>
    /\ carried' = [carried EXCEPT ![p] = area[from]]
    /\ step' = [step EXCEPT ![p] = "working"]

Ended(p, into, made) ==
    /\ UNCHANGED <<app, reg, hand>>
    /\ area' = [b \in DOMAIN area |-> IF b \in into THEN made ELSE area[b]]
    /\ carried' = [carried EXCEPT ![p] = <<>>]
    /\ at' = [at EXCEPT ![p] = Advanced(p)]
    /\ step' = [step EXCEPT ![p] = "ready"]

LEMMA WorkBegun ==
    ASSUME NEW p, NEW from, NEW into, NEW by, Instruction(p) = Work(from, into, by),
           BeginWork(p)
    PROVE  Begun(p, from)
<1>1. Instruction(p).from = from
  BY DEF Work
<1> QED BY <1>1 DEF BeginWork, Begun

LEMMA WorkEnded ==
    ASSUME NEW p, NEW from, NEW into, NEW by, Instruction(p) = Work(from, into, by),
           FinishWork(p), NEW made, carried[p] \o by = made
    PROVE  Ended(p, into, made)
<1>1. Instruction(p).into = into /\ Instruction(p).by = by
  BY DEF Work
<1>2. area' = [b \in DOMAIN area |-> IF b \in into THEN made ELSE area[b]]
  BY <1>1 DEF FinishWork
<1> QED BY <1>2 DEF FinishWork, IsAt, Ended

LEMMA TuplesAppended ==
    /\ \A x, y : <<x>> \o <<y>> = <<x, y>>
    /\ \A x, y, z : <<x, y>> \o <<z>> = <<x, y, z>>
<1> SUFFICES ASSUME NEW x, NEW y, NEW z
             PROVE  <<x>> \o <<y>> = <<x, y>> /\ <<x, y>> \o <<z>> = <<x, y, z>>
  OBVIOUS
<1> DEFINE S == {x, y, z}
<1>1. x \in S /\ y \in S /\ z \in S
  OBVIOUS
<1> HIDE DEF S
<1> QED BY <1>1, Appended

LEMMA BufferNames ==
    /\ <<"B1">> # <<"B2">>
    /\ \A part \in {"edge", "inside"} : <<"B1">> # <<"B3", part>> /\ <<"B2">> # <<"B3", part>>
    /\ <<"B3", "edge">> # <<"B3", "inside">>
  OBVIOUS

\* Values of an event are not added up.
KeptApart == \A e \in DOMAIN reg : reg[e] # 0 => reg'[e] \in {0, reg[e]}

\* The types of a state of the animation.
GifTyped ==
    /\ {Host, "scale", "copy", "smooth"} \subseteq Processes
    /\ Host \notin {"scale", "copy", "smooth"}
    /\ at \in [Processes -> Nat]
    /\ step \in [Processes -> {"ready", "entered", "loaded", "working"}]
    /\ hand \in [Processes -> 0 .. Word - 1]
    /\ carried \in [Processes -> Seq(STRING)]
    /\ reg \in [{"sync", "scaled", "copied", "smoothed"} -> 0 .. Word - 1]
    /\ area \in [GifBuffers \cup FrameSet \cup Saved -> Seq(STRING)]
    /\ Word \in Nat /\ Word > 2

LEMMA GifTypes ==
    ASSUME SoundInv, app = Gif
    PROVE  GifTyped
<1>1. app \in Apps /\ TypeOK
  BY DEF SoundInv, EventsInv, TypeOK
<1>2. DOMAIN app.word = {"sync", "scaled", "copied", "smoothed"}
      /\ DOMAIN app.area = GifBuffers \cup FrameSet \cup Saved
  BY GifApp DEF GifEvents
<1> QED BY <1>1, <1>2, GifProcesses, EventsAssumption DEF GifTyped, TypeOK

LEMMA GifQuiet ==
    ASSUME SoundInv, app = Gif, NEW n \in Nat, NEW r \in 1 .. 12, GifState(n, r), Quiet
    PROVE  GifState(n, r)' /\ KeptApart
<1>1. GifTyped
  BY GifTypes
<1>2. GifWork(Frames[n], r)'
  BY <1>1 DEF GifState, GifWork, Quiet, GifTyped
<1> QED BY <1>2 DEF GifState, Quiet, KeptApart

LEMMA ScaleWorks ==
    ASSUME SoundInv, app = Gif, NEW n \in Nat, NEW r \in 1 .. 12, GifState(n, r),
           BeginWork("scale") \/ FinishWork("scale")
    PROVE  GifState(n, r)' /\ KeptApart
<1>1. GifTyped
  BY GifTypes
<1> DEFINE a == at["scale"]
<1>2. a \in 0 .. 3
  BY DEF GifState, GifControl
<1>3. /\ Running("scale") /\ Instruction("scale").op = "work"
  BY DEF BeginWork, FinishWork, IsAt
<1>4. /\ a = 1 /\ Advanced("scale") = 2
      /\ Instruction("scale") = Work(<<"B1">>, {<<"B2">>}, <<"scale">>)
  BY <1>2, <1>3, ScaleAt DEF Work, Write
<1>5. r \in 6 .. 8 /\ area[<<"B1">>] = <<Frames[n]>>
  BY <1>4 DEF GifState, GifControl, GifPictures
<1>6. CASE BeginWork("scale")
  <2>1. Begun("scale", <<"B1">>)
    BY <1>4, <1>6, WorkBegun
  <2>2. GifWork(Frames[n], r)'
    BY <1>1, <1>4, <1>5, <2>1 DEF Begun, GifState, GifWork, GifTyped
  <2> QED BY <2>1, <2>2 DEF Begun, GifState, KeptApart
<1>7. CASE FinishWork("scale")
  <2>1. carried["scale"] = <<Frames[n]>>
    BY <1>7 DEF FinishWork, IsAt, GifState, GifWork
  <2>2. Frames[n] \in STRING /\ n \in DOMAIN Frames
    BY <1>5, ProgramsAssumption DEF GifState
  <2>3. carried["scale"] \o <<"scale">> = <<Frames[n], "scale">>
    <3>1. <<Frames[n]>> \o <<"scale">> = <<Frames[n], "scale">>
      BY TuplesAppended, Zenon
    <3> QED BY <2>1, <3>1, Zenon
  <2>4. Ended("scale", {<<"B2">>}, <<Frames[n], "scale">>)
    BY <1>4, <1>7, <2>3, WorkEnded
  <2>5. GifWork(Frames[n], r)'
    BY <1>1, <1>4, <2>4 DEF Ended, GifState, GifWork, GifTyped
  <2>6. GifFiles(n, r, area)'
    BY <1>1, <1>4, <2>4, AreaNames, FilesKept DEF Ended, GifState, GifTyped, GifBuffers
  <2>7. GifPictures(Frames[n], r, at["scale"], at["copy"], at["smooth"], reg["sync"],
                   hand["smooth"], reg["smoothed"], area)'
    BY <1>1, <1>4, <2>4, BufferNames DEF Ended, GifState, GifPictures, GifTyped, GifControl, GifBuffers
  <2>8. GifControl(r, at["scale"], at["copy"], at["smooth"], reg["sync"], hand["smooth"],
                  reg["scaled"], reg["copied"], reg["smoothed"])'
    BY <1>1, <1>4, <2>4 DEF Ended, GifState, GifTyped, GifControl
  <2>9. at'[Host] = at[Host]
    BY <1>1, <1>4, <2>4 DEF Ended, GifTyped
  <2> QED BY <2>4, <2>5, <2>6, <2>7, <2>8, <2>9 DEF Ended, GifState, KeptApart
<1> QED BY <1>6, <1>7

LEMMA CopyWorks ==
    ASSUME SoundInv, app = Gif, NEW n \in Nat, NEW r \in 1 .. 12, GifState(n, r),
           BeginWork("copy") \/ FinishWork("copy")
    PROVE  GifState(n, r)' /\ KeptApart
<1>1. GifTyped
  BY GifTypes
<1> DEFINE b == at["copy"]
<1>2. b \in 0 .. 4
  BY DEF GifState, GifControl
<1>3. Running("copy") /\ Instruction("copy").op = "work"
  BY DEF BeginWork, FinishWork, IsAt
<1> DEFINE into == {<<"B3", "edge">>, <<"B3", "inside">>}
<1>4. /\ b = 2 /\ Advanced("copy") = 3
      /\ Instruction("copy") = Work(<<"B2">>, into, <<"copy">>)
  BY <1>2, <1>3, CopyAt DEF Wait, Write
<1>5. r \in 7 .. 9 /\ area[<<"B2">>] = <<Frames[n], "scale">>
  BY <1>4 DEF GifState, GifControl, GifPictures
<1>6. CASE BeginWork("copy")
  <2>1. Begun("copy", <<"B2">>)
    BY <1>4, <1>6, WorkBegun
  <2>2. GifWork(Frames[n], r)'
    BY <1>1, <1>4, <1>5, <2>1 DEF Begun, GifState, GifWork, GifTyped
  <2> QED BY <2>1, <2>2 DEF Begun, GifState, KeptApart
<1>7. CASE FinishWork("copy")
  <2>1. carried["copy"] = <<Frames[n], "scale">>
    BY <1>7 DEF FinishWork, IsAt, GifState, GifWork
  <2>2. carried["copy"] \o <<"copy">> = <<Frames[n], "scale", "copy">>
    <3>1. <<Frames[n], "scale">> \o <<"copy">> = <<Frames[n], "scale", "copy">>
      BY TuplesAppended, Zenon
    <3> QED BY <2>1, <3>1, Zenon
  <2>3. Ended("copy", into, <<Frames[n], "scale", "copy">>)
    BY <1>4, <1>7, <2>2, WorkEnded
  <2>4. GifWork(Frames[n], r)'
    BY <1>1, <1>4, <2>3 DEF Ended, GifState, GifWork, GifTyped
  <2>5. GifFiles(n, r, area)'
    BY <1>1, <2>3, AreaNames, FilesKept DEF Ended, GifState, GifTyped, GifBuffers
  <2>6. GifPictures(Frames[n], r, at["scale"], at["copy"], at["smooth"], reg["sync"],
                   hand["smooth"], reg["smoothed"], area)'
    <3> DEFINE made == <<Frames[n], "scale", "copy">>
    <3>1. /\ area'[<<"B1">>] = area[<<"B1">>] /\ area'[<<"B2">>] = area[<<"B2">>]
          /\ area'[<<"B3", "edge">>] = made /\ area'[<<"B3", "inside">>] = made
      BY <1>1, <2>3, BufferNames DEF Ended, GifTyped, GifBuffers
    <3>2. /\ UNCHANGED <<reg, hand>> /\ at'["copy"] = 3
          /\ at'["scale"] = at["scale"] /\ at'["smooth"] = at["smooth"]
      BY <1>1, <1>4, <2>3 DEF Ended, GifTyped
    <3>3. at["smooth"] \notin {2, 3} /\ reg["smoothed"] # 1 /\ r < 11
      BY <1>4, <1>5 DEF GifState, GifControl
    <3> HIDE DEF made
    <3>4. made = <<Frames[n], "scale", "copy">>
      BY DEF made
    <3> QED BY <1>5, <3>1, <3>2, <3>3, <3>4 DEF GifState, GifPictures
  <2>7. GifControl(r, at["scale"], at["copy"], at["smooth"], reg["sync"], hand["smooth"],
                  reg["scaled"], reg["copied"], reg["smoothed"])'
    BY <1>1, <1>4, <2>3 DEF Ended, GifState, GifTyped, GifControl
  <2>8. at'[Host] = at[Host]
    BY <1>1, <2>3 DEF Ended, GifTyped
  <2> QED BY <2>3, <2>4, <2>5, <2>6, <2>7, <2>8 DEF Ended, GifState, KeptApart
<1> QED BY <1>6, <1>7

LEMMA SmoothWorks ==
    ASSUME SoundInv, app = Gif, NEW n \in Nat, NEW r \in 1 .. 12, GifState(n, r),
           BeginWork("smooth") \/ FinishWork("smooth")
    PROVE  GifState(n, r)' /\ KeptApart
<1>1. GifTyped
  BY GifTypes
<1> DEFINE c == at["smooth"]
<1>2. c \in 0 .. 3
  BY DEF GifState, GifControl
<1>3. Running("smooth") /\ Instruction("smooth").op = "work"
  BY DEF BeginWork, FinishWork, IsAt
<1>4. /\ c = 2 /\ Advanced("smooth") = 3
      /\ Instruction("smooth") = Work(<<"B2">>, {<<"B3", "inside">>}, <<"smooth">>)
  BY <1>2, <1>3, SmoothAt DEF Wait, Write
<1>5. r \in 8 .. 10 /\ area[<<"B2">>] = <<Frames[n], "scale">>
  BY <1>4 DEF GifState, GifControl, GifPictures
<1>6. CASE BeginWork("smooth")
  <2>1. Begun("smooth", <<"B2">>)
    BY <1>4, <1>6, WorkBegun
  <2>2. GifWork(Frames[n], r)'
    BY <1>1, <1>4, <1>5, <2>1 DEF Begun, GifState, GifWork, GifTyped
  <2> QED BY <2>1, <2>2 DEF Begun, GifState, KeptApart
<1>7. CASE FinishWork("smooth")
  <2>1. carried["smooth"] = <<Frames[n], "scale">>
    BY <1>7 DEF FinishWork, IsAt, GifState, GifWork
  <2>2. carried["smooth"] \o <<"smooth">> = <<Frames[n], "scale", "smooth">>
    <3>1. <<Frames[n], "scale">> \o <<"smooth">> = <<Frames[n], "scale", "smooth">>
      BY TuplesAppended, Zenon
    <3> QED BY <2>1, <3>1, Zenon
  <2>3. Ended("smooth", {<<"B3", "inside">>}, <<Frames[n], "scale", "smooth">>)
    BY <1>4, <1>7, <2>2, WorkEnded
  <2>4. GifWork(Frames[n], r)'
    BY <1>1, <1>4, <2>3 DEF Ended, GifState, GifWork, GifTyped
  <2>5. GifFiles(n, r, area)'
    BY <1>1, <2>3, AreaNames, FilesKept DEF Ended, GifState, GifTyped, GifBuffers
  <2>6. GifPictures(Frames[n], r, at["scale"], at["copy"], at["smooth"], reg["sync"],
                   hand["smooth"], reg["smoothed"], area)'
    BY <1>1, <1>4, <1>5, <2>3, BufferNames
       DEF Ended, GifState, GifPictures, GifTyped, GifControl, GifBuffers
  <2>7. GifControl(r, at["scale"], at["copy"], at["smooth"], reg["sync"], hand["smooth"],
                  reg["scaled"], reg["copied"], reg["smoothed"])'
    BY <1>1, <1>4, <2>3 DEF Ended, GifState, GifTyped, GifControl
  <2>8. at'[Host] = at[Host]
    BY <1>1, <2>3 DEF Ended, GifTyped
  <2> QED BY <2>3, <2>4, <2>5, <2>6, <2>7, <2>8 DEF Ended, GifState, KeptApart
<1> QED BY <1>6, <1>7

\* Whole accesses to the register of an event.
Wrote(p, e, v) ==
    /\ UNCHANGED <<app, hand, area, carried>>
    /\ reg' = [reg EXCEPT ![e] = v]
    /\ at' = [at EXCEPT ![p] = Advanced(p)]
    /\ step' = [step EXCEPT ![p] = "ready"]

Took(p, e) ==
    /\ UNCHANGED <<app, hand, area, carried>>
    /\ reg' = [reg EXCEPT ![e] = 0]
    /\ at' = [at EXCEPT ![p] = Advanced(p)]
    /\ step' = [step EXCEPT ![p] = "ready"]

Kept(p, e) ==
    /\ UNCHANGED <<app, at, area, carried>>
    /\ hand[p] = 0
    /\ reg' = [reg EXCEPT ![e] = 0]
    /\ hand' = [hand EXCEPT ![p] = reg[e]]
    /\ step' = [step EXCEPT ![p] = "ready"]

PutBack(p, e) ==
    /\ UNCHANGED <<app, at, area, carried>>
    /\ reg' = [reg EXCEPT ![e] = hand[p]]
    /\ hand' = [hand EXCEPT ![p] = 0]
    /\ step' = [step EXCEPT ![p] = "ready"]

LEMMA ValueWritten ==
    ASSUME SoundInv, NEW p \in Processes, FinishWrite(p),
           NEW e \in DOMAIN reg, NEW v \in 0 .. 2, Instruction(p) = Write(e, v),
           app.index[e] % 8 # 0, reg[e] = 0
    PROVE  Wrote(p, e, v)
<1>1. EventOf(p) = e /\ Instruction(p).value = v
  BY DEF Write, EventOf
<1>2. AfterWrite(e, 0, v) = v
  BY EmptyWritten
<1> QED BY <1>1, <1>2, WriteIsAtomic DEF FinishWrite, Store, Wrote

LEMMA NothingWritten ==
    ASSUME SoundInv, NEW p \in Processes, FinishWrite(p),
           NEW e \in DOMAIN reg, Instruction(p) = Write(e, 0),
           app.index[e] % 8 # 0, reg[e] \in 0 .. Word - 1
    PROVE  Wrote(p, e, reg[e])
<1>1. EventOf(p) = e /\ Instruction(p).value = 0
  BY DEF Write, EventOf
<1>2. AfterWrite(e, reg[e], 0) = reg[e]
  BY ZeroWritten
<1> QED BY <1>1, <1>2, WriteIsAtomic DEF FinishWrite, Store, Wrote

LEMMA ValueRead ==
    ASSUME SoundInv, NEW p \in Processes, FinishRead(p),
           NEW e \in DOMAIN reg, NEW v, Instruction(p) = Wait(e, v)
    PROVE  \/ reg[e] = v /\ Took(p, e)
           \/ reg[e] # v /\ Kept(p, e)
<1>1. EventOf(p) = e /\ Instruction(p).value = v
  BY DEF Wait, EventOf
<1> QED BY <1>1, ReadIsAtomic DEF FinishRead, Store, Took, Kept

LEMMA ValueRewritten ==
    ASSUME SoundInv, NEW p \in Processes, FinishRewrite(p),
           NEW e \in DOMAIN reg, NEW v, Instruction(p) = Wait(e, v),
           app.index[e] % 8 # 0, hand[p] \in 0 .. 2, reg[e] = 0
    PROVE  hand[p] # 0 /\ PutBack(p, e)
<1>1. EventOf(p) = e
  BY DEF Wait, EventOf
<1>2. AfterWrite(e, 0, hand[p]) = hand[p]
  BY EmptyWritten
<1> QED BY <1>1, <1>2, RewriteIsAtomic DEF FinishRewrite, Store, PutBack

\* A state is the next one when the pictures, the files and the client have not
\* changed, nor any work in progress.
LEMMA GifUnworked ==
    ASSUME GifTyped, GifTyped', NEW n \in Nat, NEW r \in 1 .. 12, GifState(n, r),
           UNCHANGED <<area, carried>>,
           NEW p \in {"scale", "copy", "smooth"}, step[p] # "working",
           step' = [step EXCEPT ![p] = "ready"], at'[Host] = at[Host],
           \A q \in {"scale", "copy", "smooth"} : q # p => at'[q] = at[q],
           GifControl(r, at["scale"], at["copy"], at["smooth"], reg["sync"],
                      hand["smooth"], reg["scaled"], reg["copied"], reg["smoothed"])',
           GifPictures(Frames[n], r, at["scale"], at["copy"], at["smooth"], reg["sync"],
                       hand["smooth"], reg["smoothed"], area)',
           hand'[Host] = 0, hand'["scale"] = 0, hand'["copy"] = 0
    PROVE  GifState(n, r)'
<1>1. GifWork(Frames[n], r)'
  BY DEF GifState, GifWork, GifTyped
<1> QED BY <1>1 DEF GifState, GifTyped

LEMMA GifTypesNext == SoundInv' /\ (app = Gif)' => GifTyped'
<1>1. SoundInv /\ app = Gif => GifTyped
  BY GifTypes
<1> QED BY <1>1, PTL

LEMMA ScaleSignals ==
    ASSUME SoundInv, SoundInv', app = Gif, NEW n \in Nat, NEW r \in 1 .. 12,
           GifState(n, r),
           FinishWrite("scale") \/ FinishRead("scale") \/ FinishRewrite("scale")
    PROVE  GifState(n, r)' /\ KeptApart
<1>1. GifTyped
  BY GifTypes
<1>2. at["scale"] \in 0 .. 3
  BY DEF GifState, GifControl
<1>3. /\ Running("scale") /\ Instruction("scale").op \in {"write", "wait"}
      /\ step["scale"] = "loaded"
  BY DEF FinishWrite, FinishRead, FinishRewrite, IsAt
<1>4. \A e \in {"sync", "scaled"} : e \in DOMAIN reg /\ app.index[e] % 8 # 0
  BY <1>1, GifApp DEF GifTyped, GifEvents
<1>5. CASE FinishWrite("scale") /\ at["scale"] = 2
  <2>1. reg["sync"] = 0 /\ Instruction("scale") = Write("sync", 1) /\ Advanced("scale") = 3
    BY <1>2, <1>5, ScaleAt DEF GifState, GifControl
  <2>2. Wrote("scale", "sync", 1)
    BY <1>1, <1>4, <1>5, <2>1, ValueWritten DEF GifTyped
  <2>3. /\ UNCHANGED <<app, area, carried>> /\ step' = [step EXCEPT !["scale"] = "ready"]
        /\ at'["scale"] = 3 /\ at'["copy"] = at["copy"]
        /\ at'["smooth"] = at["smooth"] /\ at'[Host] = at[Host]
        /\ reg'["sync"] = 1 /\ reg'["scaled"] = reg["scaled"]
        /\ reg'["copied"] = reg["copied"] /\ reg'["smoothed"] = reg["smoothed"]
        /\ hand'["scale"] = hand["scale"] /\ hand'["copy"] = hand["copy"]
        /\ hand'["smooth"] = hand["smooth"] /\ hand'[Host] = hand[Host]
    BY <1>1, <2>1, <2>2 DEF Wrote, GifTyped
  <2>4. GifControl(r, at["scale"], at["copy"], at["smooth"], reg["sync"], hand["smooth"],
                  reg["scaled"], reg["copied"], reg["smoothed"])'
    BY <1>5, <2>1, <2>3 DEF GifState, GifControl
  <2>5. GifPictures(Frames[n], r, at["scale"], at["copy"], at["smooth"], reg["sync"],
                   hand["smooth"], reg["smoothed"], area)'
    BY <1>5, <2>1, <2>3 DEF GifState, GifControl, GifPictures
  <2>6. KeptApart
    BY <1>1, <2>1, <2>2, <2>3 DEF KeptApart, GifTyped
  <2>7. GifTyped'
    BY <2>3, GifTypesNext
  <2>8. \A q \in {"scale", "copy", "smooth"} : q # "scale" => at'[q] = at[q]
    BY <2>3
  <2> QED BY <1>1, <1>3, <2>3, <2>4, <2>5, <2>6, <2>7, <2>8, GifUnworked DEF GifState
<1>6. CASE FinishWrite("scale") /\ at["scale"] = 3
  <2>1. reg["scaled"] = 0 /\ Instruction("scale") = Write("scaled", 1) /\ Advanced("scale") = 0
    BY <1>2, <1>6, ScaleAt DEF GifState, GifControl
  <2>2. Wrote("scale", "scaled", 1)
    BY <1>1, <1>4, <1>6, <2>1, ValueWritten DEF GifTyped
  <2>3. /\ UNCHANGED <<app, area, carried>> /\ step' = [step EXCEPT !["scale"] = "ready"]
        /\ at'["scale"] = 0 /\ at'["copy"] = at["copy"]
        /\ at'["smooth"] = at["smooth"] /\ at'[Host] = at[Host]
        /\ reg'["sync"] = reg["sync"] /\ reg'["scaled"] = 1
        /\ reg'["copied"] = reg["copied"] /\ reg'["smoothed"] = reg["smoothed"]
        /\ hand'["scale"] = hand["scale"] /\ hand'["copy"] = hand["copy"]
        /\ hand'["smooth"] = hand["smooth"] /\ hand'[Host] = hand[Host]
    BY <1>1, <2>1, <2>2 DEF Wrote, GifTyped
  <2>4. GifControl(r, at["scale"], at["copy"], at["smooth"], reg["sync"], hand["smooth"],
                  reg["scaled"], reg["copied"], reg["smoothed"])'
    BY <1>6, <2>1, <2>3 DEF GifState, GifControl
  <2>5. GifPictures(Frames[n], r, at["scale"], at["copy"], at["smooth"], reg["sync"],
                   hand["smooth"], reg["smoothed"], area)'
    BY <1>6, <2>1, <2>3 DEF GifState, GifControl, GifPictures
  <2>6. KeptApart
    BY <1>1, <2>1, <2>2, <2>3 DEF KeptApart, GifTyped
  <2>7. GifTyped'
    BY <2>3, GifTypesNext
  <2>8. \A q \in {"scale", "copy", "smooth"} : q # "scale" => at'[q] = at[q]
    BY <2>3
  <2> QED BY <1>1, <1>3, <2>3, <2>4, <2>5, <2>6, <2>7, <2>8, GifUnworked DEF GifState
<1> QED BY <1>2, <1>3, <1>5, <1>6, ScaleAt
        DEF FinishWrite, FinishRead, FinishRewrite, IsAt, Work, Write

LEMMA CopySignals ==
    ASSUME SoundInv, SoundInv', app = Gif, NEW n \in Nat, NEW r \in 1 .. 12,
           GifState(n, r),
           FinishWrite("copy") \/ FinishRead("copy") \/ FinishRewrite("copy")
    PROVE  GifState(n, r)' /\ KeptApart
<1>1. GifTyped
  BY GifTypes
<1>2. at["copy"] \in 0 .. 4
  BY DEF GifState, GifControl
<1>3. /\ Running("copy") /\ Instruction("copy").op \in {"write", "wait"}
      /\ step["copy"] = "loaded"
  BY DEF FinishWrite, FinishRead, FinishRewrite, IsAt
<1>4. \A e \in {"sync", "copied"} : e \in DOMAIN reg /\ app.index[e] % 8 # 0
  BY <1>1, GifApp DEF GifTyped, GifEvents
<1>5. CASE FinishWrite("copy") /\ at["copy"] = 3
  <2>1. reg["sync"] = 0 /\ Instruction("copy") = Write("sync", 2) /\ Advanced("copy") = 4
    BY <1>2, <1>5, CopyAt DEF GifState, GifControl
  <2>2. Wrote("copy", "sync", 2)
    BY <1>1, <1>4, <1>5, <2>1, ValueWritten DEF GifTyped
  <2>3. /\ UNCHANGED <<app, area, carried>> /\ step' = [step EXCEPT !["copy"] = "ready"]
        /\ at'["scale"] = at["scale"] /\ at'["copy"] = 4
        /\ at'["smooth"] = at["smooth"] /\ at'[Host] = at[Host]
        /\ reg'["sync"] = 2 /\ reg'["scaled"] = reg["scaled"]
        /\ reg'["copied"] = reg["copied"] /\ reg'["smoothed"] = reg["smoothed"]
        /\ hand'["scale"] = hand["scale"] /\ hand'["copy"] = hand["copy"]
        /\ hand'["smooth"] = hand["smooth"] /\ hand'[Host] = hand[Host]
    BY <1>1, <2>1, <2>2 DEF Wrote, GifTyped
  <2>4. GifControl(r, at["scale"], at["copy"], at["smooth"], reg["sync"], hand["smooth"],
                  reg["scaled"], reg["copied"], reg["smoothed"])'
    BY <1>5, <2>1, <2>3 DEF GifState, GifControl
  <2>5. GifPictures(Frames[n], r, at["scale"], at["copy"], at["smooth"], reg["sync"],
                   hand["smooth"], reg["smoothed"], area)'
    BY <1>5, <2>1, <2>3 DEF GifState, GifControl, GifPictures
  <2>6. KeptApart
    BY <1>1, <2>1, <2>2, <2>3 DEF KeptApart, GifTyped
  <2>7. GifTyped'
    BY <2>3, GifTypesNext
  <2>8. \A q \in {"scale", "copy", "smooth"} : q # "copy" => at'[q] = at[q]
    BY <2>3
  <2> QED BY <1>1, <1>3, <2>3, <2>4, <2>5, <2>6, <2>7, <2>8, GifUnworked DEF GifState
<1>6. CASE FinishWrite("copy") /\ at["copy"] = 4
  <2>1. reg["copied"] = 0 /\ Instruction("copy") = Write("copied", 1) /\ Advanced("copy") = 0
    BY <1>2, <1>6, CopyAt DEF GifState, GifControl
  <2>2. Wrote("copy", "copied", 1)
    BY <1>1, <1>4, <1>6, <2>1, ValueWritten DEF GifTyped
  <2>3. /\ UNCHANGED <<app, area, carried>> /\ step' = [step EXCEPT !["copy"] = "ready"]
        /\ at'["scale"] = at["scale"] /\ at'["copy"] = 0
        /\ at'["smooth"] = at["smooth"] /\ at'[Host] = at[Host]
        /\ reg'["sync"] = reg["sync"] /\ reg'["scaled"] = reg["scaled"]
        /\ reg'["copied"] = 1 /\ reg'["smoothed"] = reg["smoothed"]
        /\ hand'["scale"] = hand["scale"] /\ hand'["copy"] = hand["copy"]
        /\ hand'["smooth"] = hand["smooth"] /\ hand'[Host] = hand[Host]
    BY <1>1, <2>1, <2>2 DEF Wrote, GifTyped
  <2>4. GifControl(r, at["scale"], at["copy"], at["smooth"], reg["sync"], hand["smooth"],
                  reg["scaled"], reg["copied"], reg["smoothed"])'
    BY <1>6, <2>1, <2>3 DEF GifState, GifControl
  <2>5. GifPictures(Frames[n], r, at["scale"], at["copy"], at["smooth"], reg["sync"],
                   hand["smooth"], reg["smoothed"], area)'
    BY <1>6, <2>1, <2>3 DEF GifState, GifControl, GifPictures
  <2>6. KeptApart
    BY <1>1, <2>1, <2>2, <2>3 DEF KeptApart, GifTyped
  <2>7. GifTyped'
    BY <2>3, GifTypesNext
  <2>8. \A q \in {"scale", "copy", "smooth"} : q # "copy" => at'[q] = at[q]
    BY <2>3
  <2> QED BY <1>1, <1>3, <2>3, <2>4, <2>5, <2>6, <2>7, <2>8, GifUnworked DEF GifState
<1>7. ASSUME FinishRead("copy")
      PROVE  /\ at["copy"] = 1 /\ Advanced("copy") = 2
             /\ Instruction("copy") = Wait("sync", 1)
             /\ \/ reg["sync"] = 1 /\ Took("copy", "sync")
                \/ reg["sync"] # 1 /\ Kept("copy", "sync")
  <2>1. at["copy"] = 1
    BY <1>2, <1>3, <1>7, CopyAt DEF FinishRead, IsAt, Work, Write
  <2>2. Instruction("copy") = Wait("sync", 1) /\ Advanced("copy") = 2
    BY <1>2, <2>1, CopyAt
  <2> QED BY <1>1, <1>4, <1>7, <2>1, <2>2, ValueRead DEF GifTyped
<1>8. CASE FinishRead("copy") /\ reg["sync"] = 1
  <2>1. at["copy"] = 1 /\ Advanced("copy") = 2
    BY <1>7, <1>8
  <2>2. Took("copy", "sync")
    BY <1>7, <1>8
  <2>3. /\ UNCHANGED <<app, area, carried>> /\ step' = [step EXCEPT !["copy"] = "ready"]
        /\ at'["scale"] = at["scale"] /\ at'["copy"] = 2
        /\ at'["smooth"] = at["smooth"] /\ at'[Host] = at[Host]
        /\ reg'["sync"] = 0 /\ reg'["scaled"] = reg["scaled"]
        /\ reg'["copied"] = reg["copied"] /\ reg'["smoothed"] = reg["smoothed"]
        /\ hand'["scale"] = hand["scale"] /\ hand'["copy"] = hand["copy"]
        /\ hand'["smooth"] = hand["smooth"] /\ hand'[Host] = hand[Host]
    BY <1>1, <2>1, <2>2 DEF Took, GifTyped
  <2>4. GifControl(r, at["scale"], at["copy"], at["smooth"], reg["sync"], hand["smooth"],
                  reg["scaled"], reg["copied"], reg["smoothed"])'
    BY <1>8, <2>1, <2>3 DEF GifState, GifControl
  <2>5. GifPictures(Frames[n], r, at["scale"], at["copy"], at["smooth"], reg["sync"],
                   hand["smooth"], reg["smoothed"], area)'
    BY <1>8, <2>1, <2>3 DEF GifState, GifControl, GifPictures
  <2>6. KeptApart
    BY <1>1, <2>1, <2>2, <2>3 DEF KeptApart, GifTyped
  <2>7. GifTyped'
    BY <2>3, GifTypesNext
  <2>8. \A q \in {"scale", "copy", "smooth"} : q # "copy" => at'[q] = at[q]
    BY <2>3
  <2> QED BY <1>1, <1>3, <2>3, <2>4, <2>5, <2>6, <2>7, <2>8, GifUnworked DEF GifState
<1>9. CASE FinishRead("copy") /\ reg["sync"] # 1
  <2>1. at["copy"] = 1 /\ reg["sync"] = 0
    BY <1>7, <1>9 DEF GifState, GifControl
  <2>2. Kept("copy", "sync")
    BY <1>7, <1>9
  <2>3. /\ UNCHANGED <<app, area, carried>> /\ step' = [step EXCEPT !["copy"] = "ready"]
        /\ at'["scale"] = at["scale"] /\ at'["copy"] = at["copy"]
        /\ at'["smooth"] = at["smooth"] /\ at'[Host] = at[Host]
        /\ reg'["sync"] = 0 /\ reg'["scaled"] = reg["scaled"]
        /\ reg'["copied"] = reg["copied"] /\ reg'["smoothed"] = reg["smoothed"]
        /\ hand'["scale"] = hand["scale"] /\ hand'["copy"] = 0
        /\ hand'["smooth"] = hand["smooth"] /\ hand'[Host] = hand[Host]
    BY <1>1, <2>1, <2>2 DEF Kept, GifTyped
  <2>4. GifControl(r, at["scale"], at["copy"], at["smooth"], reg["sync"], hand["smooth"],
                  reg["scaled"], reg["copied"], reg["smoothed"])'
    BY <1>9, <2>1, <2>3 DEF GifState, GifControl
  <2>5. GifPictures(Frames[n], r, at["scale"], at["copy"], at["smooth"], reg["sync"],
                   hand["smooth"], reg["smoothed"], area)'
    BY <1>9, <2>1, <2>3 DEF GifState, GifControl, GifPictures
  <2>6. KeptApart
    BY <1>1, <2>1, <2>2, <2>3 DEF KeptApart, GifTyped
  <2>7. GifTyped'
    BY <2>3, GifTypesNext
  <2>8. \A q \in {"scale", "copy", "smooth"} : q # "copy" => at'[q] = at[q]
    BY <2>3
  <2> QED BY <1>1, <1>3, <2>3, <2>4, <2>5, <2>6, <2>7, <2>8, GifUnworked DEF GifState
<1>10. ~FinishRewrite("copy")
  BY DEF FinishRewrite, GifState
<1> QED BY <1>2, <1>3, <1>5, <1>6, <1>8, <1>9, <1>10, CopyAt
        DEF FinishWrite, IsAt, Work, Wait, Write

LEMMA SmoothSignals ==
    ASSUME SoundInv, SoundInv', app = Gif, NEW n \in Nat, NEW r \in 1 .. 12,
           GifState(n, r),
           FinishWrite("smooth") \/ FinishRead("smooth") \/ FinishRewrite("smooth")
    PROVE  GifState(n, r)' /\ KeptApart
<1>1. GifTyped
  BY GifTypes
<1>2. at["smooth"] \in 0 .. 3
  BY DEF GifState, GifControl
<1>3. /\ Running("smooth") /\ Instruction("smooth").op \in {"write", "wait"}
      /\ step["smooth"] = "loaded"
  BY DEF FinishWrite, FinishRead, FinishRewrite, IsAt
<1>4. \A e \in {"sync", "smoothed"} : e \in DOMAIN reg /\ app.index[e] % 8 # 0
  BY <1>1, GifApp DEF GifTyped, GifEvents
<1>5. CASE FinishWrite("smooth") /\ at["smooth"] = 3
  <2>1. reg["smoothed"] = 0 /\ Instruction("smooth") = Write("smoothed", 1) /\ Advanced("smooth") = 0
    BY <1>2, <1>5, SmoothAt DEF GifState, GifControl
  <2>2. Wrote("smooth", "smoothed", 1)
    BY <1>1, <1>4, <1>5, <2>1, ValueWritten DEF GifTyped
  <2>3. /\ UNCHANGED <<app, area, carried>> /\ step' = [step EXCEPT !["smooth"] = "ready"]
        /\ at'["scale"] = at["scale"] /\ at'["copy"] = at["copy"]
        /\ at'["smooth"] = 0 /\ at'[Host] = at[Host]
        /\ reg'["sync"] = reg["sync"] /\ reg'["scaled"] = reg["scaled"]
        /\ reg'["copied"] = reg["copied"] /\ reg'["smoothed"] = 1
        /\ hand'["scale"] = hand["scale"] /\ hand'["copy"] = hand["copy"]
        /\ hand'["smooth"] = hand["smooth"] /\ hand'[Host] = hand[Host]
    BY <1>1, <2>1, <2>2 DEF Wrote, GifTyped
  <2>4. GifControl(r, at["scale"], at["copy"], at["smooth"], reg["sync"], hand["smooth"],
                  reg["scaled"], reg["copied"], reg["smoothed"])'
    BY <1>5, <2>1, <2>3 DEF GifState, GifControl
  <2>5. GifPictures(Frames[n], r, at["scale"], at["copy"], at["smooth"], reg["sync"],
                   hand["smooth"], reg["smoothed"], area)'
    BY <1>5, <2>1, <2>3 DEF GifState, GifControl, GifPictures
  <2>6. KeptApart
    BY <1>1, <2>1, <2>2, <2>3 DEF KeptApart, GifTyped
  <2>7. GifTyped'
    BY <2>3, GifTypesNext
  <2>8. \A q \in {"scale", "copy", "smooth"} : q # "smooth" => at'[q] = at[q]
    BY <2>3
  <2> QED BY <1>1, <1>3, <2>3, <2>4, <2>5, <2>6, <2>7, <2>8, GifUnworked DEF GifState
<1>6. ASSUME FinishRead("smooth") \/ FinishRewrite("smooth")
      PROVE  /\ at["smooth"] = 1 /\ Advanced("smooth") = 2
             /\ Instruction("smooth") = Wait("sync", 2)
  <2>1. at["smooth"] = 1
    BY <1>2, <1>3, <1>6, SmoothAt DEF FinishRead, FinishRewrite, IsAt, Work, Write
  <2> QED BY <1>2, <2>1, SmoothAt
<1>7. ASSUME FinishRead("smooth")
      PROVE  \/ reg["sync"] = 2 /\ Took("smooth", "sync")
             \/ reg["sync"] # 2 /\ Kept("smooth", "sync")
  BY <1>1, <1>4, <1>6, <1>7, ValueRead DEF GifTyped
<1>8. CASE FinishRead("smooth") /\ reg["sync"] = 2
  <2>1. at["smooth"] = 1 /\ Advanced("smooth") = 2
    BY <1>6, <1>8
  <2>2. Took("smooth", "sync")
    BY <1>7, <1>8
  <2>3. /\ UNCHANGED <<app, area, carried>> /\ step' = [step EXCEPT !["smooth"] = "ready"]
        /\ at'["scale"] = at["scale"] /\ at'["copy"] = at["copy"]
        /\ at'["smooth"] = 2 /\ at'[Host] = at[Host]
        /\ reg'["sync"] = 0 /\ reg'["scaled"] = reg["scaled"]
        /\ reg'["copied"] = reg["copied"] /\ reg'["smoothed"] = reg["smoothed"]
        /\ hand'["scale"] = hand["scale"] /\ hand'["copy"] = hand["copy"]
        /\ hand'["smooth"] = hand["smooth"] /\ hand'[Host] = hand[Host]
    BY <1>1, <2>1, <2>2 DEF Took, GifTyped
  <2>4. GifControl(r, at["scale"], at["copy"], at["smooth"], reg["sync"], hand["smooth"],
                  reg["scaled"], reg["copied"], reg["smoothed"])'
    BY <1>8, <2>1, <2>3 DEF GifState, GifControl
  <2>5. GifPictures(Frames[n], r, at["scale"], at["copy"], at["smooth"], reg["sync"],
                   hand["smooth"], reg["smoothed"], area)'
    BY <1>8, <2>1, <2>3 DEF GifState, GifControl, GifPictures
  <2>6. KeptApart
    BY <1>1, <2>1, <2>2, <2>3 DEF KeptApart, GifTyped
  <2>7. GifTyped'
    BY <2>3, GifTypesNext
  <2>8. \A q \in {"scale", "copy", "smooth"} : q # "smooth" => at'[q] = at[q]
    BY <2>3
  <2> QED BY <1>1, <1>3, <2>3, <2>4, <2>5, <2>6, <2>7, <2>8, GifUnworked DEF GifState
<1>9. CASE FinishRead("smooth") /\ reg["sync"] # 2
  <2>1. at["smooth"] = 1 /\ reg["sync"] \in {0, 1}
    BY <1>6, <1>9 DEF GifState, GifControl
  <2>2. Kept("smooth", "sync") /\ hand["smooth"] = 0
    BY <1>7, <1>9 DEF Kept
  <2>3. /\ UNCHANGED <<app, area, carried>> /\ step' = [step EXCEPT !["smooth"] = "ready"]
        /\ at'["scale"] = at["scale"] /\ at'["copy"] = at["copy"]
        /\ at'["smooth"] = at["smooth"] /\ at'[Host] = at[Host]
        /\ reg'["sync"] = 0 /\ reg'["scaled"] = reg["scaled"]
        /\ reg'["copied"] = reg["copied"] /\ reg'["smoothed"] = reg["smoothed"]
        /\ hand'["scale"] = hand["scale"] /\ hand'["copy"] = hand["copy"]
        /\ hand'["smooth"] = reg["sync"] /\ hand'[Host] = hand[Host]
    BY <1>1, <2>1, <2>2 DEF Kept, GifTyped
  <2>4. GifControl(r, at["scale"], at["copy"], at["smooth"], reg["sync"], hand["smooth"],
                  reg["scaled"], reg["copied"], reg["smoothed"])'
    BY <1>9, <2>2, <2>1, <2>3 DEF GifState, GifControl
  <2>5. GifPictures(Frames[n], r, at["scale"], at["copy"], at["smooth"], reg["sync"],
                   hand["smooth"], reg["smoothed"], area)'
    BY <1>9, <2>2, <2>1, <2>3 DEF GifState, GifControl, GifPictures
  <2>6. KeptApart
    BY <1>1, <2>1, <2>2, <2>3 DEF KeptApart, GifTyped
  <2>7. GifTyped'
    BY <2>3, GifTypesNext
  <2>8. \A q \in {"scale", "copy", "smooth"} : q # "smooth" => at'[q] = at[q]
    BY <2>3
  <2> QED BY <1>1, <1>3, <2>3, <2>4, <2>5, <2>6, <2>7, <2>8, GifUnworked DEF GifState
<1>10. CASE FinishRewrite("smooth")
  <2>1. at["smooth"] = 1 /\ reg["sync"] = 0 /\ hand["smooth"] = 1
    BY <1>6, <1>10 DEF FinishRewrite, GifState, GifControl
  <2>2. PutBack("smooth", "sync")
    BY <1>1, <1>4, <1>6, <1>10, <2>1, ValueRewritten DEF GifTyped
  <2>3. /\ UNCHANGED <<app, area, carried>> /\ step' = [step EXCEPT !["smooth"] = "ready"]
        /\ at'["scale"] = at["scale"] /\ at'["copy"] = at["copy"]
        /\ at'["smooth"] = at["smooth"] /\ at'[Host] = at[Host]
        /\ reg'["sync"] = 1 /\ reg'["scaled"] = reg["scaled"]
        /\ reg'["copied"] = reg["copied"] /\ reg'["smoothed"] = reg["smoothed"]
        /\ hand'["scale"] = hand["scale"] /\ hand'["copy"] = hand["copy"]
        /\ hand'["smooth"] = 0 /\ hand'[Host] = hand[Host]
    BY <1>1, <2>1, <2>2 DEF PutBack, GifTyped
  <2>4. GifControl(r, at["scale"], at["copy"], at["smooth"], reg["sync"], hand["smooth"],
                  reg["scaled"], reg["copied"], reg["smoothed"])'
    BY <2>1, <2>3 DEF GifState, GifControl
  <2>5. GifPictures(Frames[n], r, at["scale"], at["copy"], at["smooth"], reg["sync"],
                   hand["smooth"], reg["smoothed"], area)'
    BY <2>1, <2>3 DEF GifState, GifControl, GifPictures
  <2>6. KeptApart
    BY <1>1, <2>1, <2>2, <2>3 DEF KeptApart, GifTyped
  <2>7. GifTyped'
    BY <2>3, GifTypesNext
  <2>8. \A q \in {"scale", "copy", "smooth"} : q # "smooth" => at'[q] = at[q]
    BY <2>3
  <2> QED BY <1>1, <1>3, <2>3, <2>4, <2>5, <2>6, <2>7, <2>8, GifUnworked DEF GifState
<1> QED BY <1>2, <1>3, <1>5, <1>8, <1>9, <1>10, SmoothAt
        DEF FinishWrite, IsAt, Work, Wait, Write

\* A kernel that dies lets its baton fall: the others wait for ever.
LEMMA KernelDies ==
    ASSUME SoundInv, SoundInv', app = Gif, NEW n \in Nat, NEW r \in 1 .. 12,
           GifState(n, r), NEW p \in {"scale", "copy", "smooth"}, Crash(p)
    PROVE  GifState(n, r)' /\ KeptApart
<1>1. GifTyped
  BY GifTypes
<1>2. /\ UNCHANGED <<app, reg, area>>
      /\ at' = [at EXCEPT ![p] = 0] /\ hand' = [hand EXCEPT ![p] = 0]
      /\ step' = [step EXCEPT ![p] = "ready"] /\ carried' = [carried EXCEPT ![p] = <<>>]
  BY DEF Crash
<1>3. /\ at'[Host] = at[Host] /\ at'["scale"] \in {0, at["scale"]}
      /\ at'["copy"] \in {0, at["copy"]} /\ at'["smooth"] \in {0, at["smooth"]}
      /\ hand'[Host] = hand[Host] /\ hand'["scale"] \in {0, hand["scale"]}
      /\ hand'["copy"] \in {0, hand["copy"]}
      /\ \/ hand'["smooth"] = hand["smooth"] /\ at'["smooth"] = at["smooth"]
         \/ hand'["smooth"] = 0 /\ at'["smooth"] = 0
  BY <1>1, <1>2 DEF GifTyped
<1>4. GifWork(Frames[n], r)'
  BY <1>1, <1>2 DEF GifState, GifWork, GifTyped
<1>5. GifControl(r, at["scale"], at["copy"], at["smooth"], reg["sync"], hand["smooth"],
                  reg["scaled"], reg["copied"], reg["smoothed"])'
  BY <1>2, <1>3 DEF GifState, GifControl
<1>6. GifPictures(Frames[n], r, at["scale"], at["copy"], at["smooth"], reg["sync"],
                   hand["smooth"], reg["smoothed"], area)'
  BY <1>2, <1>3 DEF GifState, GifPictures
<1> QED BY <1>2, <1>3, <1>4, <1>5, <1>6 DEF GifState, KeptApart

LEMMA HostNow ==
    ASSUME app = Gif, NEW n \in Nat, NEW r \in 1 .. 12, GifState(n, r), Running(Host)
    PROVE  /\ n \in 1 .. Len(Frames) /\ n \in DOMAIN Frames /\ Len(Frames) \in Nat
           /\ Instruction(Host) = GifFrame(Frames[n])[r]
           /\ Advanced(Host) = 12 * (n - 1) + r + 1
<1>1. Frames \in Seq(STRING)
  BY ProgramsAssumption
<1>2. /\ n \in 1 .. Len(Frames) + 1 /\ (n = Len(Frames) + 1 => r = 1)
      /\ at[Host] = 12 * (n - 1) + r
  BY DEF GifState
<1> QED BY <1>1, <1>2, HostAt

LEMMA FrameOps ==
    ASSUME NEW f, NEW r \in 1 .. 12
    PROVE  /\ GifFrame(f)[r].op = "write" => r \in {2, 3, 4}
           /\ GifFrame(f)[r].op = "start" => r \in {5, 6, 7}
           /\ GifFrame(f)[r].op = "wait" => r \in {8, 9, 10}
           /\ GifFrame(f)[r].op = "work" => r \in {1, 11, 12}
<1>1. r \in {1, 11, 12} \/ r \in {2, 3, 4} \/ r \in {5, 6, 7} \/ r \in {8, 9, 10}
  OBVIOUS
<1>2. /\ \A from, into, by : Work(from, into, by).op = "work"
      /\ \A e, v : Write(e, v).op = "write" /\ Wait(e, v).op = "wait"
      /\ \A k : Start(k).op = "start"
  BY DEF Work, Write, Wait, Start
<1>3. /\ GifFrame(f)[1].op = "work" /\ GifFrame(f)[11].op = "work"
      /\ GifFrame(f)[12].op = "work"
  <2>1. /\ GifFrame(f)[1] = Work(<<f>>, {<<"B1">>}, <<>>)
        /\ GifFrame(f)[11] = Work(<<"B3", "edge">>, {<<f, "edge">>}, <<>>)
        /\ GifFrame(f)[12] = Work(<<"B3", "inside">>, {<<f, "inside">>}, <<>>)
    BY FrameInstructions
  <2> QED BY <1>2, <2>1
<1>4. /\ GifFrame(f)[2].op = "write" /\ GifFrame(f)[3].op = "write"
      /\ GifFrame(f)[4].op = "write"
  <2>1. /\ GifFrame(f)[2] = Write("scaled", 0) /\ GifFrame(f)[3] = Write("copied", 0)
        /\ GifFrame(f)[4] = Write("smoothed", 0)
    BY FrameInstructions
  <2> QED BY <1>2, <2>1
<1>5. /\ GifFrame(f)[5].op = "start" /\ GifFrame(f)[6].op = "start"
      /\ GifFrame(f)[7].op = "start"
  <2>1. /\ GifFrame(f)[5] = Start("scale") /\ GifFrame(f)[6] = Start("copy")
        /\ GifFrame(f)[7] = Start("smooth")
    BY FrameInstructions
  <2> QED BY <1>2, <2>1
<1>6. /\ GifFrame(f)[8].op = "wait" /\ GifFrame(f)[9].op = "wait"
      /\ GifFrame(f)[10].op = "wait"
  <2>1. /\ GifFrame(f)[8] = Wait("scaled", 1) /\ GifFrame(f)[9] = Wait("copied", 1)
        /\ GifFrame(f)[10] = Wait("smoothed", 1)
    BY FrameInstructions
  <2> QED BY <1>2, <2>1
<1> QED BY <1>1, <1>3, <1>4, <1>5, <1>6

\* The client has gone on within a frame, or waits on.
GifMoved(n, s) ==
    /\ UNCHANGED <<area, carried>>
    /\ step' = [step EXCEPT ![Host] = "ready"]
    /\ at'[Host] = 12 * (n - 1) + s
    /\ \A q \in {"scale", "copy", "smooth"} : at[q] # 0 => at'[q] = at[q]
    /\ GifControl(s, at["scale"], at["copy"], at["smooth"], reg["sync"], hand["smooth"],
                  reg["scaled"], reg["copied"], reg["smoothed"])'
    /\ GifPictures(Frames[n], s, at["scale"], at["copy"], at["smooth"], reg["sync"],
                   hand["smooth"], reg["smoothed"], area)'
    /\ hand'[Host] = 0 /\ hand'["scale"] = 0 /\ hand'["copy"] = 0

LEMMA HostUnworked ==
    ASSUME GifTyped, GifTyped', NEW n \in 1 .. Len(Frames), NEW r \in 1 .. 12,
           GifState(n, r), step[Host] # "working",
           NEW s \in 3 .. 11, r \in 2 .. 10, GifMoved(n, s)
    PROVE  GifInv'
<1>1. GifWork(Frames[n], s)'
  <2>1. /\ step'[Host] = "ready" /\ step'["scale"] = step["scale"]
        /\ step'["copy"] = step["copy"] /\ step'["smooth"] = step["smooth"]
    BY DEF GifTyped, GifMoved
  <2>2. GifWork(Frames[n], r) /\ carried' = carried
    BY DEF GifState, GifMoved
  <2>3. step'["scale"] = "working" => at'["scale"] = 1 /\ carried'["scale"] = <<Frames[n]>>
    BY <2>1, <2>2 DEF GifWork, GifMoved
  <2>4. step'["copy"] = "working"
          => at'["copy"] = 2 /\ carried'["copy"] = <<Frames[n], "scale">>
    BY <2>1, <2>2 DEF GifWork, GifMoved
  <2>5. step'["smooth"] = "working"
          => at'["smooth"] = 2 /\ carried'["smooth"] = <<Frames[n], "scale">>
    BY <2>1, <2>2 DEF GifWork, GifMoved
  <2> QED BY <2>1, <2>3, <2>4, <2>5 DEF GifWork
<1>2. GifFiles(n, s, area)'
  <2>1. GifFiles(n, r, area) /\ area' = area
    BY DEF GifState, GifMoved
  <2>2. r # 12 /\ s # 12
    OBVIOUS
  <2> QED BY <2>1, <2>2 DEF GifFiles
<1>3. Len(Frames) \in Nat
  BY ProgramsAssumption
<1>4. n \in 1 .. Len(Frames) + 1 /\ n # Len(Frames) + 1 /\ s \in 1 .. 12
  BY <1>3
<1>5. GifState(n, s)'
  BY <1>1, <1>2, <1>4 DEF GifState, GifMoved
<1> QED BY <1>4, <1>5 DEF GifInv

LEMMA HostWrites ==
    ASSUME SoundInv, SoundInv', app = Gif, NEW n \in Nat, NEW r \in 1 .. 12,
           GifState(n, r), FinishWrite(Host)
    PROVE  GifInv' /\ KeptApart
<1>1. GifTyped /\ Host \in Processes
  BY GifTypes DEF GifTyped
<1>2. /\ Running(Host) /\ n \in 1 .. Len(Frames)
      /\ Instruction(Host) = GifFrame(Frames[n])[r]
      /\ Advanced(Host) = 12 * (n - 1) + r + 1
  BY HostNow DEF FinishWrite, IsAt
<1>3. step[Host] # "working"
  BY DEF FinishWrite, IsAt
<1>4. \A e \in {"scaled", "copied", "smoothed"} : e \in DOMAIN reg /\ app.index[e] % 8 # 0
  BY <1>1, GifApp DEF GifTyped, GifEvents
<1>5. CASE r = 2
  <2>1. GifFrame(Frames[n])[2] = Write("scaled", 0)
    BY FrameInstructions
  <2>2. Instruction(Host) = Write("scaled", 0) /\ Advanced(Host) = 12 * (n - 1) + 3
    BY <1>2, <1>5, <2>1
  <2>3. Wrote(Host, "scaled", reg["scaled"])
    BY <1>1, <1>4, <2>2, NothingWritten DEF GifTyped
  <2>4. /\ UNCHANGED <<app, area, carried>> /\ step' = [step EXCEPT ![Host] = "ready"]
        /\ at'["scale"] = at["scale"] /\ at'["copy"] = at["copy"]
        /\ at'["smooth"] = at["smooth"] /\ at'[Host] = 12 * (n - 1) + 3
        /\ reg'["sync"] = reg["sync"] /\ reg'["scaled"] = reg["scaled"]
        /\ reg'["copied"] = reg["copied"] /\ reg'["smoothed"] = reg["smoothed"]
        /\ hand'["scale"] = hand["scale"] /\ hand'["copy"] = hand["copy"]
        /\ hand'["smooth"] = hand["smooth"] /\ hand'[Host] = hand[Host]
    BY <1>1, <2>2, <2>3 DEF Wrote, GifTyped
  <2>5. GifControl(3, at["scale"], at["copy"], at["smooth"], reg["sync"], hand["smooth"],
                  reg["scaled"], reg["copied"], reg["smoothed"])'
    BY <1>5, <2>2, <2>4 DEF GifState, GifControl
  <2>6. GifPictures(Frames[n], 3, at["scale"], at["copy"], at["smooth"], reg["sync"],
                   hand["smooth"], reg["smoothed"], area)'
    BY <1>5, <2>2, <2>4 DEF GifState, GifControl, GifPictures
  <2>7. KeptApart
    BY <1>1, <2>2, <2>3, <2>4 DEF KeptApart, GifTyped
  <2>8. GifTyped'
    BY <2>4, GifTypesNext
  <2>9. GifMoved(n, 3)
    BY <2>2, <2>4, <2>5, <2>6 DEF GifMoved, GifState
  <2> QED BY <1>1, <1>2, <1>3, <1>5, <2>7, <2>8, <2>9, HostUnworked
<1>6. CASE r = 3
  <2>1. GifFrame(Frames[n])[3] = Write("copied", 0)
    BY FrameInstructions
  <2>2. Instruction(Host) = Write("copied", 0) /\ Advanced(Host) = 12 * (n - 1) + 4
    BY <1>2, <1>6, <2>1
  <2>3. Wrote(Host, "copied", reg["copied"])
    BY <1>1, <1>4, <2>2, NothingWritten DEF GifTyped
  <2>4. /\ UNCHANGED <<app, area, carried>> /\ step' = [step EXCEPT ![Host] = "ready"]
        /\ at'["scale"] = at["scale"] /\ at'["copy"] = at["copy"]
        /\ at'["smooth"] = at["smooth"] /\ at'[Host] = 12 * (n - 1) + 4
        /\ reg'["sync"] = reg["sync"] /\ reg'["scaled"] = reg["scaled"]
        /\ reg'["copied"] = reg["copied"] /\ reg'["smoothed"] = reg["smoothed"]
        /\ hand'["scale"] = hand["scale"] /\ hand'["copy"] = hand["copy"]
        /\ hand'["smooth"] = hand["smooth"] /\ hand'[Host] = hand[Host]
    BY <1>1, <2>2, <2>3 DEF Wrote, GifTyped
  <2>5. GifControl(4, at["scale"], at["copy"], at["smooth"], reg["sync"], hand["smooth"],
                  reg["scaled"], reg["copied"], reg["smoothed"])'
    BY <1>6, <2>2, <2>4 DEF GifState, GifControl
  <2>6. GifPictures(Frames[n], 4, at["scale"], at["copy"], at["smooth"], reg["sync"],
                   hand["smooth"], reg["smoothed"], area)'
    BY <1>6, <2>2, <2>4 DEF GifState, GifControl, GifPictures
  <2>7. KeptApart
    BY <1>1, <2>2, <2>3, <2>4 DEF KeptApart, GifTyped
  <2>8. GifTyped'
    BY <2>4, GifTypesNext
  <2>9. GifMoved(n, 4)
    BY <2>2, <2>4, <2>5, <2>6 DEF GifMoved, GifState
  <2> QED BY <1>1, <1>2, <1>3, <1>6, <2>7, <2>8, <2>9, HostUnworked
<1>7. CASE r = 4
  <2>1. GifFrame(Frames[n])[4] = Write("smoothed", 0)
    BY FrameInstructions
  <2>2. Instruction(Host) = Write("smoothed", 0) /\ Advanced(Host) = 12 * (n - 1) + 5
    BY <1>2, <1>7, <2>1
  <2>3. Wrote(Host, "smoothed", reg["smoothed"])
    BY <1>1, <1>4, <2>2, NothingWritten DEF GifTyped
  <2>4. /\ UNCHANGED <<app, area, carried>> /\ step' = [step EXCEPT ![Host] = "ready"]
        /\ at'["scale"] = at["scale"] /\ at'["copy"] = at["copy"]
        /\ at'["smooth"] = at["smooth"] /\ at'[Host] = 12 * (n - 1) + 5
        /\ reg'["sync"] = reg["sync"] /\ reg'["scaled"] = reg["scaled"]
        /\ reg'["copied"] = reg["copied"] /\ reg'["smoothed"] = reg["smoothed"]
        /\ hand'["scale"] = hand["scale"] /\ hand'["copy"] = hand["copy"]
        /\ hand'["smooth"] = hand["smooth"] /\ hand'[Host] = hand[Host]
    BY <1>1, <2>2, <2>3 DEF Wrote, GifTyped
  <2>5. GifControl(5, at["scale"], at["copy"], at["smooth"], reg["sync"], hand["smooth"],
                  reg["scaled"], reg["copied"], reg["smoothed"])'
    BY <1>7, <2>2, <2>4 DEF GifState, GifControl
  <2>6. GifPictures(Frames[n], 5, at["scale"], at["copy"], at["smooth"], reg["sync"],
                   hand["smooth"], reg["smoothed"], area)'
    BY <1>7, <2>2, <2>4 DEF GifState, GifControl, GifPictures
  <2>7. KeptApart
    BY <1>1, <2>2, <2>3, <2>4 DEF KeptApart, GifTyped
  <2>8. GifTyped'
    BY <2>4, GifTypesNext
  <2>9. GifMoved(n, 5)
    BY <2>2, <2>4, <2>5, <2>6 DEF GifMoved, GifState
  <2> QED BY <1>1, <1>2, <1>3, <1>7, <2>7, <2>8, <2>9, HostUnworked
<1>8. r \in {2, 3, 4}
  <2>1. GifFrame(Frames[n])[r].op = "write"
    BY <1>2 DEF FinishWrite, IsAt
  <2> QED BY <2>1, FrameOps
<1> QED BY <1>5, <1>6, <1>7, <1>8

LEMMA HostStarts ==
    ASSUME SoundInv, SoundInv', app = Gif, NEW n \in Nat, NEW r \in 1 .. 12,
           GifState(n, r), StartKernel(Host)
    PROVE  GifInv' /\ KeptApart
<1>1. GifTyped /\ Host \in Processes
  BY GifTypes DEF GifTyped
<1>2. /\ Running(Host) /\ n \in 1 .. Len(Frames)
      /\ Instruction(Host) = GifFrame(Frames[n])[r]
      /\ Advanced(Host) = 12 * (n - 1) + r + 1
  BY HostNow DEF StartKernel, IsAt
<1>3. step[Host] # "working"
  BY DEF StartKernel, IsAt
<1>4. CASE r = 5
  <2>1. GifFrame(Frames[n])[5] = Start("scale")
    BY FrameInstructions
  <2>2. Instruction(Host).kernel = "scale" /\ Advanced(Host) = 12 * (n - 1) + 6
    BY <1>2, <1>4, <2>1 DEF Start
  <2>3. at["scale"] = 0 /\ at' = [at EXCEPT ![Host] = 12 * (n - 1) + 6, !["scale"] = 1]
    BY <2>2 DEF StartKernel
  <2>4. /\ UNCHANGED <<app, area, carried>> /\ step' = [step EXCEPT ![Host] = "ready"]
        /\ at'["scale"] = 1 /\ at'["copy"] = at["copy"]
        /\ at'["smooth"] = at["smooth"] /\ at'[Host] = 12 * (n - 1) + 6
        /\ reg'["sync"] = reg["sync"] /\ reg'["scaled"] = reg["scaled"]
        /\ reg'["copied"] = reg["copied"] /\ reg'["smoothed"] = reg["smoothed"]
        /\ hand'["scale"] = hand["scale"] /\ hand'["copy"] = hand["copy"]
        /\ hand'["smooth"] = hand["smooth"] /\ hand'[Host] = hand[Host]
    BY <1>1, <2>3 DEF StartKernel, IsAt, GifTyped
  <2>5. GifControl(6, at["scale"], at["copy"], at["smooth"], reg["sync"], hand["smooth"],
                  reg["scaled"], reg["copied"], reg["smoothed"])'
    BY <1>4, <2>3, <2>2, <2>4 DEF GifState, GifControl
  <2>6. GifPictures(Frames[n], 6, at["scale"], at["copy"], at["smooth"], reg["sync"],
                   hand["smooth"], reg["smoothed"], area)'
    BY <1>4, <2>3, <2>2, <2>4 DEF GifState, GifControl, GifPictures
  <2>7. KeptApart
    BY DEF StartKernel, KeptApart
  <2>8. GifTyped'
    BY <2>4, GifTypesNext
  <2>9. GifMoved(n, 6)
    BY <2>3, <2>4, <2>5, <2>6 DEF GifMoved, GifState
  <2> QED BY <1>1, <1>2, <1>3, <1>4, <2>7, <2>8, <2>9, HostUnworked
<1>5. CASE r = 6
  <2>1. GifFrame(Frames[n])[6] = Start("copy")
    BY FrameInstructions
  <2>2. Instruction(Host).kernel = "copy" /\ Advanced(Host) = 12 * (n - 1) + 7
    BY <1>2, <1>5, <2>1 DEF Start
  <2>3. at["copy"] = 0 /\ at' = [at EXCEPT ![Host] = 12 * (n - 1) + 7, !["copy"] = 1]
    BY <2>2 DEF StartKernel
  <2>4. /\ UNCHANGED <<app, area, carried>> /\ step' = [step EXCEPT ![Host] = "ready"]
        /\ at'["scale"] = at["scale"] /\ at'["copy"] = 1
        /\ at'["smooth"] = at["smooth"] /\ at'[Host] = 12 * (n - 1) + 7
        /\ reg'["sync"] = reg["sync"] /\ reg'["scaled"] = reg["scaled"]
        /\ reg'["copied"] = reg["copied"] /\ reg'["smoothed"] = reg["smoothed"]
        /\ hand'["scale"] = hand["scale"] /\ hand'["copy"] = hand["copy"]
        /\ hand'["smooth"] = hand["smooth"] /\ hand'[Host] = hand[Host]
    BY <1>1, <2>3 DEF StartKernel, IsAt, GifTyped
  <2>5. GifControl(7, at["scale"], at["copy"], at["smooth"], reg["sync"], hand["smooth"],
                  reg["scaled"], reg["copied"], reg["smoothed"])'
    BY <1>5, <2>3, <2>2, <2>4 DEF GifState, GifControl
  <2>6. GifPictures(Frames[n], 7, at["scale"], at["copy"], at["smooth"], reg["sync"],
                   hand["smooth"], reg["smoothed"], area)'
    BY <1>5, <2>3, <2>2, <2>4 DEF GifState, GifControl, GifPictures
  <2>7. KeptApart
    BY DEF StartKernel, KeptApart
  <2>8. GifTyped'
    BY <2>4, GifTypesNext
  <2>9. GifMoved(n, 7)
    BY <2>3, <2>4, <2>5, <2>6 DEF GifMoved, GifState
  <2> QED BY <1>1, <1>2, <1>3, <1>5, <2>7, <2>8, <2>9, HostUnworked
<1>6. CASE r = 7
  <2>1. GifFrame(Frames[n])[7] = Start("smooth")
    BY FrameInstructions
  <2>2. Instruction(Host).kernel = "smooth" /\ Advanced(Host) = 12 * (n - 1) + 8
    BY <1>2, <1>6, <2>1 DEF Start
  <2>3. at["smooth"] = 0 /\ at' = [at EXCEPT ![Host] = 12 * (n - 1) + 8, !["smooth"] = 1]
    BY <2>2 DEF StartKernel
  <2>4. /\ UNCHANGED <<app, area, carried>> /\ step' = [step EXCEPT ![Host] = "ready"]
        /\ at'["scale"] = at["scale"] /\ at'["copy"] = at["copy"]
        /\ at'["smooth"] = 1 /\ at'[Host] = 12 * (n - 1) + 8
        /\ reg'["sync"] = reg["sync"] /\ reg'["scaled"] = reg["scaled"]
        /\ reg'["copied"] = reg["copied"] /\ reg'["smoothed"] = reg["smoothed"]
        /\ hand'["scale"] = hand["scale"] /\ hand'["copy"] = hand["copy"]
        /\ hand'["smooth"] = hand["smooth"] /\ hand'[Host] = hand[Host]
    BY <1>1, <2>3 DEF StartKernel, IsAt, GifTyped
  <2>5. GifControl(8, at["scale"], at["copy"], at["smooth"], reg["sync"], hand["smooth"],
                  reg["scaled"], reg["copied"], reg["smoothed"])'
    BY <1>6, <2>3, <2>2, <2>4 DEF GifState, GifControl
  <2>6. GifPictures(Frames[n], 8, at["scale"], at["copy"], at["smooth"], reg["sync"],
                   hand["smooth"], reg["smoothed"], area)'
    BY <1>6, <2>3, <2>2, <2>4 DEF GifState, GifControl, GifPictures
  <2>7. KeptApart
    BY DEF StartKernel, KeptApart
  <2>8. GifTyped'
    BY <2>4, GifTypesNext
  <2>9. GifMoved(n, 8)
    BY <2>3, <2>4, <2>5, <2>6 DEF GifMoved, GifState
  <2> QED BY <1>1, <1>2, <1>3, <1>6, <2>7, <2>8, <2>9, HostUnworked
<1>7. r \in {5, 6, 7}
  <2>1. GifFrame(Frames[n])[r].op = "start"
    BY <1>2 DEF StartKernel, IsAt
  <2> QED BY <2>1, FrameOps
<1> QED BY <1>4, <1>5, <1>6, <1>7

LEMMA HostWaits ==
    ASSUME SoundInv, SoundInv', app = Gif, NEW n \in Nat, NEW r \in 1 .. 12,
           GifState(n, r), FinishRead(Host)
    PROVE  GifInv' /\ KeptApart
<1>1. GifTyped /\ Host \in Processes
  BY GifTypes DEF GifTyped
<1>2. /\ Running(Host) /\ n \in 1 .. Len(Frames)
      /\ Instruction(Host) = GifFrame(Frames[n])[r]
      /\ Advanced(Host) = 12 * (n - 1) + r + 1
  BY HostNow DEF FinishRead, IsAt
<1>3. step[Host] # "working"
  BY DEF FinishRead, IsAt
<1>4. \A e \in {"scaled", "copied", "smoothed"} : e \in DOMAIN reg /\ app.index[e] % 8 # 0
  BY <1>1, GifApp DEF GifTyped, GifEvents
<1>5. CASE r = 8 /\ reg["scaled"] = 1
  <2>1. GifFrame(Frames[n])[8] = Wait("scaled", 1)
    BY FrameInstructions
  <2>2. Instruction(Host) = Wait("scaled", 1) /\ Advanced(Host) = 12 * (n - 1) + 9
        /\ at[Host] = 12 * (n - 1) + 8 /\ reg["scaled"] \in 0 .. 1
    BY <1>2, <1>5, <2>1 DEF GifState, GifControl
  <2>3. Took(Host, "scaled")
    BY <1>1, <1>4, <1>5, <2>2, ValueRead DEF GifTyped
  <2>4. /\ UNCHANGED <<app, area, carried>> /\ step' = [step EXCEPT ![Host] = "ready"]
        /\ at'["scale"] = at["scale"] /\ at'["copy"] = at["copy"]
        /\ at'["smooth"] = at["smooth"] /\ at'[Host] = 12 * (n - 1) + 9
        /\ reg'["sync"] = reg["sync"] /\ reg'["scaled"] = 0
        /\ reg'["copied"] = reg["copied"] /\ reg'["smoothed"] = reg["smoothed"]
        /\ hand'["scale"] = hand["scale"] /\ hand'["copy"] = hand["copy"]
        /\ hand'["smooth"] = hand["smooth"] /\ hand'[Host] = hand[Host]
    BY <1>1, <1>5, <2>2, <2>3 DEF Took, GifTyped
  <2>5. GifControl(9, at["scale"], at["copy"], at["smooth"], reg["sync"], hand["smooth"],
                  reg["scaled"], reg["copied"], reg["smoothed"])'
    BY <1>5, <2>2, <2>4 DEF GifState, GifControl
  <2>6. GifPictures(Frames[n], 9, at["scale"], at["copy"], at["smooth"], reg["sync"],
                   hand["smooth"], reg["smoothed"], area)'
    BY <1>5, <2>2, <2>4 DEF GifState, GifControl, GifPictures
  <2>7. KeptApart
    BY <1>1, <2>2, <2>3, <2>4 DEF KeptApart, GifTyped
  <2>8. GifTyped'
    BY <2>4, GifTypesNext
  <2>9. GifMoved(n, 9)
    BY <2>2, <2>4, <2>5, <2>6 DEF GifMoved, GifState
  <2> QED BY <1>1, <1>2, <1>3, <1>5, <2>7, <2>8, <2>9, HostUnworked
<1>6. CASE r = 8 /\ reg["scaled"] # 1
  <2>1. GifFrame(Frames[n])[8] = Wait("scaled", 1)
    BY FrameInstructions
  <2>2. Instruction(Host) = Wait("scaled", 1) /\ Advanced(Host) = 12 * (n - 1) + 9
        /\ at[Host] = 12 * (n - 1) + 8 /\ reg["scaled"] \in 0 .. 1
    BY <1>2, <1>6, <2>1 DEF GifState, GifControl
  <2>3. Kept(Host, "scaled")
    BY <1>1, <1>4, <1>6, <2>2, ValueRead DEF GifTyped
  <2>4. /\ UNCHANGED <<app, area, carried>> /\ step' = [step EXCEPT ![Host] = "ready"]
        /\ at'["scale"] = at["scale"] /\ at'["copy"] = at["copy"]
        /\ at'["smooth"] = at["smooth"] /\ at'[Host] = 12 * (n - 1) + 8
        /\ reg'["sync"] = reg["sync"] /\ reg'["scaled"] = 0
        /\ reg'["copied"] = reg["copied"] /\ reg'["smoothed"] = reg["smoothed"]
        /\ hand'["scale"] = hand["scale"] /\ hand'["copy"] = hand["copy"]
        /\ hand'["smooth"] = hand["smooth"] /\ hand'[Host] = 0
    BY <1>1, <1>6, <2>2, <2>3 DEF Kept, GifTyped
  <2>5. GifControl(8, at["scale"], at["copy"], at["smooth"], reg["sync"], hand["smooth"],
                  reg["scaled"], reg["copied"], reg["smoothed"])'
    BY <1>6, <2>2, <2>4 DEF GifState, GifControl
  <2>6. GifPictures(Frames[n], 8, at["scale"], at["copy"], at["smooth"], reg["sync"],
                   hand["smooth"], reg["smoothed"], area)'
    BY <1>6, <2>2, <2>4 DEF GifState, GifControl, GifPictures
  <2>7. KeptApart
    BY <1>1, <2>2, <2>3, <2>4 DEF KeptApart, GifTyped
  <2>8. GifTyped'
    BY <2>4, GifTypesNext
  <2>9. GifMoved(n, 8)
    BY <2>2, <2>4, <2>5, <2>6 DEF GifMoved, GifState
  <2> QED BY <1>1, <1>2, <1>3, <1>6, <2>7, <2>8, <2>9, HostUnworked
<1>7. CASE r = 9 /\ reg["copied"] = 1
  <2>1. GifFrame(Frames[n])[9] = Wait("copied", 1)
    BY FrameInstructions
  <2>2. Instruction(Host) = Wait("copied", 1) /\ Advanced(Host) = 12 * (n - 1) + 10
        /\ at[Host] = 12 * (n - 1) + 9 /\ reg["copied"] \in 0 .. 1
    BY <1>2, <1>7, <2>1 DEF GifState, GifControl
  <2>3. Took(Host, "copied")
    BY <1>1, <1>4, <1>7, <2>2, ValueRead DEF GifTyped
  <2>4. /\ UNCHANGED <<app, area, carried>> /\ step' = [step EXCEPT ![Host] = "ready"]
        /\ at'["scale"] = at["scale"] /\ at'["copy"] = at["copy"]
        /\ at'["smooth"] = at["smooth"] /\ at'[Host] = 12 * (n - 1) + 10
        /\ reg'["sync"] = reg["sync"] /\ reg'["scaled"] = reg["scaled"]
        /\ reg'["copied"] = 0 /\ reg'["smoothed"] = reg["smoothed"]
        /\ hand'["scale"] = hand["scale"] /\ hand'["copy"] = hand["copy"]
        /\ hand'["smooth"] = hand["smooth"] /\ hand'[Host] = hand[Host]
    BY <1>1, <1>7, <2>2, <2>3 DEF Took, GifTyped
  <2>5. GifControl(10, at["scale"], at["copy"], at["smooth"], reg["sync"], hand["smooth"],
                  reg["scaled"], reg["copied"], reg["smoothed"])'
    BY <1>7, <2>2, <2>4 DEF GifState, GifControl
  <2>6. GifPictures(Frames[n], 10, at["scale"], at["copy"], at["smooth"], reg["sync"],
                   hand["smooth"], reg["smoothed"], area)'
    BY <1>7, <2>2, <2>4 DEF GifState, GifControl, GifPictures
  <2>7. KeptApart
    BY <1>1, <2>2, <2>3, <2>4 DEF KeptApart, GifTyped
  <2>8. GifTyped'
    BY <2>4, GifTypesNext
  <2>9. GifMoved(n, 10)
    BY <2>2, <2>4, <2>5, <2>6 DEF GifMoved, GifState
  <2> QED BY <1>1, <1>2, <1>3, <1>7, <2>7, <2>8, <2>9, HostUnworked
<1>8. CASE r = 9 /\ reg["copied"] # 1
  <2>1. GifFrame(Frames[n])[9] = Wait("copied", 1)
    BY FrameInstructions
  <2>2. Instruction(Host) = Wait("copied", 1) /\ Advanced(Host) = 12 * (n - 1) + 10
        /\ at[Host] = 12 * (n - 1) + 9 /\ reg["copied"] \in 0 .. 1
    BY <1>2, <1>8, <2>1 DEF GifState, GifControl
  <2>3. Kept(Host, "copied")
    BY <1>1, <1>4, <1>8, <2>2, ValueRead DEF GifTyped
  <2>4. /\ UNCHANGED <<app, area, carried>> /\ step' = [step EXCEPT ![Host] = "ready"]
        /\ at'["scale"] = at["scale"] /\ at'["copy"] = at["copy"]
        /\ at'["smooth"] = at["smooth"] /\ at'[Host] = 12 * (n - 1) + 9
        /\ reg'["sync"] = reg["sync"] /\ reg'["scaled"] = reg["scaled"]
        /\ reg'["copied"] = 0 /\ reg'["smoothed"] = reg["smoothed"]
        /\ hand'["scale"] = hand["scale"] /\ hand'["copy"] = hand["copy"]
        /\ hand'["smooth"] = hand["smooth"] /\ hand'[Host] = 0
    BY <1>1, <1>8, <2>2, <2>3 DEF Kept, GifTyped
  <2>5. GifControl(9, at["scale"], at["copy"], at["smooth"], reg["sync"], hand["smooth"],
                  reg["scaled"], reg["copied"], reg["smoothed"])'
    BY <1>8, <2>2, <2>4 DEF GifState, GifControl
  <2>6. GifPictures(Frames[n], 9, at["scale"], at["copy"], at["smooth"], reg["sync"],
                   hand["smooth"], reg["smoothed"], area)'
    BY <1>8, <2>2, <2>4 DEF GifState, GifControl, GifPictures
  <2>7. KeptApart
    BY <1>1, <2>2, <2>3, <2>4 DEF KeptApart, GifTyped
  <2>8. GifTyped'
    BY <2>4, GifTypesNext
  <2>9. GifMoved(n, 9)
    BY <2>2, <2>4, <2>5, <2>6 DEF GifMoved, GifState
  <2> QED BY <1>1, <1>2, <1>3, <1>8, <2>7, <2>8, <2>9, HostUnworked
<1>9. CASE r = 10 /\ reg["smoothed"] = 1
  <2>1. GifFrame(Frames[n])[10] = Wait("smoothed", 1)
    BY FrameInstructions
  <2>2. Instruction(Host) = Wait("smoothed", 1) /\ Advanced(Host) = 12 * (n - 1) + 11
        /\ at[Host] = 12 * (n - 1) + 10 /\ reg["smoothed"] \in 0 .. 1
    BY <1>2, <1>9, <2>1 DEF GifState, GifControl
  <2>3. Took(Host, "smoothed")
    BY <1>1, <1>4, <1>9, <2>2, ValueRead DEF GifTyped
  <2>4. /\ UNCHANGED <<app, area, carried>> /\ step' = [step EXCEPT ![Host] = "ready"]
        /\ at'["scale"] = at["scale"] /\ at'["copy"] = at["copy"]
        /\ at'["smooth"] = at["smooth"] /\ at'[Host] = 12 * (n - 1) + 11
        /\ reg'["sync"] = reg["sync"] /\ reg'["scaled"] = reg["scaled"]
        /\ reg'["copied"] = reg["copied"] /\ reg'["smoothed"] = 0
        /\ hand'["scale"] = hand["scale"] /\ hand'["copy"] = hand["copy"]
        /\ hand'["smooth"] = hand["smooth"] /\ hand'[Host] = hand[Host]
    BY <1>1, <1>9, <2>2, <2>3 DEF Took, GifTyped
  <2>5. GifControl(11, at["scale"], at["copy"], at["smooth"], reg["sync"], hand["smooth"],
                  reg["scaled"], reg["copied"], reg["smoothed"])'
    BY <1>9, <2>2, <2>4 DEF GifState, GifControl
  <2>6. GifPictures(Frames[n], 11, at["scale"], at["copy"], at["smooth"], reg["sync"],
                   hand["smooth"], reg["smoothed"], area)'
    BY <1>9, <2>2, <2>4 DEF GifState, GifControl, GifPictures
  <2>7. KeptApart
    BY <1>1, <2>2, <2>3, <2>4 DEF KeptApart, GifTyped
  <2>8. GifTyped'
    BY <2>4, GifTypesNext
  <2>9. GifMoved(n, 11)
    BY <2>2, <2>4, <2>5, <2>6 DEF GifMoved, GifState
  <2> QED BY <1>1, <1>2, <1>3, <1>9, <2>7, <2>8, <2>9, HostUnworked
<1>10. CASE r = 10 /\ reg["smoothed"] # 1
  <2>1. GifFrame(Frames[n])[10] = Wait("smoothed", 1)
    BY FrameInstructions
  <2>2. Instruction(Host) = Wait("smoothed", 1) /\ Advanced(Host) = 12 * (n - 1) + 11
        /\ at[Host] = 12 * (n - 1) + 10 /\ reg["smoothed"] \in 0 .. 1
    BY <1>2, <1>10, <2>1 DEF GifState, GifControl
  <2>3. Kept(Host, "smoothed")
    BY <1>1, <1>4, <1>10, <2>2, ValueRead DEF GifTyped
  <2>4. /\ UNCHANGED <<app, area, carried>> /\ step' = [step EXCEPT ![Host] = "ready"]
        /\ at'["scale"] = at["scale"] /\ at'["copy"] = at["copy"]
        /\ at'["smooth"] = at["smooth"] /\ at'[Host] = 12 * (n - 1) + 10
        /\ reg'["sync"] = reg["sync"] /\ reg'["scaled"] = reg["scaled"]
        /\ reg'["copied"] = reg["copied"] /\ reg'["smoothed"] = 0
        /\ hand'["scale"] = hand["scale"] /\ hand'["copy"] = hand["copy"]
        /\ hand'["smooth"] = hand["smooth"] /\ hand'[Host] = 0
    BY <1>1, <1>10, <2>2, <2>3 DEF Kept, GifTyped
  <2>5. GifControl(10, at["scale"], at["copy"], at["smooth"], reg["sync"], hand["smooth"],
                  reg["scaled"], reg["copied"], reg["smoothed"])'
    BY <1>10, <2>2, <2>4 DEF GifState, GifControl
  <2>6. GifPictures(Frames[n], 10, at["scale"], at["copy"], at["smooth"], reg["sync"],
                   hand["smooth"], reg["smoothed"], area)'
    BY <1>10, <2>2, <2>4 DEF GifState, GifControl, GifPictures
  <2>7. KeptApart
    BY <1>1, <2>2, <2>3, <2>4 DEF KeptApart, GifTyped
  <2>8. GifTyped'
    BY <2>4, GifTypesNext
  <2>9. GifMoved(n, 10)
    BY <2>2, <2>4, <2>5, <2>6 DEF GifMoved, GifState
  <2> QED BY <1>1, <1>2, <1>3, <1>10, <2>7, <2>8, <2>9, HostUnworked
<1>11. r \in {8, 9, 10}
  <2>1. GifFrame(Frames[n])[r].op = "wait"
    BY <1>2 DEF FinishRead, IsAt
  <2> QED BY <2>1, FrameOps
<1> QED BY <1>5, <1>6, <1>7, <1>8, <1>9, <1>10, <1>11

\* What a memcpy of the client copies, and to where it goes on.
GifCopies(n, r, from, into) ==
    \/ r = 1 /\ from = <<Frames[n]>> /\ into = <<"B1">>
    \/ r = 11 /\ from = <<"B3", "edge">> /\ into = <<Frames[n], "edge">>
    \/ r = 12 /\ from = <<"B3", "inside">> /\ into = <<Frames[n], "inside">>

LEMMA HostCopies ==
    ASSUME SoundInv, app = Gif, NEW n \in Nat, NEW r \in 1 .. 12,
           GifState(n, r), Running(Host), Instruction(Host).op = "work"
    PROVE  \E from, into : /\ GifCopies(n, r, from, into)
                           /\ Instruction(Host) = Work(from, {into}, <<>>)
<1>1. Instruction(Host) = GifFrame(Frames[n])[r] /\ r \in {1, 11, 12}
  BY HostNow, FrameOps
<1>2. CASE r = 1
  <2>1. GifFrame(Frames[n])[1] = Work(<<Frames[n]>>, {<<"B1">>}, <<>>)
    BY FrameInstructions
  <2> QED BY <1>1, <1>2, <2>1 DEF GifCopies
<1>3. CASE r = 11
  <2>1. GifFrame(Frames[n])[11] = Work(<<"B3", "edge">>, {<<Frames[n], "edge">>}, <<>>)
    BY FrameInstructions
  <2> QED BY <1>1, <1>3, <2>1 DEF GifCopies
<1>4. CASE r = 12
  <2>1. GifFrame(Frames[n])[12] = Work(<<"B3", "inside">>, {<<Frames[n], "inside">>}, <<>>)
    BY FrameInstructions
  <2> QED BY <1>1, <1>4, <2>1 DEF GifCopies
<1> QED BY <1>1, <1>2, <1>3, <1>4

LEMMA HostBeginsWork ==
    ASSUME SoundInv, SoundInv', app = Gif, NEW n \in Nat, NEW r \in 1 .. 12,
           GifState(n, r), BeginWork(Host)
    PROVE  GifState(n, r)' /\ KeptApart
<1>1. GifTyped
  BY GifTypes
<1>2. Running(Host) /\ Instruction(Host).op = "work"
  BY DEF BeginWork, IsAt
<1>3. n \in DOMAIN Frames
  BY <1>2, HostNow
<1>4. PICK from, into : /\ GifCopies(n, r, from, into)
                        /\ Instruction(Host) = Work(from, {into}, <<>>)
  BY <1>2, HostCopies
<1>5. Begun(Host, from)
  BY <1>4, WorkBegun
<1>6. /\ r = 1 => area[from] = <<Frames[n]>>
      /\ r = 11 => area[from] = Edge(Frames[n])
      /\ r = 12 => area[from] = Inside(Frames[n])
  <2>1. r = 1 => area[from] = <<Frames[n]>>
    <3>1. area[<<Frames[n]>>] = <<Frames[n]>>
      BY <1>3 DEF GifState, GifFiles
    <3> QED BY <1>4, <3>1 DEF GifCopies
  <2>2. r >= 11 => /\ area[<<"B3", "edge">>] = Edge(Frames[n])
                   /\ area[<<"B3", "inside">>] = Inside(Frames[n])
    BY DEF GifState, GifPictures, Edge, Inside
  <2>3. r = 11 => area[from] = Edge(Frames[n])
    BY <1>4, <2>2 DEF GifCopies
  <2>4. r = 12 => area[from] = Inside(Frames[n])
    BY <1>4, <2>2 DEF GifCopies
  <2> QED BY <2>1, <2>3, <2>4
<1>7. r = 1 \/ r = 11 \/ r = 12
  BY <1>4 DEF GifCopies
<1>8. GifWork(Frames[n], r)'
  <2>1. /\ step'["scale"] = step["scale"] /\ step'["copy"] = step["copy"]
        /\ step'["smooth"] = step["smooth"] /\ carried'["scale"] = carried["scale"]
        /\ carried'["copy"] = carried["copy"] /\ carried'["smooth"] = carried["smooth"]
        /\ carried'[Host] = area[from] /\ at' = at
    BY <1>1, <1>5 DEF Begun, GifTyped
  <2> QED BY <1>6, <1>7, <2>1 DEF GifState, GifWork
<1> QED BY <1>5, <1>8 DEF Begun, GifState, KeptApart

LEMMA HostEndsWork ==
    ASSUME SoundInv, SoundInv', app = Gif, NEW n \in Nat, NEW r \in 1 .. 12,
           GifState(n, r), FinishWork(Host)
    PROVE  GifInv' /\ KeptApart
<1>1. GifTyped
  BY GifTypes
<1>2. Running(Host) /\ Instruction(Host).op = "work" /\ step[Host] = "working"
  BY DEF FinishWork, IsAt
<1>3. /\ n \in DOMAIN Frames /\ n \in 1 .. Len(Frames) /\ Len(Frames) \in Nat
      /\ Advanced(Host) = 12 * (n - 1) + r + 1
  BY <1>2, HostNow
<1>4. PICK from, into : /\ GifCopies(n, r, from, into)
                        /\ Instruction(Host) = Work(from, {into}, <<>>)
  BY <1>2, HostCopies
<1> DEFINE made == carried[Host]
<1>5. Ended(Host, {into}, made)
  <2>1. made \o <<>> = made
    BY <1>1, NothingAppended DEF GifTyped
  <2> QED BY <1>4, <2>1, WorkEnded
<1>6. /\ r = 1 => made = <<Frames[n]>> /\ into = <<"B1">>
      /\ r = 11 => made = Edge(Frames[n]) /\ into = <<Frames[n], "edge">>
      /\ r = 12 => made = Inside(Frames[n]) /\ into = <<Frames[n], "inside">>
  BY <1>2, <1>4 DEF GifCopies, GifState, GifWork
<1>7. r = 1 \/ r = 11 \/ r = 12
  BY <1>4 DEF GifCopies
<1> HIDE DEF made
<1>8. /\ at'["scale"] = at["scale"] /\ at'["copy"] = at["copy"] /\ at'["smooth"] = at["smooth"]
      /\ at'[Host] = 12 * (n - 1) + r + 1 /\ UNCHANGED <<reg, hand>>
      /\ step'[Host] # "working" /\ step'["scale"] = step["scale"]
      /\ step'["copy"] = step["copy"] /\ step'["smooth"] = step["smooth"]
      /\ carried'["scale"] = carried["scale"] /\ carried'["copy"] = carried["copy"]
      /\ carried'["smooth"] = carried["smooth"]
  BY <1>1, <1>3, <1>5 DEF Ended, GifTyped
<1>9. \A s : GifWork(Frames[n], s)'
  BY <1>8 DEF GifState, GifWork
<1>10. \A b \in GifBuffers \cup FrameSet \cup Saved :
         area'[b] = IF b = into THEN made ELSE area[b]
  BY <1>1, <1>5 DEF Ended, GifTyped
<1>11. CASE r = 1
  <2>1. GifControl(2, at["scale"], at["copy"], at["smooth"], reg["sync"], hand["smooth"],
                  reg["scaled"], reg["copied"], reg["smoothed"])'
    BY <1>8, <1>11 DEF GifState, GifControl
  <2>2. area'[<<"B1">>] = <<Frames[n]>>
    BY <1>6, <1>10, <1>11 DEF GifBuffers
  <2>3. GifPictures(Frames[n], 2, at["scale"], at["copy"], at["smooth"], reg["sync"],
                   hand["smooth"], reg["smoothed"], area)'
    BY <1>8, <1>11, <2>2 DEF GifState, GifControl, GifPictures
  <2>4. GifFiles(n, 2, area)'
    <3>1. GifFiles(n, 2, area)
      BY <1>11 DEF GifState, GifFiles
    <3>2. \A b \in FrameSet \cup Saved : area'[b] = area[b]
      BY <1>6, <1>10, <1>11, AreaNames DEF GifBuffers
    <3> QED BY <3>1, <3>2, FilesKept
  <2>5. /\ n \in 1 .. Len(Frames) + 1 /\ (n = Len(Frames) + 1 => 2 = 1)
        /\ at'[Host] = 12 * (n - 1) + 2
    BY <1>3, <1>8, <1>11
  <2>6. GifState(n, 2)'
    BY <1>8, <1>9, <2>1, <2>3, <2>4, <2>5 DEF GifState
  <2> QED BY <1>5, <2>5, <2>6 DEF GifInv, Ended, KeptApart
<1>12. CASE r = 11
  <2>1. GifControl(12, at["scale"], at["copy"], at["smooth"], reg["sync"], hand["smooth"],
                  reg["scaled"], reg["copied"], reg["smoothed"])'
    BY <1>8, <1>12 DEF GifState, GifControl
  <2>2. \A b \in GifBuffers : area'[b] = area[b]
    BY <1>3, <1>6, <1>10, <1>12, AreaNames
  <2>3. GifPictures(Frames[n], 12, at["scale"], at["copy"], at["smooth"], reg["sync"],
                   hand["smooth"], reg["smoothed"], area)'
    <3>1. /\ area'[<<"B1">>] = area[<<"B1">>] /\ area'[<<"B2">>] = area[<<"B2">>]
          /\ area'[<<"B3", "edge">>] = area[<<"B3", "edge">>]
          /\ area'[<<"B3", "inside">>] = area[<<"B3", "inside">>]
      BY <2>2 DEF GifBuffers
    <3> QED BY <1>8, <1>12, <3>1 DEF GifState, GifControl, GifPictures
  <2>4. GifFiles(n, 12, area)'
    <3>1. ASSUME NEW j \in DOMAIN Frames
          PROVE  /\ area'[<<Frames[j]>>] = area[<<Frames[j]>>]
                 /\ area'[<<Frames[j], "inside">>] = area[<<Frames[j], "inside">>]
                 /\ \/ /\ Frames[j] = Frames[n]
                       /\ area'[<<Frames[j], "edge">>] = Edge(Frames[j])
                    \/ /\ Frames[j] # Frames[n]
                       /\ area'[<<Frames[j], "edge">>] = area[<<Frames[j], "edge">>]
      BY <1>3, <1>6, <1>10, <1>12, AreaNames
    <3> QED BY <1>12, <3>1 DEF GifState, GifFiles
  <2>5. /\ n \in 1 .. Len(Frames) + 1 /\ (n = Len(Frames) + 1 => 12 = 1)
        /\ at'[Host] = 12 * (n - 1) + 12
    BY <1>3, <1>8, <1>12
  <2>6. GifState(n, 12)'
    BY <1>8, <1>9, <2>1, <2>3, <2>4, <2>5 DEF GifState
  <2> QED BY <1>5, <2>5, <2>6 DEF GifInv, Ended, KeptApart
<1>13. CASE r = 12
  <2>1. /\ at["scale"] = 0 /\ at["copy"] = 0 /\ at["smooth"] = 0
        /\ reg["sync"] = 0 /\ hand["smooth"] = 0 /\ reg["smoothed"] = 0
    BY <1>13 DEF GifState, GifControl
  <2>2. GifControl(1, at["scale"], at["copy"], at["smooth"], reg["sync"], hand["smooth"],
                  reg["scaled"], reg["copied"], reg["smoothed"])'
    BY <1>8, <1>13, <2>1 DEF GifState, GifControl
  <2>3. GifPictures(Frames[n + 1], 1, at["scale"], at["copy"], at["smooth"], reg["sync"],
                   hand["smooth"], reg["smoothed"], area)'
    BY <1>8, <2>1 DEF GifPictures
  <2>4. GifFiles(n + 1, 1, area)'
    <3>1. ASSUME NEW j \in DOMAIN Frames
          PROVE  /\ area'[<<Frames[j]>>] = area[<<Frames[j]>>]
                 /\ area'[<<Frames[j], "edge">>] = area[<<Frames[j], "edge">>]
                 /\ \/ /\ Frames[j] = Frames[n]
                       /\ area'[<<Frames[j], "inside">>] = Inside(Frames[j])
                    \/ /\ Frames[j] # Frames[n]
                       /\ area'[<<Frames[j], "inside">>] = area[<<Frames[j], "inside">>]
      BY <1>3, <1>6, <1>10, <1>13, AreaNames
    <3>2. \A j \in DOMAIN Frames : j < n + 1 <=> j < n \/ j = n
      BY <1>3, ProgramsAssumption
    <3> QED BY <1>13, <3>1, <3>2 DEF GifState, GifFiles
  <2>5. /\ n + 1 \in 1 .. Len(Frames) + 1
        /\ at'[Host] = 12 * ((n + 1) - 1) + 1
    BY <1>3, <1>8, <1>13
  <2>6. GifWork(Frames[n + 1], 1)'
    <3>1. step["scale"] # "working" /\ step["copy"] # "working" /\ step["smooth"] # "working"
      BY <2>1 DEF GifState, GifWork
    <3> QED BY <1>8, <3>1 DEF GifWork
  <2>7. GifState(n + 1, 1)'
    BY <1>8, <2>2, <2>3, <2>4, <2>5, <2>6 DEF GifState
  <2> QED BY <1>5, <2>5, <2>7 DEF GifInv, Ended, KeptApart
<1> QED BY <1>7, <1>11, <1>12, <1>13

LEMMA StartsNothing ==
    ASSUME SoundInv, app = Gif, NEW n \in Nat, NEW r \in 1 .. 12, GifState(n, r),
           NEW p \in {"scale", "copy", "smooth"}
    PROVE  ~StartKernel(p)
<1> SUFFICES ASSUME StartKernel(p) PROVE FALSE
  OBVIOUS
<1>1. Running(p) /\ Instruction(p).op = "start"
  BY DEF StartKernel, IsAt
<1>2. at["scale"] \in 0 .. 3 /\ at["copy"] \in 0 .. 4 /\ at["smooth"] \in 0 .. 3
  BY DEF GifState, GifControl
<1>3. CASE p = "scale"
  BY <1>1, <1>2, <1>3, ScaleAt DEF Work, Write
<1>4. CASE p = "copy"
  BY <1>1, <1>2, <1>4, CopyAt DEF Work, Wait, Write
<1>5. CASE p = "smooth"
  BY <1>1, <1>2, <1>5, SmoothAt DEF Work, Wait, Write
<1> QED BY <1>3, <1>4, <1>5

LEMMA GifStep ==
    ASSUME SoundInv, SoundInv', app = Gif, GifInv, [Next]_vars
    PROVE  GifInv' /\ KeptApart
<1>1. PICK n \in 1 .. Len(Frames) + 1, r \in 1 .. 12 : GifState(n, r)
  BY DEF GifInv
<1>2. n \in Nat
  BY ProgramsAssumption
<1>3. GifState(n, r)' => GifInv'
  BY DEF GifInv
<1> DEFINE Goal == GifInv' /\ KeptApart
<1>4. ASSUME Quiet PROVE Goal
  BY <1>2, <1>1, <1>3, <1>4, GifQuiet
<1>5. ASSUME NEW p \in Processes, Running(p) PROVE p \in {Host, "scale", "copy", "smooth"}
  <2>1. p \in DOMAIN app.program
    BY <1>5, InstructionTyped DEF SoundInv, EventsInv
  <2> QED BY <2>1, GifApp
<1>6. ASSUME NEW p \in {"scale", "copy", "smooth"}, Step(p), ~Load(p) PROVE Goal
  <2>1. ~StartKernel(p)
    BY <1>1, <1>2, StartsNothing
  <2>2. CASE p = "scale"
    BY <1>1, <1>2, <1>3, <1>6, <2>1, <2>2, ScaleWorks, ScaleSignals DEF Step
  <2>3. CASE p = "copy"
    BY <1>1, <1>2, <1>3, <1>6, <2>1, <2>3, CopyWorks, CopySignals DEF Step
  <2>4. CASE p = "smooth"
    BY <1>1, <1>2, <1>3, <1>6, <2>1, <2>4, SmoothWorks, SmoothSignals DEF Step
  <2> QED BY <2>2, <2>3, <2>4
<1>7. ASSUME Step(Host), ~Load(Host) PROVE Goal
  <2>1. ~FinishRewrite(Host)
    BY <1>1 DEF FinishRewrite, GifState
  <2>2. CASE FinishWrite(Host)
    BY <1>1, <1>2, <2>2, HostWrites
  <2>3. CASE FinishRead(Host)
    BY <1>1, <1>2, <2>3, HostWaits
  <2>4. CASE StartKernel(Host)
    BY <1>1, <1>2, <2>4, HostStarts
  <2>5. CASE BeginWork(Host)
    BY <1>1, <1>2, <1>3, <2>5, HostBeginsWork
  <2>6. CASE FinishWork(Host)
    BY <1>1, <1>2, <2>6, HostEndsWork
  <2> QED BY <1>7, <2>1, <2>2, <2>3, <2>4, <2>5, <2>6 DEF Step
<1>8. ASSUME NEW p \in {"scale", "copy", "smooth"}, Crash(p) PROVE Goal
  BY <1>1, <1>2, <1>3, <1>8, KernelDies
<1>9. ASSUME NEW p \in Processes, Step(p) \/ Crash(p) PROVE Goal
  <2>1. Running(p)
    BY <1>9 DEF Step, Crash, Load, AtEvent, FinishWrite, FinishRead, FinishRewrite,
                StartKernel, BeginWork, FinishWork, IsAt
  <2>2. Crash(p) => p # Host
    BY DEF Crash
  <2>3. CASE Load(p)
    BY <1>4, <2>3, QuietSteps
  <2> QED BY <1>5, <1>6, <1>7, <1>8, <1>9, <2>1, <2>2, <2>3
<1>10. CASE \/ \E p \in Processes : Enter(p)
            \/ RecoverSem
            \/ UNCHANGED vars
  BY <1>4, <1>10, QuietSteps
<1> QED BY <1>9, <1>10 DEF Next

LEMMA GifStart == ASSUME Init, Intact, app = Gif PROVE GifInv
<1>1. SoundInv
  BY EventsInit DEF SoundInv
<1>2. GifTyped
  BY <1>1, GifTypes
<1>3. Frames \in Seq(STRING) /\ Len(Frames) \in Nat
  BY ProgramsAssumption
<1>4. /\ at[Host] = 1 /\ at["scale"] = 0 /\ at["copy"] = 0 /\ at["smooth"] = 0
      /\ \A p \in Processes : step[p] = "ready" /\ hand[p] = 0
  BY <1>2 DEF Init, GifTyped
<1>5. /\ hand[Host] = 0 /\ hand["scale"] = 0 /\ hand["copy"] = 0 /\ hand["smooth"] = 0
      /\ step[Host] = "ready" /\ step["scale"] = "ready" /\ step["copy"] = "ready"
      /\ step["smooth"] = "ready"
  BY <1>2, <1>4 DEF GifTyped
<1>6. reg["sync"] = 0 /\ reg["scaled"] = 0 /\ reg["copied"] = 0 /\ reg["smoothed"] = 0
  BY GifApp DEF Init, GifEvents
<1>7. GifControl(1, at["scale"], at["copy"], at["smooth"], reg["sync"], hand["smooth"],
                 reg["scaled"], reg["copied"], reg["smoothed"])
  BY <1>4, <1>5, <1>6 DEF GifControl
<1>8. GifPictures(Frames[1], 1, at["scale"], at["copy"], at["smooth"], reg["sync"],
                  hand["smooth"], reg["smoothed"], area)
  BY <1>4, <1>5, <1>6 DEF GifPictures
<1>9. GifFiles(1, 1, area)
  <2>1. ASSUME NEW j \in DOMAIN Frames
        PROVE  /\ area[<<Frames[j]>>] = <<Frames[j]>>
               /\ area[<<Frames[j], "edge">>] = <<>> /\ area[<<Frames[j], "inside">>] = <<>>
    BY AreaNames, GifApp DEF Init
  <2>2. \A j \in DOMAIN Frames : ~(j < 1)
    BY <1>3
  <2> QED BY <2>1, <2>2 DEF GifFiles
<1>10. GifWork(Frames[1], 1)
  BY <1>5 DEF GifWork
<1>11. 1 \in 1 .. Len(Frames) + 1 /\ at[Host] = 12 * (1 - 1) + 1
  BY <1>3, <1>4
<1>12. GifState(1, 1)
  BY <1>5, <1>7, <1>8, <1>9, <1>10, <1>11 DEF GifState
<1> QED BY <1>11, <1>12 DEF GifInv

LEMMA GifOneWorks ==
    ASSUME SoundInv, app = Gif, GifInv,
           NEW p \in Processes, NEW q \in Processes,
           IsAt(p, "work", "working"), IsAt(q, "work", "working")
    PROVE  p = q
<1>1. PICK n \in 1 .. Len(Frames) + 1, r \in 1 .. 12 : GifState(n, r)
  BY DEF GifInv
<1>2. ASSUME NEW k \in Processes, IsAt(k, "work", "working")
      PROVE  \/ k = Host /\ r \in {1, 11, 12}
             \/ k = "scale" /\ at["scale"] = 1
             \/ k = "copy" /\ at["copy"] = 2
             \/ k = "smooth" /\ at["smooth"] = 2
  <2>1. k \in DOMAIN app.program /\ step[k] = "working"
    BY <1>2, InstructionTyped DEF IsAt, SoundInv, EventsInv
  <2> QED BY <1>1, <2>1, GifApp DEF GifState, GifWork
<1> QED BY <1>1, <1>2 DEF GifState, GifControl

LEMMA GifNoRace == ASSUME SoundInv, app = Gif, GifInv PROVE NoDataRace
  BY GifOneWorks DEF NoDataRace, Using, Writing

LEMMA GifResults == ASSUME SoundInv, app = Gif, GifInv PROVE ResultsRight
<1>1. PICK n \in 1 .. Len(Frames) + 1, r \in 1 .. 12 : GifState(n, r)
  BY DEF GifInv
<1>2. Frames \in Seq(STRING) /\ Len(Frames) \in Nat
  BY ProgramsAssumption
<1> SUFFICES ASSUME NEW b \in DOMAIN app.result
             PROVE  \/ area[b] = app.result[b]
                    \/ area[b] = app.area[b] /\ at[Host] <= Len(app.program[Host])
  BY DEF ResultsRight
<1>3. b \in Saved /\ app.area[b] = <<>>
  BY GifApp, AreaNames
<1>4. PICK j \in DOMAIN Frames, part \in {"edge", "inside"} : b = <<Frames[j], part>>
  BY <1>3 DEF Saved
<1>5. app.result[b] = IF part = "edge" THEN Edge(Frames[j]) ELSE Inside(Frames[j])
  <2>1. app.result[b] = IF b[2] = "edge" THEN <<b[1], "scale", "copy">>
                                         ELSE <<b[1], "scale", "smooth">>
    BY <1>3, GifApp
  <2>2. b[1] = Frames[j] /\ b[2] = part
    BY <1>4
  <2> QED BY <2>1, <2>2 DEF Edge, Inside
<1>6. /\ area[b] \in {<<>>, app.result[b]}
      /\ j < n => area[b] = app.result[b]
  <2>1. GifFiles(n, r, area)
    BY <1>1 DEF GifState
  <2>2. CASE part = "edge"
    BY <1>4, <1>5, <2>1, <2>2 DEF GifFiles
  <2>3. CASE part = "inside"
    BY <1>4, <1>5, <2>1, <2>3 DEF GifFiles
  <2> QED BY <2>2, <2>3
<1>7. CASE n <= Len(Frames)
  <2>1. Running(Host)
    BY <1>1, <1>7, HostAt DEF GifState
  <2> QED BY <1>3, <1>6, <2>1 DEF Running
<1>8. CASE n = Len(Frames) + 1
  BY <1>2, <1>6, <1>8
<1> QED BY <1>7, <1>8, <1>2

-----------------------------------------------------------------------------
(* The programs of the matrix multiplication.                              *)

MatrixAreas == {<<"A", "B">>, <<"B1", "B2">>, <<"B3">>, <<"C">>}

LEMMA MatrixApp ==
    ASSUME app = Matrix
    PROVE  /\ DOMAIN app.program = {Host, "multiply"} /\ Host # "multiply"
           /\ app.program[Host] = MatrixHost
           /\ app.program["multiply"] = MatrixKernel
           /\ DOMAIN app.word = {"ended", "buffer"}
           /\ app.word["ended"] = 0 /\ app.word["buffer"] = 2
           /\ app.index["ended"] % 8 # 0 /\ app.index["buffer"] % 8 # 0
           /\ app.area = [b \in MatrixAreas |-> IF b = <<"A", "B">> THEN b ELSE <<>>]
           /\ DOMAIN app.result = {<<"C">>}
           /\ app.result[<<"C">>] = <<"A", "B", "multiply">>
<1>1. Host # "multiply"
  BY ProgramsAssumption
<1>2. /\ app.program = [p \in {Host, "multiply"} |->
                          IF p = Host THEN MatrixHost ELSE MatrixKernel]
      /\ app.index = [e \in {"ended", "buffer"} |-> IF e = "ended" THEN 1 ELSE 7]
      /\ app.word = [e \in {"ended", "buffer"} |-> IF e = "ended" THEN 0 ELSE 2]
      /\ app.area = [b \in MatrixAreas |-> IF b = <<"A", "B">> THEN b ELSE <<>>]
      /\ app.result = [b \in {<<"C">>} |-> <<"A", "B", "multiply">>]
  BY DEF Matrix, MatrixAreas
<1>3. /\ DOMAIN app.program = {Host, "multiply"}
      /\ app.program[Host] = MatrixHost
      /\ app.program["multiply"] = MatrixKernel
  BY <1>1, <1>2
<1>4. app.index["ended"] = 1 /\ app.index["buffer"] = 7
  BY <1>2
<1>5. app.index["ended"] % 8 # 0 /\ app.index["buffer"] % 8 # 0
  BY <1>4
<1> QED BY <1>1, <1>2, <1>3, <1>5

\* The types of a state of the multiplication.
MatrixTyped ==
    /\ {Host, "multiply"} \subseteq Processes /\ Host # "multiply"
    /\ at \in [Processes -> Nat]
    /\ step \in [Processes -> {"ready", "entered", "loaded", "working"}]
    /\ hand \in [Processes -> 0 .. Word - 1]
    /\ carried \in [Processes -> Seq(STRING)]
    /\ reg \in [{"ended", "buffer"} -> 0 .. Word - 1]
    /\ area \in [MatrixAreas -> Seq(STRING)]
    /\ Word \in Nat /\ Word > 2

LEMMA MatrixTypes ==
    ASSUME SoundInv, app = Matrix
    PROVE  MatrixTyped
<1>1. app \in Apps /\ TypeOK
  BY DEF SoundInv, EventsInv, TypeOK
<1>2. DOMAIN app.program \subseteq Processes
  BY <1>1 DEF Processes
<1>3. DOMAIN app.word = {"ended", "buffer"} /\ DOMAIN app.area = MatrixAreas
      /\ DOMAIN app.program = {Host, "multiply"} /\ Host # "multiply"
  BY MatrixApp
<1> QED BY <1>1, <1>2, <1>3, EventsAssumption DEF MatrixTyped, TypeOK

LEMMA MatrixHostAt ==
    ASSUME app = Matrix, at[Host] \in 1 .. 7
    PROVE  /\ Running(Host) <=> at[Host] # 7
           /\ at[Host] = 1 =>
                Instruction(Host) = Work(<<"A", "B">>, {<<"B1", "B2">>}, <<>>)
           /\ at[Host] = 2 => Instruction(Host) = Write("ended", 0)
           /\ at[Host] = 3 => Instruction(Host) = Start("multiply")
           /\ at[Host] = 4 => Instruction(Host) = Wait("buffer", 1)
           /\ at[Host] = 5 => Instruction(Host) = Work(<<"B3">>, {<<"C">>}, <<>>)
           /\ at[Host] = 6 => Instruction(Host) = Wait("ended", 1)
           /\ Advanced(Host) = at[Host] + 1
           /\ Len(app.program[Host]) = 6
<1>1. app.program[Host] = MatrixHost
  BY MatrixApp
<1>2. /\ Len(MatrixHost) = 6
      /\ MatrixHost[1] = Work(<<"A", "B">>, {<<"B1", "B2">>}, <<>>)
      /\ MatrixHost[2] = Write("ended", 0)
      /\ MatrixHost[3] = Start("multiply")
      /\ MatrixHost[4] = Wait("buffer", 1)
      /\ MatrixHost[5] = Work(<<"B3">>, {<<"C">>}, <<>>)
      /\ MatrixHost[6] = Wait("ended", 1)
  BY DEF MatrixHost, WriteToMemory, ReadFromMemory
<1> QED BY <1>1, <1>2 DEF Running, Instruction, Advanced

LEMMA MultiplyAt ==
    ASSUME app = Matrix, at["multiply"] \in 0 .. 4
    PROVE  /\ Running("multiply") <=> at["multiply"] # 0
           /\ at["multiply"] = 1 =>
                Instruction("multiply") = Work(<<"B1", "B2">>, {<<"B3">>}, <<"multiply">>)
           /\ at["multiply"] = 2 => Instruction("multiply") = Wait("buffer", 2)
           /\ at["multiply"] = 3 => Instruction("multiply") = Write("buffer", 1)
           /\ at["multiply"] = 4 => Instruction("multiply") = Write("ended", 1)
           /\ Advanced("multiply") = IF at["multiply"] = 4 THEN 0 ELSE at["multiply"] + 1
<1>1. app.program["multiply"] = MatrixKernel /\ Host # "multiply"
  BY MatrixApp
<1>2. /\ Len(MatrixKernel) = 4
      /\ MatrixKernel[1] = Work(<<"B1", "B2">>, {<<"B3">>}, <<"multiply">>)
      /\ MatrixKernel[2] = Wait("buffer", 2)
      /\ MatrixKernel[3] = Write("buffer", 1)
      /\ MatrixKernel[4] = Write("ended", 1)
  BY DEF MatrixKernel
<1> QED BY <1>1, <1>2 DEF Running, Instruction, Advanced

-----------------------------------------------------------------------------
(* Steps of the matrix multiplication.                                     *)

LEMMA MatrixQuiet ==
    ASSUME SoundInv, app = Matrix, MatrixInv, Quiet
    PROVE  MatrixInv' /\ KeptApart
<1>1. MatrixTyped
  BY MatrixTypes
<1>2. MatrixWork'
  BY <1>1 DEF MatrixInv, MatrixWork, Quiet, MatrixTyped
<1> QED BY <1>2 DEF MatrixInv, Quiet, KeptApart

\* An access of p to an event has ended, or p has started the kernel.
MatrixMoved(p) ==
    /\ UNCHANGED <<area, carried>>
    /\ step' = [step EXCEPT ![p] = "ready"]
    /\ \A q \in {Host, "multiply"} : q # p /\ at[q] # 0 => at'[q] = at[q]
    /\ MatrixControl(at[Host], at["multiply"], reg["buffer"], hand[Host], reg["ended"])'
    /\ hand'["multiply"] = 0

LEMMA MatrixUnworked ==
    ASSUME MatrixTyped, NEW p \in {Host, "multiply"}, step[p] # "working", MatrixInv,
           MatrixMoved(p), MatrixPictures(at[Host], at["multiply"], reg["buffer"], area)'
    PROVE  MatrixInv'
<1>1. MatrixWork /\ carried' = carried
  BY DEF MatrixInv, MatrixMoved
<1>2. /\ step'[Host] = "working" => step[Host] = "working" /\ p # Host
      /\ step'["multiply"] = "working" => step["multiply"] = "working" /\ p # "multiply"
  BY DEF MatrixTyped, MatrixMoved
<1>3. /\ step'[Host] = "working" => at'[Host] = at[Host]
      /\ step'["multiply"] = "working" => at'["multiply"] = at["multiply"]
  BY <1>1, <1>2 DEF MatrixMoved, MatrixWork
<1>4. MatrixWork'
  BY <1>1, <1>2, <1>3 DEF MatrixWork
<1> QED BY <1>4 DEF MatrixInv, MatrixMoved

LEMMA MultiplySignals ==
    ASSUME SoundInv, app = Matrix, MatrixInv,
           FinishWrite("multiply") \/ FinishRead("multiply") \/ FinishRewrite("multiply")
    PROVE  MatrixInv' /\ KeptApart
<1>1. MatrixTyped /\ "multiply" \in Processes
  BY MatrixTypes DEF MatrixTyped
<1>2. at[Host] \in 1 .. 7 /\ at["multiply"] \in 0 .. 4
  BY DEF MatrixInv, MatrixControl
<1>3. Running("multiply") /\ step["multiply"] # "working"
  BY DEF FinishWrite, FinishRead, FinishRewrite, IsAt
<1>4. \A e \in {"ended", "buffer"} : e \in DOMAIN reg /\ app.index[e] % 8 # 0
  BY <1>1, MatrixApp DEF MatrixTyped
<1>5. CASE FinishWrite("multiply") /\ at["multiply"] = 3
  <2>1. reg["buffer"] = 0 /\ Instruction("multiply") = Write("buffer", 1) /\ Advanced("multiply") = 4
    BY <1>2, <1>5, MultiplyAt DEF MatrixInv, MatrixControl
  <2>2. Wrote("multiply", "buffer", 1)
    BY <1>1, <1>4, <1>5, <2>1, ValueWritten
  <2>3. /\ UNCHANGED <<area, carried>> /\ step' = [step EXCEPT !["multiply"] = "ready"]
        /\ at'[Host] = at[Host] /\ at'["multiply"] = 4
        /\ reg'["buffer"] = 1 /\ reg'["ended"] = reg["ended"]
        /\ hand'[Host] = hand[Host] /\ hand'["multiply"] = hand["multiply"]
    BY <1>1, <1>5, <2>1, <2>2 DEF Wrote, MatrixTyped
  <2>4. MatrixControl(at[Host], at["multiply"], reg["buffer"], hand[Host], reg["ended"])'
    BY <1>5, <2>1, <2>3 DEF MatrixInv, MatrixControl
  <2>5. MatrixPictures(at[Host], at["multiply"], reg["buffer"], area)'
    BY <1>5, <2>1, <2>3 DEF MatrixInv, MatrixControl, MatrixPictures
  <2>6. KeptApart
    BY <1>1, <2>1, <2>2, <2>3 DEF KeptApart, MatrixTyped
  <2>7. MatrixMoved("multiply")
    BY <1>1, <2>1, <2>3, <2>4 DEF MatrixMoved, MatrixInv, MatrixTyped
  <2> QED BY <1>1, <1>3, <2>5, <2>6, <2>7, MatrixUnworked
<1>6. CASE FinishWrite("multiply") /\ at["multiply"] = 4
  <2>1. reg["ended"] = 0 /\ Instruction("multiply") = Write("ended", 1) /\ Advanced("multiply") = 0
    BY <1>2, <1>6, MultiplyAt DEF MatrixInv, MatrixControl
  <2>2. Wrote("multiply", "ended", 1)
    BY <1>1, <1>4, <1>6, <2>1, ValueWritten
  <2>3. /\ UNCHANGED <<area, carried>> /\ step' = [step EXCEPT !["multiply"] = "ready"]
        /\ at'[Host] = at[Host] /\ at'["multiply"] = 0
        /\ reg'["buffer"] = reg["buffer"] /\ reg'["ended"] = 1
        /\ hand'[Host] = hand[Host] /\ hand'["multiply"] = hand["multiply"]
    BY <1>1, <1>6, <2>1, <2>2 DEF Wrote, MatrixTyped
  <2>4. MatrixControl(at[Host], at["multiply"], reg["buffer"], hand[Host], reg["ended"])'
    BY <1>6, <2>1, <2>3 DEF MatrixInv, MatrixControl
  <2>5. MatrixPictures(at[Host], at["multiply"], reg["buffer"], area)'
    BY <1>6, <2>1, <2>3 DEF MatrixInv, MatrixControl, MatrixPictures
  <2>6. KeptApart
    BY <1>1, <2>1, <2>2, <2>3 DEF KeptApart, MatrixTyped
  <2>7. MatrixMoved("multiply")
    BY <1>1, <2>1, <2>3, <2>4 DEF MatrixMoved, MatrixInv, MatrixTyped
  <2> QED BY <1>1, <1>3, <2>5, <2>6, <2>7, MatrixUnworked
<1>7. ASSUME FinishRead("multiply")
      PROVE  at["multiply"] = 2 /\ Advanced("multiply") = 3
             /\ Instruction("multiply") = Wait("buffer", 2)
  <2>1. Instruction("multiply").op = "wait"
    BY <1>7 DEF FinishRead, IsAt
  <2>2. at["multiply"] = 2
    BY <1>2, <1>3, <2>1, MultiplyAt DEF Work, Write
  <2> QED BY <1>2, <2>2, MultiplyAt
<1>8. CASE FinishRead("multiply") /\ reg["buffer"] = 2
  <2>1. at["multiply"] = 2 /\ Advanced("multiply") = 3
    BY <1>7, <1>8
  <2>2. Took("multiply", "buffer")
    BY <1>1, <1>4, <1>7, <1>8, ValueRead
  <2>3. /\ UNCHANGED <<area, carried>> /\ step' = [step EXCEPT !["multiply"] = "ready"]
        /\ at'[Host] = at[Host] /\ at'["multiply"] = 3
        /\ reg'["buffer"] = 0 /\ reg'["ended"] = reg["ended"]
        /\ hand'[Host] = hand[Host] /\ hand'["multiply"] = hand["multiply"]
    BY <1>1, <1>8, <2>1, <2>2 DEF Took, MatrixTyped
  <2>4. MatrixControl(at[Host], at["multiply"], reg["buffer"], hand[Host], reg["ended"])'
    BY <1>8, <2>1, <2>3 DEF MatrixInv, MatrixControl
  <2>5. MatrixPictures(at[Host], at["multiply"], reg["buffer"], area)'
    BY <1>8, <2>1, <2>3 DEF MatrixInv, MatrixControl, MatrixPictures
  <2>6. KeptApart
    BY <1>1, <2>1, <2>2, <2>3 DEF KeptApart, MatrixTyped
  <2>7. MatrixMoved("multiply")
    BY <1>1, <2>1, <2>3, <2>4 DEF MatrixMoved, MatrixInv, MatrixTyped
  <2> QED BY <1>1, <1>3, <2>5, <2>6, <2>7, MatrixUnworked
<1>9. CASE FinishRead("multiply") /\ reg["buffer"] # 2
  <2>1. at["multiply"] = 2 /\ reg["buffer"] = 0
    BY <1>7, <1>9 DEF MatrixInv, MatrixControl
  <2>2. Kept("multiply", "buffer")
    BY <1>1, <1>4, <1>7, <1>9, ValueRead
  <2>3. /\ UNCHANGED <<area, carried>> /\ step' = [step EXCEPT !["multiply"] = "ready"]
        /\ at'[Host] = at[Host] /\ at'["multiply"] = at["multiply"]
        /\ reg'["buffer"] = 0 /\ reg'["ended"] = reg["ended"]
        /\ hand'[Host] = hand[Host] /\ hand'["multiply"] = 0
    BY <1>1, <1>9, <2>1, <2>2 DEF Kept, MatrixTyped
  <2>4. MatrixControl(at[Host], at["multiply"], reg["buffer"], hand[Host], reg["ended"])'
    BY <1>9, <2>1, <2>3 DEF MatrixInv, MatrixControl
  <2>5. MatrixPictures(at[Host], at["multiply"], reg["buffer"], area)'
    BY <1>9, <2>1, <2>3 DEF MatrixInv, MatrixControl, MatrixPictures
  <2>6. KeptApart
    BY <1>1, <2>1, <2>2, <2>3 DEF KeptApart, MatrixTyped
  <2>7. MatrixMoved("multiply")
    BY <1>1, <2>1, <2>3, <2>4 DEF MatrixMoved, MatrixInv, MatrixTyped
  <2> QED BY <1>1, <1>3, <2>5, <2>6, <2>7, MatrixUnworked
<1>10. ~FinishRewrite("multiply")
  BY DEF FinishRewrite, MatrixInv
<1>11. FinishWrite("multiply") => at["multiply"] = 3 \/ at["multiply"] = 4
  <2> SUFFICES ASSUME FinishWrite("multiply") PROVE at["multiply"] = 3 \/ at["multiply"] = 4
    OBVIOUS
  <2>1. Instruction("multiply").op = "write"
    BY DEF FinishWrite, IsAt
  <2> QED BY <1>2, <1>3, <2>1, MultiplyAt DEF Work, Wait
<1> QED BY <1>5, <1>6, <1>8, <1>9, <1>10, <1>11

LEMMA MatrixHostSignals ==
    ASSUME SoundInv, app = Matrix, MatrixInv,
           FinishWrite(Host) \/ FinishRead(Host) \/ FinishRewrite(Host)
    PROVE  MatrixInv' /\ KeptApart
<1>1. MatrixTyped /\ Host \in Processes
  BY MatrixTypes DEF MatrixTyped
<1>2. at[Host] \in 1 .. 7 /\ at["multiply"] \in 0 .. 4
  BY DEF MatrixInv, MatrixControl
<1>3. Running(Host) /\ step[Host] # "working"
  BY DEF FinishWrite, FinishRead, FinishRewrite, IsAt
<1>4. \A e \in {"ended", "buffer"} : e \in DOMAIN reg /\ app.index[e] % 8 # 0
  BY <1>1, MatrixApp DEF MatrixTyped
<1>5. CASE FinishWrite(Host)
  <2>1. at[Host] = 2 /\ Instruction(Host) = Write("ended", 0) /\ Advanced(Host) = 3
    <3>1. Instruction(Host).op = "write"
      BY <1>5 DEF FinishWrite, IsAt
    <3>2. at[Host] = 2
      BY <1>2, <1>3, <3>1, MatrixHostAt DEF Work, Wait, Start
    <3> QED BY <1>2, <3>2, MatrixHostAt
  <2>2. Wrote(Host, "ended", reg["ended"])
    BY <1>1, <1>4, <1>5, <2>1, NothingWritten DEF MatrixTyped
  <2>3. /\ UNCHANGED <<area, carried>> /\ step' = [step EXCEPT ![Host] = "ready"]
        /\ at'[Host] = 3 /\ at'["multiply"] = at["multiply"]
        /\ reg'["buffer"] = reg["buffer"] /\ reg'["ended"] = reg["ended"]
        /\ hand'[Host] = hand[Host] /\ hand'["multiply"] = hand["multiply"]
    BY <1>1, <1>5, <2>1, <2>2 DEF Wrote, MatrixTyped
  <2>4. MatrixControl(at[Host], at["multiply"], reg["buffer"], hand[Host], reg["ended"])'
    BY <1>5, <2>1, <2>3 DEF MatrixInv, MatrixControl
  <2>5. MatrixPictures(at[Host], at["multiply"], reg["buffer"], area)'
    BY <1>5, <2>1, <2>3 DEF MatrixInv, MatrixControl, MatrixPictures
  <2>6. KeptApart
    BY <1>1, <2>1, <2>2, <2>3 DEF KeptApart, MatrixTyped
  <2>7. MatrixMoved(Host)
    BY <1>1, <2>1, <2>3, <2>4 DEF MatrixMoved, MatrixInv, MatrixTyped
  <2> QED BY <1>1, <1>3, <2>5, <2>6, <2>7, MatrixUnworked
<1>6. ASSUME FinishRead(Host) \/ FinishRewrite(Host)
      PROVE  \/ at[Host] = 4 /\ Advanced(Host) = 5 /\ Instruction(Host) = Wait("buffer", 1)
             \/ at[Host] = 6 /\ Advanced(Host) = 7 /\ Instruction(Host) = Wait("ended", 1)
  <2>1. Instruction(Host).op = "wait"
    BY <1>6 DEF FinishRead, FinishRewrite, IsAt
  <2>2. at[Host] = 4 \/ at[Host] = 6
    BY <1>2, <1>3, <2>1, MatrixHostAt DEF Work, Write, Start
  <2> QED BY <1>2, <2>2, MatrixHostAt
<1>7. CASE FinishRead(Host) /\ at[Host] = 4 /\ reg["buffer"] = 1
  <2>1. Instruction(Host) = Wait("buffer", 1) /\ Advanced(Host) = 5
    BY <1>6, <1>7
  <2>2. Took(Host, "buffer")
    BY <1>1, <1>4, <1>7, <2>1, ValueRead
  <2>3. /\ UNCHANGED <<area, carried>> /\ step' = [step EXCEPT ![Host] = "ready"]
        /\ at'[Host] = 5 /\ at'["multiply"] = at["multiply"]
        /\ reg'["buffer"] = 0 /\ reg'["ended"] = reg["ended"]
        /\ hand'[Host] = hand[Host] /\ hand'["multiply"] = hand["multiply"]
    BY <1>1, <1>7, <2>1, <2>2 DEF Took, MatrixTyped
  <2>4. MatrixControl(at[Host], at["multiply"], reg["buffer"], hand[Host], reg["ended"])'
    BY <1>7, <2>1, <2>3 DEF MatrixInv, MatrixControl
  <2>5. MatrixPictures(at[Host], at["multiply"], reg["buffer"], area)'
    BY <1>7, <2>1, <2>3 DEF MatrixInv, MatrixControl, MatrixPictures
  <2>6. KeptApart
    BY <1>1, <2>1, <2>2, <2>3 DEF KeptApart, MatrixTyped
  <2>7. MatrixMoved(Host)
    BY <1>1, <2>1, <2>3, <2>4 DEF MatrixMoved, MatrixInv, MatrixTyped
  <2> QED BY <1>1, <1>3, <2>5, <2>6, <2>7, MatrixUnworked
<1>8. CASE FinishRead(Host) /\ at[Host] = 4 /\ reg["buffer"] # 1
  <2>1. Instruction(Host) = Wait("buffer", 1) /\ reg["buffer"] \in {0, 2}
    BY <1>6, <1>8 DEF MatrixInv, MatrixControl
  <2>2. Kept(Host, "buffer") /\ hand[Host] = 0
    BY <1>1, <1>4, <1>8, <2>1, ValueRead DEF Kept
  <2>3. /\ UNCHANGED <<area, carried>> /\ step' = [step EXCEPT ![Host] = "ready"]
        /\ at'[Host] = at[Host] /\ at'["multiply"] = at["multiply"]
        /\ reg'["buffer"] = 0 /\ reg'["ended"] = reg["ended"]
        /\ hand'[Host] = reg["buffer"] /\ hand'["multiply"] = hand["multiply"]
    BY <1>1, <1>8, <2>1, <2>2 DEF Kept, MatrixTyped
  <2>4. MatrixControl(at[Host], at["multiply"], reg["buffer"], hand[Host], reg["ended"])'
    BY <1>8, <2>1, <2>2, <2>3 DEF MatrixInv, MatrixControl
  <2>5. MatrixPictures(at[Host], at["multiply"], reg["buffer"], area)'
    BY <1>8, <2>1, <2>2, <2>3 DEF MatrixInv, MatrixControl, MatrixPictures
  <2>6. KeptApart
    BY <1>1, <2>1, <2>2, <2>3 DEF KeptApart, MatrixTyped
  <2>7. MatrixMoved(Host)
    BY <1>1, <2>1, <2>3, <2>4 DEF MatrixMoved, MatrixInv, MatrixTyped
  <2> QED BY <1>1, <1>3, <2>5, <2>6, <2>7, MatrixUnworked
<1>9. CASE FinishRewrite(Host) /\ at[Host] = 4
  <2>1. Instruction(Host) = Wait("buffer", 1) /\ reg["buffer"] = 0 /\ hand[Host] = 2
    BY <1>6, <1>9 DEF FinishRewrite, MatrixInv, MatrixControl
  <2>2. PutBack(Host, "buffer")
    BY <1>1, <1>4, <1>9, <2>1, ValueRewritten DEF MatrixTyped
  <2>3. /\ UNCHANGED <<area, carried>> /\ step' = [step EXCEPT ![Host] = "ready"]
        /\ at'[Host] = at[Host] /\ at'["multiply"] = at["multiply"]
        /\ reg'["buffer"] = 2 /\ reg'["ended"] = reg["ended"]
        /\ hand'[Host] = 0 /\ hand'["multiply"] = hand["multiply"]
    BY <1>1, <1>9, <2>1, <2>2 DEF PutBack, MatrixTyped
  <2>4. MatrixControl(at[Host], at["multiply"], reg["buffer"], hand[Host], reg["ended"])'
    BY <1>9, <2>1, <2>3 DEF MatrixInv, MatrixControl
  <2>5. MatrixPictures(at[Host], at["multiply"], reg["buffer"], area)'
    BY <1>9, <2>1, <2>3 DEF MatrixInv, MatrixControl, MatrixPictures
  <2>6. KeptApart
    BY <1>1, <2>1, <2>2, <2>3 DEF KeptApart, MatrixTyped
  <2>7. MatrixMoved(Host)
    BY <1>1, <2>1, <2>3, <2>4 DEF MatrixMoved, MatrixInv, MatrixTyped
  <2> QED BY <1>1, <1>3, <2>5, <2>6, <2>7, MatrixUnworked
<1>10. CASE FinishRead(Host) /\ at[Host] = 6 /\ reg["ended"] = 1
  <2>1. Instruction(Host) = Wait("ended", 1) /\ Advanced(Host) = 7
    BY <1>6, <1>10
  <2>2. Took(Host, "ended")
    BY <1>1, <1>4, <1>10, <2>1, ValueRead
  <2>3. /\ UNCHANGED <<area, carried>> /\ step' = [step EXCEPT ![Host] = "ready"]
        /\ at'[Host] = 7 /\ at'["multiply"] = at["multiply"]
        /\ reg'["buffer"] = reg["buffer"] /\ reg'["ended"] = 0
        /\ hand'[Host] = hand[Host] /\ hand'["multiply"] = hand["multiply"]
    BY <1>1, <1>10, <2>1, <2>2 DEF Took, MatrixTyped
  <2>4. MatrixControl(at[Host], at["multiply"], reg["buffer"], hand[Host], reg["ended"])'
    BY <1>10, <2>1, <2>3 DEF MatrixInv, MatrixControl
  <2>5. MatrixPictures(at[Host], at["multiply"], reg["buffer"], area)'
    BY <1>10, <2>1, <2>3 DEF MatrixInv, MatrixControl, MatrixPictures
  <2>6. KeptApart
    BY <1>1, <2>1, <2>2, <2>3 DEF KeptApart, MatrixTyped
  <2>7. MatrixMoved(Host)
    BY <1>1, <2>1, <2>3, <2>4 DEF MatrixMoved, MatrixInv, MatrixTyped
  <2> QED BY <1>1, <1>3, <2>5, <2>6, <2>7, MatrixUnworked
<1>11. CASE FinishRead(Host) /\ at[Host] = 6 /\ reg["ended"] # 1
  <2>1. Instruction(Host) = Wait("ended", 1) /\ reg["ended"] = 0
    BY <1>6, <1>11 DEF MatrixInv, MatrixControl
  <2>2. Kept(Host, "ended")
    BY <1>1, <1>4, <1>11, <2>1, ValueRead
  <2>3. /\ UNCHANGED <<area, carried>> /\ step' = [step EXCEPT ![Host] = "ready"]
        /\ at'[Host] = at[Host] /\ at'["multiply"] = at["multiply"]
        /\ reg'["buffer"] = reg["buffer"] /\ reg'["ended"] = 0
        /\ hand'[Host] = 0 /\ hand'["multiply"] = hand["multiply"]
    BY <1>1, <1>11, <2>1, <2>2 DEF Kept, MatrixTyped
  <2>4. MatrixControl(at[Host], at["multiply"], reg["buffer"], hand[Host], reg["ended"])'
    BY <1>11, <2>1, <2>3 DEF MatrixInv, MatrixControl
  <2>5. MatrixPictures(at[Host], at["multiply"], reg["buffer"], area)'
    BY <1>11, <2>1, <2>3 DEF MatrixInv, MatrixControl, MatrixPictures
  <2>6. KeptApart
    BY <1>1, <2>1, <2>2, <2>3 DEF KeptApart, MatrixTyped
  <2>7. MatrixMoved(Host)
    BY <1>1, <2>1, <2>3, <2>4 DEF MatrixMoved, MatrixInv, MatrixTyped
  <2> QED BY <1>1, <1>3, <2>5, <2>6, <2>7, MatrixUnworked
<1>12. FinishRewrite(Host) => at[Host] # 6
  BY DEF FinishRewrite, MatrixInv, MatrixControl
<1> QED BY <1>5, <1>6, <1>7, <1>8, <1>9, <1>10, <1>11, <1>12

LEMMA MatrixHostStarts ==
    ASSUME SoundInv, app = Matrix, MatrixInv,
           StartKernel(Host)
    PROVE  MatrixInv' /\ KeptApart
<1>1. MatrixTyped /\ Host \in Processes
  BY MatrixTypes DEF MatrixTyped
<1>2. at[Host] \in 1 .. 7 /\ at["multiply"] \in 0 .. 4
  BY DEF MatrixInv, MatrixControl
<1>3. step[Host] # "working"
  BY DEF StartKernel, IsAt
<1>4. at[Host] = 3
  <2>1. Running(Host) /\ Instruction(Host).op = "start"
    BY DEF StartKernel, IsAt
  <2> QED BY <1>2, <2>1, MatrixHostAt DEF Work, Wait, Write
<1>5. Instruction(Host).kernel = "multiply" /\ Advanced(Host) = 4
  BY <1>2, <1>4, MatrixHostAt DEF Start
<1>6. at["multiply"] = 0 /\ at' = [at EXCEPT ![Host] = 4, !["multiply"] = 1]
  BY <1>5 DEF StartKernel
<1>7. /\ UNCHANGED <<area, carried>> /\ step' = [step EXCEPT ![Host] = "ready"]
      /\ at'[Host] = 4 /\ at'["multiply"] = 1
      /\ reg'["buffer"] = reg["buffer"] /\ reg'["ended"] = reg["ended"]
      /\ hand'[Host] = hand[Host] /\ hand'["multiply"] = hand["multiply"]
  BY <1>1, <1>5, <1>6 DEF StartKernel, IsAt, MatrixTyped
<1>8. MatrixControl(at[Host], at["multiply"], reg["buffer"], hand[Host], reg["ended"])'
  BY <1>4, <1>6, <1>7 DEF MatrixInv, MatrixControl
<1>9. MatrixPictures(at[Host], at["multiply"], reg["buffer"], area)'
  BY <1>4, <1>6, <1>7 DEF MatrixInv, MatrixControl, MatrixPictures
<1>10. KeptApart
  BY DEF StartKernel, KeptApart
<1>11. MatrixMoved(Host)
  BY <1>1, <1>6, <1>7, <1>8 DEF MatrixMoved, MatrixInv, MatrixTyped
<1> QED BY <1>1, <1>3, <1>9, <1>10, <1>11, MatrixUnworked

LEMMA MatrixNames ==
    /\ <<"A", "B">> # <<"B1", "B2">> /\ <<"A", "B">> # <<"B3">> /\ <<"A", "B">> # <<"C">>
    /\ <<"B1", "B2">> # <<"B3">> /\ <<"B1", "B2">> # <<"C">> /\ <<"B3">> # <<"C">>
  OBVIOUS

\* What the work of a process at its instruction i works on, and what it makes.
MatrixWorks(p, from, into, by, made) ==
    \/ /\ p = Host /\ at[Host] = 1
       /\ from = <<"A", "B">> /\ into = <<"B1", "B2">> /\ by = <<>> /\ made = <<"A", "B">>
    \/ /\ p = Host /\ at[Host] = 5
       /\ from = <<"B3">> /\ into = <<"C">> /\ by = <<>> /\ made = <<"A", "B", "multiply">>
    \/ /\ p = "multiply" /\ at["multiply"] = 1
       /\ from = <<"B1", "B2">> /\ into = <<"B3">> /\ by = <<"multiply">>
       /\ made = <<"A", "B", "multiply">>

LEMMA MatrixWorkOf ==
    ASSUME app = Matrix, MatrixInv, NEW p \in {Host, "multiply"}, Running(p),
           Instruction(p).op = "work"
    PROVE  \E from, into, by, made : /\ MatrixWorks(p, from, into, by, made)
                                     /\ Instruction(p) = Work(from, {into}, by)
<1>1. at[Host] \in 1 .. 7 /\ at["multiply"] \in 0 .. 4 /\ Host # "multiply"
  BY MatrixApp DEF MatrixInv, MatrixControl
<1>2. CASE p = Host
  <2>1. at[Host] = 1 \/ at[Host] = 5
    BY <1>1, <1>2, MatrixHostAt DEF Write, Wait, Start
  <2>2. /\ at[Host] = 1 => Instruction(Host) = Work(<<"A", "B">>, {<<"B1", "B2">>}, <<>>)
        /\ at[Host] = 5 => Instruction(Host) = Work(<<"B3">>, {<<"C">>}, <<>>)
    BY <1>1, MatrixHostAt
  <2> QED BY <1>2, <2>1, <2>2 DEF MatrixWorks
<1>3. CASE p = "multiply"
  <2>1. at["multiply"] = 1
    BY <1>1, <1>3, MultiplyAt DEF Write, Wait
  <2>2. Instruction("multiply") = Work(<<"B1", "B2">>, {<<"B3">>}, <<"multiply">>)
    BY <1>1, <2>1, MultiplyAt
  <2> QED BY <1>3, <2>1, <2>2 DEF MatrixWorks
<1> QED BY <1>2, <1>3

LEMMA MatrixBeginsWork ==
    ASSUME SoundInv, app = Matrix, MatrixInv, NEW p \in {Host, "multiply"}, BeginWork(p)
    PROVE  MatrixInv' /\ KeptApart
<1>1. MatrixTyped
  BY MatrixTypes
<1>2. PICK from, into, by, made : /\ MatrixWorks(p, from, into, by, made)
                                  /\ Instruction(p) = Work(from, {into}, by)
  BY MatrixWorkOf DEF BeginWork, IsAt
<1>3. Begun(p, from)
  BY <1>2, WorkBegun
<1>4. area[from] = IF p = Host /\ at[Host] = 5 THEN <<"A", "B", "multiply">> ELSE <<"A", "B">>
  <2>1. /\ area[<<"A", "B">>] = <<"A", "B">>
        /\ at["multiply"] = 1 => area[<<"B1", "B2">>] = <<"A", "B">>
        /\ at[Host] = 5 => area[<<"B3">>] = <<"A", "B", "multiply">>
    BY DEF MatrixInv, MatrixPictures, MatrixControl
  <2>2. Host # "multiply" /\ (at[Host] = 1 => at[Host] # 5)
    BY <1>1 DEF MatrixTyped
  <2>3. CASE p = Host /\ at[Host] = 1 /\ from = <<"A", "B">>
    BY <2>1, <2>2, <2>3
  <2>4. CASE p = Host /\ at[Host] = 5 /\ from = <<"B3">>
    BY <2>1, <2>4
  <2>5. CASE p = "multiply" /\ at["multiply"] = 1 /\ from = <<"B1", "B2">>
    BY <2>1, <2>2, <2>5
  <2> QED BY <1>2, <2>3, <2>4, <2>5 DEF MatrixWorks
<1>5. MatrixWork'
  <2>1. CASE p = Host
    BY <1>1, <1>2, <1>3, <1>4, <2>1 DEF MatrixWorks, Begun, MatrixInv, MatrixWork, MatrixTyped
  <2>2. CASE p = "multiply"
    BY <1>1, <1>2, <1>3, <1>4, <2>2 DEF MatrixWorks, Begun, MatrixInv, MatrixWork, MatrixTyped
  <2> QED BY <2>1, <2>2
<1> QED BY <1>3, <1>5 DEF Begun, MatrixInv, KeptApart

LEMMA MatrixEndsWork ==
    ASSUME SoundInv, app = Matrix, MatrixInv, NEW p \in {Host, "multiply"}, FinishWork(p)
    PROVE  MatrixInv' /\ KeptApart
<1>1. MatrixTyped
  BY MatrixTypes
<1>2. PICK from, into, by, made : /\ MatrixWorks(p, from, into, by, made)
                                  /\ Instruction(p) = Work(from, {into}, by)
  BY MatrixWorkOf DEF FinishWork, IsAt
<1>3. carried[p] \o by = made
  <2>1. /\ at[Host] = 1 /\ step[Host] = "working" => carried[Host] = <<"A", "B">>
        /\ at[Host] = 5 /\ step[Host] = "working"
             => carried[Host] = <<"A", "B", "multiply">>
        /\ step["multiply"] = "working" => carried["multiply"] = <<"A", "B">>
    BY DEF MatrixInv, MatrixWork
  <2>2. step[p] = "working"
    BY DEF FinishWork, IsAt
  <2>3. CASE p = Host
    <3>1. carried[p] \o <<>> = carried[p]
      BY <1>1, NothingAppended DEF MatrixTyped
    <3>2. by = <<>> /\ carried[p] = made
      <4>1. Host # "multiply"
        BY <1>1 DEF MatrixTyped
      <4> QED BY <1>2, <2>1, <2>2, <2>3, <4>1 DEF MatrixWorks
    <3> QED BY <3>1, <3>2, Zenon
  <2>4. CASE p = "multiply"
    <3>1. carried[p] = <<"A", "B">> /\ by = <<"multiply">> /\ made = <<"A", "B", "multiply">>
      <4>1. Host # "multiply"
        BY <1>1 DEF MatrixTyped
      <4> QED BY <1>2, <2>1, <2>2, <2>4, <4>1 DEF MatrixWorks
    <3>2. <<"A", "B">> \o <<"multiply">> = <<"A", "B", "multiply">>
      BY TuplesAppended, Zenon
    <3> QED BY <3>1, <3>2, Zenon
  <2> QED BY <2>3, <2>4
<1>4. Ended(p, {into}, made)
  BY <1>2, <1>3, WorkEnded
<1>5. /\ UNCHANGED <<reg, hand>>
      /\ step'[p] = "ready" /\ at'[p] = Advanced(p)
      /\ \A q \in {Host, "multiply"} \ {p} :
           at'[q] = at[q] /\ step'[q] = step[q] /\ carried'[q] = carried[q]
      /\ \A b \in MatrixAreas : area'[b] = IF b = into THEN made ELSE area[b]
  BY <1>1, <1>4 DEF Ended, MatrixTyped
<1>6. at[Host] \in 1 .. 7 /\ at["multiply"] \in 0 .. 4
  BY DEF MatrixInv, MatrixControl
<1>7. CASE p = Host /\ at[Host] = 1
  <2>1. at'[Host] = 2 /\ at'["multiply"] = at["multiply"] /\ at["multiply"] = 0
    BY <1>1, <1>5, <1>6, <1>7, MatrixHostAt DEF MatrixTyped, MatrixInv, MatrixControl
  <2>2. MatrixControl(at[Host], at["multiply"], reg["buffer"], hand[Host], reg["ended"])'
    BY <1>5, <1>7, <2>1 DEF MatrixInv, MatrixControl
  <2>3. /\ area'[<<"A", "B">>] = area[<<"A", "B">>] /\ area'[<<"B1", "B2">>] = <<"A", "B">>
        /\ area'[<<"B3">>] = area[<<"B3">>] /\ area'[<<"C">>] = area[<<"C">>]
    BY <1>1, <1>2, <1>5, <1>7, MatrixNames DEF MatrixAreas, MatrixWorks, MatrixTyped
  <2>4. MatrixPictures(at[Host], at["multiply"], reg["buffer"], area)'
    BY <1>5, <1>7, <2>1, <2>3 DEF MatrixInv, MatrixControl, MatrixPictures
  <2>5. MatrixWork'
    BY <1>1, <1>5, <1>7, <2>1 DEF MatrixInv, MatrixWork, MatrixTyped
  <2> QED BY <1>5, <2>2, <2>4, <2>5 DEF MatrixInv, KeptApart
<1>8. CASE p = Host /\ at[Host] = 5
  <2>1. at'[Host] = 6 /\ at'["multiply"] = at["multiply"] /\ at["multiply"] \in {0, 4}
    BY <1>1, <1>5, <1>6, <1>8, MatrixHostAt DEF MatrixTyped, MatrixInv, MatrixControl
  <2>2. MatrixControl(at[Host], at["multiply"], reg["buffer"], hand[Host], reg["ended"])'
    BY <1>5, <1>8, <2>1 DEF MatrixInv, MatrixControl
  <2>3. /\ area'[<<"A", "B">>] = area[<<"A", "B">>]
        /\ area'[<<"B1", "B2">>] = area[<<"B1", "B2">>]
        /\ area'[<<"B3">>] = area[<<"B3">>] /\ area'[<<"C">>] = <<"A", "B", "multiply">>
    BY <1>1, <1>2, <1>5, <1>8, MatrixNames DEF MatrixAreas, MatrixWorks, MatrixTyped
  <2>4. MatrixPictures(at[Host], at["multiply"], reg["buffer"], area)'
    BY <1>5, <1>8, <2>1, <2>3 DEF MatrixInv, MatrixControl, MatrixPictures
  <2>5. MatrixWork'
    BY <1>1, <1>5, <1>8, <2>1 DEF MatrixInv, MatrixWork, MatrixTyped
  <2> QED BY <1>5, <2>2, <2>4, <2>5 DEF MatrixInv, KeptApart
<1>9. CASE p = "multiply" /\ at["multiply"] = 1
  <2>1. at'["multiply"] = 2 /\ at'[Host] = at[Host] /\ at[Host] = 4
    BY <1>1, <1>5, <1>6, <1>9, MultiplyAt DEF MatrixTyped, MatrixInv, MatrixControl
  <2>2. MatrixControl(at[Host], at["multiply"], reg["buffer"], hand[Host], reg["ended"])'
    BY <1>5, <1>9, <2>1 DEF MatrixInv, MatrixControl
  <2>3. /\ area'[<<"A", "B">>] = area[<<"A", "B">>]
        /\ area'[<<"B1", "B2">>] = area[<<"B1", "B2">>]
        /\ area'[<<"B3">>] = <<"A", "B", "multiply">> /\ area'[<<"C">>] = area[<<"C">>]
    BY <1>1, <1>2, <1>5, <1>9, MatrixNames DEF MatrixAreas, MatrixWorks, MatrixTyped
  <2>4. MatrixPictures(at[Host], at["multiply"], reg["buffer"], area)'
    BY <1>5, <1>9, <2>1, <2>3 DEF MatrixInv, MatrixControl, MatrixPictures
  <2>5. MatrixWork'
    BY <1>1, <1>5, <1>9, <2>1 DEF MatrixInv, MatrixWork, MatrixTyped
  <2> QED BY <1>5, <2>2, <2>4, <2>5 DEF MatrixInv, KeptApart
<1> QED BY <1>2, <1>7, <1>8, <1>9 DEF MatrixWorks

LEMMA MultiplyDies ==
    ASSUME SoundInv, app = Matrix, MatrixInv, Crash("multiply")
    PROVE  MatrixInv' /\ KeptApart
<1>1. MatrixTyped
  BY MatrixTypes
<1>2. /\ UNCHANGED <<reg, area>>
      /\ at'[Host] = at[Host] /\ at'["multiply"] = 0
      /\ hand'[Host] = hand[Host] /\ hand'["multiply"] = 0
      /\ step'[Host] = step[Host] /\ step'["multiply"] = "ready"
      /\ carried'[Host] = carried[Host]
  BY <1>1 DEF Crash, MatrixTyped
<1>3. MatrixWork'
  BY <1>2 DEF MatrixInv, MatrixWork
<1>4. MatrixControl(at[Host], at["multiply"], reg["buffer"], hand[Host], reg["ended"])'
  BY <1>2 DEF MatrixInv, MatrixControl
<1>5. MatrixPictures(at[Host], at["multiply"], reg["buffer"], area)'
  BY <1>2 DEF MatrixInv, MatrixControl, MatrixPictures
<1> QED BY <1>2, <1>3, <1>4, <1>5 DEF MatrixInv, KeptApart

LEMMA MatrixStep ==
    ASSUME SoundInv, app = Matrix, MatrixInv, [Next]_vars
    PROVE  MatrixInv' /\ KeptApart
<1> DEFINE Goal == MatrixInv' /\ KeptApart
<1>1. ASSUME Quiet PROVE Goal
  BY <1>1, MatrixQuiet
<1>2. ASSUME Step("multiply"), ~Load("multiply") PROVE Goal
  <2>1. ~StartKernel("multiply")
    <3> SUFFICES ASSUME StartKernel("multiply") PROVE FALSE
      OBVIOUS
    <3>1. Running("multiply") /\ Instruction("multiply").op = "start"
      BY DEF StartKernel, IsAt
    <3>2. at["multiply"] \in 0 .. 4
      BY DEF MatrixInv, MatrixControl
    <3> QED BY <3>1, <3>2, MultiplyAt DEF Work, Wait, Write
  <2>2. CASE FinishWrite("multiply") \/ FinishRead("multiply") \/ FinishRewrite("multiply")
    BY <2>2, MultiplySignals
  <2>3. CASE BeginWork("multiply") \/ FinishWork("multiply")
    BY <2>3, MatrixBeginsWork, MatrixEndsWork
  <2> QED BY <1>2, <2>1, <2>2, <2>3 DEF Step
<1>3. ASSUME Step(Host), ~Load(Host) PROVE Goal
  <2>1. CASE FinishWrite(Host) \/ FinishRead(Host) \/ FinishRewrite(Host)
    BY <2>1, MatrixHostSignals
  <2>2. CASE StartKernel(Host)
    BY <2>2, MatrixHostStarts
  <2>3. CASE BeginWork(Host) \/ FinishWork(Host)
    BY <2>3, MatrixBeginsWork, MatrixEndsWork
  <2> QED BY <1>3, <2>1, <2>2, <2>3 DEF Step
<1>4. ASSUME NEW p \in Processes, Step(p) \/ Crash(p) PROVE Goal
  <2>1. Running(p)
    BY <1>4 DEF Step, Crash, Load, AtEvent, FinishWrite, FinishRead, FinishRewrite,
                StartKernel, BeginWork, FinishWork, IsAt
  <2>2. p = Host \/ p = "multiply"
    BY <2>1, InstructionTyped, MatrixApp DEF SoundInv, EventsInv
  <2>3. Crash(p) => p # Host
    BY DEF Crash
  <2>4. CASE Load(p)
    BY <1>1, <2>4, QuietSteps
  <2>5. CASE Crash(p)
    BY <2>2, <2>3, <2>5, MultiplyDies
  <2> QED BY <1>2, <1>3, <1>4, <2>2, <2>4, <2>5
<1>5. CASE \/ \E p \in Processes : Enter(p)
           \/ RecoverSem
           \/ UNCHANGED vars
  BY <1>1, <1>5, QuietSteps
<1> QED BY <1>4, <1>5 DEF Next

LEMMA MatrixStart == ASSUME Init, Intact, app = Matrix PROVE MatrixInv
<1>1. MatrixTyped
  BY EventsInit, MatrixTypes DEF SoundInv
<1>2. /\ at[Host] = 1 /\ at["multiply"] = 0 /\ hand[Host] = 0 /\ hand["multiply"] = 0
      /\ step[Host] = "ready" /\ step["multiply"] = "ready"
  BY <1>1 DEF Init, MatrixTyped
<1>3. /\ reg["buffer"] = 2 /\ reg["ended"] = 0
      /\ area[<<"A", "B">>] = <<"A", "B">> /\ area[<<"C">>] = <<>>
  BY MatrixApp, MatrixNames DEF Init, MatrixAreas
<1> QED BY <1>2, <1>3 DEF MatrixInv, MatrixControl, MatrixPictures, MatrixWork

LEMMA MatrixNoRace == ASSUME SoundInv, app = Matrix, MatrixInv PROVE NoDataRace
<1>1. ASSUME NEW p \in Processes, IsAt(p, "work", "working")
      PROVE  \/ p = Host /\ at[Host] \in {1, 5}
             \/ p = "multiply" /\ at["multiply"] = 1
  <2>1. p \in DOMAIN app.program /\ step[p] = "working"
    BY <1>1, InstructionTyped DEF IsAt, SoundInv, EventsInv
  <2> QED BY <2>1, MatrixApp DEF MatrixInv, MatrixWork
<1>2. ASSUME NEW p \in Processes, NEW q \in Processes,
             IsAt(p, "work", "working"), IsAt(q, "work", "working")
      PROVE  p = q
  BY <1>1, <1>2 DEF MatrixInv, MatrixControl
<1> QED BY <1>2 DEF NoDataRace, Using, Writing

LEMMA MatrixResults == ASSUME SoundInv, app = Matrix, MatrixInv PROVE ResultsRight
<1>1. /\ DOMAIN app.result = {<<"C">>} /\ app.result[<<"C">>] = <<"A", "B", "multiply">>
      /\ app.area[<<"C">>] = <<>>
  BY MatrixApp, MatrixNames DEF MatrixAreas
<1>2. at[Host] \in 1 .. 7
  BY DEF MatrixInv, MatrixControl
<1>3. Len(app.program[Host]) = 6
  BY <1>2, MatrixHostAt
<1>4. \A b \in DOMAIN app.result : \/ area[b] = app.result[b]
                                   \/ area[b] = app.area[b] /\ at[Host] <= Len(app.program[Host])
  BY <1>1, <1>2, <1>3 DEF MatrixInv, MatrixPictures
<1> QED BY <1>4 DEF ResultsRight

-----------------------------------------------------------------------------
(* The theorems about the programs.                                        *)

LEMMA AppStays == [Next]_vars => app' = app
  BY DEF Next, vars, Enter, Step, Load, FinishWrite, FinishRead, FinishRewrite, Store,
         StartKernel, BeginWork, FinishWork, Crash, RecoverSem

LEMMA ProgramsNext ==
    ASSUME SoundInv, SoundInv', ProgramsInv, [Next]_vars
    PROVE  ProgramsInv' /\ (app \in {Gif, Matrix} => KeptApart)
  BY AppStays, GifStep, MatrixStep DEF ProgramsInv

\* What the theorems below follow from.
Inv == EventsInv /\ (Intact => ProgramsInv)

LEMMA InvInit == Init => Inv
  BY EventsInit, GifStart, MatrixStart DEF Inv, ProgramsInv

LEMMA InvStep ==
    ASSUME Inv, [Next]_vars
    PROVE  Inv' /\ (Intact' /\ app \in {Gif, Matrix} => KeptApart)
<1>1. EventsInv'
  BY EventsStep DEF Inv
<1>2. CASE Intact'
  <2>1. SoundInv /\ SoundInv' /\ ProgramsInv
    BY <1>1, <1>2, SpareStays DEF Inv, SoundInv, EventsInv
  <2> QED BY <1>1, <2>1, ProgramsNext DEF Inv
<1> QED BY <1>1, <1>2 DEF Inv

\* NoDataRace (the buffers of the animation and of the multiplication): whatever
\* the number of frames, the order of the processes' steps and the kernels that
\* die, no process works on an area that another one writes.
THEOREM NoDataRaceEver == Apps \subseteq {Gif, Matrix} => (Spec => []NoDataRace)
<1> SUFFICES ASSUME Apps \subseteq {Gif, Matrix} PROVE Spec => []NoDataRace
  OBVIOUS
<1>1. Inv /\ [Next]_vars => Inv'
  BY InvStep
<1>2. Inv => NoDataRace
  <2>1. ~Intact => NoDataRace
    BY DEF NoDataRace
  <2> QED BY <2>1, GifNoRace, MatrixNoRace
          DEF Inv, SoundInv, EventsInv, TypeOK, ProgramsInv
<1> QED BY <1>1, <1>2, InvInit, PTL DEF Spec

\* ResultsRight (what the clients save): it was made by every kernel in its turn
\* from what the client wrote, and a client that has ended has all of it.
THEOREM ResultsAreRight == Apps \subseteq {Gif, Matrix} => (Spec => []ResultsRight)
<1> SUFFICES ASSUME Apps \subseteq {Gif, Matrix} PROVE Spec => []ResultsRight
  OBVIOUS
<1>1. Inv /\ [Next]_vars => Inv'
  BY InvStep
<1>2. Inv => ResultsRight
  <2>1. ~Intact => ResultsRight
    BY DEF ResultsRight
  <2> QED BY <2>1, GifResults, MatrixResults
          DEF Inv, SoundInv, EventsInv, TypeOK, ProgramsInv
<1> QED BY <1>1, <1>2, InvInit, PTL DEF Spec

\* ValuesKeptApart (write_sync_register adds): the protocols of the two clients
\* write a value only to a register that holds 0.
THEOREM ValuesStayApart == Apps \subseteq {Gif, Matrix} => (Spec => ValuesKeptApart)
<1> SUFFICES ASSUME Apps \subseteq {Gif, Matrix} PROVE Spec => ValuesKeptApart
  OBVIOUS
<1>1. Inv /\ [Next]_vars => Inv'
  BY InvStep
<1>2. Inv /\ [Next]_vars
        => [Intact' => \A e \in DOMAIN reg : reg[e] # 0 => reg'[e] \in {0, reg[e]}]_vars
  BY InvStep DEF Inv, EventsInv, TypeOK, KeptApart
<1> QED BY <1>1, <1>2, InvInit, PTL DEF Spec, ValuesKeptApart
=============================================================================
