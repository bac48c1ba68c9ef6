------------------------------ MODULE GNEvents -------------------------------
(***************************************************************************)
(* How a client and its kernels synchronise on GN: processes that share    *)
(* the device memory and access the sync registers in it under one named   *)
(* semaphore (write_sync_register and read_sync_register of gn/manager.cpp *)
(* and the loops of test/event_utils.cpp).  A process executes a program   *)
(* of instructions: it starts a kernel, which is a process of its own,     *)
(* writes an event, waits for a value of one, or works on areas of memory. *)
(*                                                                         *)
(* The kernels' side of the registers (mango_wait, mango_write_            *)
(* synchronization and mango_close of libgn) is not part of the            *)
(* repository; it is taken to be that of the host.                         *)
(***************************************************************************)
EXTENDS Integers, Sequences

CONSTANTS
    Host,           \* the client; the other processes are kernels
    Apps,           \* the applications: records with
                    \*   program : [processes -> Seq(instructions)]
                    \*   index   : the register of each event
                    \*   word    : what allocation has left in them
                    \*   area    : the areas of memory and what they hold
                    \*   result  : what the client is to end with in some areas
    Word,           \* registers are uint32_t: 2^32, scaled down
    MaxCrashes,     \* bound: kernels that die
    MaxSpare        \* bound: posts nobody waits for

\* The instructions.
Start(k)        == [op |-> "start", kernel |-> k]
Write(e, v)     == [op |-> "write", event |-> e, value |-> v]
Wait(e, v)      == [op |-> "wait", event |-> e, value |-> v]
\* Reads an area and writes what it makes of it to other areas.
Work(from, into, by) == [op |-> "work", from |-> from, into |-> into, by |-> by]

\* memcpy to a buffer and from it.
WriteToMemory(data, buffer) == Work(data, {buffer}, <<>>)
ReadFromMemory(buffer, data) == Work(buffer, {data}, <<>>)

\* Host and kernels take what they use from the arguments and names of the app.
InstructionsOf(a) ==
         [op : {"start"}, kernel : DOMAIN a.program \ {Host}]
    \cup [op : {"write"}, event : DOMAIN a.word, value : 0 .. Word - 1]
    \cup [op : {"wait"}, event : DOMAIN a.word, value : 1 .. Word - 1]
    \cup [op : {"work"}, from : DOMAIN a.area, into : SUBSET DOMAIN a.area,
          by : Seq(STRING)]

ASSUME EventsAssumption ==
    /\ Word \in Nat /\ Word > 2
    /\ MaxCrashes \in Nat /\ MaxSpare \in Nat
    /\ \A a \in Apps :
         /\ Host \in DOMAIN a.program
         /\ \A p \in DOMAIN a.program :
              /\ a.program[p] \in Seq(InstructionsOf(a))
              /\ a.program[p] # <<>>
         /\ a.index \in [DOMAIN a.word -> Nat]
         /\ a.word \in [DOMAIN a.word -> 0 .. Word - 1]
         /\ a.area \in [DOMAIN a.area -> Seq(STRING)]
         /\ DOMAIN a.result \subseteq DOMAIN a.area

VARIABLES
    app,        \* the application that runs, one of Apps
    reg,        \* the registers of its events
    sem,        \* the value of MANGO_SEMAPHORE
    at,         \* each process' next instruction; 0: it does not run
    step,       \* where it is in an access to a register, or in its work
    seen,       \* the word it has loaded from the register
    hand,       \* a value it did not wait for and has not yet written back
    area,       \* what the areas of memory hold
    carried,    \* what it works on
    crashes,    \* how many kernels have died
    orphaned,   \* how many died in between sem_wait and sem_post
    spare       \* how often the semaphore was posted for none of them

vars == <<app, reg, sem, at, step, seen, hand, area, carried, crashes, orphaned, spare>>

Processes == UNION {DOMAIN a.program : a \in Apps}
Instruction(p) == app.program[p][at[p]]
Running(p) == at[p] # 0 /\ at[p] <= Len(app.program[p])

\* Process p is at an instruction of a kind, at some point of it.
IsAt(p, op, s) == Running(p) /\ Instruction(p).op = op /\ step[p] = s

AtEvent(p) == Running(p) /\ Instruction(p).op \in {"write", "wait"}
EventOf(p) == Instruction(p).event

\* sem_open makes the semaphore with a value of 1, or opens the one there is, as
\* earlier programs have left it: taken by a process that died, or posted too often.
Init ==
    /\ app \in Apps
    /\ reg = app.word
    /\ sem \in 0 .. 1 + MaxSpare
    /\ orphaned = IF sem = 0 THEN 1 ELSE 0
    /\ spare = IF sem = 0 THEN 0 ELSE sem - 1
    /\ at = [p \in Processes |-> IF p = Host THEN 1 ELSE 0]
    /\ step = [p \in Processes |-> "ready"]
    /\ seen = [p \in Processes |-> 0]
    /\ hand = [p \in Processes |-> 0]
    /\ area = app.area
    /\ carried = [p \in Processes |-> <<>>]
    /\ crashes = 0

\* To the next instruction; after the last one a kernel's process exits.
Advanced(p) ==
    IF p # Host /\ at[p] = Len(app.program[p]) THEN 0 ELSE at[p] + 1

-----------------------------------------------------------------------------
(* The semaphore and the registers.                                        *)

\* A faulty variant: the register is accessed without the semaphore.
EnterFreely(p) ==
    /\ AtEvent(p) /\ step[p] = "ready"
    /\ step' = [step EXCEPT ![p] = "entered"]
    /\ UNCHANGED <<app, reg, sem, at, seen, hand, area, carried, crashes, orphaned, spare>>

\* sem_wait.
Enter(p) ==
    /\ AtEvent(p) /\ step[p] = "ready"
    /\ sem > 0
    /\ sem' = sem - 1
    /\ step' = [step EXCEPT ![p] = "entered"]
    /\ UNCHANGED <<app, reg, at, seen, hand, area, carried, crashes, orphaned, spare>>

\* mem[reg_address] is read, by a read and by a write that adds to it.
Load(p) ==
    /\ AtEvent(p) /\ step[p] = "entered"
    /\ seen' = [seen EXCEPT ![p] = reg[EventOf(p)]]
    /\ step' = [step EXCEPT ![p] = "loaded"]
    /\ UNCHANGED <<app, reg, sem, at, hand, area, carried, crashes, orphaned, spare>>

\* A write adds to the register, except to one register in eight.
AfterWrite(e, old, v) == IF app.index[e] % 8 # 0 THEN (old + v) % Word ELSE v

\* The word is stored and the semaphore posted.
Store(p, word) ==
    /\ step[p] = "loaded"
    /\ reg' = [reg EXCEPT ![EventOf(p)] = word]
    /\ sem' = sem + 1
    /\ step' = [step EXCEPT ![p] = "ready"]
    /\ UNCHANGED <<app, seen, area, carried, crashes, orphaned, spare>>

\* event_utils' write, and mango_write_synchronization.
FinishWrite(p) ==
    /\ IsAt(p, "write", "loaded")
    /\ Store(p, AfterWrite(EventOf(p), seen[p], Instruction(p).value))
    /\ at' = [at EXCEPT ![p] = Advanced(p)]
    /\ UNCHANGED hand

\* A faulty variant: a value the process did not wait for is dropped.
FinishReadDrops(p) ==
    /\ IsAt(p, "wait", "loaded")
    /\ hand[p] = 0
    /\ Store(p, 0)
    /\ IF seen[p] = Instruction(p).value
       THEN at' = [at EXCEPT ![p] = Advanced(p)] ELSE UNCHANGED at
    /\ UNCHANGED hand

\* A read of wait and lock: the register is left at 0.  On 0 the process reads
\* again, on the value it waits for it goes on, any other value it keeps to
\* write it back.
FinishRead(p) ==
    /\ IsAt(p, "wait", "loaded")
    /\ hand[p] = 0
    /\ Store(p, 0)
    /\ \/ /\ seen[p] = Instruction(p).value
          /\ at' = [at EXCEPT ![p] = Advanced(p)]
          /\ UNCHANGED hand
       \/ /\ seen[p] # Instruction(p).value
          /\ hand' = [hand EXCEPT ![p] = seen[p]]
          /\ UNCHANGED at

\* "Rewrite the value so it is not lost".
FinishRewrite(p) ==
    /\ IsAt(p, "wait", "loaded")
    /\ hand[p] # 0
    /\ Store(p, AfterWrite(EventOf(p), seen[p], hand[p]))
    /\ hand' = [hand EXCEPT ![p] = 0]
    /\ UNCHANGED at

-----------------------------------------------------------------------------
(* Kernels and memory.                                                     *)

\* kernel_start forks; whatever becomes of the kernel, the call returns OK.  A
\* program starts a kernel again only after its last run has ended.
StartKernel(p) ==
    /\ IsAt(p, "start", "ready")
    /\ LET k == Instruction(p).kernel
       IN  /\ at[k] = 0
           /\ at' = [at EXCEPT ![p] = Advanced(p), ![k] = 1]
    /\ UNCHANGED <<app, reg, sem, step, seen, hand, area, carried, crashes, orphaned, spare>>

BeginWork(p) ==
    /\ IsAt(p, "work", "ready")
    /\ carried' = [carried EXCEPT ![p] = area[Instruction(p).from]]
    /\ step' = [step EXCEPT ![p] = "working"]
    /\ UNCHANGED <<app, reg, sem, at, seen, hand, area, crashes, orphaned, spare>>

FinishWork(p) ==
    /\ IsAt(p, "work", "working")
    /\ area' = [b \in DOMAIN area |-> IF b \in Instruction(p).into
                                      THEN carried[p] \o Instruction(p).by
                                      ELSE area[b]]
    /\ carried' = [carried EXCEPT ![p] = <<>>]
    /\ at' = [at EXCEPT ![p] = Advanced(p)]
    /\ step' = [step EXCEPT ![p] = "ready"]
    /\ UNCHANGED <<app, reg, sem, seen, hand, crashes, orphaned, spare>>

-----------------------------------------------------------------------------
(* A kernel is a program of the user's: it may die anywhere.               *)

InSection(p) == step[p] \in {"entered", "loaded"}

Crash(p) ==
    /\ p # Host /\ Running(p)
    /\ crashes < MaxCrashes
    /\ crashes' = crashes + 1
    /\ orphaned' = IF InSection(p) THEN orphaned + 1 ELSE orphaned
    /\ at' = [at EXCEPT ![p] = 0]
    /\ step' = [step EXCEPT ![p] = "ready"]
    /\ hand' = [hand EXCEPT ![p] = 0]
    /\ carried' = [carried EXCEPT ![p] = <<>>]
    /\ UNCHANGED <<app, reg, sem, seen, area, spare>>

\* A faulty variant: the semaphore is recovered whenever a kernel has died.
RecoverSemAfterCrash ==
    /\ crashes > 0 /\ sem = 0
    /\ sem' = sem + 1
    /\ UNCHANGED <<app, reg, at, step, seen, hand, area, carried, crashes, orphaned, spare>>

\* utils/recover_sem posts the semaphore, for a process that died holding it or
\* for none: it does not look.
RecoverSem ==
    /\ sem' = sem + 1
    /\ \/ /\ orphaned > 0
          /\ orphaned' = orphaned - 1
          /\ UNCHANGED spare
       \/ /\ orphaned = 0 /\ spare < MaxSpare
          /\ spare' = spare + 1
          /\ UNCHANGED orphaned
    /\ UNCHANGED <<app, reg, at, step, seen, hand, area, carried, crashes>>

-----------------------------------------------------------------------------
Step(p) ==
    \/ Load(p) \/ FinishWrite(p) \/ FinishRead(p) \/ FinishRewrite(p)
    \/ StartKernel(p) \/ BeginWork(p) \/ FinishWork(p)

Next ==
    \/ \E p \in Processes : Enter(p) \/ Step(p) \/ Crash(p)
    \/ RecoverSem

Spec == Init /\ [][Next]_vars

-----------------------------------------------------------------------------
TypeOK ==
    /\ app \in Apps
    /\ reg \in [DOMAIN app.word -> 0 .. Word - 1]
    /\ sem \in Nat /\ (spare = 0 => sem \in {0, 1})
    /\ at \in [Processes -> Nat]
    /\ step \in [Processes -> {"ready", "entered", "loaded", "working"}]
    /\ seen \in [Processes -> 0 .. Word - 1]
    /\ hand \in [Processes -> 0 .. Word - 1]
    /\ area \in [DOMAIN app.area -> Seq(STRING)]
    /\ carried \in [Processes -> Seq(STRING)]
    /\ crashes \in 0 .. MaxCrashes /\ orphaned \in 0 .. crashes + 1
    /\ spare \in 0 .. MaxSpare

\* The rest is promised as long as the semaphore is posted only for processes
\* that died holding it: one post more lets two processes in at once.
Intact == spare = 0

\* No access to a register is lost or seen twice: between its load and its store
\* no other process changes the register (manager.cpp:279-287, 302-312), also
\* after a kernel has died in there and the semaphore was recovered.
RegistersAtomic ==
    \A p \in Processes : step[p] = "loaded" => seen[p] = reg[EventOf(p)]

AccessesAtomic == Intact => RegistersAtomic

\* The values of an event are never added up: in the protocols of the clients a
\* value is written only to a register that holds 0, so that a waiter can tell
\* it (event_utils.cpp:41-44 writes back what manager.cpp:282 adds).
ValuesKeptApart ==
    [][Intact' => \A e \in DOMAIN reg : reg[e] # 0 => reg'[e] \in {0, reg[e]}]_vars

\* No process works on an area that another one writes.
Using(p) ==
    IF IsAt(p, "work", "working")
    THEN {Instruction(p).from} \cup Instruction(p).into ELSE {}
Writing(p) == IF IsAt(p, "work", "working") THEN Instruction(p).into ELSE {}

NoDataRace ==
    Intact => \A p, q \in Processes : p # q => Using(p) \cap Writing(q) = {}

\* What the client reads from a buffer was made from what it wrote, by every
\* kernel in its turn, and when it ends it has read all of it.
ResultsRight ==
    Intact => \A b \in DOMAIN app.result :
                \/ area[b] = app.result[b]
                \/ area[b] = app.area[b] /\ at[Host] <= Len(app.program[Host])

\* What a process waits for is there, in the register of the event or kept by a
\* waiter for another value, who is to write it back.
InReach(p) ==
    LET e == EventOf(p)
        keepers == {q \in Processes : IsAt(q, "wait", step[q]) /\ EventOf(q) = e}
    IN  Instruction(p).value \in {reg[e]} \cup {hand[q] : q \in keepers}

\* Process p has something to do other than to poll an event.
CanGoOn(p) ==
    /\ Running(p)
    /\ Instruction(p).op = "start" => at[Instruction(p).kernel] = 0
    /\ Instruction(p).op = "wait" => InReach(p)

\* Host and kernels never all wait for each other: until the client has ended,
\* unless a kernel has died, one of them can go on, since no value is lost between
\* the waiters that take it and write it back (event_utils.cpp:37-46); and the
\* semaphore is free, or taken by one who will post it, or by one who died.
SomeoneCanGoOn ==
    Intact => /\ \/ crashes > 0
                 \/ at[Host] > Len(app.program[Host])
                 \/ \E p \in Processes : CanGoOn(p)
              /\ sem > 0 \/ orphaned > 0 \/ \E p \in Processes : InSection(p)
=============================================================================
