------------------------ MODULE NvidiaManager_proofs ------------------------
(***************************************************************************)
(* The safety of launches for any number of threads and kernels: TypeOK,   *)
(* LaunchAccounted, LaunchesValid and NothingLeft of NvidiaManager.        *)
(***************************************************************************)
EXTENDS NvidiaManager, FiniteSetTheorems, TLAPS

Runs(w, k) == pc[w] = "run" /\ task[w] = k

\* LaunchAccounted without cardinalities: a started kernel is in one place of
\* the queue, or on one worker, or reported; another kernel is in none.
OnePlace(k) ==
    /\ \A i, j \in DOMAIN queue : queue[i] = k /\ queue[j] = k => i = j
    /\ \A v, w \in Workers : Runs(v, k) /\ Runs(w, k) => v = w
    /\ \A i \in DOMAIN queue, w \in Workers : queue[i] = k => ~Runs(w, k)
    /\ Signalled(k) => \A i \in DOMAIN queue : queue[i] # k
    /\ Signalled(k) => \A w \in Workers : ~Runs(w, k)
    /\ \/ Signalled(k)
       \/ \E i \in DOMAIN queue : queue[i] = k
       \/ \E w \in Workers : Runs(w, k)
       => client[k] = "started"
    /\ client[k] = "started" =>
         \/ Signalled(k)
         \/ \E i \in DOMAIN queue : queue[i] = k
         \/ \E w \in Workers : Runs(w, k)

Places == \A k \in Kernels : OnePlace(k)

Ready == {"written", "reset", "started", "seen"}

\* What there is of a kernel, by how far its client is.
Extent(k) ==
    /\ k \in kernel_info <=>
         client[k] \notin {"none", "kernel deassigned", "memory released",
                           "buffer deassigned", "event released"}
    /\ k \in buffer_info <=>
         client[k] \notin {"none", "kernel assigned", "buffer deassigned",
                           "event released"}
    /\ client[k] \in Ready \cup {"event assigned", "event allocated"} => k \in event_info
    /\ client[k] \in {"none", "kernel assigned", "buffer assigned", "memory allocated"}
         => k \notin event_info
    /\ client[k] \in Ready \cup {"event allocated"} => k \in Registered
    /\ client[k] \in {"none", "kernel assigned", "buffer assigned", "memory allocated",
                      "event assigned", "event released"} => k \notin Registered
    /\ client[k] \in Ready \cup {"memory allocated", "event assigned", "event allocated"}
         => "buffer" \in device[k]
    /\ client[k] \in Ready => "code" \in device[k]
    /\ client[k] \in {"kernel released", "kernel deassigned"} => device[k] \subseteq {"buffer"}
    /\ client[k] \in {"none", "kernel assigned", "buffer assigned", "memory released",
                      "buffer deassigned", "event released"} => device[k] = {}
    /\ destroyed => client[k] # "started"

Extents == \A k \in Kernels : Extent(k)

LaunchInv == TypeOK /\ Places /\ Extents

-----------------------------------------------------------------------------
\* Sequences as functions from places.
LEMMA AppendPlaces ==
    ASSUME NEW T, NEW q \in Seq(T), NEW t \in T
    PROVE  /\ Append(q, t) \in Seq(T)
           /\ DOMAIN q = 1 .. Len(q) /\ Len(q) \in Nat
           /\ DOMAIN Append(q, t) = 1 .. Len(q) + 1
           /\ \A i \in DOMAIN q : Append(q, t)[i] = q[i]
           /\ Append(q, t)[Len(q) + 1] = t
OBVIOUS

LEMMA TailPlaces ==
    ASSUME NEW T, NEW q \in Seq(T), q # <<>>
    PROVE  /\ Tail(q) \in Seq(T) /\ Head(q) \in T /\ Head(q) = q[1]
           /\ Len(q) \in Nat \ {0} /\ DOMAIN q = 1 .. Len(q)
           /\ DOMAIN Tail(q) = 1 .. Len(q) - 1
           /\ \A i \in 1 .. Len(q) - 1 : Tail(q)[i] = q[i + 1]
OBVIOUS

\* The thread a put notifies does not run.
LEMMA PutWakes ==
    ASSUME TypeOK, NEW t \in Tasks \cup {doNothing}, Put(t)
    PROVE  /\ queue' = Append(queue, t)
           /\ queue' \in Seq(Tasks \cup {doNothing})
           /\ pc' \in [Workers -> {"loop", "get", "wait", "woken", "run", "exit"}]
           /\ \A w \in Workers : pc'[w] = "run" <=> pc[w] = "run"
<1>1. queue' = Append(queue, t) /\ queue' \in Seq(Tasks \cup {doNothing})
  BY AppendPlaces DEF TypeOK, PoolTypeOK, Put
<1>2. CASE UNCHANGED pc
  BY <1>1, <1>2 DEF TypeOK, PoolTypeOK
<1>3. CASE \E v \in Waiting : pc' = [pc EXCEPT ![v] = "woken"]
  <2>1. PICK v \in Waiting : pc' = [pc EXCEPT ![v] = "woken"]
    BY <1>3
  <2> QED BY <1>1, <2>1 DEF TypeOK, PoolTypeOK, Waiting
<1> QED BY <1>2, <1>3 DEF Put

LEMMA PillsTyped ==
    Cardinality(Workers) \in Nat
BY PoolAssumption, FS_CardinalityType

-----------------------------------------------------------------------------
(* Types.                                                                  *)

LEMMA TypeInit == Init => TypeOK
<1> SUFFICES ASSUME Init PROVE TypeOK
  OBVIOUS
<1>1. PoolTypeOK
  <2>1. pc \in [Workers -> {"loop", "get", "wait", "woken", "run", "exit"}]
    BY DEF Init, PoolInit
  <2>2. task \in [Workers -> Tasks \cup {doNothing}]
    BY DEF Init, PoolInit
  <2>3. pills \in 0 .. Cardinality(Workers)
    BY PillsTyped DEF Init, PoolInit
  <2>4. queue = <<>> /\ done = FALSE
    BY DEF Init, PoolInit
  <2>5. queue \in Seq(Tasks \cup {doNothing})
    BY <2>4
  <2> QED BY <2>1, <2>2, <2>3, <2>4, <2>5 DEF PoolTypeOK
<1>2. Registered = {} /\ registers \in [Registered -> {0, 1}]
  BY DEF Init, Registered
<1>3. client \in [Kernels -> Phases] /\ device \in [Kernels -> SUBSET Parts]
  BY DEF Init, Phases
<1> QED BY <1>1, <1>2, <1>3 DEF Init, TypeOK

LEMMA RegistersTyped ==
    ASSUME TypeOK, NEW k \in Kernels, NEW v \in {0, 1}, WriteEvent(k, v)
    PROVE  /\ Registered' = Registered
           /\ registers' \in [Registered -> {0, 1}]
           /\ \A e \in Kernels \ {k} : Signalled(e)' <=> Signalled(e)
           /\ Signalled(k)' <=> k \in Registered /\ v = 1
<1>1. registers' = IF k \in Registered THEN [registers EXCEPT ![k] = v] ELSE registers
  BY DEF WriteEvent
<1>2. registers \in [Registered -> {0, 1}]
  BY DEF TypeOK
<1>3. DOMAIN registers' = Registered
  BY <1>1, <1>2 DEF Registered
<1>4. registers' \in [Registered -> {0, 1}]
  BY <1>1, <1>2
<1>5. \A e \in Registered \ {k} : registers'[e] = registers[e]
  BY <1>1, <1>2
<1>6. k \in Registered => registers'[k] = v
  BY <1>1, <1>2
<1> QED BY <1>3, <1>4, <1>5, <1>6 DEF Registered, Signalled

LEMMA TypeStep == TypeOK /\ [Next]_vars => TypeOK'
<1> SUFFICES ASSUME TypeOK, [Next]_vars
             PROVE  TypeOK'
  OBVIOUS
<1> USE DEF infoVars, poolVars
<1>1. ASSUME NEW k \in Kernels, NEW from, NEW to \in Phases, Calls(k, from, to)
      PROVE  client' \in [Kernels -> Phases] /\ UNCHANGED <<holding, destroyed>>
  BY <1>1 DEF Calls, TypeOK
<1>2. ASSUME NEW k \in Kernels,
             \/ AssignKernel(k) \/ AssignBuffer(k) \/ AssignEvent(k)
             \/ DeassignKernel(k) \/ DeassignBuffer(k) \/ DeassignEvent(k)
      PROVE  TypeOK'
  <2>1. client' \in [Kernels -> Phases] /\ UNCHANGED <<holding, destroyed>>
    BY <1>1, <1>2 DEF AssignKernel, AssignBuffer, AssignEvent, DeassignKernel,
       DeassignBuffer, DeassignEvent, Phases
  <2> QED BY <1>2, <2>1 DEF TypeOK, PoolTypeOK, Registered, AssignKernel, AssignBuffer,
          AssignEvent, DeassignKernel, DeassignBuffer, DeassignEvent
<1>3. ASSUME NEW k \in Kernels,
             \/ AllocateMemory(k) \/ KernelWrite(k) \/ ReleaseKernel(k) \/ ReleaseMemory(k)
      PROVE  TypeOK'
  <2>1. client' \in [Kernels -> Phases] /\ UNCHANGED <<holding, destroyed>>
    <3>1. \E from, to \in Phases : Calls(k, from, to)
      <4>1. CASE AllocateMemory(k)
        BY <4>1 DEF AllocateMemory, Phases
      <4>2. CASE KernelWrite(k)
        BY <4>2 DEF KernelWrite, Phases
      <4>3. CASE ReleaseKernel(k)
        BY <4>3 DEF ReleaseKernel, Phases
      <4>4. CASE ReleaseMemory(k)
        BY <4>4 DEF ReleaseMemory, Phases
      <4> QED BY <1>3, <4>1, <4>2, <4>3, <4>4
    <3> QED BY <3>1, <1>1
  <2>2. device' \in [Kernels -> SUBSET Parts]
    <3>1. device \in [Kernels -> SUBSET Parts]
      BY DEF TypeOK
    <3>2. \/ device' = device
          \/ \E S \in SUBSET Parts : device' = [device EXCEPT ![k] = @ \cup S]
          \/ \E S \in SUBSET Parts : device' = [device EXCEPT ![k] = @ \ S]
      <4>1. /\ {"buffer"} \in SUBSET Parts /\ {"memory"} \in SUBSET Parts
            /\ {"memory", "code"} \in SUBSET Parts
        BY DEF Parts
      <4>2. CASE AllocateMemory(k)
        BY <4>1, <4>2 DEF AllocateMemory
      <4>3. CASE KernelWrite(k)
        BY <4>1, <4>3 DEF KernelWrite
      <4>4. CASE ReleaseKernel(k)
        BY <4>1, <4>4 DEF ReleaseKernel
      <4>5. CASE ReleaseMemory(k)
        BY <4>1, <4>5 DEF ReleaseMemory
      <4> QED BY <1>3, <4>2, <4>3, <4>4, <4>5
    <3> QED BY <3>1, <3>2
  <2> QED BY <1>3, <2>1, <2>2 DEF TypeOK, PoolTypeOK, Registered, AllocateMemory,
          KernelWrite, ReleaseKernel, ReleaseMemory
<1>4. ASSUME NEW k \in Kernels, \/ AllocateEvent(k) \/ ReleaseEvent(k)
      PROVE  TypeOK'
  <2>1. client' \in [Kernels -> Phases] /\ UNCHANGED <<holding, destroyed>>
    BY <1>1, <1>4 DEF AllocateEvent, ReleaseEvent, Phases
  <2>2. Registered' \in SUBSET Kernels /\ registers' \in [Registered' -> {0, 1}]
    BY <1>4 DEF TypeOK, AllocateEvent, ReleaseEvent, Registered
  <2> QED BY <1>4, <2>1, <2>2 DEF TypeOK, PoolTypeOK, AllocateEvent, ReleaseEvent
<1>5. ASSUME NEW k \in Kernels, \/ ResetEvent(k) \/ Wait(k)
      PROVE  TypeOK'
  <2>1. client' \in [Kernels -> Phases] /\ UNCHANGED <<holding, destroyed>>
    BY <1>1, <1>5 DEF ResetEvent, Wait, Phases
  <2>2. WriteEvent(k, 0)
    BY <1>5 DEF ResetEvent, Wait
  <2>3. Registered' = Registered /\ registers' \in [Registered -> {0, 1}]
    BY <2>2, RegistersTyped
  <2> QED BY <1>5, <2>1, <2>3 DEF TypeOK, PoolTypeOK, ResetEvent, Wait
<1>6. ASSUME NEW k \in Kernels, KernelStart(k)
      PROVE  TypeOK'
  <2>1. client' \in [Kernels -> Phases] /\ UNCHANGED <<holding, destroyed>>
    BY <1>1, <1>6 DEF KernelStart, Phases
  <2>2. Put(k) /\ k \in Tasks \cup {doNothing}
    BY <1>6 DEF KernelStart, Kernels
  <2> QED BY <1>6, <2>1, <2>2, PutWakes DEF TypeOK, PoolTypeOK, Registered, KernelStart
<1>7. ASSUME NEW w \in Workers,
             \/ Test(w) \/ Sleep(w) \/ RunNothing(w) \/ WakeSpuriously(w)
      PROVE  PoolTypeOK'
  BY <1>7 DEF TypeOK, PoolTypeOK, Test, Sleep, RunNothing, WakeSpuriously
<1>8. ASSUME NEW w \in Workers, Take(w)
      PROVE  PoolTypeOK'
  <2>1. queue' \in Seq(Tasks \cup {doNothing}) /\ Head(queue) \in Tasks \cup {doNothing}
    BY <1>8, TailPlaces DEF TypeOK, PoolTypeOK, Take
  <2> QED BY <1>8, <2>1 DEF TypeOK, PoolTypeOK, Take
<1>9. ASSUME NEW w \in Workers, Lookup(w) \/ LaunchEnds(w)
      PROVE  TypeOK'
  <2>1. task[w] \in Kernels \/ LaunchEnds(w)
    BY <1>9 DEF Lookup
  <2>2. CASE Lookup(w)
    BY <2>2 DEF TypeOK, PoolTypeOK, Registered, Lookup
  <2>3. CASE LaunchEnds(w)
    <3>1. WriteEvent(task[w], 1)
      BY <2>3 DEF LaunchEnds
    <3>2. Registered' = Registered /\ registers' \in [Registered -> {0, 1}]
      BY <3>1 DEF WriteEvent, TypeOK, Registered
    <3> QED BY <2>3, <3>2 DEF TypeOK, PoolTypeOK, LaunchEnds
  <2> QED BY <1>9, <2>2, <2>3
<1>10. ASSUME NEW w \in Workers, Worker(w) \/ Wake(w)
       PROVE  TypeOK'
  <2>1. CASE Lookup(w) \/ LaunchEnds(w)
    BY <2>1, <1>9
  <2>2. CASE /\ Test(w) \/ Take(w) \/ Sleep(w) \/ RunNothing(w) \/ WakeSpuriously(w)
             /\ UNCHANGED <<infoVars, registers, holding, device, destroyed, client>>
    <3>1. PoolTypeOK'
      BY <2>2, <1>7, <1>8
    <3> QED BY <2>2, <3>1 DEF TypeOK, Registered
  <2> QED BY <1>10, <2>1, <2>2 DEF Worker, Wake
<1>11. CASE Destroy
  BY <1>11 DEF Destroy, TypeOK, PoolTypeOK, Registered
<1>12. CASE DestroyPool
  <2>1. CASE SetDone
    BY <1>12, <2>1 DEF DestroyPool, SetDone, TypeOK, PoolTypeOK, Registered
  <2>2. CASE PushNothing
    <3>1. Put(doNothing) /\ doNothing \in Tasks \cup {doNothing}
      BY <2>2 DEF PushNothing
    <3>2. pills' \in 0 .. Cardinality(Workers)
      BY <2>2, PillsTyped DEF PushNothing, TypeOK, PoolTypeOK
    <3> QED BY <1>12, <2>2, <3>1, <3>2, PutWakes
            DEF DestroyPool, PushNothing, TypeOK, PoolTypeOK, Registered
  <2> QED BY <1>12, <2>1, <2>2 DEF DestroyPool
<1>13. CASE UNCHANGED vars
  BY <1>13 DEF vars, TypeOK, PoolTypeOK, Registered
<1> QED BY <1>2, <1>3, <1>4, <1>5, <1>6, <1>10, <1>11, <1>12, <1>13 DEF Next

\* The type invariant, for every set of threads and of kernels.
THEOREM TypeCorrect == Spec => []TypeOK
<1>1. Init => TypeOK
  BY TypeInit
<1>2. TypeOK /\ [Next]_vars => TypeOK'
  BY TypeStep
<1> QED BY <1>1, <1>2, PTL DEF Spec

-----------------------------------------------------------------------------
(* What there is of each kernel.                                           *)

LEMMA ExtentInit == Init => Extents
BY DEF Init, Extents, Extent, Registered, Ready

\* A call takes its client on and runs only before the destruction.
LEMMA CallMoves ==
    ASSUME TypeOK, NEW k \in Kernels, NEW from, NEW to, Calls(k, from, to)
    PROVE  /\ client[k] = from /\ client'[k] = to
           /\ \A j \in Kernels \ {k} : client'[j] = client[j]
           /\ destroyed = FALSE /\ destroyed' = FALSE
BY DEF TypeOK, Calls

\* What is there of j does not change, and neither does its client.
SameExtent(j) ==
    /\ client'[j] = client[j] /\ device'[j] = device[j]
    /\ j \in kernel_info' <=> j \in kernel_info
    /\ j \in buffer_info' <=> j \in buffer_info
    /\ j \in event_info' <=> j \in event_info
    /\ j \in Registered' <=> j \in Registered
    /\ destroyed' => client[j] # "started"

LEMMA ExtentKept ==
    ASSUME NEW j \in Kernels, Extent(j), SameExtent(j)
    PROVE  Extent(j)'
BY DEF Extent, SameExtent, Ready

LEMMA ExtentCalls ==
    ASSUME TypeOK, Extents, NEW k \in Kernels,
           \/ AssignKernel(k) \/ AssignBuffer(k) \/ AllocateMemory(k)
           \/ AssignEvent(k) \/ AllocateEvent(k) \/ KernelWrite(k)
           \/ ResetEvent(k) \/ KernelStart(k) \/ Wait(k)
           \/ ReleaseKernel(k) \/ DeassignKernel(k) \/ ReleaseMemory(k)
           \/ DeassignBuffer(k) \/ ReleaseEvent(k) \/ DeassignEvent(k)
    PROVE  Extents'
<1> SUFFICES Extent(k)' /\ \A j \in Kernels \ {k} : SameExtent(j)
  BY ExtentKept DEF Extents
<1>1. Extent(k) /\ device \in [Kernels -> SUBSET Parts]
  BY DEF Extents, TypeOK
<1>2. CASE AssignKernel(k)
  <2>1. /\ client[k] = "none" /\ client'[k] = "kernel assigned"
        /\ \A j \in Kernels \ {k} : client'[j] = client[j]
        /\ destroyed = FALSE /\ destroyed' = FALSE
    BY <1>2, CallMoves DEF AssignKernel
  <2>2. Registered' = Registered /\ device' = device
    BY <1>2 DEF AssignKernel, Registered
  <2> QED BY <1>2, <1>1, <2>1, <2>2 DEF SameExtent, Extent, Ready, infoVars, AssignKernel
<1>3. CASE AssignBuffer(k)
  <2>1. /\ client[k] = "kernel assigned" /\ client'[k] = "buffer assigned"
        /\ \A j \in Kernels \ {k} : client'[j] = client[j]
        /\ destroyed = FALSE /\ destroyed' = FALSE
    BY <1>3, CallMoves DEF AssignBuffer
  <2>2. Registered' = Registered /\ device' = device
    BY <1>3 DEF AssignBuffer, Registered
  <2> QED BY <1>3, <1>1, <2>1, <2>2 DEF SameExtent, Extent, Ready, infoVars, AssignBuffer
<1>4. CASE AllocateMemory(k)
  <2>1. /\ client[k] = "buffer assigned"
        /\ client'[k] \in {"failed", "memory allocated"}
        /\ \A j \in Kernels \ {k} : client'[j] = client[j]
        /\ destroyed = FALSE /\ destroyed' = FALSE
    BY <1>4, CallMoves DEF AllocateMemory
  <2>2. Registered' = Registered /\ UNCHANGED infoVars
    BY <1>4 DEF AllocateMemory, Registered
  <2>3. \A j \in Kernels \ {k} : device'[j] = device[j]
    BY <1>4, <1>1 DEF AllocateMemory
  <2>4. client'[k] = "memory allocated" => "buffer" \in device'[k]
    <3>1. CASE device' = [device EXCEPT ![k] = @ \cup {"buffer"}]
      BY <1>1, <3>1
    <3>2. CASE Calls(k, "buffer assigned", "failed")
      <4>1. client'[k] = "failed"
        BY <3>2, CallMoves
      <4> QED BY <4>1
    <3> QED BY <1>4, <3>1, <3>2 DEF AllocateMemory
  <2> QED BY <1>1, <2>1, <2>2, <2>3, <2>4 DEF SameExtent, Extent, Ready, infoVars
<1>5. CASE AssignEvent(k)
  <2>1. /\ client[k] = "memory allocated" /\ client'[k] = "event assigned"
        /\ \A j \in Kernels \ {k} : client'[j] = client[j]
        /\ destroyed = FALSE /\ destroyed' = FALSE
    BY <1>5, CallMoves DEF AssignEvent
  <2>2. Registered' = Registered /\ device' = device
    BY <1>5 DEF AssignEvent, Registered
  <2> QED BY <1>5, <1>1, <2>1, <2>2 DEF SameExtent, Extent, Ready, infoVars, AssignEvent
<1>6. CASE AllocateEvent(k)
  <2>1. /\ client[k] = "event assigned" /\ client'[k] = "event allocated"
        /\ \A j \in Kernels \ {k} : client'[j] = client[j]
        /\ destroyed = FALSE /\ destroyed' = FALSE
    BY <1>6, CallMoves DEF AllocateEvent
  <2>2. device' = device /\ UNCHANGED infoVars
    BY <1>6 DEF AllocateEvent
  <2>3. Registered' = Registered \cup {k}
    BY <1>6 DEF AllocateEvent, Registered
  <2> QED BY <1>1, <2>1, <2>2, <2>3 DEF SameExtent, Extent, Ready, infoVars
<1>7. CASE KernelWrite(k)
  <2>1. /\ client[k] = "event allocated"
        /\ client'[k] \in {"failed", "written"}
        /\ \A j \in Kernels \ {k} : client'[j] = client[j]
        /\ destroyed = FALSE /\ destroyed' = FALSE
    BY <1>7, CallMoves DEF KernelWrite
  <2>2. Registered' = Registered /\ UNCHANGED infoVars
    BY <1>7 DEF KernelWrite, Registered
  <2>3. \A j \in Kernels \ {k} : device'[j] = device[j]
    BY <1>7, <1>1 DEF KernelWrite
  <2>4. client'[k] = "written" => device'[k] = device[k] \cup {"memory", "code"}
    BY <1>7, <1>1, <2>1, CallMoves DEF KernelWrite
  <2> QED BY <1>1, <2>1, <2>2, <2>3, <2>4 DEF SameExtent, Extent, Ready, infoVars
<1>8. CASE ResetEvent(k)
  <2>1. /\ client[k] \in {"seen", "written"}
        /\ client'[k] = "reset"
        /\ \A j \in Kernels \ {k} : client'[j] = client[j]
        /\ destroyed = FALSE /\ destroyed' = FALSE
    BY <1>8, CallMoves DEF ResetEvent
  <2>2. Registered' = Registered /\ device' = device /\ UNCHANGED infoVars
    BY <1>8, RegistersTyped DEF ResetEvent
  <2> QED BY <1>1, <2>1, <2>2 DEF SameExtent, Extent, Ready, infoVars
<1>9. CASE KernelStart(k)
  <2>1. /\ client[k] = "reset" /\ client'[k] = "started"
        /\ \A j \in Kernels \ {k} : client'[j] = client[j]
        /\ destroyed = FALSE /\ destroyed' = FALSE
    BY <1>9, CallMoves DEF KernelStart
  <2>2. Registered' = Registered /\ device' = device
    BY <1>9 DEF KernelStart, Registered
  <2> QED BY <1>9, <1>1, <2>1, <2>2 DEF SameExtent, Extent, Ready, infoVars, KernelStart
<1>10. CASE Wait(k)
  <2>1. /\ client[k] = "started" /\ client'[k] = "seen"
        /\ \A j \in Kernels \ {k} : client'[j] = client[j]
        /\ destroyed = FALSE /\ destroyed' = FALSE
    BY <1>10, CallMoves DEF Wait
  <2>2. Registered' = Registered /\ device' = device /\ UNCHANGED infoVars
    BY <1>10, RegistersTyped DEF Wait
  <2> QED BY <1>1, <2>1, <2>2 DEF SameExtent, Extent, Ready, infoVars
<1>11. CASE ReleaseKernel(k)
  <2>1. /\ client[k] \in {"failed", "seen"}
        /\ client'[k] = "kernel released"
        /\ \A j \in Kernels \ {k} : client'[j] = client[j]
        /\ destroyed = FALSE /\ destroyed' = FALSE
    BY <1>11, CallMoves DEF ReleaseKernel
  <2>2. Registered' = Registered /\ UNCHANGED infoVars
    BY <1>11 DEF ReleaseKernel, Registered
  <2>3. \A j \in Kernels \ {k} : device'[j] = device[j]
    BY <1>11, <1>1 DEF ReleaseKernel
  <2>4. device'[k] \subseteq {"buffer"}
    BY <1>11, <1>1, <2>1, CallMoves DEF ReleaseKernel, Parts
  <2> QED BY <1>1, <2>1, <2>2, <2>3, <2>4 DEF SameExtent, Extent, Ready, infoVars
<1>12. CASE DeassignKernel(k)
  <2>1. /\ client[k] = "kernel released" /\ client'[k] = "kernel deassigned"
        /\ \A j \in Kernels \ {k} : client'[j] = client[j]
        /\ destroyed = FALSE /\ destroyed' = FALSE
    BY <1>12, CallMoves DEF DeassignKernel
  <2>2. Registered' = Registered /\ device' = device
    BY <1>12 DEF DeassignKernel, Registered
  <2> QED BY <1>12, <1>1, <2>1, <2>2 DEF SameExtent, Extent, Ready, infoVars, DeassignKernel
<1>13. CASE ReleaseMemory(k)
  <2>1. /\ client[k] = "kernel deassigned" /\ client'[k] = "memory released"
        /\ \A j \in Kernels \ {k} : client'[j] = client[j]
        /\ destroyed = FALSE /\ destroyed' = FALSE
    BY <1>13, CallMoves DEF ReleaseMemory
  <2>2. Registered' = Registered /\ UNCHANGED infoVars
    BY <1>13 DEF ReleaseMemory, Registered
  <2>3. \A j \in Kernels \ {k} : device'[j] = device[j]
    BY <1>13, <1>1 DEF ReleaseMemory
  <2>4. device'[k] = {}
    BY <1>13, <1>1, <2>1, CallMoves DEF ReleaseMemory, Extent
  <2> QED BY <1>1, <2>1, <2>2, <2>3, <2>4 DEF SameExtent, Extent, Ready, infoVars
<1>14. CASE DeassignBuffer(k)
  <2>1. /\ client[k] = "memory released" /\ client'[k] = "buffer deassigned"
        /\ \A j \in Kernels \ {k} : client'[j] = client[j]
        /\ destroyed = FALSE /\ destroyed' = FALSE
    BY <1>14, CallMoves DEF DeassignBuffer
  <2>2. Registered' = Registered /\ device' = device
    BY <1>14 DEF DeassignBuffer, Registered
  <2> QED BY <1>14, <1>1, <2>1, <2>2 DEF SameExtent, Extent, Ready, infoVars, DeassignBuffer
<1>15. CASE ReleaseEvent(k)
  <2>1. /\ client[k] = "buffer deassigned" /\ client'[k] = "event released"
        /\ \A j \in Kernels \ {k} : client'[j] = client[j]
        /\ destroyed = FALSE /\ destroyed' = FALSE
    BY <1>15, CallMoves DEF ReleaseEvent
  <2>2. device' = device /\ UNCHANGED infoVars
    BY <1>15 DEF ReleaseEvent
  <2>3. Registered' = Registered \ {k}
    BY <1>15 DEF ReleaseEvent, Registered
  <2> QED BY <1>1, <2>1, <2>2, <2>3 DEF SameExtent, Extent, Ready, infoVars
<1>16. CASE DeassignEvent(k)
  <2>1. /\ client[k] = "event released" /\ client'[k] = "none"
        /\ \A j \in Kernels \ {k} : client'[j] = client[j]
        /\ destroyed = FALSE /\ destroyed' = FALSE
    BY <1>16, CallMoves DEF DeassignEvent
  <2>2. Registered' = Registered /\ device' = device
    BY <1>16 DEF DeassignEvent, Registered
  <2> QED BY <1>16, <1>1, <2>1, <2>2 DEF SameExtent, Extent, Ready, infoVars, DeassignEvent
<1> QED BY <1>2, <1>3, <1>4, <1>5, <1>6, <1>7, <1>8, <1>9, <1>10, <1>11, <1>12, <1>13, <1>14, <1>15, <1>16

-----------------------------------------------------------------------------
(* The places of a launch.                                                 *)

LEMMA PlacesInit == Init => Places
<1> SUFFICES ASSUME Init, NEW k \in Kernels
             PROVE  OnePlace(k)
  BY DEF Places
<1>1. DOMAIN queue = {} /\ \A w \in Workers : pc[w] = "loop"
  BY DEF Init, PoolInit
<1>2. ~Signalled(k) /\ client[k] = "none"
  BY DEF Init, Signalled, Registered
<1> QED BY <1>1, <1>2 DEF OnePlace, Runs

\* Nothing that OnePlace looks at changes for k.
SamePlaces(k) ==
    /\ queue' = queue
    /\ \A w \in Workers : Runs(w, k)' <=> Runs(w, k)
    /\ Signalled(k)' <=> Signalled(k)
    /\ client'[k] = "started" <=> client[k] = "started"

LEMMA PlacesKept ==
    ASSUME NEW k \in Kernels, OnePlace(k), SamePlaces(k)
    PROVE  OnePlace(k)'
BY DEF OnePlace, SamePlaces

\* A put adds one place, for the task it puts.
LEMMA PlacesPut ==
    ASSUME TypeOK, NEW t \in Tasks \cup {doNothing}, Put(t), UNCHANGED task
    PROVE  /\ DOMAIN queue' = DOMAIN queue \cup {Len(queue) + 1}
           /\ Len(queue) + 1 \notin DOMAIN queue
           /\ queue'[Len(queue) + 1] = t
           /\ \A i \in DOMAIN queue : queue'[i] = queue[i]
           /\ \A w \in Workers, k \in Kernels : Runs(w, k)' <=> Runs(w, k)
<1>1. queue \in Seq(Tasks \cup {doNothing})
  BY DEF TypeOK, PoolTypeOK
<1>2. queue' = Append(queue, t) /\ \A w \in Workers : pc'[w] = "run" <=> pc[w] = "run"
  BY PutWakes
<1>3. /\ DOMAIN queue = 1 .. Len(queue) /\ Len(queue) \in Nat
      /\ DOMAIN queue' = 1 .. Len(queue) + 1
      /\ \A i \in DOMAIN queue : queue'[i] = queue[i]
      /\ queue'[Len(queue) + 1] = t
  BY <1>1, <1>2, AppendPlaces
<1>4. \A w \in Workers, k \in Kernels : Runs(w, k)' <=> Runs(w, k)
  BY <1>2 DEF Runs
<1> QED BY <1>3, <1>4

\* Only the calls that start and that wait concern the launch.
LEMMA OtherCalls ==
    ASSUME TypeOK, NEW k \in Kernels,
           \/ AssignKernel(k) \/ AssignBuffer(k) \/ AllocateMemory(k)
           \/ AssignEvent(k) \/ AllocateEvent(k) \/ KernelWrite(k)
           \/ ReleaseKernel(k) \/ DeassignKernel(k) \/ ReleaseMemory(k)
           \/ DeassignBuffer(k) \/ ReleaseEvent(k) \/ DeassignEvent(k)
    PROVE  /\ client[k] # "started" /\ client'[k] # "started"
           /\ \A j \in Kernels \ {k} : client'[j] = client[j]
           /\ UNCHANGED <<queue, pc, task>>
<1>1. UNCHANGED <<queue, pc, task>>
  BY DEF poolVars, AssignKernel, AssignBuffer, AllocateMemory, AssignEvent, AllocateEvent, KernelWrite,
     ReleaseKernel, DeassignKernel, ReleaseMemory, DeassignBuffer, ReleaseEvent, DeassignEvent
<1>2. CASE AssignKernel(k)
  <2>1. /\ client[k] \in {"none"} /\ client'[k] \in {"kernel assigned"}
        /\ \A j \in Kernels \ {k} : client'[j] = client[j]
    BY <1>2, CallMoves DEF AssignKernel
  <2> QED BY <1>1, <2>1
<1>3. CASE AssignBuffer(k)
  <2>1. /\ client[k] \in {"kernel assigned"} /\ client'[k] \in {"buffer assigned"}
        /\ \A j \in Kernels \ {k} : client'[j] = client[j]
    BY <1>3, CallMoves DEF AssignBuffer
  <2> QED BY <1>1, <2>1
<1>4. CASE AllocateMemory(k)
  <2>1. /\ client[k] \in {"buffer assigned"} /\ client'[k] \in {"memory allocated", "failed"}
        /\ \A j \in Kernels \ {k} : client'[j] = client[j]
    BY <1>4, CallMoves DEF AllocateMemory
  <2> QED BY <1>1, <2>1
<1>5. CASE AssignEvent(k)
  <2>1. /\ client[k] \in {"memory allocated"} /\ client'[k] \in {"event assigned"}
        /\ \A j \in Kernels \ {k} : client'[j] = client[j]
    BY <1>5, CallMoves DEF AssignEvent
  <2> QED BY <1>1, <2>1
<1>6. CASE AllocateEvent(k)
  <2>1. /\ client[k] \in {"event assigned"} /\ client'[k] \in {"event allocated"}
        /\ \A j \in Kernels \ {k} : client'[j] = client[j]
    BY <1>6, CallMoves DEF AllocateEvent
  <2> QED BY <1>1, <2>1
<1>7. CASE KernelWrite(k)
  <2>1. /\ client[k] \in {"event allocated"} /\ client'[k] \in {"written", "failed"}
        /\ \A j \in Kernels \ {k} : client'[j] = client[j]
    BY <1>7, CallMoves DEF KernelWrite
  <2> QED BY <1>1, <2>1
<1>8. CASE ReleaseKernel(k)
  <2>1. /\ client[k] \in {"seen", "failed"} /\ client'[k] \in {"kernel released"}
        /\ \A j \in Kernels \ {k} : client'[j] = client[j]
    BY <1>8, CallMoves DEF ReleaseKernel
  <2> QED BY <1>1, <2>1
<1>9. CASE DeassignKernel(k)
  <2>1. /\ client[k] \in {"kernel released"} /\ client'[k] \in {"kernel deassigned"}
        /\ \A j \in Kernels \ {k} : client'[j] = client[j]
    BY <1>9, CallMoves DEF DeassignKernel
  <2> QED BY <1>1, <2>1
<1>10. CASE ReleaseMemory(k)
  <2>1. /\ client[k] \in {"kernel deassigned"} /\ client'[k] \in {"memory released"}
        /\ \A j \in Kernels \ {k} : client'[j] = client[j]
    BY <1>10, CallMoves DEF ReleaseMemory
  <2> QED BY <1>1, <2>1
<1>11. CASE DeassignBuffer(k)
  <2>1. /\ client[k] \in {"memory released"} /\ client'[k] \in {"buffer deassigned"}
        /\ \A j \in Kernels \ {k} : client'[j] = client[j]
    BY <1>11, CallMoves DEF DeassignBuffer
  <2> QED BY <1>1, <2>1
<1>12. CASE ReleaseEvent(k)
  <2>1. /\ client[k] \in {"buffer deassigned"} /\ client'[k] \in {"event released"}
        /\ \A j \in Kernels \ {k} : client'[j] = client[j]
    BY <1>12, CallMoves DEF ReleaseEvent
  <2> QED BY <1>1, <2>1
<1>13. CASE DeassignEvent(k)
  <2>1. /\ client[k] \in {"event released"} /\ client'[k] \in {"none"}
        /\ \A j \in Kernels \ {k} : client'[j] = client[j]
    BY <1>13, CallMoves DEF DeassignEvent
  <2> QED BY <1>1, <2>1
<1> QED BY <1>2, <1>3, <1>4, <1>5, <1>6, <1>7, <1>8, <1>9, <1>10, <1>11, <1>12, <1>13

LEMMA PlacesCalls ==
    ASSUME TypeOK, Places, NEW k \in Kernels,
           \/ AssignKernel(k) \/ AssignBuffer(k) \/ AllocateMemory(k)
           \/ AssignEvent(k) \/ AllocateEvent(k) \/ KernelWrite(k)
           \/ ResetEvent(k) \/ KernelStart(k) \/ Wait(k)
           \/ ReleaseKernel(k) \/ DeassignKernel(k) \/ ReleaseMemory(k)
           \/ DeassignBuffer(k) \/ ReleaseEvent(k) \/ DeassignEvent(k)
    PROVE  Places'
<1>1. OnePlace(k)
  BY DEF Places
<1>2. CASE \/ AssignKernel(k) \/ AssignBuffer(k) \/ AllocateMemory(k)
           \/ AssignEvent(k) \/ AllocateEvent(k) \/ KernelWrite(k)
           \/ ReleaseKernel(k) \/ DeassignKernel(k) \/ ReleaseMemory(k)
           \/ DeassignBuffer(k) \/ ReleaseEvent(k) \/ DeassignEvent(k)
  <2>1. /\ client[k] # "started" /\ client'[k] # "started"
        /\ \A j \in Kernels \ {k} : client'[j] = client[j]
        /\ UNCHANGED <<queue, pc, task>>
    BY <1>2, OtherCalls
  <2>2. ~Signalled(k)
    BY <1>1, <2>1 DEF OnePlace
  <2>3. ~Signalled(k)' /\ \A j \in Kernels \ {k} : Signalled(j)' <=> Signalled(j)
    <3>1. CASE AllocateEvent(k)
      <4>1. registers' = [e \in Registered \cup {k} |-> IF e = k THEN 0 ELSE registers[e]]
        BY <3>1 DEF AllocateEvent
      <4>2. Registered' = Registered \cup {k} /\ registers'[k] = 0
        BY <4>1 DEF Registered
      <4>3. \A j \in Registered \ {k} : registers'[j] = registers[j]
        BY <4>1
      <4> QED BY <4>2, <4>3 DEF Signalled
    <3>2. CASE ReleaseEvent(k)
      <4>1. registers' = [e \in Registered \ {k} |-> registers[e]]
        BY <3>2 DEF ReleaseEvent
      <4>2. Registered' = Registered \ {k}
        BY <4>1 DEF Registered
      <4>3. \A j \in Registered \ {k} : registers'[j] = registers[j]
        BY <4>1
      <4> QED BY <4>2, <4>3 DEF Signalled
    <3>3. CASE UNCHANGED registers
      BY <2>2, <3>3 DEF Signalled, Registered
    <3> QED BY <1>2, <3>1, <3>2, <3>3 DEF AssignKernel, AssignBuffer, AllocateMemory,
            AssignEvent, KernelWrite, ReleaseKernel, DeassignKernel, ReleaseMemory,
            DeassignBuffer, DeassignEvent
  <2> QED BY <2>1, <2>2, <2>3, PlacesKept DEF SamePlaces, Places, Runs
<1>3. CASE ResetEvent(k)
  <2>1. /\ client[k] \in {"written", "seen"} /\ client'[k] = "reset"
        /\ \A j \in Kernels \ {k} : client'[j] = client[j]
    BY <1>3, CallMoves DEF ResetEvent
  <2>2. UNCHANGED <<queue, pc, task>> /\ WriteEvent(k, 0)
    BY <1>3 DEF ResetEvent, poolVars
  <2>3. ~Signalled(k)' /\ \A j \in Kernels \ {k} : Signalled(j)' <=> Signalled(j)
    BY <2>2, RegistersTyped
  <2>4. ~Signalled(k)
    BY <1>1, <2>1 DEF OnePlace
  <2> QED BY <2>1, <2>2, <2>3, <2>4, PlacesKept DEF SamePlaces, Places, Runs
<1>4. CASE Wait(k)
  <2>1. /\ client[k] = "started" /\ client'[k] = "seen" /\ Signalled(k)
        /\ \A j \in Kernels \ {k} : client'[j] = client[j]
    BY <1>4, CallMoves DEF Wait, Signalled
  <2>2. UNCHANGED <<queue, pc, task>> /\ WriteEvent(k, 0)
    BY <1>4 DEF Wait, poolVars
  <2>3. ~Signalled(k)' /\ \A j \in Kernels \ {k} : Signalled(j)' <=> Signalled(j)
    BY <2>2, RegistersTyped
  <2>4. \A j \in Kernels \ {k} : OnePlace(j)'
    BY <2>1, <2>2, <2>3, PlacesKept DEF SamePlaces, Places, Runs
  <2>5. OnePlace(k)'
    BY <1>1, <2>1, <2>2, <2>3 DEF OnePlace, Runs
  <2> QED BY <2>4, <2>5 DEF Places
<1>5. CASE KernelStart(k)
  <2>1. /\ client[k] = "reset" /\ client'[k] = "started"
        /\ \A j \in Kernels \ {k} : client'[j] = client[j]
    BY <1>5, CallMoves DEF KernelStart
  <2>2. Put(k) /\ UNCHANGED <<task, registers>> /\ k \in Tasks \cup {doNothing}
    BY <1>5 DEF KernelStart, Kernels
  <2>3. \A j \in Kernels : Signalled(j)' <=> Signalled(j)
    BY <2>2 DEF Signalled, Registered
  <2> DEFINE n == Len(queue) + 1
  <2>4. /\ DOMAIN queue' = DOMAIN queue \cup {n} /\ n \notin DOMAIN queue
        /\ queue'[n] = k /\ \A i \in DOMAIN queue : queue'[i] = queue[i]
        /\ \A w \in Workers, j \in Kernels : Runs(w, j)' <=> Runs(w, j)
    BY <2>2, PlacesPut
  <2> HIDE DEF n
  <2>5. OnePlace(k)'
    BY <1>1, <2>1, <2>3, <2>4 DEF OnePlace
  <2>6. ASSUME NEW j \in Kernels \ {k} PROVE OnePlace(j)'
    <3>1. OnePlace(j)
      BY DEF Places
    <3> QED BY <3>1, <2>1, <2>3, <2>4 DEF OnePlace
  <2> QED BY <2>5, <2>6 DEF Places
<1> QED BY <1>2, <1>3, <1>4, <1>5

LEMMA PlacesWorker ==
    ASSUME TypeOK, Places, Extents, NEW w \in Workers, Worker(w) \/ Wake(w)
    PROVE  Places'
<1>1. CASE Take(w) /\ UNCHANGED <<registers, client>>
  <2>1. queue \in Seq(Tasks \cup {doNothing}) /\ queue # <<>>
    BY <1>1 DEF TypeOK, PoolTypeOK, Take
  <2> DEFINE n == Len(queue) - 1
  <2>2. /\ Head(queue) = queue[1] /\ DOMAIN queue = 1 .. n + 1 /\ n \in Nat
        /\ DOMAIN queue' = 1 .. n /\ \A i \in 1 .. n : queue'[i] = queue[i + 1]
    BY <1>1, <2>1, TailPlaces DEF Take
  <2> HIDE DEF n
  <2>3. /\ pc[w] # "run" /\ pc'[w] = "run" /\ task'[w] = queue[1]
        /\ \A v \in Workers \ {w} : pc'[v] = pc[v] /\ task'[v] = task[v]
    BY <1>1, <2>2 DEF Take, TypeOK, PoolTypeOK
  <2>4. ASSUME NEW k \in Kernels PROVE OnePlace(k)'
    <3>1. OnePlace(k) /\ (Signalled(k)' <=> Signalled(k)) /\ client'[k] = client[k]
      BY <1>1 DEF Places, Signalled, Registered
    <3>2. /\ ~Runs(w, k) /\ (Runs(w, k)' <=> queue[1] = k)
          /\ \A v \in Workers \ {w} : Runs(v, k)' <=> Runs(v, k)
      BY <2>3 DEF Runs
    <3>3. 1 \in DOMAIN queue /\ \A i \in 1 .. n : i + 1 \in DOMAIN queue /\ i + 1 # 1
      BY <2>2
    <3>4. \A i \in DOMAIN queue : i = 1 \/ \E m \in 1 .. n : i = m + 1
      <4> SUFFICES ASSUME NEW i \in 1 .. n + 1, i # 1 PROVE \E m \in 1 .. n : i = m + 1
        BY <2>2
      <4>1. i - 1 \in 1 .. n /\ i = (i - 1) + 1
        BY <2>2
      <4> QED BY <4>1
    <3>5. \A i, m \in 1 .. n : queue'[i] = k /\ queue'[m] = k => i = m
      <4> SUFFICES ASSUME NEW i \in 1 .. n, NEW m \in 1 .. n,
                          queue[i + 1] = k, queue[m + 1] = k
                   PROVE  i = m
        BY <2>2
      <4>1. i + 1 = m + 1
        BY <3>1, <3>3 DEF OnePlace
      <4> QED BY <4>1, <2>2
    <3>6. CASE queue[1] = k
      <4>1. /\ client[k] = "started" /\ ~Signalled(k)
            /\ \A v \in Workers : ~Runs(v, k)
            /\ \A i \in 1 .. n : queue[i + 1] # k
        BY <3>1, <3>3, <3>6 DEF OnePlace
      <4> QED BY <2>2, <3>1, <3>2, <3>6, <4>1 DEF OnePlace
    <3>7. CASE queue[1] # k
      <4>1. \A v \in Workers : Runs(v, k)' <=> Runs(v, k)
        BY <3>2, <3>7
      <4>2. \A i \in 1 .. n : queue'[i] = k => i + 1 \in DOMAIN queue /\ queue[i + 1] = k
        BY <2>2, <3>3
      <4>3. (\E i \in 1 .. n : queue'[i] = k) <=> \E i \in DOMAIN queue : queue[i] = k
        BY <2>2, <3>3, <3>4, <3>7
      <4> QED BY <2>2, <3>1, <3>5, <4>1, <4>2, <4>3 DEF OnePlace
    <3> QED BY <3>6, <3>7
  <2> QED BY <2>4 DEF Places
<1>2. CASE /\ Test(w) \/ Sleep(w) \/ RunNothing(w) \/ WakeSpuriously(w)
           /\ UNCHANGED <<registers, client>>
  <2>1. queue' = queue /\ task' = task
    BY <1>2 DEF Test, Sleep, RunNothing, WakeSpuriously
  <2>2. /\ \A v \in Workers \ {w} : pc'[v] = pc[v]
        /\ pc'[w] # "run" /\ (pc[w] = "run" => task[w] = doNothing)
    BY <1>2 DEF Test, Sleep, RunNothing, WakeSpuriously, TypeOK, PoolTypeOK
  <2>3. \A k \in Kernels, v \in Workers : Runs(v, k)' <=> Runs(v, k)
    BY <2>1, <2>2, PoolAssumption DEF Runs, Kernels
  <2> QED BY <1>2, <2>1, <2>3, PlacesKept DEF SamePlaces, Places, Signalled, Registered
<1>3. CASE Lookup(w)
  BY <1>3, PlacesKept DEF Lookup, SamePlaces, Places, Runs, Signalled, Registered, poolVars
<1>4. CASE LaunchEnds(w)
  <2>1. /\ UNCHANGED <<queue, task, client>> /\ pc[w] = "run" /\ pc'[w] = "loop"
        /\ \A v \in Workers \ {w} : pc'[v] = pc[v]
    BY <1>4 DEF LaunchEnds, TypeOK, PoolTypeOK
  <2>2. WriteEvent(task[w], 1)
    BY <1>4 DEF LaunchEnds
  <2>3. CASE task[w] \in Kernels
    <3> PICK k \in Kernels : k = task[w]
      BY <2>3
    <3>1. OnePlace(k) /\ Runs(w, k)
      BY <2>1, <2>3 DEF Places, Runs
    <3>2. client[k] = "started"
      BY <3>1 DEF OnePlace
    <3>3. k \in Registered
      <4>1. Extent(k)
        BY <2>3 DEF Extents
      <4> QED BY <3>2, <4>1 DEF Extent, Ready
    <3>4. Signalled(k)' /\ \A j \in Kernels \ {k} : Signalled(j)' <=> Signalled(j)
      BY <2>2, <2>3, <3>3, RegistersTyped
    <3>5. /\ \A v \in Workers : ~Runs(v, k)'
          /\ \A i \in DOMAIN queue : queue[i] # k
      BY <2>1, <3>1 DEF OnePlace, Runs
    <3>6. OnePlace(k)'
      BY <2>1, <3>2, <3>4, <3>5 DEF OnePlace
    <3>7. \A j \in Kernels \ {k} : OnePlace(j)'
      BY <2>1, <3>4, PlacesKept DEF SamePlaces, Places, Runs
    <3>8. ASSUME NEW j \in Kernels PROVE OnePlace(j)'
      BY <3>6, <3>7
    <3> QED BY <3>8 DEF Places
  <2>4. CASE task[w] \notin Kernels
    <3>1. UNCHANGED registers
      BY <2>2, <2>4 DEF WriteEvent, TypeOK
    <3> QED BY <2>1, <2>4, <3>1, PlacesKept DEF SamePlaces, Places, Runs, Signalled, Registered
  <2> QED BY <2>3, <2>4
<1> QED BY <1>1, <1>2, <1>3, <1>4 DEF Worker, Wake

LEMMA PlacesEnd ==
    ASSUME TypeOK, Places, Destroy \/ DestroyPool \/ UNCHANGED vars
    PROVE  Places'
<1>1. UNCHANGED <<registers, client>>
  BY DEF Destroy, DestroyPool, vars
<1>2. CASE UNCHANGED <<queue, pc, task>>
  BY <1>1, <1>2, PlacesKept DEF SamePlaces, Places, Runs, Signalled, Registered
<1>3. CASE PushNothing
  <2>1. Put(doNothing) /\ UNCHANGED task
    BY <1>3 DEF PushNothing
  <2> DEFINE n == Len(queue) + 1
  <2>2. /\ DOMAIN queue' = DOMAIN queue \cup {n} /\ n \notin DOMAIN queue
        /\ queue'[n] = doNothing /\ \A i \in DOMAIN queue : queue'[i] = queue[i]
        /\ \A w \in Workers, j \in Kernels : Runs(w, j)' <=> Runs(w, j)
    BY <2>1, PlacesPut
  <2> HIDE DEF n
  <2>3. ASSUME NEW k \in Kernels PROVE OnePlace(k)'
    <3>1. OnePlace(k) /\ k # doNothing /\ (Signalled(k)' <=> Signalled(k))
      BY <1>1, PoolAssumption DEF Places, Kernels, Signalled, Registered
    <3> QED BY <3>1, <1>1, <2>2 DEF OnePlace
  <2> QED BY <2>3 DEF Places
<1> QED BY <1>2, <1>3 DEF Destroy, DestroyPool, SetDone, vars, poolVars

-----------------------------------------------------------------------------
(* The invariant.                                                          *)

LEMMA ExtentWorker ==
    ASSUME TypeOK, Places, Extents, NEW w \in Workers, Worker(w) \/ Wake(w)
    PROVE  Extents'
<1>1. UNCHANGED <<client, destroyed, device, buffer_info>>
  BY DEF Worker, Wake, Lookup, LaunchEnds, infoVars
<1>2. Registered' = Registered
  <2>1. CASE LaunchEnds(w)
    BY <2>1 DEF LaunchEnds, WriteEvent, TypeOK, Registered
  <2>2. CASE UNCHANGED registers
    BY <2>2 DEF Registered
  <2> QED BY <2>1, <2>2 DEF Worker, Wake, Lookup
<1>3. UNCHANGED <<kernel_info, event_info>>
  <2>1. CASE Lookup(w)
    <3>1. OnePlace(task[w]) /\ Runs(w, task[w]) /\ task[w] \in Kernels
      BY <2>1 DEF Lookup, Places, Runs
    <3>2. client[task[w]] = "started"
      BY <3>1 DEF OnePlace
    <3>3. task[w] \in kernel_info /\ task[w] \in event_info
      BY <3>1, <3>2 DEF Extents, Extent, Ready
    <3> QED BY <2>1, <3>3 DEF Lookup
  <2> QED BY <2>1 DEF Worker, Wake, LaunchEnds, infoVars
<1>4. \A k \in Kernels : destroyed => client[k] # "started"
  BY DEF Extents, Extent
<1> QED BY <1>1, <1>2, <1>3, <1>4, ExtentKept DEF Extents, SameExtent

LEMMA ExtentEnd ==
    ASSUME TypeOK, Extents, Destroy \/ DestroyPool \/ UNCHANGED vars
    PROVE  Extents'
<1>1. /\ UNCHANGED <<infoVars, client, device, registers>>
      /\ \A k \in Kernels : destroyed' => client[k] # "started"
  <2>1. \A k \in Kernels : destroyed => client[k] # "started"
    BY DEF Extents, Extent
  <2>2. CASE Destroy
    BY <2>2 DEF Destroy
  <2>3. CASE DestroyPool \/ UNCHANGED vars
    BY <2>1, <2>3 DEF DestroyPool, vars
  <2> QED BY <2>2, <2>3
<1> QED BY <1>1, ExtentKept DEF Extents, SameExtent, infoVars, Registered

LEMMA LaunchStep == LaunchInv /\ [Next]_vars => LaunchInv'
<1> SUFFICES ASSUME TypeOK, Places, Extents, [Next]_vars
             PROVE  Places' /\ Extents'
  BY TypeStep DEF LaunchInv
<1> QED BY ExtentCalls, PlacesCalls, ExtentWorker, PlacesWorker, ExtentEnd, PlacesEnd DEF Next

LEMMA LaunchInvariant == Spec => []LaunchInv
<1>1. Init => LaunchInv
  BY TypeInit, PlacesInit, ExtentInit DEF LaunchInv
<1> QED BY <1>1, LaunchStep, PTL DEF Spec

\* A started kernel is in one place: no launch is lost, reported early or
\* reported for an earlier one.
THEOREM LaunchesAccounted == Spec => []LaunchAccounted
<1>1. ASSUME LaunchInv, NEW k \in Kernels
      PROVE  Cardinality(Queued(k)) + Cardinality(Launching(k))
               + (IF Signalled(k) THEN 1 ELSE 0)
             = (IF client[k] = "started" THEN 1 ELSE 0)
  <2>1. OnePlace(k)
    BY <1>1 DEF LaunchInv, Places
  <2>2. Cardinality(Queued(k)) = IF \E i \in DOMAIN queue : queue[i] = k THEN 1 ELSE 0
    <3>1. ASSUME NEW i \in DOMAIN queue, queue[i] = k PROVE Cardinality(Queued(k)) = 1
      <4>1. Queued(k) = {i}
        BY <2>1, <3>1 DEF OnePlace, Queued
      <4> QED BY <4>1, FS_Singleton
    <3>2. CASE \A i \in DOMAIN queue : queue[i] # k
      <4>1. Queued(k) = {}
        BY <3>2 DEF Queued
      <4> QED BY <3>2, <4>1, FS_EmptySet
    <3> QED BY <3>1, <3>2
  <2>3. Cardinality(Launching(k)) = IF \E w \in Workers : Runs(w, k) THEN 1 ELSE 0
    <3>1. ASSUME NEW w \in Workers, Runs(w, k) PROVE Cardinality(Launching(k)) = 1
      <4>1. Launching(k) = {w}
        BY <2>1, <3>1 DEF OnePlace, Launching, Runs
      <4> QED BY <4>1, FS_Singleton
    <3>2. CASE \A w \in Workers : ~Runs(w, k)
      <4>1. Launching(k) = {}
        BY <3>2 DEF Launching, Runs
      <4> QED BY <3>2, <4>1, FS_EmptySet
    <3> QED BY <3>1, <3>2
  <2> QED BY <2>1, <2>2, <2>3 DEF OnePlace
<1>2. LaunchInv => LaunchAccounted
  BY <1>1 DEF LaunchAccounted
<1> QED BY <1>2, LaunchInvariant, PTL

\* What a launch that is queued or runs will use stays where it is.
THEOREM LaunchesStayValid == Spec => []LaunchesValid
<1>1. ASSUME LaunchInv, NEW k \in Kernels, Launching(k) \cup Queued(k) # {}
      PROVE  /\ k \in kernel_info /\ k \in event_info /\ k \in Registered
             /\ {"buffer", "code"} \subseteq device[k]
             /\ ~destroyed
  <2>1. OnePlace(k) /\ Extent(k) /\ destroyed \in BOOLEAN
    BY <1>1 DEF LaunchInv, Places, Extents, TypeOK
  <2>2. client[k] = "started"
    BY <1>1, <2>1 DEF OnePlace, Launching, Queued, Runs
  <2> QED BY <2>1, <2>2 DEF Extent, Ready
<1>2. LaunchInv => LaunchesValid
  BY <1>1 DEF LaunchesValid
<1> QED BY <1>2, LaunchInvariant, PTL

\* A kernel that its client has given up leaves nothing behind.
THEOREM NothingStaysBehind == Spec => []NothingLeft
<1>1. LaunchInv => NothingLeft
  BY DEF LaunchInv, Extents, Extent, NothingLeft
<1> QED BY <1>1, LaunchInvariant, PTL
=============================================================================
