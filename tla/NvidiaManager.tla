--------------------------- MODULE NvidiaManager ----------------------------
(***************************************************************************)
(* Kernel launches of NvidiaManager (nvidia/manager.cpp) and their         *)
(* termination events (nvidia/event_registry.cpp).  Calls of the API run   *)
(* on one thread; launch_kernel runs on the threads of the pool, without   *)
(* a lock on the maps of the manager.                                      *)
(*                                                                         *)
(* Each kernel has one termination event and its own buffers, so both are  *)
(* named by their kernel.  A client uses a kernel as the tests do          *)
(* (nvidia_dummy_rm.cpp, event_utils.cpp): allocate, write the kernel,     *)
(* reset the event, start, wait for 1, and deallocate; it may start the    *)
(* kernel again.  When a call fails it deallocates.  The clients of        *)
(* several kernels interleave: one program, or several connected to the    *)
(* daemon.                                                                 *)
(***************************************************************************)
EXTENDS ThreadPool

Kernels == Tasks

VARIABLES kernel_info, \* the kernels in the map of that name
          buffer_info, \* the buffers in the map of that name
          event_info,  \* the events in the map of that name
          registers,   \* the registry: event -> value, for the events in it
          holding,     \* the workers past the lookups of launch_kernel
          device,      \* what the GPU holds of each kernel
          destroyed,   \* cuda_api and registry have been destroyed
          client       \* how far the client of each kernel is

infoVars == <<kernel_info, buffer_info, event_info>>
vars == <<poolVars, infoVars, registers, holding, device, destroyed, client>>

Phases == {"none", "kernel assigned", "buffer assigned", "memory allocated",
           "event assigned", "event allocated", "written", "reset", "started",
           "seen", "failed", "kernel released", "kernel deassigned",
           "memory released", "buffer deassigned", "event released"}

\* Its buffers, memory for its code, and its code in that memory.
Parts == {"buffer", "memory", "code"}

Init ==
    /\ PoolInit
    /\ kernel_info = {} /\ buffer_info = {} /\ event_info = {}
    /\ registers = [k \in {} |-> 0]
    /\ holding = {}
    /\ device = [k \in Kernels |-> {}]
    /\ destroyed = FALSE
    /\ client = [k \in Kernels |-> "none"]

-----------------------------------------------------------------------------
(* EventRegistry: each call holds the mutex.                               *)

Registered == DOMAIN registers

\* write_event: an event that is not registered is an error.
WriteEvent(k, v) ==
    registers' = IF k \in Registered THEN [registers EXCEPT ![k] = v] ELSE registers

-----------------------------------------------------------------------------
(* The API thread.                                                         *)

\* A call of the client of k that takes it from one phase to the next.
Calls(k, from, to) ==
    /\ client[k] = from
    /\ client' = [client EXCEPT ![k] = to]
    /\ ~destroyed /\ UNCHANGED <<holding, destroyed>>

AssignKernel(k) ==
    /\ Calls(k, "none", "kernel assigned")
    /\ kernel_info' = kernel_info \cup {k}
    /\ UNCHANGED <<poolVars, buffer_info, event_info, registers, device>>

AssignBuffer(k) ==
    /\ Calls(k, "kernel assigned", "buffer assigned")
    /\ buffer_info' = buffer_info \cup {k}
    /\ UNCHANGED <<poolVars, kernel_info, event_info, registers, device>>

AllocateMemory(k) ==
    /\ \/ /\ Calls(k, "buffer assigned", "memory allocated")
          /\ device' = [device EXCEPT ![k] = @ \cup {"buffer"}]
       \/ Calls(k, "buffer assigned", "failed") /\ UNCHANGED device
    /\ UNCHANGED <<poolVars, infoVars, registers>>

AssignEvent(k) ==
    /\ Calls(k, "memory allocated", "event assigned")
    /\ event_info' = event_info \cup {k}
    /\ UNCHANGED <<poolVars, kernel_info, buffer_info, registers, device>>

\* add_event: an event that is registered already is an error.
AllocateEvent(k) ==
    /\ Calls(k, "event assigned", "event allocated")
    /\ k \notin Registered
    /\ registers' = [e \in Registered \cup {k} |-> IF e = k THEN 0 ELSE registers[e]]
    /\ UNCHANGED <<poolVars, infoVars, device>>

\* The file is read, memory is allocated for it on the GPU, and the code is
\* written there; each of them can fail.
KernelWrite(k) ==
    /\ \/ /\ Calls(k, "event allocated", "written")
          /\ device' = [device EXCEPT ![k] = @ \cup {"memory", "code"}]
       \/ /\ Calls(k, "event allocated", "failed")
          /\ \/ UNCHANGED device
             \/ device' = [device EXCEPT ![k] = @ \cup {"memory"}]
    /\ UNCHANGED <<poolVars, infoVars, registers>>

ResetEvent(k) ==
    /\ Calls(k, "written", "reset") \/ Calls(k, "seen", "reset")
    /\ WriteEvent(k, 0)
    /\ UNCHANGED <<poolVars, infoVars, device>>

\* kernel_start looks up the buffers and pushes the launch.
KernelStart(k) ==
    /\ Calls(k, "reset", "started")
    /\ buffer_info' = buffer_info \cup {k}
    /\ Put(k)
    /\ UNCHANGED <<task, done, pills, kernel_info, event_info, registers, device>>

\* A faulty variant: any value ends the wait.
WaitAnyValue(k) ==
    /\ Calls(k, "started", "seen")
    /\ WriteEvent(k, 0)
    /\ UNCHANGED <<poolVars, infoVars, device>>

\* The wait for 1 of event_utils.cpp: it reads, which clears the event.  The
\* reads that return 0 change nothing.
Wait(k) ==
    /\ Calls(k, "started", "seen")
    /\ k \in Registered /\ registers[k] = 1
    /\ WriteEvent(k, 0)
    /\ UNCHANGED <<poolVars, infoVars, device>>

\* A faulty variant: what a failed kernel_write has left is not looked at.
ReleaseKernelWritten(k) ==
    /\ Calls(k, "seen", "kernel released") \/ Calls(k, "failed", "kernel released")
    /\ device' = IF "code" \in device[k]
                 THEN [device EXCEPT ![k] = @ \ {"memory", "code"}] ELSE device
    /\ UNCHANGED <<poolVars, infoVars, registers>>

ReleaseKernel(k) ==
    /\ Calls(k, "seen", "kernel released") \/ Calls(k, "failed", "kernel released")
    /\ device' = [device EXCEPT ![k] = @ \ {"memory", "code"}]
    /\ UNCHANGED <<poolVars, infoVars, registers>>

DeassignKernel(k) ==
    /\ Calls(k, "kernel released", "kernel deassigned")
    /\ kernel_info' = kernel_info \ {k}
    /\ UNCHANGED <<poolVars, buffer_info, event_info, registers, device>>

ReleaseMemory(k) ==
    /\ Calls(k, "kernel deassigned", "memory released")
    /\ device' = [device EXCEPT ![k] = @ \ {"buffer"}]
    /\ UNCHANGED <<poolVars, infoVars, registers>>

DeassignBuffer(k) ==
    /\ Calls(k, "memory released", "buffer deassigned")
    /\ buffer_info' = buffer_info \ {k}
    /\ UNCHANGED <<poolVars, kernel_info, event_info, registers, device>>

\* remove_event; an event that is not registered is an error.
ReleaseEvent(k) ==
    /\ Calls(k, "buffer deassigned", "event released")
    /\ registers' = [e \in Registered \ {k} |-> registers[e]]
    /\ UNCHANGED <<poolVars, infoVars, device>>

DeassignEvent(k) ==
    /\ Calls(k, "event released", "none")
    /\ event_info' = event_info \ {k}
    /\ UNCHANGED <<poolVars, kernel_info, buffer_info, registers, device>>

\* The members are destroyed in the reverse order of manager.h: cuda_api and
\* registry, then the pool.  The program ends when no kernel it has started is
\* still to be waited for.
Destroy ==
    /\ ~destroyed
    /\ \A k \in Kernels : client[k] # "started"
    /\ destroyed' = TRUE
    /\ UNCHANGED <<poolVars, infoVars, registers, holding, device, client>>

DestroyPool ==
    /\ destroyed
    /\ SetDone \/ PushNothing
    /\ UNCHANGED <<infoVars, registers, holding, device, destroyed, client>>

-----------------------------------------------------------------------------
(* launch_kernel, on a worker.                                             *)

\* A faulty variant: the event is written when the launch begins.
LookupReports(w) ==
    /\ pc[w] = "run" /\ task[w] \in Kernels /\ w \notin holding
    /\ kernel_info' = kernel_info \cup {task[w]}
    /\ event_info' = event_info \cup {task[w]}
    /\ holding' = holding \cup {w}
    /\ WriteEvent(task[w], 1)
    /\ UNCHANGED <<poolVars, buffer_info, device, destroyed, client>>

\* References to the entries of both maps; operator[] inserts a missing one.
Lookup(w) ==
    /\ pc[w] = "run" /\ task[w] \in Kernels /\ w \notin holding
    /\ kernel_info' = kernel_info \cup {task[w]}
    /\ event_info' = event_info \cup {task[w]}
    /\ holding' = holding \cup {w}
    /\ UNCHANGED <<poolVars, buffer_info, registers, device, destroyed, client>>

\* A faulty variant: a launch that fails returns at once.
LaunchMayFail(w) ==
    /\ pc[w] = "run" /\ w \in holding
    /\ WriteEvent(task[w], 1) \/ UNCHANGED registers
    /\ holding' = holding \ {w}
    /\ pc' = [pc EXCEPT ![w] = "loop"]
    /\ UNCHANGED <<queue, task, done, pills, infoVars, device, destroyed, client>>

\* cuda_api.launch_kernel has returned, with an error or not: the event is
\* written either way.
LaunchEnds(w) ==
    /\ pc[w] = "run" /\ w \in holding
    /\ WriteEvent(task[w], 1)
    /\ holding' = holding \ {w}
    /\ pc' = [pc EXCEPT ![w] = "loop"]
    /\ UNCHANGED <<queue, task, done, pills, infoVars, device, destroyed, client>>

Worker(w) ==
    \/ /\ Test(w) \/ Take(w) \/ Sleep(w) \/ RunNothing(w)
       /\ UNCHANGED <<infoVars, registers, holding, device, destroyed, client>>
    \/ Lookup(w)
    \/ LaunchEnds(w)

Wake(w) ==
    /\ WakeSpuriously(w)
    /\ UNCHANGED <<infoVars, registers, holding, device, destroyed, client>>

-----------------------------------------------------------------------------
Next ==
    \/ \E k \in Kernels :
         \/ AssignKernel(k) \/ AssignBuffer(k) \/ AllocateMemory(k)
         \/ AssignEvent(k) \/ AllocateEvent(k) \/ KernelWrite(k)
         \/ ResetEvent(k) \/ KernelStart(k) \/ Wait(k)
         \/ ReleaseKernel(k) \/ DeassignKernel(k) \/ ReleaseMemory(k)
         \/ DeassignBuffer(k) \/ ReleaseEvent(k) \/ DeassignEvent(k)
    \/ \E w \in Workers : Worker(w) \/ Wake(w)
    \/ Destroy \/ DestroyPool

\* The scheduler lets every thread run, a launch on the GPU returns, a client
\* that waits polls, and a destructor goes on; nothing obliges a client to
\* start a kernel or a program to end.
Fairness ==
    /\ \A w \in Workers : WF_vars(Worker(w))
    /\ \A k \in Kernels : WF_vars(Wait(k))
    /\ WF_vars(DestroyPool)

Spec == Init /\ [][Next]_vars /\ Fairness

-----------------------------------------------------------------------------
TypeOK ==
    /\ PoolTypeOK
    /\ kernel_info \in SUBSET Kernels /\ buffer_info \in SUBSET Kernels
    /\ event_info \in SUBSET Kernels
    /\ Registered \in SUBSET Kernels /\ registers \in [Registered -> {0, 1}]
    /\ holding \in SUBSET Workers
    /\ device \in [Kernels -> SUBSET Parts]
    /\ destroyed \in BOOLEAN
    /\ client \in [Kernels -> Phases]

\* The workers that run a launch of k, and its places in the queue.
Launching(k) == {w \in Workers : pc[w] = "run" /\ task[w] = k}
Queued(k)    == {i \in DOMAIN queue : queue[i] = k}

Signalled(k) == k \in Registered /\ registers[k] = 1

\* A started kernel is queued, running or reported, in one place and once, and
\* no other kernel is in any: wait returns for the launch it waits for, and
\* neither too early nor for an earlier one (manager.cpp:179-191).
LaunchAccounted ==
    \A k \in Kernels :
      Cardinality(Queued(k)) + Cardinality(Launching(k))
          + (IF Signalled(k) THEN 1 ELSE 0)
        = (IF client[k] = "started" THEN 1 ELSE 0)

\* launch_kernel uses its references after the launch, and the registry and the
\* CUDA API throughout, on trust: what it uses is there as long as it runs.
LaunchesValid ==
    \A k \in Kernels :
      Launching(k) \cup Queued(k) # {} =>
        /\ k \in kernel_info /\ k \in event_info /\ k \in Registered
        /\ {"buffer", "code"} \subseteq device[k]
        /\ ~destroyed

\* A kernel that its client has given up leaves nothing behind, whichever of the
\* calls for it failed (manager.cpp:69-95 allocate before they can fail).
NothingLeft ==
    \A k \in Kernels : client[k] = "none" =>
      /\ device[k] = {}
      /\ k \notin kernel_info \cup buffer_info \cup event_info \cup Registered

\* "They should not be modified after being assigned anyway" (manager.cpp:169):
\* no call changes the maps while a worker looks up an entry in them.
LookingUp == {w \in Workers : pc[w] = "run" /\ task[w] \in Kernels /\ w \notin holding}

MapsReadAlone ==
    [][LookingUp # {} => UNCHANGED <<kernel_info, event_info>>]_vars

\* A client that waits for a kernel it has started is told that it has ended.
TerminationReported ==
    \A k \in Kernels : client[k] = "started" ~> client[k] = "seen"

\* The destructor of the pool ends: every thread leaves its loop and is joined,
\* whatever it was doing when done was set.
ShutdownEnds == done ~> Joined
=============================================================================
