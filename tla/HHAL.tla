---- MODULE HHAL ----
(***************************************************************************)
(* The facade (hhal.cpp): it remembers the unit of every kernel, buffer    *)
(* and event, and passes a call on to the manager of that unit; kernels    *)
(* are compiled and cached on the way.  One thread makes the calls, one    *)
(* after the other; meanwhile users edit their files, time passes and      *)
(* kernels run.  Of the managers only what the facade relies on is kept:   *)
(* what was assigned to them, what they hold allocated, and the programs   *)
(* they would start.                                                       *)
(***************************************************************************)
EXTENDS KernelCache

CONSTANTS Kernels, Buffers, Events,
          Setups,               \* the units HHAL is built for, the resources its users have,
                                \* the sources they have compiled and for which units
          MaxTime, MaxVersion   \* bounds of the clock and of the edits of a file

Resources == Kernels \cup Buffers \cup Events

ASSUME ResourcesAssumption ==
    /\ Setups \subseteq [units : SUBSET Units, resources : SUBSET Resources,
                         given : SUBSET (UserSources \X Units)]
    /\ Kernels \cap Buffers = {}
    /\ Kernels \cap Events = {}
    /\ Buffers \cap Events = {}

VARIABLES
    setup,      \* one of Setups
    client,     \* the unit the client assigned a resource to, and whether it holds it
    unit_of,    \* kernel_to_unit, buffer_to_unit, event_to_unit
    info,       \* *_info of each manager: the ids assigned to it
    held,       \* allocated_*_info of each manager
    now, fs,    \* the clock and the file system
    call,       \* the last call of kernel_write: under way, or how it ended
    image,      \* kernel_images of GNManager, and what was asked for
    loaded      \* the program in the memory of a GPU, and what was asked for

routing == <<setup, client, unit_of, info, held>>
programs == <<call, image, loaded>>
vars == <<setup, client, unit_of, info, held, now, fs, call, image, loaded>>

SourceTypes == {"BINARY", "SOURCE", "STRING"}
Idle == call.step \notin {"compile", "write"}
Codes == {"OK", "no source", "no file", "not compiled", "not written"}

Init ==
    /\ setup \in Setups
    /\ client = [r \in Resources |-> [unit |-> NoUnit, holds |-> FALSE]]
    /\ unit_of = [r \in Resources |-> NoUnit]
    /\ info = [u \in Units |-> {}]
    /\ held = [u \in Units |-> {}]
    /\ now = 0
    /\ fs = [f \in UserFiles |-> NewFile(0, Text(f, 1, 0))]
    /\ call = [step |-> "none"]
    /\ image = [k \in {} |-> {}]
    /\ loaded = [k \in {} |-> {}]

-----------------------------------------------------------------------------
(* Routing.  A map read with operator[] inserts GN, the first unit.        *)

\* Faulty variant: an id that is in the map already keeps its unit.
RecordedOnce(u, r) == [unit_of EXCEPT ![r] = IF @ = NoUnit THEN u ELSE @]

UnitOf(r) == IF unit_of[r] = NoUnit THEN "GN" ELSE unit_of[r]
Dispatched(r) == [unit_of EXCEPT ![r] = UnitOf(r)]
Recorded(u, r) == [unit_of EXCEPT ![r] = u]
Erased(r) == [unit_of EXCEPT ![r] = NoUnit]

\* assign_* and deassign_* of the managers.
AssignedTo(u, r) == [info EXCEPT ![u] = @ \cup {r}]
DeassignedFrom(u, r) == [info EXCEPT ![u] = @ \ {r}]

(* The client assigns an id that is not assigned, to either unit: an id    *)
(* may be used again, but two users never share one.                       *)
Assign(u, r) ==
    /\ Idle
    /\ client[r].unit = NoUnit
    /\ client' = [client EXCEPT ![r] = [unit |-> u, holds |-> FALSE]]
    /\ unit_of' = Recorded(u, r)
    /\ info' = AssignedTo(u, r)
    /\ UNCHANGED <<setup, held, now, fs, programs>>

(* A resource that is held is released before it is deassigned.            *)
Deassign(r) ==
    /\ Idle
    /\ client[r].unit # NoUnit
    /\ ~client[r].holds
    /\ client' = [client EXCEPT ![r] = [unit |-> NoUnit, holds |-> FALSE]]
    /\ unit_of' = Erased(r)
    /\ info' = DeassignedFrom(UnitOf(r), r)
    /\ UNCHANGED <<setup, held, now, fs, programs>>

(* The manager may have no more of the resource.                           *)
Acquire(r) ==
    /\ Idle
    /\ client[r].unit # NoUnit
    /\ ~client[r].holds
    /\ unit_of' = Dispatched(r)
    /\ \E ok \in BOOLEAN :
        /\ client' = [client EXCEPT ![r] = [unit |-> client[r].unit, holds |-> ok]]
        /\ held' = [held EXCEPT ![UnitOf(r)] = IF ok THEN @ \cup {r} ELSE @]
    /\ UNCHANGED <<setup, info, now, fs, programs>>

GiveBack(r) ==
    /\ Idle
    /\ client[r].unit # NoUnit
    /\ client[r].holds
    /\ unit_of' = Dispatched(r)
    /\ client' = [client EXCEPT ![r] = [unit |-> client[r].unit, holds |-> FALSE]]
    /\ held' = [held EXCEPT ![UnitOf(r)] = @ \ {r}]
    /\ UNCHANGED <<setup, info, now, fs, programs>>

(* A transfer, at any time: a program that polls an event does not know    *)
(* that another one has deassigned it.                                     *)
Transfer(r) ==
    /\ Idle
    /\ unit_of' = Dispatched(r)
    /\ UNCHANGED <<setup, client, info, held, now, fs, programs>>

AllocateMemory(b) == b \in Buffers /\ Acquire(b)
ReleaseMemory(b) == b \in Buffers /\ GiveBack(b)
AllocateKernel(k) == k \in Kernels /\ Acquire(k)
ReleaseKernel(k) == k \in Kernels /\ GiveBack(k)
AllocateEvent(e) == e \in Events /\ Acquire(e)
ReleaseEvent(e) == e \in Events /\ GiveBack(e)
WriteToMemory(b) == b \in Buffers /\ Transfer(b)
ReadFromMemory(b) == b \in Buffers /\ Transfer(b)
WriteSyncRegister(e) == e \in Events /\ Transfer(e)
ReadSyncRegister(e) == e \in Events /\ Transfer(e)

-----------------------------------------------------------------------------
(* Kernels.                                                                *)

Ends(type, code) ==
    call' = [step |-> "returned", type |-> type, code |-> code]

(* What a call asks for: the file as it is, to run on a unit.              *)
Request(file, unit) ==
    [source |-> file.content.source, version |-> file.content.version,
     mtime |-> file.mtime, unit |-> unit]

(* The call goes on to the compiler, or to the manager, with f: the file   *)
(* get_binary or the client named, for what the client asked.              *)
Compiles(k, type, f, asked) ==
    call' = [step |-> "compile", kernel |-> k, type |-> type, file |-> f, asked |-> asked,
             begun |-> now]

Writes(k, type, f, asked) ==
    call' = [step |-> "write", kernel |-> k, type |-> type, file |-> f, asked |-> asked]

(* kernel_write up to the compilation, or to the call of the manager.  The *)
(* client gives source f of a type to the unit it assigned the kernel to;  *)
(* only GN takes strings.  Whether to compile is decided by the name and   *)
(* the times alone, not by the unit.                                       *)
KernelWrite(k, type, f) ==
    /\ Idle
    /\ client[k].unit # NoUnit
    /\ unit_of' = Dispatched(k)
    /\ LET saved == IF type = "STRING" THEN SaveToFile(fs, now, f) ELSE fs
           clean == DeleteUnusedFiles(saved, now)
           Asked(file) == Request(file, client[k].unit)
       IN  \/ /\ type = "BINARY"
              /\ f \in Prebuilt
              /\ Writes(k, type, f, Asked(fs[f]))
              /\ UNCHANGED fs
           \/ /\ type = "STRING"
              /\ f \in SavedSources
              /\ UnitOf(k) # "GN"
              /\ Ends(type, "no source")
              /\ UNCHANGED fs
           \/ /\ \/ type = "SOURCE" /\ <<f, client[k].unit>> \in setup.given
                 \/ type = "STRING" /\ f \in SavedSources /\ UnitOf(k) = "GN"
              /\ \/ /\ f \notin DOMAIN clean
                    /\ Ends(type, "no file")
                    /\ fs' = clean
                 \/ /\ f \in DOMAIN clean
                    /\ ~ShouldCompile(clean, f)
                    /\ Writes(k, type, BinaryOf[f], Asked(clean[f]))
                    /\ fs' = clean
                 \/ /\ f \in DOMAIN clean
                    /\ ShouldCompile(clean, f)
                    /\ Compiles(k, type, BinaryOf[f], Asked(clean[f]))
                    /\ fs' \in AfterRead(clean, f, now)
    /\ UNCHANGED <<setup, client, info, held, now, image, loaded>>

(* The compiler reads the source at some time after it was called, in the  *)
(* version of the call or of an edit since; the binary gets the time at    *)
(* which it is written.                                                    *)
Compile ==
    /\ call.step = "compile"
    /\ \/ /\ call.asked.source \in DOMAIN fs
          /\ \E version \in call.asked.version .. fs[call.asked.source].content.version :
                fs' = Put(fs, call.file,
                          NewFile(now, Compiled(call.asked.source, UnitOf(call.kernel),
                                                version, call.begun)))
          /\ Writes(call.kernel, call.type, call.file, call.asked)
       \/ /\ fs' \in AfterFailure(fs, call.file)
          /\ UnitOf(call.kernel) = "GN"
          /\ Ends(call.type, "not compiled")
    /\ UNCHANGED <<routing, now, image, loaded>>

(* kernel_write of the managers: GN keeps the path of the program.         *)
GNKernelWrite ==
    /\ image' = Put(image, call.kernel, [path |-> call.file, asked |-> call.asked])
    /\ Ends(call.type, "OK")
    /\ UNCHANGED <<fs, loaded>>

(* NVIDIA loads the program itself: the file may be gone, and the GPU may  *)
(* have no memory or refuse the program.                                   *)
NvidiaKernelWrite ==
    /\ fs' \in AfterRead(fs, call.file, now)
    /\ \/ /\ call.file \in DOMAIN fs
          /\ loaded' = Put(loaded, call.kernel,
                           [file |-> Written(fs[call.file]), asked |-> call.asked])
          /\ Ends(call.type, "OK")
       \/ /\ Ends(call.type, "not written")
          /\ UNCHANGED loaded
    /\ UNCHANGED image

WriteImage ==
    /\ call.step = "write"
    /\ IF UnitOf(call.kernel) = "GN" THEN GNKernelWrite ELSE NvidiaKernelWrite
    /\ UNCHANGED <<routing, now>>

(* A GN kernel is a process that runs the file at the path, if it is still *)
(* there: nobody looks.  To start a kernel never written aborts.           *)
KernelStart(k) ==
    /\ Idle
    /\ client[k].unit # NoUnit
    /\ unit_of' = Dispatched(k)
    /\ IF UnitOf(k) = "GN"
       THEN /\ k \in DOMAIN image
            /\ fs' \in AfterRead(fs, image[k].path, now)
       ELSE /\ k \in DOMAIN loaded
            /\ UNCHANGED fs
    /\ UNCHANGED <<setup, client, info, held, now, programs>>

-----------------------------------------------------------------------------
(* The surroundings.                                                       *)

Tick == now < MaxTime /\ now' = now + 1 /\ UNCHANGED <<routing, fs, programs>>

Edit(f) ==
    /\ f \in UserSources
    /\ fs[f].content.version < MaxVersion
    /\ fs' = Put(fs, f, NewFile(now, Text(f, fs[f].content.version + 1, now)))
    /\ UNCHANGED <<routing, now, programs>>

Next ==
    \/ \E u \in setup.units, r \in setup.resources : Assign(u, r)
    \/ \E r \in setup.resources :
        \/ Deassign(r)
        \/ AllocateMemory(r) \/ ReleaseMemory(r)
        \/ AllocateKernel(r) \/ ReleaseKernel(r)
        \/ AllocateEvent(r) \/ ReleaseEvent(r)
        \/ WriteToMemory(r) \/ ReadFromMemory(r)
        \/ WriteSyncRegister(r) \/ ReadSyncRegister(r)
    \/ \E k \in Kernels \cap setup.resources, type \in SourceTypes, f \in Files : KernelWrite(k, type, f)
    \/ Compile
    \/ WriteImage
    \/ \E k \in Kernels \cap setup.resources : KernelStart(k)
    \/ Tick
    \/ \E f \in UserSources : Edit(f)

Spec == Init /\ [][Next]_vars

-----------------------------------------------------------------------------
(* Every variable has its type. *)
Requests ==
    [source : Sources \cup Prebuilt, version : Nat, mtime : Nat, unit : Units \cup {NoUnit}]

Calls ==
    [step : {"none"}]
    \cup [step : {"compile"}, kernel : Kernels, type : SourceTypes,
          file : Binaries, asked : Requests, begun : Nat]
    \cup [step : {"write"}, kernel : Kernels, type : SourceTypes,
          file : Prebuilt \cup Binaries, asked : Requests]
    \cup [step : {"returned"}, type : SourceTypes, code : Codes]

TypeOK ==
    /\ setup \in Setups
    /\ client \in [Resources -> [unit : Units \cup {NoUnit}, holds : BOOLEAN]]
    /\ unit_of \in [Resources -> Units \cup {NoUnit}]
    /\ info \in [Units -> SUBSET Resources]
    /\ held \in [Units -> SUBSET Resources]
    /\ now \in Nat
    /\ UserFiles \subseteq DOMAIN fs
    /\ DOMAIN fs \subseteq Files
    /\ \A f \in DOMAIN fs : fs[f] \in File
    /\ call \in Calls
    /\ DOMAIN image \subseteq Kernels
    /\ \A k \in DOMAIN image : image[k] \in [path : Prebuilt \cup Binaries, asked : Requests]
    /\ DOMAIN loaded \subseteq Kernels
    /\ \A k \in DOMAIN loaded : loaded[k] \in [file : WrittenFile, asked : Requests]

(* The facade and the managers agree with the client: a resource is known  *)
(* to the manager it was assigned to and to no other, its calls reach that *)
(* manager, and what is allocated can be released.  A call on an id that   *)
(* is not assigned leaves GN in the map; it must not outlive the next      *)
(* assignment.                                                             *)
Routed ==
    \A r \in Resources, u \in Units :
        /\ r \in info[u] <=> client[r].unit = u
        /\ r \in held[u] <=> client[r].unit = u /\ client[r].holds
        /\ client[r].unit = u => unit_of[r] = u

(* What is compiled, and for which unit; and the compilations that share   *)
(* the binary of source s: its name is the base name of its source,        *)
(* whatever the directory and the unit.  If the users take care, s and its *)
(* unit are alone in it.                                                   *)
Compilations == setup.given \cup (SavedSources \X {"GN"})
SameName(s) == {c \in Compilations : BinaryOf[c[1]] = BinaryOf[s]}

(* A program is the one its client asked for: the file it brought, or one  *)
(* compiled from that source for that unit, unless another source or unit  *)
(* shares the name.  It has the version the source had at the call or a    *)
(* later one, but for changes made while the binary was being compiled:    *)
(* none from before the compilation began, none from after it ended.       *)
AsAsked(file, asked) ==
    /\ IF asked.source \in Prebuilt
       THEN file.content.source = asked.source
       ELSE <<file.content.source, file.content.unit>> \in SameName(asked.source)
    /\ file.content.source = asked.source /\ file.content.version < asked.version
       => file.content.begun <= asked.mtime /\ asked.mtime <= file.mtime

ProgramsAsAsked ==
    /\ \A k \in DOMAIN image :
          image[k].path \in DOMAIN fs => AsAsked(fs[image[k].path], image[k].asked)
    /\ \A k \in DOMAIN loaded : AsAsked(loaded[k].file, loaded[k].asked)

(* What AsAsked excepts does happen: a program is not always compiled for  *)
(* the unit it runs on (compiler.h:26),                                    *)
RightUnit == \A k \in DOMAIN loaded : loaded[k].file.content.unit \in {NoUnit, "NVIDIA"}

(* and a change made during a compilation may be missing from then on: the *)
(* binary is the newer one (compiler.h:28), by more than the same second.  *)
UpToDate ==
    \A k \in DOMAIN image :
        LET b == image[k].path
        IN  b \in DOMAIN fs /\ image[k].asked.mtime < fs[b].mtime
            => image[k].asked.version <= fs[b].content.version

(* The file save_to_file returns is there when get_binary looks for it     *)
(* (compiler.h:12-15).                                                     *)
SavedIsFound ==
    ~(call.step = "returned" /\ call.type = "STRING" /\ call.code = "no file")

====
