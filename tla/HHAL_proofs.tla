---- MODULE HHAL_proofs ----
(***************************************************************************)
(* Routed and ProgramsAsAsked for every set of files, kernels, buffers,    *)
(* events and clients.                                                     *)
(***************************************************************************)
EXTENDS HHAL, TLAPS

-----------------------------------------------------------------------------
(* Files.                                                                  *)

FilesTyped(fs1) ==
    /\ UserFiles \subseteq DOMAIN fs1
    /\ DOMAIN fs1 \subseteq Files
    /\ \A f \in DOMAIN fs1 : fs1[f] \in File

(* What the passing of time, reads, deletions and failing compilers do to  *)
(* the files: none of them writes.                                         *)
Aged(fs1, fs2) ==
    /\ DOMAIN fs2 \subseteq DOMAIN fs1
    /\ \A f \in DOMAIN fs2 :
          fs2[f].mtime = fs1[f].mtime /\ fs2[f].content = fs1[f].content

LEMMA PutTyped ==
    ASSUME NEW fs1, FilesTyped(fs1), NEW f \in Files, NEW x \in File
    PROVE  FilesTyped(Put(fs1, f, x))
<1>1. DOMAIN Put(fs1, f, x) = DOMAIN fs1 \cup {f}
  BY DEF Put
<1>2. \A g \in DOMAIN fs1 \cup {f} : Put(fs1, f, x)[g] \in File
  BY DEF FilesTyped, Put
<1> QED BY <1>1, <1>2 DEF FilesTyped

LEMMA TextTyped ==
    ASSUME NEW f \in Sources \cup Prebuilt, NEW version \in Nat, NEW time \in Nat
    PROVE  Text(f, version, time) \in Content
  BY DEF Text, Content

LEMMA NewFileTyped ==
    ASSUME NEW time \in Nat, NEW c \in Content
    PROVE  /\ NewFile(time, c) \in File
           /\ NewFile(time, c).mtime = time
           /\ NewFile(time, c).content = c
  BY DEF NewFile, File

LEMMA AgedByDelete ==
    ASSUME NEW fs1, FilesTyped(fs1), NEW t \in Nat
    PROVE  /\ Aged(fs1, DeleteUnusedFiles(fs1, t))
           /\ FilesTyped(DeleteUnusedFiles(fs1, t))
<1> DEFINE fs2 == DeleteUnusedFiles(fs1, t)
<1>1. /\ DOMAIN fs2 \subseteq DOMAIN fs1
      /\ DOMAIN fs1 \cap UserFiles \subseteq DOMAIN fs2
      /\ \A f \in DOMAIN fs2 : fs2[f] = fs1[f]
  BY FilesAssumption DEF DeleteUnusedFiles
<1> HIDE DEF fs2
<1> QED BY <1>1 DEF Aged, FilesTyped, fs2

LEMMA AgedByRead ==
    ASSUME NEW fs1, FilesTyped(fs1), NEW t \in Nat, NEW f,
           NEW fs2 \in AfterRead(fs1, f, t)
    PROVE  Aged(fs1, fs2) /\ FilesTyped(fs2)
<1>1. CASE fs2 = fs1
  BY <1>1 DEF Aged
<1>2. CASE f \in DOMAIN fs1 /\ fs2 # fs1
  <2> DEFINE x == [mtime |-> fs1[f].mtime, atime |-> t, content |-> fs1[f].content]
  <2>1. fs2 = Put(fs1, f, x)
    BY <1>2 DEF AfterRead
  <2>2. f \in Files /\ fs1[f] \in File
    BY <1>2 DEF FilesTyped
  <2>3. x \in File /\ x.mtime = fs1[f].mtime /\ x.content = fs1[f].content
    BY <2>2 DEF File
  <2> HIDE DEF x
  <2>4. FilesTyped(fs2)
    BY <2>1, <2>2, <2>3, PutTyped
  <2>5. /\ DOMAIN fs2 = DOMAIN fs1
        /\ \A g \in DOMAIN fs1 : fs2[g] = IF g = f THEN x ELSE fs1[g]
    BY <1>2, <2>1 DEF Put
  <2> QED BY <2>3, <2>4, <2>5 DEF Aged
<1> QED BY <1>1, <1>2 DEF AfterRead

LEMMA AgedByFailure ==
    ASSUME NEW fs1, FilesTyped(fs1), NEW b \in Binaries,
           NEW fs2 \in AfterFailure(fs1, b)
    PROVE  Aged(fs1, fs2) /\ FilesTyped(fs2)
  BY FilesAssumption DEF AfterFailure, Aged, FilesTyped, Cached

LEMMA AgedTwice ==
    ASSUME NEW fs1, NEW fs2, NEW fs3, Aged(fs1, fs2), Aged(fs2, fs3)
    PROVE  Aged(fs1, fs3)
  BY DEF Aged

-----------------------------------------------------------------------------
(* The steps, with one case for the calls that are routed alike.           *)

LEMMA StepCases ==
    ASSUME TypeOK, [Next]_vars
    PROVE  \/ \E u \in Units, r \in Resources : Assign(u, r)
           \/ \E r \in Resources : Deassign(r) \/ Acquire(r) \/ GiveBack(r) \/ Transfer(r)
           \/ \E k \in Kernels, type \in SourceTypes, f \in Files : KernelWrite(k, type, f)
           \/ Compile
           \/ WriteImage
           \/ \E k \in Kernels : KernelStart(k)
           \/ Tick
           \/ \E f \in UserSources : Edit(f)
           \/ UNCHANGED vars
<1>1. setup.units \subseteq Units /\ setup.resources \subseteq Resources
  BY ResourcesAssumption DEF TypeOK
<1>2. CASE Next
  BY <1>1, <1>2 DEF Next, AllocateMemory, ReleaseMemory, AllocateKernel, ReleaseKernel,
     AllocateEvent, ReleaseEvent, WriteToMemory, ReadFromMemory, WriteSyncRegister,
     ReadSyncRegister
<1> QED BY <1>2

-----------------------------------------------------------------------------
(* Types.                                                                  *)

RoutingTyped ==
    /\ setup \in Setups
    /\ client \in [Resources -> [unit : Units \cup {NoUnit}, holds : BOOLEAN]]
    /\ unit_of \in [Resources -> Units \cup {NoUnit}]
    /\ info \in [Units -> SUBSET Resources]
    /\ held \in [Units -> SUBSET Resources]

ImagesTyped ==
    /\ DOMAIN image \subseteq Kernels
    /\ \A k \in DOMAIN image : image[k] \in [path : Prebuilt \cup Binaries, asked : Requests]
    /\ DOMAIN loaded \subseteq Kernels
    /\ \A k \in DOMAIN loaded : loaded[k] \in [file : WrittenFile, asked : Requests]

LEMMA TypeParts ==
    TypeOK <=> RoutingTyped /\ now \in Nat /\ FilesTyped(fs) /\ call \in Calls /\ ImagesTyped
  BY DEF TypeOK, RoutingTyped, FilesTyped, ImagesTyped

LEMMA UnitTyped ==
    ASSUME RoutingTyped, NEW r \in Resources
    PROVE  /\ UnitOf(r) \in Units
           /\ Dispatched(r) \in [Resources -> Units \cup {NoUnit}]
           /\ Erased(r) \in [Resources -> Units \cup {NoUnit}]
  BY DEF RoutingTyped, UnitOf, Dispatched, Erased, Units

LEMMA RoutingStep ==
    ASSUME TypeOK, [Next]_vars
    PROVE  RoutingTyped'
<1> USE TypeParts
<1>1. ASSUME NEW u \in Units, NEW r \in Resources, Assign(u, r) PROVE RoutingTyped'
  BY <1>1 DEF Assign, AssignedTo, RoutingTyped, Recorded
<1>2. ASSUME NEW r \in Resources, Deassign(r) PROVE RoutingTyped'
  BY <1>2, UnitTyped DEF Deassign, DeassignedFrom, RoutingTyped
<1>3. ASSUME NEW r \in Resources, Acquire(r) PROVE RoutingTyped'
  BY <1>3, UnitTyped DEF Acquire, RoutingTyped
<1>4. ASSUME NEW r \in Resources, GiveBack(r) PROVE RoutingTyped'
  BY <1>4, UnitTyped DEF GiveBack, RoutingTyped
<1>5. ASSUME NEW r \in Resources, Transfer(r) PROVE RoutingTyped'
  BY <1>5, UnitTyped DEF Transfer, RoutingTyped
<1>6. ASSUME NEW k \in Kernels, NEW type, NEW f, KernelWrite(k, type, f) PROVE RoutingTyped'
  BY <1>6, UnitTyped DEF KernelWrite, RoutingTyped, Resources
<1>7. ASSUME NEW k \in Kernels, KernelStart(k) PROVE RoutingTyped'
  BY <1>7, UnitTyped DEF KernelStart, RoutingTyped, Resources
<1>8. ASSUME UNCHANGED routing PROVE RoutingTyped'
  BY <1>8 DEF routing, RoutingTyped
<1> QED BY <1>1, <1>2, <1>3, <1>4, <1>5, <1>6, <1>7, <1>8, StepCases
        DEF Compile, WriteImage, GNKernelWrite, NvidiaKernelWrite, Tick, Edit, vars, routing

LEMMA TransferTyped ==
    ASSUME NEW fs1, FilesTyped(fs1), NEW f \in DOMAIN fs1
    PROVE  /\ Written(fs1[f]) \in WrittenFile
           /\ Written(fs1[f]).mtime = fs1[f].mtime
           /\ Written(fs1[f]).content = fs1[f].content
           /\ fs1[f].mtime \in Nat
           /\ fs1[f].content \in Content
           /\ fs1[f].content.version \in Nat
           /\ fs1[f].content.begun \in Nat
  BY DEF FilesTyped, File, Written, WrittenFile, Content

LEMMA RequestTyped ==
    ASSUME NEW fs1, FilesTyped(fs1), NEW f \in DOMAIN fs1, NEW unit \in Units \cup {NoUnit}
    PROVE  /\ Request(fs1[f], unit) \in Requests
           /\ Request(fs1[f], unit).source = fs1[f].content.source
           /\ Request(fs1[f], unit).version = fs1[f].content.version
           /\ Request(fs1[f], unit).mtime = fs1[f].mtime
           /\ Request(fs1[f], unit).unit = unit
  BY TransferTyped DEF Request, Requests, Content

LEMMA GivenTyped ==
    ASSUME RoutingTyped
    PROVE  setup.given \subseteq UserSources \X Units
  BY ResourcesAssumption DEF RoutingTyped

(* What a call under way says.                                             *)
LEMMA CallTyped ==
    ASSUME call \in Calls, ~Idle
    PROVE  /\ call.kernel \in Kernels
           /\ call.type \in SourceTypes
           /\ call.file \in Prebuilt \cup Binaries
           /\ call.asked \in Requests
           /\ call.step = "compile" => call.file \in Binaries /\ call.begun \in Nat
  BY DEF Calls, Idle

LEMMA EndsTyped ==
    ASSUME NEW type \in SourceTypes, NEW code \in Codes, Ends(type, code)
    PROVE  call' \in Calls
  BY DEF Ends, Calls

LEMMA ContinuesTyped ==
    ASSUME NEW k \in Kernels, NEW type \in SourceTypes, now \in Nat,
           NEW f \in Prebuilt \cup Binaries, NEW asked \in Requests,
           \/ Writes(k, type, f, asked)
           \/ f \in Binaries /\ Compiles(k, type, f, asked)
    PROVE  call' \in Calls
  BY DEF Writes, Compiles, Calls

LEMMA SaveTyped ==
    ASSUME NEW s \in SavedSources, FilesTyped(fs), now \in Nat
    PROVE  FilesTyped(SaveToFile(fs, now, s))
<1>1. Text(s, 1, now) \in Content
  BY TextTyped DEF Sources
<1>2. NewFile(now, Text(s, 1, now)) \in File
  BY <1>1, NewFileTyped
<1> QED BY <1>2, PutTyped DEF SaveToFile, Files, Cached

(* The files kernel_write sees once the string is saved and what expired   *)
(* is deleted, and its outcomes.                                           *)
Saved(type, f) == IF type = "STRING" THEN SaveToFile(fs, now, f) ELSE fs
Clean(type, f) == DeleteUnusedFiles(Saved(type, f), now)

LooksFor(k, type, f) ==
    \/ type = "SOURCE" /\ <<f, client[k].unit>> \in setup.given
    \/ type = "STRING" /\ f \in SavedSources /\ UnitOf(k) = "GN"

KernelWriteLooks(k, type, f) ==
    LET asked == Request(Clean(type, f)[f], client[k].unit)
    IN  /\ LooksFor(k, type, f)
        /\ \/ f \notin DOMAIN Clean(type, f) /\ Ends(type, "no file") /\ fs' = Clean(type, f)
           \/ /\ f \in DOMAIN Clean(type, f)
              /\ ~ShouldCompile(Clean(type, f), f)
              /\ Writes(k, type, BinaryOf[f], asked)
              /\ fs' = Clean(type, f)
           \/ /\ f \in DOMAIN Clean(type, f)
              /\ Compiles(k, type, BinaryOf[f], asked)
              /\ fs' \in AfterRead(Clean(type, f), f, now)

LEMMA KernelWriteCases ==
    ASSUME NEW k, NEW type, NEW f, KernelWrite(k, type, f)
    PROVE  \/ /\ type = "BINARY"
              /\ f \in Prebuilt
              /\ Writes(k, type, f, Request(fs[f], client[k].unit))
              /\ UNCHANGED fs
           \/ Ends(type, "no source") /\ UNCHANGED fs
           \/ KernelWriteLooks(k, type, f)
  BY DEF KernelWrite, KernelWriteLooks, LooksFor, Clean, Saved

LEMMA SourceBinary ==
    ASSUME RoutingTyped, NEW k, NEW type, NEW f, LooksFor(k, type, f)
    PROVE  /\ f \in Sources /\ f \in Files /\ BinaryOf[f] \in Binaries
           /\ \/ type = "SOURCE" /\ f \in UserSources
              \/ type = "STRING" /\ f \in SavedSources
  BY GivenTyped, FilesAssumption DEF LooksFor, Sources, Files, UserFiles, Cached

LEMMA CleanTyped ==
    ASSUME TypeOK, NEW k, NEW type, NEW f, LooksFor(k, type, f)
    PROVE  /\ FilesTyped(Saved(type, f))
           /\ FilesTyped(Clean(type, f))
           /\ Aged(Saved(type, f), Clean(type, f))
<1>1. now \in Nat /\ FilesTyped(fs)
  BY TypeParts
<1>2. FilesTyped(Saved(type, f))
  BY <1>1, TypeParts, SourceBinary, SaveTyped DEF Saved
<1> QED BY <1>1, <1>2, AgedByDelete DEF Clean

(* The files and the call after each outcome of kernel_write.              *)
LEMMA KernelWriteTyped ==
    ASSUME TypeOK, NEW k \in Kernels, NEW type \in SourceTypes, NEW f \in Files,
           KernelWrite(k, type, f)
    PROVE  FilesTyped(fs') /\ call' \in Calls
<1>1. now \in Nat /\ FilesTyped(fs) /\ client[k].unit \in Units \cup {NoUnit}
  BY TypeParts DEF RoutingTyped, Resources
<1>2. CASE type = "BINARY" /\ f \in Prebuilt
           /\ Writes(k, type, f, Request(fs[f], client[k].unit)) /\ UNCHANGED fs
  <2>1. f \in DOMAIN fs
    BY <1>1, <1>2 DEF FilesTyped, UserFiles
  <2>2. Request(fs[f], client[k].unit) \in Requests
    BY <1>1, <2>1, RequestTyped
  <2> QED BY <1>1, <1>2, <2>2, ContinuesTyped
<1>3. CASE Ends(type, "no source") /\ UNCHANGED fs
  BY <1>1, <1>3, EndsTyped DEF Codes, FilesTyped
<1>4. CASE KernelWriteLooks(k, type, f)
  <2>1. BinaryOf[f] \in Binaries
    BY <1>4, TypeParts, SourceBinary DEF KernelWriteLooks
  <2>2. FilesTyped(Clean(type, f))
    BY <1>4, CleanTyped DEF KernelWriteLooks
  <2>3. FilesTyped(fs')
    BY <1>1, <1>4, <2>2, AgedByRead DEF KernelWriteLooks
  <2>4. CASE f \notin DOMAIN Clean(type, f)
    BY <1>4, <2>3, <2>4, EndsTyped DEF Codes, KernelWriteLooks
  <2>5. CASE f \in DOMAIN Clean(type, f)
    <3>1. Request(Clean(type, f)[f], client[k].unit) \in Requests
      BY <1>1, <2>2, <2>5, RequestTyped
    <3>2. \/ Writes(k, type, BinaryOf[f], Request(Clean(type, f)[f], client[k].unit))
          \/ Compiles(k, type, BinaryOf[f], Request(Clean(type, f)[f], client[k].unit))
      BY <1>4, <2>5 DEF KernelWriteLooks
    <3> QED BY <1>1, <2>1, <2>3, <3>1, <3>2, ContinuesTyped
  <2> QED BY <2>4, <2>5
<1> QED BY <1>2, <1>3, <1>4, KernelWriteCases

LEMMA CompileTyped ==
    ASSUME TypeOK, Compile
    PROVE  FilesTyped(fs') /\ call' \in Calls
<1>1. now \in Nat /\ FilesTyped(fs) /\ ~Idle /\ call \in Calls
  BY TypeParts DEF Compile, Idle
<1>2. /\ call.file \in Binaries
      /\ call.file \in Files
      /\ call.kernel \in Kernels
      /\ call.type \in SourceTypes
      /\ call.asked \in Requests
      /\ call.begun \in Nat
      /\ RoutingTyped
  BY <1>1, TypeParts, CallTyped DEF Compile, Files, Cached
<1>3. ASSUME call.asked.source \in DOMAIN fs,
             NEW version \in call.asked.version .. fs[call.asked.source].content.version,
             fs' = Put(fs, call.file, NewFile(now, Compiled(call.asked.source,
                           UnitOf(call.kernel), version, call.begun))),
             Writes(call.kernel, call.type, call.file, call.asked)
      PROVE  FilesTyped(fs') /\ call' \in Calls
  <2>1. version \in Nat /\ call.asked.source \in Sources \cup Prebuilt
    BY <1>1, <1>2, <1>3, TransferTyped DEF Requests
  <2>2. UnitOf(call.kernel) \in Units
    BY <1>2, UnitTyped DEF Resources
  <2>3. Compiled(call.asked.source, UnitOf(call.kernel), version, call.begun) \in Content
    BY <1>2, <2>1, <2>2 DEF Compiled, Content
  <2> QED BY <1>1, <1>2, <1>3, <2>3, NewFileTyped, PutTyped, ContinuesTyped
<1>4. CASE fs' \in AfterFailure(fs, call.file) /\ Ends(call.type, "not compiled")
  <2>1. FilesTyped(fs')
    BY <1>1, <1>2, <1>4, AgedByFailure
  <2> QED BY <1>2, <1>4, <2>1, EndsTyped DEF Codes
<1> QED BY <1>3, <1>4 DEF Compile

LEMMA WriteImageTyped ==
    ASSUME TypeOK, WriteImage
    PROVE  FilesTyped(fs') /\ call' \in Calls /\ ImagesTyped'
<1>1. now \in Nat /\ FilesTyped(fs) /\ ~Idle /\ call \in Calls /\ ImagesTyped
  BY TypeParts DEF WriteImage, GNKernelWrite, NvidiaKernelWrite, Idle
<1>2. /\ call.file \in Prebuilt \cup Binaries
      /\ call.kernel \in Kernels
      /\ call.type \in SourceTypes
      /\ call.asked \in Requests
  BY <1>1, CallTyped
<1>3. call' \in Calls
  BY <1>2, EndsTyped DEF WriteImage, GNKernelWrite, NvidiaKernelWrite, Codes
<1>4. FilesTyped(fs')
  BY <1>1, AgedByRead DEF WriteImage, GNKernelWrite, NvidiaKernelWrite
<1>5. ImagesTyped'
  <2>1. CASE UnitOf(call.kernel) = "GN"
    <3> DEFINE x == [path |-> call.file, asked |-> call.asked]
    <3>1. image' = Put(image, call.kernel, x) /\ loaded' = loaded
      BY <2>1 DEF WriteImage, GNKernelWrite, NvidiaKernelWrite
    <3>2. x \in [path : Prebuilt \cup Binaries, asked : Requests]
      BY <1>2
    <3> QED BY <1>1, <1>2, <3>1, <3>2 DEF ImagesTyped, Put
  <2>2. CASE call.file \in DOMAIN fs /\ image' = image
             /\ loaded' = Put(loaded, call.kernel,
                              [file |-> Written(fs[call.file]), asked |-> call.asked])
    <3> DEFINE x == [file |-> Written(fs[call.file]), asked |-> call.asked]
    <3>1. x \in [file : WrittenFile, asked : Requests]
      BY <1>1, <1>2, <2>2, TransferTyped
    <3> QED BY <1>1, <1>2, <2>2, <3>1 DEF ImagesTyped, Put
  <2>3. CASE image' = image /\ loaded' = loaded
    BY <1>1, <2>3 DEF ImagesTyped
  <2> QED BY <2>1, <2>2, <2>3 DEF WriteImage, GNKernelWrite, NvidiaKernelWrite
<1> QED BY <1>3, <1>4, <1>5

LEMMA EditTyped ==
    ASSUME TypeOK, NEW f \in UserSources, Edit(f)
    PROVE  FilesTyped(fs')
<1>1. now \in Nat /\ FilesTyped(fs)
  BY TypeParts
<1>2. f \in Files /\ f \in DOMAIN fs /\ f \in Sources
  BY <1>1 DEF FilesTyped, UserFiles, Files, Sources
<1>3. fs[f].content.version + 1 \in Nat
  BY <1>1, <1>2, TransferTyped
<1>4. Text(f, fs[f].content.version + 1, now) \in Content
  BY <1>1, <1>2, <1>3, TextTyped
<1> QED BY <1>1, <1>2, <1>4, NewFileTyped, PutTyped DEF Edit

LEMMA TypeStep ==
    ASSUME TypeOK, [Next]_vars
    PROVE  TypeOK'
<1> DEFINE Rest == now \in Nat /\ FilesTyped(fs) /\ call \in Calls /\ ImagesTyped
<1>0. Rest
  BY TypeParts
<1>1. ASSUME UNCHANGED <<now, fs, programs>> PROVE Rest'
  BY <1>0, <1>1 DEF programs, FilesTyped, ImagesTyped
<1>2. ASSUME NEW k \in Kernels, NEW type \in SourceTypes, NEW f \in Files,
             KernelWrite(k, type, f)
      PROVE  Rest'
  BY <1>0, <1>2, KernelWriteTyped DEF KernelWrite, FilesTyped, ImagesTyped
<1>3. ASSUME Compile PROVE Rest'
  BY <1>0, <1>3, CompileTyped DEF Compile, FilesTyped, ImagesTyped
<1>4. ASSUME WriteImage PROVE Rest'
  BY <1>0, <1>4, WriteImageTyped DEF WriteImage, GNKernelWrite, NvidiaKernelWrite, FilesTyped
<1>5. ASSUME NEW k \in Kernels, KernelStart(k) PROVE Rest'
  <2>1. FilesTyped(fs')
    BY <1>0, <1>5, AgedByRead DEF KernelStart
  <2> QED BY <1>0, <1>5, <2>1 DEF KernelStart, programs, FilesTyped, ImagesTyped
<1>6. ASSUME Tick PROVE Rest'
  BY <1>0, <1>6 DEF Tick, programs, FilesTyped, ImagesTyped
<1>7. ASSUME NEW f \in UserSources, Edit(f) PROVE Rest'
  BY <1>0, <1>7, EditTyped DEF Edit, programs, FilesTyped, ImagesTyped
<1>8. Rest'
  <2>1. ASSUME NEW r \in Resources, Deassign(r) \/ Acquire(r) \/ GiveBack(r) \/ Transfer(r)
        PROVE  UNCHANGED <<now, fs, programs>>
    BY <2>1 DEF Deassign, Acquire, GiveBack, Transfer
  <2>2. ASSUME NEW u \in Units, NEW r \in Resources, Assign(u, r)
        PROVE  UNCHANGED <<now, fs, programs>>
    BY <2>2 DEF Assign
  <2>3. CASE UNCHANGED vars
    BY <1>1, <2>3 DEF vars, programs
  <2> HIDE DEF Rest
  <2> QED BY <1>1, <1>2, <1>3, <1>4, <1>5, <1>6, <1>7, <2>1, <2>2, <2>3, StepCases
<1>9. TypeOK' <=> RoutingTyped' /\ Rest'
  BY DEF TypeOK, RoutingTyped, FilesTyped, ImagesTyped
<1> QED BY <1>8, <1>9, RoutingStep

LEMMA InitTyped == Init => TypeOK
<1> SUFFICES ASSUME Init PROVE TypeOK
  OBVIOUS
<1>1. RoutingTyped
  BY DEF Init, RoutingTyped, Units
<1>2. FilesTyped(fs)
  <2>1. ASSUME NEW f \in UserFiles PROVE fs[f] \in File
    <3>1. Text(f, 1, 0) \in Content
      BY TextTyped DEF UserFiles, Sources
    <3> QED BY <3>1, NewFileTyped DEF Init
  <2> QED BY <2>1 DEF Init, FilesTyped, Files
<1>3. call \in Calls /\ ImagesTyped /\ now \in Nat
  BY DEF Init, Calls, ImagesTyped
<1> QED BY <1>1, <1>2, <1>3, TypeParts

\* TypeOK: the maps of the facade and the managers, the files and the programs
\* keep their types through every call (hhal.cpp, compiler.cpp).
THEOREM TypeCorrect == Spec => []TypeOK
  BY InitTyped, TypeStep, PTL DEF Spec

-----------------------------------------------------------------------------
(* Routing.                                                                *)

LEMMA AssignedUnit ==
    ASSUME RoutingTyped, Routed, NEW r \in Resources, client[r].unit # NoUnit
    PROVE  client[r].unit \in Units /\ UnitOf(r) = client[r].unit
<1>1. client[r].unit \in Units
  BY DEF RoutingTyped
<1>2. unit_of[r] = client[r].unit
  BY <1>1 DEF Routed
<1> QED BY <1>1, <1>2 DEF UnitOf

(* Routed for one resource.                                                *)
RoutedAt(r) ==
    \A u \in Units :
        /\ r \in info[u] <=> client[r].unit = u
        /\ r \in held[u] <=> client[r].unit = u /\ client[r].holds
        /\ client[r].unit = u => unit_of[r] = u

LEMMA RoutedStep ==
    ASSUME TypeOK, Routed, [Next]_vars
    PROVE  Routed'
<1>0. RoutingTyped
  BY TypeParts
<1>1. ASSUME NEW u \in Units, NEW r \in Resources, Assign(u, r) PROVE Routed'
  BY <1>0, <1>1 DEF Assign, AssignedTo, Routed, RoutingTyped, Recorded, Units, NoUnit
<1>2. ASSUME NEW r \in Resources, Deassign(r) PROVE Routed'
  <2>1. client[r].unit # NoUnit
    BY <1>0, <1>2 DEF Deassign, DeassignedFrom, Routed, RoutingTyped
  <2>2. client[r].unit \in Units /\ UnitOf(r) = client[r].unit
    BY <1>0, <2>1, AssignedUnit
  <2>3. RoutedAt(r)'
    BY <1>0, <1>2, <2>2 DEF Deassign, DeassignedFrom, Routed, RoutedAt, RoutingTyped, Erased, NoUnit, Units
  <2>4. ASSUME NEW q \in Resources, q # r PROVE RoutedAt(q)'
    BY <1>0, <1>2, <2>2, <2>4 DEF Deassign, DeassignedFrom, Routed, RoutedAt, RoutingTyped, Erased
  <2> QED BY <2>3, <2>4 DEF Routed, RoutedAt
<1>3. ASSUME NEW r \in Resources, Acquire(r) PROVE Routed'
  <2>1. client[r].unit # NoUnit
    BY <1>0, <1>3 DEF Acquire, Routed, RoutingTyped
  <2>2. client[r].unit \in Units /\ UnitOf(r) = client[r].unit
    BY <1>0, <2>1, AssignedUnit
  <2>3. RoutedAt(r)'
    <3>1. PICK ok \in BOOLEAN :
            /\ client' = [client EXCEPT ![r] = [unit |-> client[r].unit, holds |-> ok]]
            /\ held' = [held EXCEPT ![client[r].unit] = IF ok THEN @ \cup {r} ELSE @]
      BY <1>3, <2>2 DEF Acquire
    <3>2. /\ client'[r].unit = client[r].unit
          /\ client'[r].holds = ok
          /\ unit_of'[r] = client[r].unit
          /\ info' = info
      BY <1>0, <1>3, <2>2, <3>1 DEF Acquire, RoutingTyped, Dispatched
    <3>3. ~client[r].holds
      BY <1>3 DEF Acquire
    <3>4. \A u \in Units : r \in held'[u] <=> client[r].unit = u /\ ok
      BY <1>0, <2>2, <3>1, <3>3 DEF RoutingTyped, Routed
    <3> QED BY <3>2, <3>4 DEF Routed, RoutedAt
  <2>4. ASSUME NEW q \in Resources, q # r PROVE RoutedAt(q)'
    BY <1>0, <1>3, <2>2, <2>4 DEF Acquire, Routed, RoutedAt, RoutingTyped, Dispatched
  <2> QED BY <2>3, <2>4 DEF Routed, RoutedAt
<1>4. ASSUME NEW r \in Resources, GiveBack(r) PROVE Routed'
  <2>1. client[r].unit # NoUnit
    BY <1>0, <1>4 DEF GiveBack, Routed, RoutingTyped
  <2>2. client[r].unit \in Units /\ UnitOf(r) = client[r].unit
    BY <1>0, <2>1, AssignedUnit
  <2>3. RoutedAt(r)'
    BY <1>0, <1>4, <2>2 DEF GiveBack, Routed, RoutedAt, RoutingTyped, Dispatched, NoUnit, Units
  <2>4. ASSUME NEW q \in Resources, q # r PROVE RoutedAt(q)'
    BY <1>0, <1>4, <2>2, <2>4 DEF GiveBack, Routed, RoutedAt, RoutingTyped, Dispatched
  <2> QED BY <2>3, <2>4 DEF Routed, RoutedAt
<1>5. ASSUME NEW r \in Resources, unit_of' = Dispatched(r), UNCHANGED <<client, info, held>>
      PROVE  Routed'
  BY <1>0, <1>5 DEF Routed, RoutingTyped, UnitOf, Dispatched, Units, NoUnit
<1>6. ASSUME UNCHANGED routing PROVE Routed'
  BY <1>6 DEF Routed, routing
<1>7. ASSUME NEW r \in Resources, Transfer(r) PROVE Routed'
  BY <1>5, <1>7 DEF Transfer
<1>8. ASSUME NEW k \in Kernels, \/ KernelStart(k)
                                \/ \E type \in SourceTypes, f \in Files : KernelWrite(k, type, f)
      PROVE  Routed'
  <2>1. k \in Resources
    BY DEF Resources
  <2> QED BY <1>5, <1>8, <2>1 DEF KernelStart, KernelWrite
<1>9. ASSUME \/ Compile \/ WriteImage \/ Tick \/ UNCHANGED vars \/ \E f \in UserSources : Edit(f)
      PROVE  Routed'
  BY <1>6, <1>9 DEF Compile, WriteImage, GNKernelWrite, NvidiaKernelWrite, Tick, Edit, vars, routing
<1> QED BY <1>1, <1>2, <1>3, <1>4, <1>7, <1>8, <1>9, StepCases

\* Routed: whatever calls are made, also on ids that are not assigned, and however
\* ids are used again, a call reaches the manager the resource was assigned to, and
\* that manager alone knows and holds it (the maps of hhal.cpp and the managers).
THEOREM CallsReachTheirManager == Spec => []Routed
<1>1. Init => Routed
  <2> SUFFICES ASSUME Init, NEW r \in Resources, NEW u \in Units
               PROVE  /\ r \notin info[u]
                      /\ r \notin held[u]
                      /\ client[r].unit # u
    BY DEF Routed
  <2> QED BY DEF Init, Units, NoUnit
<1> QED BY <1>1, TypeCorrect, RoutedStep, PTL DEF Spec

-----------------------------------------------------------------------------
(* Programs.                                                               *)

(* What a binary is made from, of the files that are there: a source whose *)
(* binary has its name, for a unit it was given to, and in its version but *)
(* for edits made since the compilation began.                             *)
MadeRight(fs1, b, content) ==
    LET s == content.source
    IN  /\ <<s, content.unit>> \in Compilations
        /\ BinaryOf[s] = b
        /\ s \in SavedSources => content.version = 1
        /\ s \in UserSources /\ content.version < fs1[s].content.version
           => content.begun <= fs1[s].mtime

FilesRight(fs1) ==
    /\ \A s \in DOMAIN fs1 : s \notin Binaries => fs1[s].content.source = s
    /\ \A s \in DOMAIN fs1 \cap SavedSources : fs1[s].content.version = 1
    /\ \A b \in DOMAIN fs1 \cap Binaries :
          MadeRight(fs1, b, fs1[b].content) /\ fs1[b].content.begun <= now

(* The program at path answers a request for a file that existed.          *)
Requested(fs1, path, asked) ==
    LET s == asked.source
    IN  /\ \/ path \in Prebuilt /\ s = path
           \/ <<s, asked.unit>> \in Compilations /\ path = BinaryOf[s]
        /\ s \in UserFiles => asked.version <= fs1[s].content.version
        /\ s \in SavedSources => asked.version = 1

(* A compilation under way will make what was asked for, and no older than *)
(* what any kernel was given.                                              *)
CompilesRight ==
    /\ UnitOf(call.kernel) = call.asked.unit
    /\ call.begun <= now
    /\ call.asked.source \in UserSources
       /\ call.asked.version < fs[call.asked.source].content.version
       => call.begun <= fs[call.asked.source].mtime
    /\ \A k \in DOMAIN image :
          image[k].asked.source = call.asked.source
          => image[k].asked.version <= call.asked.version

CallRight ==
    /\ ~Idle => Requested(fs, call.file, call.asked)
    /\ call.step = "write" /\ call.file \in DOMAIN fs => AsAsked(fs[call.file], call.asked)
    /\ call.step = "compile" => CompilesRight

ImagesRight == \A k \in DOMAIN image : Requested(fs, image[k].path, image[k].asked)

ProgramInv == FilesRight(fs) /\ ImagesRight /\ CallRight /\ ProgramsAsAsked

LEMMA SetupStays ==
    ASSUME TypeOK, [Next]_vars
    PROVE  setup' = setup /\ Compilations' = Compilations
<1>1. setup' = setup
  <2>1. ASSUME NEW u \in Units, NEW r \in Resources, Assign(u, r) PROVE setup' = setup
    BY <2>1 DEF Assign
  <2>2. ASSUME NEW r \in Resources, Deassign(r) \/ Acquire(r) \/ GiveBack(r) \/ Transfer(r)
        PROVE  setup' = setup
    BY <2>2 DEF Deassign, Acquire, GiveBack, Transfer
  <2>3. ASSUME NEW k, NEW type, NEW f, KernelWrite(k, type, f) PROVE setup' = setup
    BY <2>3 DEF KernelWrite
  <2>4. ASSUME NEW k, KernelStart(k) PROVE setup' = setup
    BY <2>4 DEF KernelStart
  <2>5. ASSUME NEW f, Edit(f) PROVE setup' = setup
    BY <2>5 DEF Edit, routing
  <2>6. CASE Compile \/ WriteImage \/ Tick \/ UNCHANGED vars
    BY <2>6 DEF Compile, WriteImage, Tick, vars, routing
  <2> QED BY <2>1, <2>2, <2>3, <2>4, <2>5, <2>6, StepCases
<1> QED BY <1>1 DEF Compilations

LEMMA CompilationsTyped ==
    ASSUME RoutingTyped, NEW c \in Compilations
    PROVE  c[1] \in Sources /\ c[1] \notin Binaries /\ c[1] \notin Prebuilt
  BY GivenTyped, FilesAssumption DEF Compilations, Sources, UserFiles, Cached

LEMMA MadeWhenAged ==
    ASSUME NEW fs1, NEW fs2, Aged(fs1, fs2), UserFiles \subseteq DOMAIN fs2,
           NEW b, NEW content, MadeRight(fs1, b, content)
    PROVE  MadeRight(fs2, b, content)
  BY DEF MadeRight, Aged, UserFiles

LEMMA RightWhenAged ==
    ASSUME NEW fs1, NEW fs2, FilesRight(fs1), Aged(fs1, fs2), UserFiles \subseteq DOMAIN fs2
    PROVE  FilesRight(fs2)
<1>1. \A b \in DOMAIN fs2 \cap Binaries : MadeRight(fs2, b, fs2[b].content)
  BY MadeWhenAged DEF FilesRight, Aged
<1> QED BY <1>1 DEF FilesRight, Aged

LEMMA RequestedWhenAged ==
    ASSUME NEW fs1, NEW fs2, Aged(fs1, fs2), UserFiles \subseteq DOMAIN fs2,
           NEW path, NEW asked, Requested(fs1, path, asked)
    PROVE  Requested(fs2, path, asked)
  BY DEF Requested, Aged

LEMMA AsAskedWhenAged ==
    ASSUME NEW fs1, NEW fs2, Aged(fs1, fs2), NEW f \in DOMAIN fs2, NEW asked,
           AsAsked(fs1[f], asked)
    PROVE  AsAsked(fs2[f], asked)
  BY DEF AsAsked, Aged

(* Nothing is written: files age, programs stay, and so does the call      *)
(* unless it ends.                                                         *)
LEMMA ProgramsAge ==
    ASSUME TypeOK, TypeOK', ProgramInv, setup' = setup, now <= now',
           Aged(fs, fs'), UNCHANGED <<image, loaded>>,
           Idle' \/ (UNCHANGED call /\ (~Idle => UNCHANGED unit_of))
    PROVE  ProgramInv'
<1>0. UserFiles \subseteq DOMAIN fs' /\ DOMAIN fs' \subseteq DOMAIN fs
  BY DEF TypeOK, Aged
<1>1. FilesRight(fs)'
  <2>1. FilesRight(fs')
    BY <1>0, RightWhenAged DEF ProgramInv
  <2>2. now \in Nat /\ now' \in Nat /\ FilesTyped(fs')
    BY DEF TypeOK, FilesTyped
  <2>3. \A b \in DOMAIN fs' : fs'[b].content.begun \in Nat
    BY <2>2, TransferTyped
  <2>4. \A b \in DOMAIN fs' \cap Binaries :
          MadeRight(fs', b, fs'[b].content) /\ fs'[b].content.begun <= now
    BY <2>1 DEF FilesRight
  <2>5. \A b \in DOMAIN fs' \cap Binaries :
          MadeRight(fs, b, fs[b].content)' /\ fs'[b].content.begun <= now'
    <3>1. ASSUME NEW b \in DOMAIN fs' \cap Binaries
          PROVE  MadeRight(fs, b, fs[b].content)'
      BY <2>4 DEF MadeRight, Compilations
    <3> QED BY <2>2, <2>3, <2>4, <3>1
  <2> QED BY <2>1, <2>5 DEF FilesRight
<1>2. \A k \in DOMAIN image : Requested(fs', image[k].path, image[k].asked)
  BY <1>0, RequestedWhenAged DEF ProgramInv, ImagesRight
<1>3. \A k \in DOMAIN image :
        image[k].path \in DOMAIN fs' => AsAsked(fs'[image[k].path], image[k].asked)
  BY <1>0, AsAskedWhenAged DEF ProgramInv, ProgramsAsAsked
<1>4. CallRight'
  <2>1. CASE Idle'
    BY <2>1 DEF CallRight, Idle
  <2>2. CASE ~Idle' /\ UNCHANGED call
    <3>1. ~Idle /\ CallRight /\ UNCHANGED unit_of
      BY <2>2 DEF Idle, ProgramInv
    <3>2. Requested(fs', call.file, call.asked)
      BY <1>0, <3>1, RequestedWhenAged DEF CallRight
    <3>3. call.step = "write" /\ call.file \in DOMAIN fs' => AsAsked(fs'[call.file], call.asked)
      BY <1>0, <3>1, AsAskedWhenAged DEF CallRight
    <3>4. call.step = "compile" => CompilesRight'
      <4> SUFFICES ASSUME call.step = "compile" PROVE CompilesRight'
        OBVIOUS
      <4>1. call.begun \in Nat /\ now \in Nat /\ now' \in Nat /\ CompilesRight
        BY <3>1, CallTyped DEF TypeOK, CallRight
      <4>2. /\ call.begun <= now'
            /\ UnitOf(call.kernel)' = UnitOf(call.kernel)
        BY <2>2, <3>1, <4>1 DEF CompilesRight, UnitOf
      <4>3. call.asked.source \in UserSources
            => fs'[call.asked.source].content = fs[call.asked.source].content
               /\ fs'[call.asked.source].mtime = fs[call.asked.source].mtime
        BY <1>0 DEF Aged, UserFiles
      <4> QED BY <2>2, <4>1, <4>2, <4>3 DEF CompilesRight
    <3> QED BY <2>2, <3>1, <3>2, <3>3, <3>4
            DEF CallRight, Requested, AsAsked, SameName, Compilations
  <2> QED BY <2>1, <2>2
<1>5. ProgramsAsAsked'
  BY <1>3 DEF ProgramInv, ProgramsAsAsked, AsAsked, SameName, Compilations
<1>6. ImagesRight'
  BY <1>2 DEF ImagesRight, Requested, Compilations
<1> QED BY <1>1, <1>4, <1>5, <1>6 DEF ProgramInv

(* A version of a source that is there now has been asked for.             *)
LEMMA RequestNow ==
    ASSUME RoutingTyped, NEW fs1, FilesTyped(fs1), FilesRight(fs1), NEW f \in DOMAIN fs1,
           NEW unit \in Units \cup {NoUnit}, NEW path,
           \/ f \in Prebuilt /\ path = f
           \/ <<f, unit>> \in Compilations /\ path = BinaryOf[f]
    PROVE  /\ Requested(fs1, path, Request(fs1[f], unit))
           /\ fs1[f].content.source = f
<1>1. f \notin Binaries
  BY CompilationsTyped, FilesAssumption DEF UserFiles, Cached
<1>2. /\ Request(fs1[f], unit).source = f
      /\ Request(fs1[f], unit).unit = unit
      /\ Request(fs1[f], unit).version = fs1[f].content.version
      /\ fs1[f].content.source = f
      /\ fs1[f].content.version \in Nat
  BY <1>1, TransferTyped, RequestTyped DEF FilesRight
<1>3. f \in SavedSources => fs1[f].content.version = 1
  BY DEF FilesRight
<1> QED BY <1>2, <1>3 DEF Requested

(* Saving a string changes no file.                                        *)
LEMMA SaveKeeps ==
    ASSUME NEW s \in SavedSources, FilesTyped(fs), FilesRight(fs)
    PROVE  /\ FilesRight(SaveToFile(fs, now, s))
           /\ DOMAIN fs \subseteq DOMAIN SaveToFile(fs, now, s)
           /\ \A f \in DOMAIN fs : SaveToFile(fs, now, s)[f] = fs[f]
           /\ \A f \in DOMAIN SaveToFile(fs, now, s) : f \in DOMAIN fs \/ f = s
<1>1. CASE s \in DOMAIN fs
  BY <1>1 DEF SaveToFile
<1>2. CASE s \notin DOMAIN fs
  <2> DEFINE x == NewFile(now, Text(s, 1, now))
             fs2 == Put(fs, s, x)
  <2>1. SaveToFile(fs, now, s) = fs2
    BY <1>2 DEF SaveToFile
  <2>2. x.content.source = s /\ x.content.version = 1
    BY DEF NewFile, Text
  <2>3. /\ DOMAIN fs2 = DOMAIN fs \cup {s}
        /\ fs2[s] = x
        /\ \A f \in DOMAIN fs : fs2[f] = fs[f]
    BY <1>2 DEF Put
  <2>4. s \notin Binaries
    BY FilesAssumption
  <2> HIDE DEF x, fs2
  <2>5. ASSUME NEW b, NEW content, MadeRight(fs, b, content)
        PROVE  MadeRight(fs2, b, content)
    BY <2>3, <2>5 DEF MadeRight, FilesTyped, UserFiles
  <2>6. FilesRight(fs2)
    BY <2>2, <2>3, <2>4, <2>5 DEF FilesRight
  <2> QED BY <2>1, <2>3, <2>6
<1> QED BY <1>1, <1>2

LEMMA KernelWriteKeepsPrograms ==
    ASSUME TypeOK, TypeOK', Routed, ProgramInv, setup' = setup,
           NEW k \in Kernels, NEW type \in SourceTypes, NEW f \in Files,
           KernelWrite(k, type, f)
    PROVE  ProgramInv'
<1> DEFINE unit == client[k].unit
<1>0. /\ UNCHANGED <<image, loaded, client, now>>
      /\ FilesTyped(fs)
      /\ RoutingTyped
      /\ unit \in Units \cup {NoUnit}
      /\ unit # NoUnit
      /\ k \in Resources
      /\ unit_of' = Dispatched(k)
      /\ now \in Nat
  BY TypeParts DEF KernelWrite, RoutingTyped, Resources
<1>00. UnitOf(k) = unit /\ UnitOf(k)' = unit
  <2>1. UnitOf(k) = unit /\ unit \in Units
    BY <1>0, AssignedUnit
  <2>2. unit_of'[k] = unit
    BY <1>0, <2>1 DEF Dispatched, RoutingTyped
  <2> QED BY <2>1, <2>2 DEF UnitOf, Units, NoUnit
<1> HIDE DEF unit
<1>1. CASE Ends(type, "no source") /\ UNCHANGED fs
  <2>1. Idle' /\ Aged(fs, fs')
    BY <1>1 DEF Ends, Idle, Aged
  <2> QED BY <1>0, <2>1, ProgramsAge
<1>2. CASE /\ f \in Prebuilt
           /\ Writes(k, type, f, Request(fs[f], unit))
           /\ UNCHANGED fs
  <2>1. /\ call'.step = "write"
        /\ call'.file = f
        /\ call'.asked = Request(fs[f], unit)
    BY <1>2 DEF Writes
  <2>2. f \in DOMAIN fs
    BY <1>0, <1>2 DEF FilesTyped, UserFiles
  <2>3. Requested(fs, f, Request(fs[f], unit)) /\ fs[f].content.source = f
    BY <1>0, <1>2, <2>2, RequestNow DEF ProgramInv
  <2>4. AsAsked(fs[f], Request(fs[f], unit))
    <3>1. /\ Request(fs[f], unit).source = f
          /\ Request(fs[f], unit).version = fs[f].content.version
          /\ fs[f].content.version \in Nat
      BY <1>0, <2>2, <2>3, TransferTyped, RequestTyped
    <3> QED BY <1>2, <2>3, <3>1 DEF AsAsked
  <2>5. CallRight'
    BY <1>2, <2>1, <2>3, <2>4 DEF CallRight, Requested, AsAsked, SameName, Compilations
  <2> QED BY <1>0, <1>2, <2>5
          DEF ProgramInv, FilesRight, MadeRight, ImagesRight, Requested, ProgramsAsAsked,
              AsAsked, SameName, Compilations
<1>3. CASE KernelWriteLooks(k, type, f)
  <2> DEFINE saved == Saved(type, f)
             clean == Clean(type, f)
             asked == Request(clean[f], unit)
  <2>0. LooksFor(k, type, f)
    BY <1>3 DEF KernelWriteLooks
  <2>1. FilesTyped(saved) /\ FilesTyped(clean) /\ Aged(saved, clean)
    BY <2>0, CleanTyped
  <2>2. /\ f \in Sources
        /\ BinaryOf[f] \in Binaries
        /\ <<f, unit>> \in Compilations
        /\ f \in UserSources \/ f \in SavedSources
        /\ f \notin Prebuilt
    BY <1>0, <1>00, <2>0, SourceBinary, CompilationsTyped DEF LooksFor, Compilations, unit
  <2>3. /\ FilesRight(saved)
        /\ DOMAIN fs \subseteq DOMAIN saved
        /\ \A g \in DOMAIN fs : saved[g] = fs[g]
        /\ \A g \in DOMAIN saved : g \in DOMAIN fs \/ g \in SavedSources
    BY <1>0, <2>0, SaveKeeps, SourceBinary DEF Saved, ProgramInv
  <2> HIDE DEF saved, clean
  <2>4. FilesRight(clean) /\ UserFiles \subseteq DOMAIN clean
    BY <2>1, <2>3, RightWhenAged DEF FilesTyped
  <2>5. Aged(clean, fs') /\ FilesTyped(fs')
    <3>1. Aged(clean, clean)
      BY DEF Aged
    <3> QED BY <1>0, <1>3, <2>1, <3>1, AgedByRead DEF KernelWriteLooks, clean
  <2>6. Aged(saved, fs') /\ UserFiles \subseteq DOMAIN fs'
    BY <2>1, <2>5, AgedTwice DEF FilesTyped
  <2>7. FilesRight(fs)'
    <3>1. FilesRight(fs')
      BY <2>3, <2>6, RightWhenAged
    <3> QED BY <1>0, <3>1 DEF FilesRight, MadeRight, Compilations
  <2>8. ASSUME NEW path, NEW request, Requested(fs, path, request)
        PROVE  Requested(saved, path, request) /\ Requested(fs', path, request)
    <3>1. Requested(saved, path, request)
      BY <1>0, <2>3, <2>8 DEF Requested, FilesTyped
    <3> QED BY <2>6, <3>1, RequestedWhenAged
  <2>9. ImagesRight'
    <3>1. \A j \in DOMAIN image : Requested(fs', image[j].path, image[j].asked)
      BY <2>8 DEF ImagesRight, ProgramInv
    <3> QED BY <1>0, <3>1 DEF ImagesRight, Requested, Compilations
  <2>10. ProgramsAsAsked'
    <3>1. ASSUME NEW j \in DOMAIN image, image[j].path \in DOMAIN fs'
          PROVE  AsAsked(fs'[image[j].path], image[j].asked)
      <4>1. image[j].path \in DOMAIN saved /\ image[j].path \notin SavedSources
        BY <2>6, <3>1, FilesAssumption DEF Aged, TypeOK, UserFiles, Cached
      <4>2. AsAsked(saved[image[j].path], image[j].asked)
        BY <2>3, <4>1 DEF ProgramInv, ProgramsAsAsked
      <4> QED BY <2>6, <3>1, <4>2, AsAskedWhenAged
    <3> QED BY <1>0, <3>1 DEF ProgramInv, ProgramsAsAsked, AsAsked, SameName, Compilations
  <2>11. CallRight'
    <3>1. CASE Ends(type, "no file")
      BY <3>1 DEF Ends, Idle, CallRight
    <3>2. CASE f \in DOMAIN clean /\ ~Ends(type, "no file")
      <4>1. \/ /\ Writes(k, type, BinaryOf[f], asked)
               /\ ~ShouldCompile(clean, f)
               /\ fs' = clean
            \/ Compiles(k, type, BinaryOf[f], asked)
        BY <1>3, <3>2 DEF KernelWriteLooks, clean, unit
      <4>2. Requested(clean, BinaryOf[f], asked) /\ Requested(fs', BinaryOf[f], asked)
        <5>1. Requested(clean, BinaryOf[f], asked)
          BY <1>0, <2>1, <2>2, <2>4, <3>2, RequestNow
        <5> QED BY <2>5, <2>6, <5>1, RequestedWhenAged
      <4>3. /\ asked.source = f
            /\ asked.unit = unit
            /\ asked.version = clean[f].content.version
            /\ asked.mtime = clean[f].mtime
            /\ clean[f].mtime \in Nat
            /\ clean[f].content.version \in Nat
        <5>1. clean[f].content.source = f
          BY <1>0, <2>1, <2>2, <2>4, <3>2, RequestNow
        <5> QED BY <1>0, <2>1, <3>2, <5>1, TransferTyped, RequestTyped
      <4> HIDE DEF asked
      <4>4. CASE Writes(k, type, BinaryOf[f], asked) /\ ~ShouldCompile(clean, f) /\ fs' = clean
        <5>1. call'.step = "write" /\ call'.file = BinaryOf[f] /\ call'.asked = asked
          BY <4>4 DEF Writes
        <5> DEFINE b == BinaryOf[f]
        <5>2. /\ b \in DOMAIN clean
              /\ ~(clean[b].mtime < clean[f].mtime)
              /\ clean[b].mtime \in Nat
              /\ clean[b].content.version \in Nat
          BY <2>1, <4>4, TransferTyped DEF ShouldCompile
        <5>3. MadeRight(clean, b, clean[b].content)
          BY <2>2, <2>4, <5>2 DEF FilesRight
        <5>4. <<clean[b].content.source, clean[b].content.unit>> \in SameName(f)
          BY <5>3 DEF MadeRight, SameName
        <5>5. clean[b].content.source = f /\ clean[b].content.version < clean[f].content.version
              => clean[b].content.begun <= clean[f].mtime
          <6>1. CASE f \in UserSources
            BY <5>3, <6>1 DEF MadeRight
          <6>2. CASE f \in SavedSources
            <7>1. clean[f].content.version = 1
              BY <2>4, <3>2, <6>2 DEF FilesRight
            <7> QED BY <5>3, <6>2, <7>1 DEF MadeRight
          <6> QED BY <2>2, <6>1, <6>2
        <5>6. AsAsked(clean[b], asked)
          BY <2>2, <4>3, <5>2, <5>4, <5>5 DEF AsAsked
        <5> QED BY <4>2, <4>4, <5>1, <5>6 DEF CallRight, Requested, AsAsked, SameName, Compilations
      <4>5. CASE Compiles(k, type, BinaryOf[f], asked)
        <5>1. /\ call'.step = "compile"
              /\ call'.file = BinaryOf[f]
              /\ call'.asked = asked
              /\ call'.kernel = k
              /\ call'.begun = now
          BY <4>5 DEF Compiles
        <5>2. ASSUME NEW j \in DOMAIN image, image[j].asked.source = f
              PROVE  image[j].asked.version <= clean[f].content.version
          <6>1. Requested(clean, image[j].path, image[j].asked)
            <7>1. Requested(saved, image[j].path, image[j].asked)
              BY <2>8 DEF ImagesRight, ProgramInv
            <7> QED BY <2>1, <2>4, <7>1, RequestedWhenAged
          <6>2. CASE f \in UserSources
            BY <5>2, <6>1, <6>2 DEF Requested, UserFiles
          <6>3. CASE f \in SavedSources
            <7>1. image[j].asked.version = 1
              BY <5>2, <6>1, <6>3 DEF Requested
            <7>2. clean[f].content.version = 1
              BY <2>4, <3>2, <6>3 DEF FilesRight
            <7> QED BY <7>1, <7>2
          <6> QED BY <2>2, <6>2, <6>3
        <5>3. f \in UserSources => fs'[f].content = clean[f].content
          BY <2>5, <2>6 DEF Aged, UserFiles
        <5>4. CompilesRight'
          BY <1>0, <1>00, <4>3, <5>1, <5>2, <5>3 DEF CompilesRight
        <5> QED BY <4>2, <5>1, <5>4 DEF CallRight, Requested, Compilations
      <4> QED BY <4>1, <4>4, <4>5
    <3>3. Ends(type, "no file") \/ f \in DOMAIN clean
      BY <1>3 DEF KernelWriteLooks, clean
    <3> QED BY <3>1, <3>2, <3>3
  <2> QED BY <2>7, <2>9, <2>10, <2>11 DEF ProgramInv
<1> QED BY <1>1, <1>2, <1>3, KernelWriteCases DEF unit

LEMMA CompileKeepsPrograms ==
    ASSUME TypeOK, TypeOK', ProgramInv, setup' = setup, Compile
    PROVE  ProgramInv'
<1> DEFINE b == call.file
           s == call.asked.source
<1>0. /\ UNCHANGED <<image, loaded, now, unit_of>>
      /\ FilesTyped(fs)
      /\ RoutingTyped
      /\ ~Idle
      /\ call.step = "compile"
      /\ call.kernel \in Kernels
      /\ b \in Binaries
      /\ call.asked \in Requests
      /\ call.begun \in Nat
      /\ now \in Nat
  BY TypeParts, CallTyped DEF Compile, Idle, routing
<1>1. CASE fs' \in AfterFailure(fs, b) /\ Ends(call.type, "not compiled")
  <2>1. Idle' /\ Aged(fs, fs')
    BY <1>0, <1>1, AgedByFailure DEF Ends, Idle
  <2> QED BY <1>0, <2>1, ProgramsAge
<1>2. ASSUME s \in DOMAIN fs,
             NEW version \in call.asked.version .. fs[s].content.version,
             fs' = Put(fs, b, NewFile(now, Compiled(s, UnitOf(call.kernel), version, call.begun))),
             Writes(call.kernel, call.type, b, call.asked)
      PROVE  ProgramInv'
  <2> DEFINE x == NewFile(now, Compiled(s, UnitOf(call.kernel), version, call.begun))
  <2>1. Requested(fs, b, call.asked) /\ CompilesRight
    BY <1>0 DEF ProgramInv, CallRight
  <2>2. b \notin Prebuilt /\ b \notin UserFiles /\ b \notin SavedSources
    BY <1>0, FilesAssumption DEF UserFiles, Cached
  <2>3. /\ x.content.source = s
        /\ x.content.unit = call.asked.unit
        /\ x.content.version = version
        /\ x.content.begun = call.begun
        /\ x.mtime = now
        /\ call.asked.version \in Nat
        /\ fs[s].content.version \in Nat
        /\ version \in Nat
        /\ call.asked.version <= version
        /\ version <= fs[s].content.version
    BY <1>0, <1>2, <2>1, TransferTyped DEF NewFile, Compiled, Requests, CompilesRight
  <2>4. /\ <<s, call.asked.unit>> \in Compilations
        /\ BinaryOf[s] = b
        /\ s \in Sources
        /\ s \notin Binaries
        /\ s \notin Prebuilt
    BY <1>0, <2>1, <2>2, CompilationsTyped DEF Requested
  <2>5. /\ DOMAIN fs' = DOMAIN fs \cup {b}
        /\ fs'[b] = x
        /\ \A f \in DOMAIN fs : f # b => fs'[f] = fs[f]
    BY <1>2 DEF Put
  <2>6. /\ call'.step = "write"
        /\ call'.file = b
        /\ call'.asked = call.asked
    BY <1>2 DEF Writes
  <2> HIDE DEF b, x
  <2>7. MadeRight(fs, b, x.content)
    <3>1. s \in SavedSources => version = 1
      <4>1. s \in SavedSources => call.asked.version = 1 /\ fs[s].content.version = 1
        BY <1>2, <2>1 DEF Requested, ProgramInv, FilesRight
      <4> QED BY <2>3, <4>1
    <3>2. s \in UserSources /\ version < fs[s].content.version => call.begun <= fs[s].mtime
      BY <2>1, <2>3 DEF CompilesRight
    <3> QED BY <2>3, <2>4, <3>1, <3>2 DEF MadeRight
  <2>8. ASSUME NEW c \in DOMAIN fs \cup {b}, NEW content, MadeRight(fs, c, content)
        PROVE  MadeRight(fs, c, content)'
    BY <1>0, <2>2, <2>5, <2>8 DEF MadeRight, FilesTyped, UserFiles, Compilations
  <2>9. FilesRight(fs)'
    <3>1. ASSUME NEW c \in DOMAIN fs' \cap Binaries
          PROVE  MadeRight(fs, c, fs[c].content)' /\ fs'[c].content.begun <= now'
      <4>1. CASE c = b
        <5>1. PICK content : content = x.content
          OBVIOUS
        <5>2. MadeRight(fs, c, content)'
          BY <2>7, <2>8, <4>1, <5>1
        <5>3. fs'[c].content = content /\ content.begun <= now'
          BY <1>0, <2>1, <2>3, <2>5, <4>1, <5>1 DEF CompilesRight
        <5> QED BY <5>2, <5>3 DEF MadeRight
      <4>2. CASE c # b
        <5>1. MadeRight(fs, c, fs[c].content) /\ fs[c].content.begun <= now /\ fs'[c] = fs[c]
          BY <2>5, <3>1, <4>2 DEF FilesRight, ProgramInv
        <5>2. PICK content : content = fs[c].content
          OBVIOUS
        <5>3. MadeRight(fs, c, content)'
          BY <2>5, <2>8, <3>1, <5>1, <5>2
        <5> QED BY <1>0, <5>1, <5>2, <5>3 DEF MadeRight
      <4> QED BY <4>1, <4>2
    <3>2. /\ \A f \in DOMAIN fs' : f \notin Binaries => fs'[f].content.source = f
          /\ \A f \in DOMAIN fs' \cap SavedSources : fs'[f].content.version = 1
      BY <1>0, <2>2, <2>5 DEF FilesRight, ProgramInv, b
    <3> QED BY <3>1, <3>2 DEF FilesRight
  <2>10. ImagesRight'
    <3>1. ASSUME NEW k \in DOMAIN image
          PROVE  Requested(fs, image[k].path, image[k].asked)'
      BY <1>0, <2>2, <2>5 DEF Requested, FilesTyped, Compilations, ImagesRight, ProgramInv
    <3> QED BY <1>0, <3>1 DEF ImagesRight
  <2>11. <<s, x.content.unit>> \in SameName(s)
    BY <2>3, <2>4 DEF SameName
  <2>12. CallRight'
    <3>1. AsAsked(x, call.asked)
      BY <2>3, <2>4, <2>11 DEF AsAsked
    <3>2. AsAsked(fs[call.file], call.asked)'
      BY <2>5, <2>6, <3>1 DEF AsAsked, SameName, Compilations
    <3>3. Requested(fs, call.file, call.asked)'
      BY <1>0, <2>1, <2>2, <2>5, <2>6 DEF Requested, FilesTyped, Compilations
    <3> QED BY <2>6, <3>2, <3>3 DEF CallRight
  <2>13. ASSUME NEW k \in DOMAIN image, image[k].path \in DOMAIN fs'
         PROVE  AsAsked(fs'[image[k].path], image[k].asked)
    <3>1. CASE image[k].path # b
      BY <2>5, <2>13, <3>1 DEF ProgramInv, ProgramsAsAsked
    <3>2. CASE image[k].path = b
      <4>1. Requested(fs, b, image[k].asked)
        BY <3>2 DEF ProgramInv, ImagesRight
      <4> DEFINE t == image[k].asked.source
      <4>2. t \notin Prebuilt /\ BinaryOf[t] = b
        BY <1>0, <2>2, <4>1, CompilationsTyped DEF Requested
      <4>3. <<s, x.content.unit>> \in SameName(t)
        BY <2>3, <2>4, <4>2 DEF SameName
      <4>4. s = t => image[k].asked.version <= call.asked.version
        BY <2>1 DEF CompilesRight
      <4>5. image[k].asked.version \in Nat
        BY DEF TypeOK, Requests
      <4> QED BY <2>3, <2>5, <3>2, <4>2, <4>3, <4>4, <4>5 DEF AsAsked
    <3> QED BY <3>1, <3>2
  <2>14. ProgramsAsAsked'
    BY <1>0, <2>13 DEF ProgramInv, ProgramsAsAsked, AsAsked, SameName, Compilations
  <2> QED BY <2>9, <2>10, <2>12, <2>14 DEF ProgramInv
<1> QED BY <1>1, <1>2 DEF Compile

LEMMA WriteImageKeepsPrograms ==
    ASSUME TypeOK, TypeOK', ProgramInv, setup' = setup, WriteImage
    PROVE  ProgramInv'
<1>0. /\ FilesTyped(fs)
      /\ ~Idle
      /\ call.step = "write"
      /\ Idle'
      /\ now \in Nat
      /\ now' = now
  <2>1. FilesTyped(fs) /\ now \in Nat
    BY TypeParts
  <2>2. call.step = "write" /\ ~Idle /\ now' = now
    BY DEF WriteImage, GNKernelWrite, NvidiaKernelWrite, Idle
  <2>3. \E code \in Codes : Ends(call.type, code)
    BY DEF WriteImage, GNKernelWrite, NvidiaKernelWrite, Codes
  <2>4. Idle'
    BY <2>3 DEF Ends, Idle
  <2> QED BY <2>1, <2>2, <2>4
<1>1. Aged(fs, fs')
  <2>1. CASE fs' = fs
    BY <2>1 DEF Aged
  <2>2. CASE fs' \in AfterRead(fs, call.file, now)
    BY <1>0, <2>2, AgedByRead
  <2> QED BY <2>1, <2>2 DEF WriteImage, GNKernelWrite, NvidiaKernelWrite
<1>2. /\ Requested(fs, call.file, call.asked)
      /\ call.file \in DOMAIN fs => AsAsked(fs[call.file], call.asked)
  BY <1>0 DEF ProgramInv, CallRight
<1>3. UserFiles \subseteq DOMAIN fs'
  BY DEF TypeOK
<1>4. FilesRight(fs)' /\ CallRight'
  <2>1. FilesRight(fs')
    BY <1>1, <1>3, RightWhenAged DEF ProgramInv
  <2> QED BY <1>0, <2>1 DEF FilesRight, MadeRight, Compilations, CallRight, Idle
<1>5. CASE UNCHANGED <<image, loaded>>
  BY <1>0, <1>1, <1>5, ProgramsAge
<1>6. CASE /\ image' = Put(image, call.kernel, [path |-> call.file, asked |-> call.asked])
           /\ UNCHANGED <<fs, loaded>>
  <2>1. /\ DOMAIN image' = DOMAIN image \cup {call.kernel}
        /\ image'[call.kernel].path = call.file
        /\ image'[call.kernel].asked = call.asked
        /\ \A k \in DOMAIN image : k # call.kernel => image'[k] = image[k]
    BY <1>6 DEF Put
  <2>2. ImagesRight'
    BY <1>2, <1>6, <2>1 DEF ImagesRight, ProgramInv, Requested, Compilations
  <2>3. \A k \in DOMAIN image' :
          image'[k].path \in DOMAIN fs => AsAsked(fs[image'[k].path], image'[k].asked)
    BY <1>2, <2>1 DEF ProgramsAsAsked, ProgramInv
  <2>4. ProgramsAsAsked'
    BY <1>6, <2>3 DEF ProgramsAsAsked, ProgramInv, AsAsked, SameName, Compilations
  <2> QED BY <1>4, <2>2, <2>4 DEF ProgramInv
<1>7. CASE /\ call.file \in DOMAIN fs
           /\ loaded' = Put(loaded, call.kernel,
                            [file |-> Written(fs[call.file]), asked |-> call.asked])
           /\ UNCHANGED image
  <2>1. /\ DOMAIN loaded' = DOMAIN loaded \cup {call.kernel}
        /\ loaded'[call.kernel].file = Written(fs[call.file])
        /\ loaded'[call.kernel].asked = call.asked
        /\ \A k \in DOMAIN loaded : k # call.kernel => loaded'[k] = loaded[k]
    BY <1>7 DEF Put
  <2>2. AsAsked(Written(fs[call.file]), call.asked)
    BY <1>0, <1>2, <1>7, TransferTyped DEF AsAsked
  <2>3. \A k \in DOMAIN loaded' : AsAsked(loaded'[k].file, loaded'[k].asked)
    BY <2>1, <2>2 DEF ProgramInv, ProgramsAsAsked
  <2>4. ImagesRight'
    <3>1. \A k \in DOMAIN image : Requested(fs', image[k].path, image[k].asked)
      BY <1>1, <1>3, RequestedWhenAged DEF ImagesRight, ProgramInv
    <3> QED BY <1>7, <3>1 DEF ImagesRight, Requested, Compilations
  <2>5. \A k \in DOMAIN image :
          image[k].path \in DOMAIN fs' => AsAsked(fs'[image[k].path], image[k].asked)
    <3>1. DOMAIN fs' \subseteq DOMAIN fs
      BY <1>1 DEF Aged
    <3> QED BY <1>1, <3>1, AsAskedWhenAged DEF ProgramInv, ProgramsAsAsked
  <2>6. ProgramsAsAsked'
    BY <1>7, <2>3, <2>5 DEF ProgramsAsAsked, AsAsked, SameName, Compilations
  <2> QED BY <1>4, <2>4, <2>6 DEF ProgramInv
<1> QED BY <1>5, <1>6, <1>7 DEF WriteImage, GNKernelWrite, NvidiaKernelWrite

LEMMA EditKeepsPrograms ==
    ASSUME TypeOK, TypeOK', ProgramInv, setup' = setup, NEW f \in UserSources, Edit(f)
    PROVE  ProgramInv'
<1> DEFINE v == fs[f].content.version
           x == NewFile(now, Text(f, v + 1, now))
<1>1. f \in DOMAIN fs /\ v \in Nat /\ FilesTyped(fs) /\ now \in Nat
  BY TypeParts, TransferTyped DEF FilesTyped, UserFiles
<1>2. /\ DOMAIN fs' = DOMAIN fs
      /\ fs'[f] = x
      /\ \A g \in DOMAIN fs : g # f => fs'[g] = fs[g]
      /\ UNCHANGED <<call, image, loaded, now, unit_of>>
  BY <1>1 DEF Edit, Put, programs, routing
<1>3. x.content.source = f /\ x.content.version = v + 1 /\ x.mtime = now
  BY DEF NewFile, Text
<1>4. f \notin Binaries /\ f \notin SavedSources /\ f \notin Prebuilt
  BY FilesAssumption DEF UserFiles, Cached
<1> HIDE DEF x
<1>5. FilesRight(fs)'
  <2>1. ASSUME NEW b \in DOMAIN fs' \cap Binaries
        PROVE  MadeRight(fs, b, fs[b].content)' /\ fs'[b].content.begun <= now'
    <3>1. /\ MadeRight(fs, b, fs[b].content)
          /\ fs[b].content.begun <= now
          /\ fs'[b] = fs[b]
      BY <1>2, <1>4, <2>1 DEF FilesRight, ProgramInv
    <3>2. fs[b].content.source \in UserSources
          /\ fs[b].content.version < fs'[fs[b].content.source].content.version
          => fs[b].content.begun <= fs'[fs[b].content.source].mtime
      <4>1. CASE fs[b].content.source = f
        BY <1>2, <1>3, <3>1, <4>1
      <4>2. CASE fs[b].content.source # f
        BY <1>1, <1>2, <3>1, <4>2 DEF MadeRight, FilesTyped, UserFiles
      <4> QED BY <4>1, <4>2
    <3> QED BY <1>2, <3>1, <3>2 DEF MadeRight, Compilations
  <2>2. /\ \A s \in DOMAIN fs' : s \notin Binaries => fs'[s].content.source = s
        /\ \A s \in DOMAIN fs' \cap SavedSources : fs'[s].content.version = 1
    BY <1>2, <1>3, <1>4 DEF FilesRight, ProgramInv
  <2> QED BY <2>1, <2>2 DEF FilesRight
<1>6. ASSUME NEW path, NEW asked \in Requests, Requested(fs, path, asked)
      PROVE  Requested(fs', path, asked)
  <2>1. asked.version \in Nat
    BY DEF Requests
  <2>2. UserFiles \subseteq DOMAIN fs
    BY <1>1 DEF FilesTyped
  <2> QED BY <1>1, <1>2, <1>3, <1>6, <2>1, <2>2 DEF Requested
<1>7. ImagesRight'
  <2>1. \A k \in DOMAIN image : Requested(fs', image[k].path, image[k].asked)
    BY <1>6 DEF ImagesRight, ProgramInv, TypeOK
  <2> QED BY <1>2, <2>1 DEF ImagesRight, Requested, Compilations
<1>8. ASSUME NEW path \in Prebuilt \cup Binaries, NEW asked,
             path \in DOMAIN fs => AsAsked(fs[path], asked)
      PROVE  path \in DOMAIN fs' => AsAsked(fs'[path], asked)
  BY <1>2, <1>4, <1>8
<1>9. ProgramsAsAsked'
  <2>1. \A k \in DOMAIN image : image[k].path \in Prebuilt \cup Binaries
    BY DEF TypeOK
  <2>2. \A k \in DOMAIN image :
          image[k].path \in DOMAIN fs' => AsAsked(fs'[image[k].path], image[k].asked)
    BY <1>8, <2>1 DEF ProgramInv, ProgramsAsAsked
  <2> QED BY <1>2, <2>2 DEF ProgramInv, ProgramsAsAsked, AsAsked, SameName, Compilations
<1>10. CallRight'
  <2>1. CASE Idle
    BY <1>2, <2>1 DEF CallRight, Idle
  <2>2. CASE ~Idle
    <3>1. call.file \in Prebuilt \cup Binaries /\ call.asked \in Requests
      BY <2>2, CallTyped DEF TypeOK
    <3>2. Requested(fs', call.file, call.asked)
      BY <1>6, <2>2, <3>1 DEF ProgramInv, CallRight
    <3>3. call.step = "write" /\ call.file \in DOMAIN fs' => AsAsked(fs'[call.file], call.asked)
      BY <1>8, <2>2, <3>1 DEF ProgramInv, CallRight
    <3>4. call.step = "compile" => CompilesRight'
      <4> DEFINE s == call.asked.source
      <4> SUFFICES ASSUME call.step = "compile" PROVE CompilesRight'
        OBVIOUS
      <4>1. CompilesRight
        BY DEF ProgramInv, CallRight
      <4>2. s \in UserSources /\ call.asked.version < fs'[s].content.version
            => call.begun <= fs'[s].mtime
        <5>1. CASE s = f
          BY <1>2, <1>3, <4>1, <5>1 DEF CompilesRight
        <5>2. CASE s # f
          BY <1>1, <1>2, <4>1, <5>2 DEF CompilesRight, FilesTyped, UserFiles
        <5> QED BY <5>1, <5>2
      <4>3. UnitOf(call.kernel)' = UnitOf(call.kernel)
        BY <1>2 DEF UnitOf
      <4> QED BY <1>2, <4>1, <4>2, <4>3 DEF CompilesRight
    <3> QED BY <1>2, <2>2, <3>2, <3>3, <3>4
            DEF CallRight, Requested, AsAsked, SameName, Compilations, Idle
  <2> QED BY <2>1, <2>2
<1> QED BY <1>5, <1>7, <1>9, <1>10 DEF ProgramInv

LEMMA ProgramStep ==
    ASSUME TypeOK, TypeOK', Routed, ProgramInv, [Next]_vars
    PROVE  ProgramInv'
<1>0. setup' = setup /\ now \in Nat
  BY SetupStays DEF TypeOK
<1>1. ASSUME Aged(fs, fs'), UNCHANGED programs, now <= now', Idle \/ UNCHANGED unit_of
      PROVE  ProgramInv'
  BY <1>0, <1>1, ProgramsAge DEF programs
<1>2. ASSUME UNCHANGED <<fs, programs>>, now <= now', Idle \/ UNCHANGED unit_of
      PROVE  ProgramInv'
  <2>1. Aged(fs, fs')
    BY <1>2 DEF Aged
  <2> QED BY <1>1, <1>2, <2>1
<1>3. ASSUME NEW k \in Kernels, KernelStart(k) PROVE ProgramInv'
  <2>1. FilesTyped(fs)
    BY TypeParts
  <2>2. Aged(fs, fs')
    <3>1. CASE fs' = fs
      BY <3>1 DEF Aged
    <3>2. CASE fs' \in AfterRead(fs, image[k].path, now)
      BY <1>0, <2>1, <3>2, AgedByRead
    <3> QED BY <1>3, <3>1, <3>2 DEF KernelStart
  <2>3. Idle /\ UNCHANGED <<now, programs>>
    BY <1>3 DEF KernelStart
  <2> QED BY <1>0, <1>1, <2>2, <2>3
<1>4. ASSUME NEW u \in Units, NEW r \in Resources, Assign(u, r) PROVE ProgramInv'
  <2>1. Idle /\ UNCHANGED <<now, fs, programs>>
    BY <1>4 DEF Assign
  <2> QED BY <1>0, <1>2, <2>1
<1>5. ASSUME NEW r \in Resources, Deassign(r) \/ Acquire(r) \/ GiveBack(r) \/ Transfer(r)
      PROVE  ProgramInv'
  <2>1. Idle /\ UNCHANGED <<now, fs, programs>>
    BY <1>5 DEF Deassign, Acquire, GiveBack, Transfer
  <2> QED BY <1>0, <1>2, <2>1
<1>6. CASE Tick \/ UNCHANGED vars
  <2>1. now <= now'
    BY <1>0, <1>6 DEF Tick, vars
  <2>2. UNCHANGED <<fs, programs, unit_of>>
    BY <1>6 DEF Tick, vars, programs, routing
  <2> QED BY <1>2, <2>1, <2>2
<1> QED BY <1>0, <1>3, <1>4, <1>5, <1>6, StepCases, KernelWriteKeepsPrograms,
           CompileKeepsPrograms, WriteImageKeepsPrograms, EditKeepsPrograms

\* ProgramsAsAsked: the program of a kernel is the file its client brought, or was
\* compiled from the source and for the unit its client gave to kernel_write, or from
\* one with the same binary name if there is another; and of the changes the source
\* had at that time it can only miss some made while the binary was being compiled
\* (get_binary of compiler.cpp, kernel_write of hhal.cpp).
THEOREM KernelsRunWhatWasAsked == Spec => []ProgramsAsAsked
<1>1. Init => ProgramInv
  <2> SUFFICES ASSUME Init PROVE ProgramInv
    OBVIOUS
  <2>1. FilesRight(fs)
    BY FilesAssumption DEF Init, FilesRight, NewFile, Text, Cached
  <2>2. CallRight
    BY DEF Init, CallRight, Idle
  <2>3. ImagesRight /\ ProgramsAsAsked
    BY DEF Init, ImagesRight, ProgramsAsAsked
  <2> QED BY <2>1, <2>2, <2>3 DEF ProgramInv
<1>2. TypeOK /\ TypeOK' /\ Routed /\ ProgramInv /\ [Next]_vars => ProgramInv'
  BY ProgramStep
<1>3. ProgramInv => ProgramsAsAsked
  BY DEF ProgramInv
<1> QED BY <1>1, <1>2, <1>3, TypeCorrect, CallsReachTheirManager, PTL DEF Spec
====
