---- MODULE KernelCache ----
(***************************************************************************)
(* The kernels the dynamic compiler keeps on disk                          *)
(* (dynamic_compiler/compiler.cpp).  A file system is a function from the  *)
(* files that exist to their times, in whole seconds as in struct stat,    *)
(* and their contents: for a source file a version of itself, for a        *)
(* compiled binary the version of the source the compiler read, the unit   *)
(* it was compiled for and the time the compilation began.                 *)
(***************************************************************************)
EXTENDS Integers

CONSTANTS
    UserSources,    \* source files of the users
    SavedSources,   \* the files save_to_file gives to kernel strings
    Prebuilt,       \* binaries the users bring
    Binaries,       \* the files get_binary compiles to
    BinaryOf,       \* bin_path: the binary of a source, after its base name
    Expiration      \* expiration_time, in seconds

Sources == UserSources \cup SavedSources
UserFiles == UserSources \cup Prebuilt
Units == {"GN", "NVIDIA"}
NoUnit == "no unit"

Cached == SavedSources \cup Binaries    \* KERNEL_CACHE_BASE_DIR/*
Files == UserFiles \cup Cached

ASSUME FilesAssumption ==
    /\ BinaryOf \in [Sources -> Binaries]
    /\ Expiration \in Nat
    /\ UserFiles \cap Cached = {}
    /\ UserSources \cap Prebuilt = {}
    /\ SavedSources \cap Binaries = {}

Content == [source : Sources \cup Prebuilt, unit : Units \cup {NoUnit},
            version : Nat, begun : Nat]
File == [mtime : Nat, atime : Nat, content : Content]
WrittenFile == [mtime : Nat, content : Content]

\* What a user or save_to_file writes; what the compiler makes of it.
Text(s, version, time) ==
    [source |-> s, unit |-> NoUnit, version |-> version, begun |-> time]
Compiled(s, unit, version, begun) ==
    [source |-> s, unit |-> unit, version |-> version, begun |-> begun]

\* A file written at a time.
NewFile(time, content) == [mtime |-> time, atime |-> time, content |-> content]

\* What was last written to a file, and when.
Written(file) == [mtime |-> file.mtime, content |-> file.content]

Put(fs, f, file) == [g \in DOMAIN fs \cup {f} |-> IF g = f THEN file ELSE fs[g]]

(* What fs may be after f has been read: mount options decide whether a    *)
(* read is recorded in the access time.                                    *)
AfterRead(fs, f, now) ==
    IF f \in DOMAIN fs \cap Cached
    THEN {fs, Put(fs, f, [mtime |-> fs[f].mtime, atime |-> now, content |-> fs[f].content])}
    ELSE {fs}

DeleteUnusedFiles(fs, now) ==
    LET Expired(f) == f \in Cached /\ now - fs[f].atime > Expiration
    IN  [f \in {g \in DOMAIN fs : ~Expired(g)} |-> fs[f]]

SaveToFile(fs, now, s) ==
    IF s \in DOMAIN fs THEN fs ELSE Put(fs, s, NewFile(now, Text(s, 1, now)))

\* Faulty variant: a binary that exists is never compiled again.
CompileOnce(fs, s) == BinaryOf[s] \notin DOMAIN fs

ShouldCompile(fs, s) ==
    BinaryOf[s] \in DOMAIN fs => fs[BinaryOf[s]].mtime < fs[s].mtime

\* Faulty variant: it leaves an unfinished file.
AfterCrash(fs, b) == {Put(fs, b, NewFile(0, Text(b, 0, 0)))}

(* A compiler that fails leaves what was at bin_path, or removes it.       *)
AfterFailure(fs, b) == {fs, [f \in DOMAIN fs \ {b} |-> fs[f]]}

====
