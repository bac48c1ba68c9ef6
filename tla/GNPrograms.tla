----------------------------- MODULE GNPrograms ------------------------------
(***************************************************************************)
(* Two clients of GN and their kernels as programs of GNEvents:            *)
(* test/hhal_tests/gn_gif_animation.cpp, with a pipeline of three kernels  *)
(* on one event, and test/hhal_tests/gn_launch_kernel.cpp, whose kernel    *)
(* and host wait on the same event for different values.                   *)
(*                                                                         *)
(* mango_close of libgn, which ends a kernel, writes 1 to its termination  *)
(* event: that is what the hosts wait for.                                 *)
(***************************************************************************)
EXTENDS GNEvents

CONSTANT Frames     \* the frames of the animation, as a sequence

\* Names: a kernel is not the client, and a frame not a buffer.
ASSUME ProgramsAssumption ==
    /\ Host \notin {"scale", "copy", "smooth", "multiply"}
    /\ Frames \in Seq(STRING)
    /\ \A n \in DOMAIN Frames : Frames[n] \notin {"B1", "B2", "B3"}

-----------------------------------------------------------------------------
(* The animation.  Buffer B3 is two areas, the edge of the picture, which  *)
(* only copy writes, and its inside, which smooth writes after copy; so is *)
(* what the host reads from it.                                            *)

GifEvents == {"sync", "scaled", "copied", "smoothed"}

\* A faulty variant: the host does not wait for the last kernel.
GifFrameHasty(f) ==
    <<WriteToMemory(<<f>>, <<"B1">>),
      Write("scaled", 0), Write("copied", 0), Write("smoothed", 0),
      Start("scale"), Start("copy"), Start("smooth"),
      Wait("scaled", 1), Wait("copied", 1),
      ReadFromMemory(<<"B3", "edge">>, <<f, "edge">>),
      ReadFromMemory(<<"B3", "inside">>, <<f, "inside">>)>>

\* The loop of main for one frame.
GifFrame(f) ==
    <<WriteToMemory(<<f>>, <<"B1">>),
      Write("scaled", 0), Write("copied", 0), Write("smoothed", 0),
      Start("scale"), Start("copy"), Start("smooth"),
      Wait("scaled", 1), Wait("copied", 1), Wait("smoothed", 1),
      ReadFromMemory(<<"B3", "edge">>, <<f, "edge">>),
      ReadFromMemory(<<"B3", "inside">>, <<f, "inside">>)>>

FrameLength == Len(GifFrame(""))

\* Instruction i belongs to frame 1 + (i - 1) \div FrameLength.
GifHost ==
    [i \in 1 .. FrameLength * Len(Frames) |->
       GifFrame(Frames[1 + ((i - 1) \div FrameLength)])[1 + ((i - 1) % FrameLength)]]

ScaleKernel ==
    <<Work(<<"B1">>, {<<"B2">>}, <<"scale">>), Write("sync", 1), Write("scaled", 1)>>

\* A faulty variant: the picture is copied before the wait.
CopyKernelEarly ==
    <<Work(<<"B2">>, {<<"B3", "edge">>, <<"B3", "inside">>}, <<"copy">>), Wait("sync", 1),
      Write("sync", 2), Write("copied", 1)>>

CopyKernel ==
    <<Wait("sync", 1), Work(<<"B2">>, {<<"B3", "edge">>, <<"B3", "inside">>}, <<"copy">>),
      Write("sync", 2), Write("copied", 1)>>

SmoothKernel ==
    <<Wait("sync", 2), Work(<<"B2">>, {<<"B3", "inside">>}, <<"smooth">>),
      Write("smoothed", 1)>>

GifBuffers == {<<"B1">>, <<"B2">>, <<"B3", "edge">>, <<"B3", "inside">>}
FrameSet == {<<Frames[n]>> : n \in DOMAIN Frames}
Saved == {<<Frames[n], part>> : n \in DOMAIN Frames, part \in {"edge", "inside"}}

Gif ==
    [program |-> [p \in {Host, "scale", "copy", "smooth"} |->
                    CASE p = Host     -> GifHost
                      [] p = "scale"  -> ScaleKernel
                      [] p = "copy"   -> CopyKernel
                      [] p = "smooth" -> SmoothKernel],
     index   |-> [e \in GifEvents |-> CASE e = "sync" -> 1 [] e = "scaled" -> 3
                                        [] e = "smoothed" -> 5 [] e = "copied" -> 7],
     word    |-> [e \in GifEvents |-> 0],
     area    |-> [b \in GifBuffers \cup FrameSet \cup Saved |->
                    IF b \in FrameSet THEN b ELSE <<>>],
     result  |-> [s \in Saved |->
                    IF s[2] = "edge" THEN <<s[1], "scale", "copy">>
                                     ELSE <<s[1], "scale", "smooth">>]]

-----------------------------------------------------------------------------
(* The matrix multiplication.  allocate_memory has left 2, WRITE, in the   *)
(* event of the buffer: the kernel takes it and writes 1, READ.            *)

\* A faulty variant: the result is read without waiting for its event.
MatrixHostHasty ==
    <<WriteToMemory(<<"A", "B">>, <<"B1", "B2">>), Write("ended", 0),
      Start("multiply"), ReadFromMemory(<<"B3">>, <<"C">>), Wait("ended", 1)>>

MatrixHost ==
    <<WriteToMemory(<<"A", "B">>, <<"B1", "B2">>), Write("ended", 0),
      Start("multiply"), Wait("buffer", 1), ReadFromMemory(<<"B3">>, <<"C">>),
      Wait("ended", 1)>>

MatrixKernel ==
    <<Work(<<"B1", "B2">>, {<<"B3">>}, <<"multiply">>), Wait("buffer", 2),
      Write("buffer", 1), Write("ended", 1)>>

Matrix ==
    [program |-> [p \in {Host, "multiply"} |->
                    IF p = Host THEN MatrixHost ELSE MatrixKernel],
     index   |-> [e \in {"ended", "buffer"} |-> IF e = "ended" THEN 1 ELSE 7],
     word    |-> [e \in {"ended", "buffer"} |-> IF e = "ended" THEN 0 ELSE 2],
     area    |-> [b \in {<<"A", "B">>, <<"B1", "B2">>, <<"B3">>, <<"C">>} |->
                    IF b = <<"A", "B">> THEN b ELSE <<>>],
     result  |-> [b \in {<<"C">>} |-> <<"A", "B", "multiply">>]]
=============================================================================
