----------------------------- MODULE MCGNEvents ------------------------------
(* The four frames of the animation, and the matrix multiplication.        *)
EXTENDS GNPrograms

MCFrames == <<"frame3", "frame2", "frame1", "frame0">>
MCApps == {Gif, Matrix}
=============================================================================
