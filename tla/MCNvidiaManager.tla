-------------------------- MODULE MCNvidiaManager ---------------------------
(***************************************************************************)
(* Instances of NvidiaManager for TLC.  The phases of the clients bound    *)
(* everything: a kernel has at most one launch outstanding.                *)
(***************************************************************************)
EXTENDS NvidiaManager
=============================================================================
