------------------------------ MODULE MCDaemon ------------------------------
(***************************************************************************)
(* Instances of Daemon for TLC.  A call is over before the next, so only   *)
(* the connections, each opened once, bound the behaviours.                *)
(***************************************************************************)
EXTENDS Daemon

CONSTANTS c1, c2, c3

Plain    == [kind |-> "plain", size |-> 0]
ReadReg  == [kind |-> "register", size |-> 0]
Read(n)  == [kind |-> "read", size |-> n]
Write(n) == [kind |-> "write", size |-> n]

EachOp    == {Plain, ReadReg, Read(2), Write(2)}
EmptyRead == {Plain, Read(0)}

\* Every client may ask for everything.
Everything == [c \in Conns |-> Ops]

\* Two clients share the operations; a third takes an entry and makes no call.
Shares ==
    [c \in Conns |-> CASE c = c1 -> {Write(2), ReadReg}
                       [] c = c2 -> {Read(2)}
                       [] c = c3 -> {}]
=============================================================================
