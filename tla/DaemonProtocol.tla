--------------------------- MODULE DaemonProtocol ---------------------------
(***************************************************************************)
(* What goes through the sockets of the daemon (daemon/hhal_command.h,     *)
(* daemon/hhal_response.h).  An operation stands for the commands that are *)
(* served alike:                                                           *)
(*   plain     deassign, allocate, release, write_sync_register            *)
(*   register  read_sync_register                                          *)
(*   read      read_from_memory of size units                              *)
(*   write     the commands in two phases: write_to_memory, kernel_write,  *)
(*             kernel_start and assign, with size units of data            *)
(* A stream is a sequence of units: a command is its type and the rest of  *)
(* its structure; how many bytes a unit has does not matter.               *)
(***************************************************************************)
EXTENDS Integers, Sequences, FiniteSetsExt

CONSTANT Ops   \* the operations clients ask for

ASSUME OpsAssumption ==
    Ops \subseteq [kind : {"plain", "register", "read", "write"}, size : Nat]

Command(op) == <<<<op, "type", 0>>, <<op, "rest", 0>>>>
Payload(op) == [i \in 1 .. op.size |-> <<op, "data", i>>]

CommandSize == 2

\* init_ack_response, init_error_response, init_register_data_response.
Ack      == <<"ACK">>
Error    == <<"ERROR", "error_code">>
Register == <<"REGISTER_DATA", "data">>
Memory(op) == [i \in 1 .. op.size |-> "byte"]

Results == {"OK", "ERROR"}

\* The messages sent when the operation has been executed with result r.
Answer(op, r) ==
    CASE r = "ERROR"                        -> <<Error>>
      [] r = "OK" /\ op.kind = "register"   -> <<Register>>
      [] r = "OK" /\ op.kind = "read"       -> <<Ack, Memory(op)>>
      [] OTHER                              -> <<Ack>>

Units == UNION {Range(Command(op)) \cup Range(Payload(op)) : op \in Ops}
AnswerUnits == Range(Ack) \cup Range(Error) \cup Range(Register) \cup {"byte"}
Messages == Seq(AnswerUnits)
=============================================================================
