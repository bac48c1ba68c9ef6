---- MODULE MCHHAL ----
(* Two kernels, an event and a buffer; one user source, one kernel string. *)
(* The source has its binary for itself while it is compiled for one unit. *)
EXTENDS HHAL

MCBinaryOf == [s \in Sources |-> IF s \in UserSources THEN "k" ELSE "kernel-h"]

For(units) == UserSources \X units

MCSetups ==
    {[units |-> {"GN"}, resources |-> {"k0", "k1"}, given |-> For({"GN"})],
     [units |-> {"NVIDIA"}, resources |-> {"k0"}, given |-> For({"NVIDIA"})],
     [units |-> Units, resources |-> {"k0"}, given |-> For(Units)],
     [units |-> Units, resources |-> {"b0", "e0"}, given |-> {}]}

====
