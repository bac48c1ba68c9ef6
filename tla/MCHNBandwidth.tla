---------------------------- MODULE MCHNBandwidth ----------------------------
(* Two routes of a 3 x 2 mesh that share ports, one of them narrow, and       *)
(* single resources; two areas next to each other are isolated, whose borders *)
(* both routes cross.  Written in an XML file, the cluster is left 3.         *)
EXTENDS HNBandwidth

MCCapacity ==
    [r \in Resources |-> IF r \in {<<<<1, 0>>, "EAST">>, <<Cluster, "READ">>}
                         THEN 1 ELSE 2]
MCSingle ==
    {<<<<0, 0>>, "EAST">>, <<Cluster, "READ">>}
MCPairs == {<<<<0, 0>>, <<2, 1>>>>, <<<<1, 0>>, <<2, 0>>>>}
MCAreas == {{<<0, 0>>}, {<<1, 0>>, <<1, 1>>}}
=============================================================================
