----------------------------- MODULE MCHNUnits ------------------------------
(***************************************************************************)
(* Instances of HNUnits for TLC: the mesh of the shipped configuration     *)
(* (gn/hnemu/config.xml, 2 rows of 4 tiles) and meshes with more memory.   *)
(***************************************************************************)
EXTENDS HNUnits

\* Tiles 0 and 4 have memory in config.xml.
ShippedMemTiles == {<<0, 0>>, <<0, 1>>}

\* A mesh in which memory tiles are neighbours in both directions.
DenseMemTiles == {<<0, 0>>, <<1, 0>>, <<2, 0>>, <<1, 1>>, <<1, 2>>}
=============================================================================
