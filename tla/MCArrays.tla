------------------------------ MODULE MCArrays ------------------------------
(***************************************************************************)
(* Small instances of Arrays for TLC.                                      *)
(***************************************************************************)
EXTENDS Arrays

ShapesDeep == {<<4>>, <<3, 2>>, <<2, 2, 2>>, <<2, 3, 1>>, <<3, 1, 2>>}
ShapesFlat == {<<4>>, <<2, 2>>, <<3, 2>>}
ShapesParam == {<<0>>, <<0, 3>>, <<0, 2, 3>>}
NoShapes == {}
=============================================================================
