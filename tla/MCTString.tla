----------------------------- MODULE MCTString -----------------------------
(* Instances of TString for TLC.                                             *)
EXTENDS TString, TLC

CONSTANTS x, y, z, b1, b2, b3, b4

TwoObjects == {x, y}
ThreeObjects == {x, y, z}
MCBuffers == {b1, b2, b3, b4}
MCTexts == {<<>>, <<1, 2>>, <<2, 1, 1>>}
Symmetry == Permutations(Objects)
=============================================================================
