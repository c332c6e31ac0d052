----------------------------- MODULE MCStrUtil -----------------------------
(* Instances of StrUtil for TLC.                                             *)
EXTENDS StrUtil

\* ' ', '-', '1', '9', 'A' and 'b'.
MCAlphabet == {32, 45, 49, 57, 65, 98}

\* "", "b" and "bb".
MCSubs == {<<>>, <<98>>, <<98, 98>>}
MCDelims == {{32}, {45, 98}}
=============================================================================
