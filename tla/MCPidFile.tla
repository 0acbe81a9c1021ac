------------------------------ MODULE MCPidFile ------------------------------
(* PidFile.tla on a small instance.                                         *)
EXTENDS PidFile, TLC

CONSTANTS p1, p2, web, api, c1, c2

\* Commands of one line, and one with a line pid=... in it.
MCCommand == {<<>>, << <<"pid", p2>> >>}

Twins == Permutations({c1, c2})
==============================================================================
