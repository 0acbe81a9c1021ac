-------------------------------- MODULE MCLogs --------------------------------
(* Logs.tla on small instances.                                              *)
EXTENDS Logs, TLC

CONSTANTS r1, r2, web, webAdmin

Symmetry == Permutations({r1, r2})

\* web-admin is web, a dash and a word; a log of web-admin has the prefix web-.
Prefixed == {<<web, webAdmin>>}
Unrelated == {}
=============================================================================
