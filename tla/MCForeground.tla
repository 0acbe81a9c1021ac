----------------------------- MODULE MCForeground -----------------------------
(* Foreground.tla on a small instance: how deemo is started.                 *)
EXTENDS Foreground

Started(quiet, log, keys, sudo, writes) ==
    [quiet |-> quiet, log |-> log, keys |-> keys, sudo |-> sudo, writes |-> writes]

Modes == {Started(FALSE, TRUE, FALSE, FALSE, 2), Started(TRUE, TRUE, FALSE, FALSE, 1),
          Started(TRUE, FALSE, TRUE, FALSE, 1), Started(FALSE, FALSE, FALSE, TRUE, 1),
          Started(FALSE, FALSE, TRUE, TRUE, 0)}
===============================================================================
