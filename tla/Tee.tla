--------------------------------- MODULE Tee ---------------------------------
(***************************************************************************)
(* What deemo promises whoever puts it into a stream, with no buffer, read *)
(* or failure in sight: there is one order of what was heard; the log and  *)
(* stdout each hold a beginning of it, and what they hold they keep.       *)
(* Pump.tla (pipe mode) and Foreground.tla implement it.                   *)
(***************************************************************************)
EXTENDS SequencesExt

VARIABLES heard,    \* what the pump has taken from its input, in order
          logged,   \* what is in the log file
          shown     \* what the reader of stdout got

TeeInit == heard = <<>> /\ logged = <<>> /\ shown = <<>>

\* More arrives.
Hear ==
    /\ IsStrictPrefix(heard, heard')
    /\ UNCHANGED <<logged, shown>>

\* A destination gets more of what was heard, and nothing else.
Grows(d, new) == IsPrefix(d, new) /\ IsPrefix(new, heard)

Pass ==
    /\ heard' = heard
    /\ Grows(logged, logged')
    /\ Grows(shown, shown')

TeeSpec == TeeInit /\ [][Hear \/ Pass]_<<heard, logged, shown>>
=============================================================================
