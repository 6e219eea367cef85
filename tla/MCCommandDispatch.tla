------------------------- MODULE MCCommandDispatch -------------------------
(* CommandDispatch with the pin fields of the run.                         *)
EXTENDS CommandDispatch

\* A pin of the board, one written with too large a number that folds onto the
\* board, and one that is too large.
MCDigits == [PIN_9 |-> 9, PIN_260 |-> 260, PIN_16 |-> 16]
=============================================================================
