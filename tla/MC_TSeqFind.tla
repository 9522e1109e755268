----------------------------- MODULE MC_TSeqFind -----------------------------
(***************************************************************************)
(* Constants for TSeqFind: sequences of two to five instants on even       *)
(* timestamps, so the search takes up to three turns and goes both left    *)
(* and right, and timestamps before, on, between and after the instants.  *)
(***************************************************************************)
EXTENDS TSeqFind

MCInstTimes == {0, 2, 4, 6, 8}
MCTimes     == -1..9
MCMaxLen    == 5

=============================================================================
