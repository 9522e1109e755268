--------------------------- MODULE TimestampSearch ---------------------------
(***************************************************************************)
(* What a search for the segment holding a timestamp promises, whatever    *)
(* the search does: it eventually answers, and its answer is the one       *)
(* segment of the sequence that contains t, or -1 when none does.          *)
(*                                                                         *)
(* ts are the timestamps of the instants; segment i (0-based) runs from    *)
(* ts[i+1] to ts[i+2].  The first segment includes its lower end only when *)
(* lower_inc, the last its upper end only when upper_inc, and the segments *)
(* in between are [inclusive, exclusive) (spec section 3).  answer is      *)
(* <<>> until the search has answered, then <<segment>>.                   *)
(***************************************************************************)
EXTENDS Integers, Sequences

VARIABLES ts, lower_inc, upper_inc, t, answer

vars == <<ts, lower_inc, upper_inc, t, answer>>

\* Whether segment i holds t under the bound flags of the sequence.
SegmentHolds(i) ==
    LET a == ts[i + 1]
        b == ts[i + 2]
    IN  /\ a < t \/ (a = t /\ (i = 0 => lower_inc))
        /\ t < b \/ (t = b /\ i = Len(ts) - 2 /\ upper_inc)

\* The segment holding t, -1 if none (segments are disjoint).
Segment ==
    LET holding == {i \in 0..Len(ts) - 2 : SegmentHolds(i)}
    IN  IF holding = {} THEN -1 ELSE CHOOSE i \in holding : TRUE

Init == answer = <<>>

\* The search answers once, with the segment holding t.
Answer ==
    /\ answer = <<>>
    /\ answer' = <<Segment>>
    /\ UNCHANGED <<ts, lower_inc, upper_inc, t>>

\* A search that is called runs until it answers.
Spec == Init /\ [][Answer]_vars /\ WF_vars(Answer)

=============================================================================
