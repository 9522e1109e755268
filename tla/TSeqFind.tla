------------------------------ MODULE TSeqFind -------------------------------
(***************************************************************************)
(* The binary search of tsequence_find_timestamp (src/src/tsequence.c),   *)
(* one turn of its while loop per step.  FindLoop in TSequence evaluates   *)
(* the same search in one step; here the loop variables first, last and    *)
(* middle are state, so that TLC can check that the loop ends and that the *)
(* window first..last keeps the segment holding t.                         *)
(*                                                                         *)
(* The sequence is given by the timestamps ts of its instants and its      *)
(* bound flags: the search reads nothing else.  Every caller passes a      *)
(* sequence of at least two instants.  pc is "loop" while the function     *)
(* runs and "done" once it returned result.                                *)
(***************************************************************************)
EXTENDS Integers, Sequences, SequencesExt

CONSTANTS
    InstTimes,   \* the timestamps instants may have
    Times,       \* the timestamps searched for
    MaxLen       \* the most instants of a sequence

VARIABLES ts, lower_inc, upper_inc, t, first, last, middle, pc, result

vars == <<ts, lower_inc, upper_inc, t, first, last, middle, pc, result>>

\* C integer division, which truncates towards zero: (first + last)/2 is
\* evaluated also when last = first - 1 = -1.
Half(n) == IF n >= 0 THEN n \div 2 ELSE -((-n) \div 2)

\* The timestamps of a sequence of 2..MaxLen instants, strictly increasing.
TimestampRuns ==
    {SetToSortSeq(S, <) : S \in {S \in SUBSET InstTimes :
                                   Cardinality(S) \in 2..MaxLen}}

\* int first = 0; int last = seq->count - 2; int middle = (first + last)/2;
Init ==
    /\ ts \in TimestampRuns
    /\ lower_inc \in BOOLEAN
    /\ upper_inc \in BOOLEAN
    /\ t \in Times
    /\ first = 0
    /\ last = Len(ts) - 2
    /\ middle = Half(Len(ts) - 2)
    /\ pc = "loop"
    /\ result = -1

\* Mutant: the upper bound of the last segment is never included.
hit_no_upper ==
    LET lower == IF middle = 0 THEN lower_inc ELSE TRUE
    IN  \/ ts[middle + 1] < t /\ t < ts[middle + 2]
        \/ lower /\ ts[middle + 1] = t

\* Segment middle holds t, with the bound flags the loop gives it: the
\* sequence's lower bound for the first segment, its upper bound for the
\* last one, [inclusive, exclusive) otherwise.
Hit ==
    LET lower == IF middle = 0 THEN lower_inc ELSE TRUE
        upper == IF middle = Len(ts) - 2 THEN upper_inc ELSE FALSE
    IN  \/ ts[middle + 1] < t /\ t < ts[middle + 2]
        \/ lower /\ ts[middle + 1] = t
        \/ upper /\ ts[middle + 2] = t

\* return middle;
FindReturn ==
    /\ pc = "loop" /\ first <= last
    /\ Hit
    /\ pc' = "done" /\ result' = middle
    /\ UNCHANGED <<ts, lower_inc, upper_inc, t, first, last, middle>>

\* t at or before the segment: last = middle - 1, and a new middle.
FindLeft ==
    /\ pc = "loop" /\ first <= last
    /\ ~Hit /\ t <= ts[middle + 1]
    /\ last' = middle - 1
    /\ middle' = Half(first + middle - 1)
    /\ UNCHANGED <<ts, lower_inc, upper_inc, t, first, pc, result>>

\* Mutant: first = middle, without the + 1.
find_right_no_inc ==
    /\ pc = "loop" /\ first <= last
    /\ ~Hit /\ ~(t <= ts[middle + 1])
    /\ first' = middle
    /\ middle' = Half(middle + last)
    /\ UNCHANGED <<ts, lower_inc, upper_inc, t, last, pc, result>>

\* t after the segment's start: first = middle + 1, and a new middle.
FindRight ==
    /\ pc = "loop" /\ first <= last
    /\ ~Hit /\ ~(t <= ts[middle + 1])
    /\ first' = middle + 1
    /\ middle' = Half(middle + 1 + last)
    /\ UNCHANGED <<ts, lower_inc, upper_inc, t, last, pc, result>>

\* The loop ends with first > last: return -1.
FindExit ==
    /\ pc = "loop" /\ first > last
    /\ pc' = "done" /\ result' = -1
    /\ UNCHANGED <<ts, lower_inc, upper_inc, t, first, last, middle>>

Next == FindReturn \/ FindLeft \/ FindRight \/ FindExit

\* The function runs on the calling backend's thread until it returns, so
\* a turn of the loop that can be taken is taken.
Spec == Init /\ [][Next]_vars /\ WF_vars(Next)

-----------------------------------------------------------------------------

TS == INSTANCE TimestampSearch
        WITH answer <- IF pc = "done" THEN <<result>> ELSE <<>>

\* While the loop runs, the segment holding t (if any) is still inside the
\* window first..last: no turn of tsequence_find_timestamp discards it.
SearchWindow == pc = "loop" /\ TS!Segment # -1 => TS!Segment \in first..last

\* tsequence_find_timestamp implements TimestampSearch: every call ends,
\* and returns the segment holding t, or -1 when no segment holds it.
TimestampSearchSpec == TS!Spec

=============================================================================
