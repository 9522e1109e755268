------------------------------- MODULE TSeqCmp -------------------------------
(***************************************************************************)
(* Equality and the total order of temporal sequences: tsequence_eq and    *)
(* tsequence_cmp of src/src/tsequence.c, with the comparisons of periods,  *)
(* bounding boxes and instants they call (period.c, temporal.c and        *)
(* tinstant.c, not under src/, modelled from spec.md).                     *)
(*                                                                         *)
(* A comparison result is -1, 0 or 1.  The flags byte of two sequences of  *)
(* one base type differs only in the interpolation bit.                    *)
(***************************************************************************)
EXTENDS Integers, Sequences, TSequence

\* The sign of a - b.
Sign(a, b) == IF a < b THEN -1 ELSE IF a > b THEN 1 ELSE 0

\* The first non-zero comparison of a sequence of them, 0 if none.
FirstNonZero(rs) ==
    IF \E i \in 1..Len(rs) : rs[i] # 0
    THEN rs[CHOOSE i \in 1..Len(rs) : rs[i] # 0 /\ \A j \in 1..i - 1 : rs[j] = 0]
    ELSE 0

\* period_cmp_internal: lower bounds first, an inclusive lower bound
\* before an exclusive one at the same time; then upper bounds, an
\* exclusive upper bound before an inclusive one.
period_cmp_internal(p1, p2) ==
    FirstNonZero(<<Sign(p1.lower, p2.lower),
                   Sign(IF p1.lower_inc THEN 0 ELSE 1, IF p2.lower_inc THEN 0 ELSE 1),
                   Sign(p1.upper, p2.upper),
                   Sign(IF p1.upper_inc THEN 1 ELSE 0, IF p2.upper_inc THEN 1 ELSE 0)>>)

\* temporal_bbox_cmp on the value extents of two boxes.
temporal_bbox_cmp(b1, b2) ==
    FirstNonZero(<<Sign(b1.xmin, b2.xmin), Sign(b1.xmax, b2.xmax)>>)

\* tinstant_cmp: by timestamp, then by value.
tinstant_cmp(i1, i2) == FirstNonZero(<<Sign(i1.t, i2.t), Sign(i1.v, i2.v)>>)

\* The flags byte, of which only MOBDB_FLAGS_GET_LINEAR varies.
Flags(s) == IF s.linear THEN 1 ELSE 0

\* Count, flags and period; then the boxes; then the instants in order.
tsequence_eq(s1, s2) ==
    /\ Count(s1) = Count(s2) /\ Flags(s1) = Flags(s2)
    /\ PeriodOf(s1) = PeriodOf(s2)
    /\ s1.box = s2.box
    /\ \A i \in 1..Count(s1) : s1.inst[i] = s2.inst[i]

\* for (int i = 0; i < count; i++): the first instant comparison that is
\* not 0, with count = Min(seq1->count, seq2->count).
CmpInstants(s1, s2) ==
    LET count == IF Count(s1) <= Count(s2) THEN Count(s1) ELSE Count(s2)
    IN  FirstNonZero([i \in 1..count |-> tinstant_cmp(s1.inst[i], s2.inst[i])])

\* Mutant: the period is not compared (the boxes alone decide).
tsequence_cmp_no_period(s1, s2) ==
    FirstNonZero(<<temporal_bbox_cmp(s1.box, s2.box),
                   CmpInstants(s1, s2), Sign(Flags(s1), Flags(s2))>>)

\* Periods, then bounding boxes, then the instants, then the flags.
tsequence_cmp(s1, s2) ==
    FirstNonZero(<<period_cmp_internal(PeriodOf(s1), PeriodOf(s2)),
                   temporal_bbox_cmp(s1.box, s2.box),
                   CmpInstants(s1, s2), Sign(Flags(s1), Flags(s2))>>)

\* Whether tsequence_cmp gets to the flags: everything before is equal.
CmpReachesFlags(s1, s2) ==
    /\ period_cmp_internal(PeriodOf(s1), PeriodOf(s2)) = 0
    /\ temporal_bbox_cmp(s1.box, s2.box) = 0
    /\ CmpInstants(s1, s2) = 0

=============================================================================
