------------------------------ MODULE TSeqRange ------------------------------
(***************************************************************************)
(* Restriction of a temporal number to a range, or to an array of ranges,  *)
(* of base values: tnumberseq_at_range1, tnumberseq_restrict_range1/_range *)
(* and tnumberseq_restrict_ranges1/_ranges of src/src/tsequence.c.         *)
(*                                                                         *)
(* A range is a record [lower, upper, lower_inc, upper_inc] like a period  *)
(* (PostgreSQL float ranges have finite bounds here).  Each segment is     *)
(* intersected with the range on its own; minus is the sequence restricted *)
(* to its period minus the time of the at result.                          *)
(***************************************************************************)
EXTENDS Integers, Sequences, SequencesExt, TSequence

LOCAL MinOf(a, b) == IF a <= b THEN a ELSE b
LOCAL MaxOf(a, b) == IF a >= b THEN a ELSE b

\* range_make (rangetypes.c) of two finite bounds.
range_make(lower, upper, lower_inc, upper_inc) ==
    [lower |-> lower, upper |-> upper,
     lower_inc |-> lower_inc, upper_inc |-> upper_inc]

\* RangeIsEmpty, for the result of range_intersect.
RangeIsEmpty(r) ==
    \/ r.lower > r.upper
    \/ r.lower = r.upper /\ ~(r.lower_inc /\ r.upper_inc)

\* range_contains_elem_internal (rangetypes.c).
range_contains_elem_internal(r, v) ==
    /\ r.lower < v \/ (r.lower = v /\ r.lower_inc)
    /\ v < r.upper \/ (v = r.upper /\ r.upper_inc)

\* range_intersect (rangetypes.c): the greater lower and the smaller upper
\* bound, a tie being inclusive when both bounds are.
range_intersect(r1, r2) ==
    LET lo == LaterLower(r1, r2)
        hi == EarlierUpper(r1, r2)
    IN  range_make(lo.b, hi.b, lo.inc, hi.inc)

\* range_to_tbox_internal + overlaps_tbox_tbox_internal: the value
\* extents overlap, bound flags ignored.
tbox_overlaps_range(s, r) == s.box.xmin <= r.upper /\ r.lower <= s.box.xmax

\* tnumberinst_restrict_range(s) (tinstant.c): the instant is kept when
\* its value is in (one of) the range(s) exactly when atfunc.
tnumberinst_restrict_ranges(inst, ranges, atfunc) ==
    (\E j \in 1..Len(ranges) : range_contains_elem_internal(ranges[j], inst.v))
        = atfunc

\* Mutant: a step segment keeps its inclusive upper bound.
at_range1_step_closed(inst1, inst2, lower_incl, upper_incl, linear, range) ==
    IF range_contains_elem_internal(range, inst1.v)
    THEN <<tsequence_make(<<inst1, Instant(inst1.v, inst2.t)>>,
                          lower_incl, upper_incl, linear, FALSE)>>
    ELSE <<>>

\* tnumberseq_at_range1: the part of the segment inst1-inst2 whose values
\* are in range, as <<>> (NULL) or one sequence.  A step or constant
\* segment is kept whole (a step one without its upper bound) when its
\* value is in the range.  A linear segment is intersected through the
\* range of its values, whose bounds are found by
\* tnumberseq_intersection_value; the bound flags of each case are those
\* the code passes.
tnumberseq_at_range1(inst1, inst2, lower_incl, upper_incl, linear, range) ==
    LET mk(i1, i2, li, ui) == <<tsequence_make(<<i1, i2>>, li, ui, linear, FALSE)>>
        at(t)      == tsequence_at_timestamp1(inst1, inst2, linear, t)
        increasing == inst1.v < inst2.v
        valuerange == IF increasing
                      THEN range_make(inst1.v, inst2.v, lower_incl, upper_incl)
                      ELSE range_make(inst2.v, inst1.v, upper_incl, lower_incl)
        x          == range_intersect(valuerange, range)
        foundlower == CrossesInside(inst1, inst2, x.lower)
        foundupper == CrossesInside(inst1, inst2, x.upper)
        t1         == CrossingTime(inst1, inst2, x.lower)
        t2         == CrossingTime(inst1, inst2, x.upper)
    IN
    IF ~linear \/ inst1.v = inst2.v
    THEN IF ~range_contains_elem_internal(range, inst1.v) THEN <<>>
         ELSE mk(inst1, IF linear THEN inst2 ELSE Instant(inst1.v, inst2.t),
                 lower_incl, linear /\ upper_incl)
    ELSE IF RangeIsEmpty(x) THEN <<>>
    ELSE IF x.lower = x.upper
    THEN <<tsequence_make(<<Instant(x.lower, IF x.lower = inst1.v THEN inst1.t
                                             ELSE inst2.t)>>,
                          TRUE, TRUE, linear, FALSE)>>
    ELSE IF ~foundlower /\ ~foundupper THEN mk(inst1, inst2, lower_incl, upper_incl)
    ELSE IF foundlower /\ foundupper
    THEN mk(at(MinOf(t1, t2)), at(MaxOf(t1, t2)), x.lower_inc, x.upper_inc)
    ELSE IF foundlower
    THEN IF increasing THEN mk(at(t1), inst2, x.lower_inc, upper_incl)
         ELSE mk(inst1, at(t1), lower_incl, x.upper_inc)
    ELSE IF increasing THEN mk(inst1, at(t2), lower_incl, x.upper_inc)
         ELSE mk(at(t2), inst2, x.lower_inc, upper_incl)

\* The AT loop of tnumberseq_restrict_ranges1 (and, with one range, of
\* tnumberseq_restrict_range1): the parts of every segment in each range,
\* then the last instant of a step sequence with an inclusive upper bound
\* when the last range holds its value.
AtRangesPieces(s, ranges) ==
    LET last == s.inst[Count(s)]
    IN  FlattenSeq([i \in 1..Count(s) - 1 |->
          FlattenSeq([j \in 1..Len(ranges) |->
            tnumberseq_at_range1(s.inst[i], s.inst[i + 1],
                                 SegLowerInc(s, i), SegUpperInc(s, i),
                                 s.linear, ranges[j])])])
        \o (IF ~s.linear /\ s.upper_inc /\
               range_contains_elem_internal(ranges[Len(ranges)], last.v)
            THEN <<tsequence_make(<<last>>, TRUE, TRUE, FALSE, FALSE)>>
            ELSE <<>>)

\* The MINUS branch shared by both functions: s restricted to its period
\* minus the time of the (normalised) at result.
MinusFromAt(s, at) ==
    LET ps2 == minus_period_periodset_internal(PeriodOf(s),
                                               tsequenceset_get_time(at))
    IN  IF at = <<>> THEN <<s>>
        ELSE IF ps2 = <<>> THEN <<>>
        ELSE tsequence_at_periodset(s, ps2)

\* tnumberseq_restrict_range1 and tnumberseq_restrict_range: the bounding
\* box test, an instantaneous sequence, and the at or minus loop; the
\* pieces are normalised as a sequence set.
tnumberseq_restrict_range(s, range, atfunc) ==
    LET at == tsequenceset_make(AtRangesPieces(s, <<range>>), TRUE)
    IN  tsequenceset_make(
          IF ~tbox_overlaps_range(s, range) THEN IF atfunc THEN <<>> ELSE <<s>>
          ELSE IF Count(s) = 1
          THEN IF tnumberinst_restrict_ranges(s.inst[1], <<range>>, atfunc)
               THEN <<s>> ELSE <<>>
          ELSE IF atfunc THEN AtRangesPieces(s, <<range>>)
          ELSE MinusFromAt(s, at), TRUE)

\* tnumberseq_restrict_ranges1 and tnumberseq_restrict_ranges, for a
\* normalised array of ranges: no bounding box test, and the at pieces
\* are sorted.
tnumberseq_restrict_ranges(s, ranges, atfunc) ==
    LET atpieces == AtRangesPieces(s, ranges)
        at       == tsequenceset_make(tsequencearr_sort(atpieces), TRUE)
    IN  tsequenceset_make(
          IF Count(s) = 1
          THEN IF tnumberinst_restrict_ranges(s.inst[1], ranges, atfunc)
               THEN <<s>> ELSE <<>>
          ELSE IF atfunc THEN tsequencearr_sort(atpieces)
          ELSE MinusFromAt(s, at), TRUE)

=============================================================================
