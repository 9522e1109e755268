----------------------------- MODULE TSequence -----------------------------
(***************************************************************************)
(* The temporal sequence operations of src/src/tsequence.c for temporal    *)
(* numbers (tint/tfloat), as pure operators.                               *)
(*                                                                         *)
(* An instant is a record [v, t]: a base value and an integer timestamp.   *)
(* A sequence is a record                                                  *)
(*   [inst, lower_inc, upper_inc, linear, box]                             *)
(* where inst is the run of instants, the flags are those of the period   *)
(* and the interpolation, and box the cached bounding value range          *)
(* [xmin, xmax] (the TBOX of a temporal number, whose time extent is the   *)
(* period).  The packed buffer and its offsets are modelled separately.    *)
(*                                                                         *)
(* Values are integers: inputs are multiples of a scale chosen by the      *)
(* model so that the interpolations the model performs are exact, which    *)
(* replaces the floating point computations and their EPSILON tolerance    *)
(* by exact arithmetic.  A timestamp computed from a fraction is           *)
(* truncated, as the (long) cast of the code does.                         *)
(*                                                                         *)
(* Results that the code returns as arrays of sequences are sequences of   *)
(* sequence records; <<>> stands for NULL or a count of 0.                 *)
(***************************************************************************)
EXTENDS Integers, Sequences, SequencesExt, Periods

LOCAL MinOf(a, b) == IF a <= b THEN a ELSE b
LOCAL MaxOf(a, b) == IF a >= b THEN a ELSE b

Instant(v, t) == [v |-> v, t |-> t]

\* tsequence_inst_n: the instant at 0-based position i.
tsequence_inst_n(s, i) == s.inst[i + 1]

Count(s) == Len(s.inst)

\* The period of a sequence, as set by tsequence_make (period_set on the
\* first and last timestamps).
PeriodOf(s) ==
    period_set(s.inst[1].t, s.inst[Count(s)].t, s.lower_inc, s.upper_inc)

\* tsequence_make_bbox / tinstant_make_bbox: the value range of instants.
tsequence_make_bbox(insts) ==
    [xmin |-> FoldSeq(LAMBDA i, m : MinOf(i.v, m), insts[1].v, insts),
     xmax |-> FoldSeq(LAMBDA i, m : MaxOf(i.v, m), insts[1].v, insts)]

\* temporal_bbox_expand: the union of two value ranges.
temporal_bbox_expand(b1, b2) ==
    [xmin |-> MinOf(b1.xmin, b2.xmin), xmax |-> MaxOf(b1.xmax, b2.xmax)]

(***************************************************************************)
(* Segment math                                                            *)
(***************************************************************************)

\* datum_collinear / float_collinear: v2 lies on the line from v1@t1 to
\* v3@t3 at t2 (exact, in place of the EPSILON comparison).
datum_collinear(v1, v2, v3, t1, t2, t3) ==
    (v2 - v1) * (t3 - t1) = (v3 - v1) * (t2 - t1)

\* Mutant: a step segment keeps its first value up to and including t2.
value_at_timestamp1_step_closed(inst1, inst2, linear, t) ==
    IF inst1.v = inst2.v \/ inst1.t = t \/ (~linear /\ t <= inst2.t)
    THEN inst1.v
    ELSE IF inst2.t = t THEN inst2.v
    ELSE inst1.v + ((inst2.v - inst1.v) * (t - inst1.t)) \div (inst2.t - inst1.t)

\* tsequence_value_at_timestamp1: the value of the segment inst1-inst2 at
\* t, for inst1.t <= t <= inst2.t.
tsequence_value_at_timestamp1(inst1, inst2, linear, t) ==
    IF inst1.v = inst2.v \/ inst1.t = t \/ (~linear /\ t < inst2.t)
    THEN inst1.v
    ELSE IF inst2.t = t THEN inst2.v
    ELSE inst1.v + ((inst2.v - inst1.v) * (t - inst1.t)) \div (inst2.t - inst1.t)

\* tsequence_at_timestamp1: the instant of the segment at t.
tsequence_at_timestamp1(inst1, inst2, linear, t) ==
    Instant(tsequence_value_at_timestamp1(inst1, inst2, linear, t), t)

\* tnumberseq_intersection_value: the segment crosses value strictly
\* inside; the crossing timestamp inst1.t + (long)(duration * fraction)
\* is truncated.  A fraction of exactly 0 or 1 is no crossing.
CrossesInside(inst1, inst2, value) ==
    /\ MinOf(inst1.v, inst2.v) <= value /\ value <= MaxOf(inst1.v, inst2.v)
    /\ value # inst1.v /\ value # inst2.v

CrossingTime(inst1, inst2, value) ==
    LET num == (value - inst1.v) * (inst2.t - inst1.t)
        den == inst2.v - inst1.v
    IN  inst1.t + (IF den > 0 THEN num \div den ELSE (-num) \div (-den))

\* tlinearseq_intersection_value: the crossing of a linear segment with a
\* base value, as <<>> (none) or <<instant at the crossing>>.
tlinearseq_intersection_value(inst1, inst2, value) ==
    IF value = inst1.v \/ value = inst2.v \/ ~CrossesInside(inst1, inst2, value)
    THEN <<>>
    ELSE LET t == CrossingTime(inst1, inst2, value)
         IN  <<tsequence_at_timestamp1(inst1, inst2, TRUE, t)>>

(***************************************************************************)
(* Normalisation and construction                                          *)
(***************************************************************************)

\* The test of tinstantarr_normalize and tsequence_append_tinstant: the
\* middle instant i2 of three consecutive instants is redundant.
Redundant(i1, i2, i3, linear) ==
    \/ ~linear /\ i1.v = i2.v
    \/ linear /\ i1.v = i2.v /\ i2.v = i3.v
    \/ linear /\ datum_collinear(i1.v, i2.v, i3.v, i1.t, i2.t, i3.t)

\* tinstantarr_normalize: one left-to-right pass; res holds the kept
\* instants (its last one is inst1), inst2 is the pending instant.
RECURSIVE NormalizeLoop(_, _, _, _, _)
NormalizeLoop(insts, linear, res, inst2, i) ==
    IF i > Len(insts) THEN Append(res, inst2)
    ELSE IF Redundant(res[Len(res)], inst2, insts[i], linear)
         THEN NormalizeLoop(insts, linear, res, insts[i], i + 1)
         ELSE NormalizeLoop(insts, linear, Append(res, inst2), insts[i], i + 1)

tinstantarr_normalize(insts, linear) ==
    NormalizeLoop(insts, linear, <<insts[1]>>, insts[2], 3)

\* ensure_valid_tinstantarr and the two checks of tsequence_make that
\* raise ERRCODE_RESTRICT_VIOLATION.
tsequence_make_valid(insts, lower_inc, upper_inc, linear) ==
    LET n == Len(insts) IN
    /\ n > 0
    /\ \A i \in 1..n - 1 : insts[i].t < insts[i + 1].t
    /\ n = 1 => lower_inc /\ upper_inc
    /\ (~linear /\ n > 1 /\ ~upper_inc) => insts[n].v = insts[n - 1].v

\* tsequence_make: normalise when asked, set the period and flags and
\* compute the bounding box.
tsequence_make(insts, lower_inc, upper_inc, linear, normalize) ==
    LET norm == IF normalize /\ Len(insts) > 1
                THEN tinstantarr_normalize(insts, linear) ELSE insts
    IN  [inst |-> norm, lower_inc |-> lower_inc, upper_inc |-> upper_inc,
         linear |-> linear, box |-> tsequence_make_bbox(norm)]

\* tsequence_copy
tsequence_copy(s) == s

(***************************************************************************)
(* Search and evaluation                                                   *)
(***************************************************************************)

\* tsequence_find_timestamp: binary search over the Count(s) - 1 segments
\* for the 0-based index of the segment containing t, -1 if none.  Only
\* the first segment honours lower_inc and only the last upper_inc; the
\* segments in between are [inclusive, exclusive).
RECURSIVE FindLoop(_, _, _, _)
FindLoop(s, t, first, last) ==
    IF first > last THEN -1
    ELSE
      LET middle    == (first + last) \div 2
          inst1     == tsequence_inst_n(s, middle)
          inst2     == tsequence_inst_n(s, middle + 1)
          lower_inc == IF middle = 0 THEN s.lower_inc ELSE TRUE
          upper_inc == IF middle = Count(s) - 2 THEN s.upper_inc ELSE FALSE
      IN  IF \/ inst1.t < t /\ t < inst2.t
             \/ lower_inc /\ inst1.t = t
             \/ upper_inc /\ inst2.t = t
          THEN middle
          ELSE IF t <= inst1.t THEN FindLoop(s, t, first, middle - 1)
                               ELSE FindLoop(s, t, middle + 1, last)

tsequence_find_timestamp(s, t) == FindLoop(s, t, 0, Count(s) - 2)

\* tsequence_at_timestamp: <<>> (NULL) when t is outside the period,
\* otherwise <<the instant at t>>.
tsequence_at_timestamp(s, t) ==
    IF ~contains_period_timestamp_internal(PeriodOf(s), t) THEN <<>>
    ELSE IF Count(s) = 1 THEN <<s.inst[1]>>
    ELSE LET n == tsequence_find_timestamp(s, t)
         IN  <<tsequence_at_timestamp1(tsequence_inst_n(s, n),
                 tsequence_inst_n(s, n + 1), s.linear, t)>>

(***************************************************************************)
(* Restriction to time                                                     *)
(***************************************************************************)

\* Mutant: the loop does not stop at the segment holding inter.upper.
RECURSIVE AtPeriodLoopNoBreak(_, _, _, _, _, _)
AtPeriodLoopNoBreak(s, inter, i, inst1, inst2, acc) ==
    IF i >= Count(s) THEN <<inst1, inst2, acc>>
    ELSE LET in == inter.lower <= inst2.t /\ inst2.t <= inter.upper
         IN  AtPeriodLoopNoBreak(s, inter, i + 1, inst2, tsequence_inst_n(s, i),
                                 IF in THEN Append(acc, inst2) ELSE acc)

\* Mutant: the loop stops only when inter.upper is strictly before inst2.
RECURSIVE AtPeriodLoopLt(_, _, _, _, _, _)
AtPeriodLoopLt(s, inter, i, inst1, inst2, acc) ==
    IF i >= Count(s) \/ (inst1.t <= inter.upper /\ inter.upper < inst2.t)
    THEN <<inst1, inst2, acc>>
    ELSE LET in == inter.lower <= inst2.t /\ inst2.t <= inter.upper
         IN  AtPeriodLoopLt(s, inter, i + 1, inst2, tsequence_inst_n(s, i),
                            IF in THEN Append(acc, inst2) ELSE acc)

\* The loop of tsequence_at_period that collects the instants of s inside
\* inter after the first one; it returns <<inst1, inst2, collected>>.
RECURSIVE AtPeriodLoop(_, _, _, _, _, _)
AtPeriodLoop(s, inter, i, inst1, inst2, acc) ==
    IF i >= Count(s) \/ (inst1.t <= inter.upper /\ inter.upper <= inst2.t)
    THEN <<inst1, inst2, acc>>
    ELSE LET next == tsequence_inst_n(s, i)
             in   == inter.lower <= inst2.t /\ inst2.t <= inter.upper
         IN  AtPeriodLoop(s, inter, i + 1, inst2, next,
                          IF in THEN Append(acc, inst2) ELSE acc)

\* tsequence_at_period: the sequence restricted to the period p.
tsequence_at_period(s, p) ==
    IF ~overlaps_period_period_internal(PeriodOf(s), p) THEN <<>>
    ELSE IF Count(s) = 1 THEN <<s>>
    ELSE
      LET inter == intersection_period_period_internal(PeriodOf(s), p)
      IN
      IF inter.lower = inter.upper
      THEN <<tsequence_make(tsequence_at_timestamp(s, inter.lower),
                            TRUE, TRUE, s.linear, FALSE)>>
      ELSE
        LET n0    == tsequence_find_timestamp(s, inter.lower)
            n     == IF n0 = -1 THEN 0 ELSE n0
            first == tsequence_at_timestamp1(tsequence_inst_n(s, n),
                       tsequence_inst_n(s, n + 1), s.linear, inter.lower)
            loop  == AtPeriodLoop(s, inter, n + 2, tsequence_inst_n(s, n),
                                  tsequence_inst_n(s, n + 1), <<first>>)
            acc   == loop[3]
            last  == IF s.linear \/ inter.upper_inc
                     THEN tsequence_at_timestamp1(loop[1], loop[2], s.linear,
                                                  inter.upper)
                     ELSE Instant(acc[Len(acc)].v, inter.upper)
        IN  <<tsequence_make(Append(acc, last), inter.lower_inc,
                             inter.upper_inc, s.linear, FALSE)>>

\* tsequence_minus_timestamp1: the pieces of s before and after t.
tsequence_minus_timestamp1(s, t) ==
    IF ~contains_period_timestamp_internal(PeriodOf(s), t) THEN <<s>>
    ELSE IF Count(s) = 1 THEN <<>>
    ELSE
      LET n      == tsequence_find_timestamp(s, t)
          inst1  == tsequence_inst_n(s, n)
          inst2  == tsequence_inst_n(s, n + 1)
          prefix == SubSeq(s.inst, 1, n)
          before ==
            IF n = 0 /\ ~(inst1.t < t) THEN <<>>
            ELSE IF inst1.t = t
            THEN IF s.linear
                 THEN <<tsequence_make(Append(prefix, inst1), s.lower_inc,
                                       FALSE, s.linear, FALSE)>>
                 ELSE <<tsequence_make(Append(prefix, Instant(prefix[n].v, t)),
                                       s.lower_inc, FALSE, s.linear, FALSE)>>
            ELSE <<tsequence_make(
                     prefix \o <<inst1, IF s.linear
                                        THEN tsequence_at_timestamp1(inst1, inst2, TRUE, t)
                                        ELSE Instant(inst1.v, t)>>,
                     s.lower_inc, FALSE, s.linear, FALSE)>>
          after ==
            IF t < inst2.t
            THEN <<tsequence_make(
                     <<tsequence_at_timestamp1(inst1, inst2, s.linear, t)>>
                       \o SubSeq(s.inst, n + 2, Count(s)),
                     FALSE, s.upper_inc, s.linear, FALSE)>>
            ELSE <<>>
      IN  before \o after

\* tsequence_minus_period1: s restricted to each period of its period
\* minus p.
tsequence_minus_period1(s, p) ==
    IF ~overlaps_period_period_internal(PeriodOf(s), p) THEN <<s>>
    ELSE IF Count(s) = 1 THEN <<>>
    ELSE LET ps == minus_period_period_internal(PeriodOf(s), p)
         IN  [i \in 1..Len(ps) |-> tsequence_at_period(s, ps[i])[1]]

\* tsequence_at_periodset: s restricted to each period of ps from the one
\* found for the start of s, until a period ends after s.
RECURSIVE AtPeriodSetLoop(_, _, _)
AtPeriodSetLoop(s, ps, i) ==
    IF i >= Len(ps) THEN <<>>
    ELSE tsequence_at_period(s, ps[i + 1]) \o
         (IF PeriodOf(s).upper < ps[i + 1].upper THEN <<>>
          ELSE AtPeriodSetLoop(s, ps, i + 1))

tsequence_at_periodset(s, ps) ==
    IF ~overlaps_period_period_internal(PeriodOf(s), periodset_bbox(ps)) THEN <<>>
    ELSE IF Count(s) = 1
    THEN IF contains_periodset_timestamp_internal(ps, s.inst[1].t)
         THEN <<s>> ELSE <<>>
    ELSE AtPeriodSetLoop(s, ps,
           periodset_find_timestamp(ps, PeriodOf(s).lower))

\* tsequence_minus_periodset: subtract the periods of ps one after the
\* other from the remaining part curr, emitting the pieces left behind.
RECURSIVE MinusPeriodSetLoop(_, _, _)
MinusPeriodSetLoop(curr, ps, i) ==
    IF i >= Len(ps) THEN <<>>
    ELSE
      LET p1    == ps[i + 1]
          upper == PeriodOf(curr).upper
      IN
      IF upper < p1.lower \/
         (upper = p1.lower /\ curr.upper_inc /\ ~p1.lower_inc)
      THEN <<curr>>
      ELSE
        LET minus == tsequence_minus_period1(curr, p1)
            emit  == IF Len(minus) = 2 THEN <<minus[1]>> ELSE <<>>
            next  == minus[Len(minus)]
        IN  IF minus = <<>> THEN <<>>
            ELSE IF i = Len(ps) - 1 THEN emit \o <<next>>
            ELSE emit \o MinusPeriodSetLoop(next, ps, i + 1)

\* Mutant: the loop starts one period after from.
minus_periodset_skip_first(s, ps, from) == MinusPeriodSetLoop(s, ps, from + 1)

tsequence_minus_periodset(s, ps, from) == MinusPeriodSetLoop(s, ps, from)

\* tsequence_at_timestampset: the instants of s at the timestamps of ts.
tsequence_at_timestampset(s, ts) ==
    IF ~overlaps_period_period_internal(PeriodOf(s), timestampset_bbox(ts))
    THEN <<>>
    ELSE IF Count(s) = 1
    THEN IF contains_timestampset_timestamp_internal(ts, s.inst[1].t)
         THEN <<s.inst[1]>> ELSE <<>>
    ELSE
      LET loc == timestampset_find_timestamp(ts,
                   MaxOf(PeriodOf(s).lower, timestampset_bbox(ts).lower))
      IN  FoldLeft(LAMBDA acc, t : acc \o tsequence_at_timestamp(s, t), <<>>,
                   SubSeq(ts, loc + 1, Len(ts)))

\* One iteration of the loop of tsequence_minus_timestampset1 on the
\* state st = [i, j, l (the instants of the piece under construction),
\* lower_inc, res]: instant i of s against timestamp j of ts.
MinusTsStep(s, ts, st) ==
    LET inst == tsequence_inst_n(s, st.i)
        t    == ts[st.j + 1]
        prev == st.l[Len(st.l)]
        cut(end) == tsequence_make(Append(st.l, end), st.lower_inc, FALSE,
                                   s.linear, FALSE)
    IN
    IF inst.t < t
    THEN [st EXCEPT !.l = Append(@, inst), !.i = @ + 1]
    ELSE IF inst.t = t
    THEN [st EXCEPT !.res = Append(@, cut(IF s.linear THEN inst
                                          ELSE Instant(prev.v, t))),
                    !.l = <<inst>>, !.lower_inc = FALSE,
                    !.i = @ + 1, !.j = @ + 1]
    ELSE IF prev.t < t
    THEN LET end == IF s.linear THEN tsequence_at_timestamp1(prev, inst, TRUE, t)
                    ELSE Instant(prev.v, t)
         IN  [st EXCEPT !.res = Append(@, cut(end)), !.l = <<end>>,
                        !.lower_inc = FALSE, !.j = @ + 1]
    ELSE [st EXCEPT !.lower_inc = FALSE, !.j = @ + 1]

RECURSIVE MinusTsLoop(_, _, _)
MinusTsLoop(s, ts, st) ==
    IF st.i < Count(s) /\ st.j < Len(ts)
    THEN MinusTsLoop(s, ts, MinusTsStep(s, ts, st))
    ELSE st

\* tsequence_minus_timestampset1: s without the timestamps of ts.
tsequence_minus_timestampset1(s, ts) ==
    IF ~overlaps_period_period_internal(PeriodOf(s), timestampset_bbox(ts))
    THEN <<s>>
    ELSE IF Count(s) = 1
    THEN IF contains_timestampset_timestamp_internal(ts, s.inst[1].t)
         THEN <<>> ELSE <<s>>
    ELSE IF Len(ts) = 1 THEN tsequence_minus_timestamp1(s, ts[1])
    ELSE
      LET st == MinusTsLoop(s, ts, [i |-> 1, j |-> 0, l |-> <<s.inst[1]>>,
                                    lower_inc |-> s.lower_inc, res |-> <<>>])
      IN  IF st.i < Count(s)
          THEN Append(st.res,
                 tsequence_make(st.l \o SubSeq(s.inst, st.i + 1, Count(s)),
                                FALSE, s.upper_inc, s.linear, FALSE))
          ELSE st.res

(***************************************************************************)
(* Append, join and the normalisation of sequence arrays                   *)
(***************************************************************************)

\* Mutant: the appended instant never replaces the last one.
append_no_normalize(s, inst) ==
    [inst |-> Append(s.inst, inst), lower_inc |-> s.lower_inc,
     upper_inc |-> TRUE, linear |-> s.linear,
     box |-> temporal_bbox_expand(s.box, tsequence_make_bbox(<<inst>>))]

\* tsequence_append_tinstant: the appended instant replaces the last one
\* when that one becomes redundant; the period is closed at inst.t and the
\* box of s is expanded by the one of inst.  The caller has checked that
\* inst.t is after the end of s (ensure_increasing_timestamps).
tsequence_append_tinstant(s, inst) ==
    LET n    == Count(s)
        drop == n > 1 /\ Redundant(s.inst[n - 1], s.inst[n], inst, s.linear)
        keep == IF drop THEN SubSeq(s.inst, 1, n - 1) ELSE s.inst
    IN  [inst |-> Append(keep, inst), lower_inc |-> s.lower_inc,
         upper_inc |-> TRUE, linear |-> s.linear,
         box |-> temporal_bbox_expand(s.box, tsequence_make_bbox(<<inst>>))]

\* tsequence_join: seq1 followed by seq2, without the last instant of seq1
\* and/or the first one of seq2; the box is the union of the two boxes.
tsequence_join(seq1, seq2, removelast, removefirst) ==
    [inst |-> SubSeq(seq1.inst, 1, Count(seq1) - (IF removelast THEN 1 ELSE 0))
              \o SubSeq(seq2.inst, IF removefirst THEN 2 ELSE 1, Count(seq2)),
     lower_inc |-> seq1.lower_inc, upper_inc |-> seq2.upper_inc,
     linear |-> seq1.linear, box |-> temporal_bbox_expand(seq1.box, seq2.box)]

\* Mutant: a collinear junction is joined without comparing the two values
\* at the shared timestamp.
join_kind_collinear_any(seq1, seq2) ==
    LET linear   == seq1.linear
        last1    == seq1.inst[Count(seq1)]
        first1   == seq2.inst[1]
        adjacent == PeriodOf(seq1).upper = PeriodOf(seq2).lower /\
                    (seq1.upper_inc \/ seq2.lower_inc)
    IN
    IF adjacent /\ Count(seq1) > 1 /\ Count(seq2) > 1 /\
       LET last2  == seq1.inst[Count(seq1) - 1]
           first2 == seq2.inst[2]
       IN  \/ ~linear /\ last2.v = last1.v /\ last1.v = first1.v
           \/ last2.v = last1.v /\ last1.v = first1.v /\ first1.v = first2.v
           \/ datum_collinear(last2.v, first1.v, first2.v,
                              last2.t, first1.t, first2.t)
    THEN <<TRUE, TRUE>>
    ELSE IF adjacent /\ ~linear /\ ~seq1.upper_inc THEN <<TRUE, FALSE>>
    ELSE IF adjacent /\ last1.v = first1.v THEN <<FALSE, TRUE>>
    ELSE <<>>

\* Mutant: the junction instant is kept even when it is redundant.
join_kind_no_redundant(seq1, seq2) ==
    LET linear   == seq1.linear
        last1    == seq1.inst[Count(seq1)]
        first1   == seq2.inst[1]
        adjacent == PeriodOf(seq1).upper = PeriodOf(seq2).lower /\
                    (seq1.upper_inc \/ seq2.lower_inc)
    IN  IF adjacent /\ ~linear /\ ~seq1.upper_inc THEN <<TRUE, FALSE>>
        ELSE IF adjacent /\ last1.v = first1.v THEN <<FALSE, TRUE>>
        ELSE <<>>

\* The three-way choice of tsequencearr_normalize for seq1 followed by
\* seq2: <<removelast, removefirst>> of the join, or <<>> for no join.
JoinKind(seq1, seq2) ==
    LET linear   == seq1.linear
        last1    == seq1.inst[Count(seq1)]
        first1   == seq2.inst[1]
        adjacent == PeriodOf(seq1).upper = PeriodOf(seq2).lower /\
                    (seq1.upper_inc \/ seq2.lower_inc)
    IN
    IF adjacent /\ Count(seq1) > 1 /\ Count(seq2) > 1 /\
       LET last2  == seq1.inst[Count(seq1) - 1]
           first2 == seq2.inst[2]
       IN  \/ ~linear /\ last2.v = last1.v /\ last1.v = first1.v
           \/ last2.v = last1.v /\ last1.v = first1.v /\ first1.v = first2.v
           \/ last1.v = first1.v /\
              datum_collinear(last2.v, first1.v, first2.v,
                              last2.t, first1.t, first2.t)
    THEN <<TRUE, TRUE>>
    ELSE IF adjacent /\ ~linear /\ ~seq1.upper_inc THEN <<TRUE, FALSE>>
    ELSE IF adjacent /\ last1.v = first1.v THEN <<FALSE, TRUE>>
    ELSE <<>>

\* tsequencearr_normalize: seq1 absorbs the following sequences while they
\* join with it.
RECURSIVE ArrNormalizeLoop(_, _, _)
ArrNormalizeLoop(seqs, seq1, i) ==
    IF i > Len(seqs) THEN <<seq1>>
    ELSE LET kind == JoinKind(seq1, seqs[i])
         IN  IF kind = <<>>
             THEN <<seq1>> \o ArrNormalizeLoop(seqs, seqs[i], i + 1)
             ELSE ArrNormalizeLoop(seqs,
                    tsequence_join(seq1, seqs[i], kind[1], kind[2]), i + 1)

tsequencearr_normalize(seqs) == ArrNormalizeLoop(seqs, seqs[1], 2)

\* tsequenceset_make (tsequenceset.c): the sequences are ordered and do
\* not overlap, and are normalised as an array when asked.
tsequenceset_make_valid(seqs) ==
    \A i \in 1..Len(seqs) - 1 :
        LET p1 == PeriodOf(seqs[i])
            p2 == PeriodOf(seqs[i + 1])
        IN  p1.upper < p2.lower \/
            (p1.upper = p2.lower /\ ~(p1.upper_inc /\ p2.lower_inc))

tsequenceset_make(seqs, normalize) ==
    IF normalize /\ Len(seqs) > 1 THEN tsequencearr_normalize(seqs) ELSE seqs

\* tsequence_restrict_periodset: s restricted to (the complement of) ps;
\* the at result is normalised as a sequence set, the minus one is not.
tsequence_restrict_periodset(s, ps, atfunc) ==
    IF ~overlaps_period_period_internal(PeriodOf(s), periodset_bbox(ps))
    THEN IF atfunc THEN <<>> ELSE <<s>>
    ELSE IF Count(s) = 1
    THEN IF contains_periodset_timestamp_internal(ps, s.inst[1].t) = atfunc
         THEN <<s>> ELSE <<>>
    ELSE IF atfunc
    THEN tsequenceset_make(tsequence_at_periodset(s, ps), TRUE)
    ELSE tsequenceset_make(tsequence_minus_periodset(s, ps, 0), FALSE)

(***************************************************************************)
(* Restriction to values                                                   *)
(***************************************************************************)

\* The bounds of segment i (1-based, from instant i to i + 1) as the loops
\* of the code pass them: only the first segment honours lower_inc and
\* only the last one upper_inc.
SegLowerInc(s, i) == IF i = 1 THEN s.lower_inc ELSE TRUE
SegUpperInc(s, i) == IF i = Count(s) - 1 THEN s.upper_inc ELSE FALSE

\* The concatenation of f(i) for the segments i of s.
PerSegment(s, f(_)) == FlattenSeq([i \in 1..Count(s) - 1 |-> f(i)])

\* temporal_bbox_restrict_value(s) (temporal_boxops.c): value is inside
\* the value range of the box.
temporal_bbox_restrict_value(s, value) ==
    s.box.xmin <= value /\ value <= s.box.xmax

\* temporal_bbox_restrict_values: the values inside the box, in order.
temporal_bbox_restrict_values(s, values) ==
    SelectSeq(values, LAMBDA v : temporal_bbox_restrict_value(s, v))

\* tsequence_at_value1: the part of the segment inst1-inst2 at value.
tsequence_at_value1(inst1, inst2, linear, lower_inc, upper_inc, value) ==
    LET single(inst) == <<tsequence_make(<<inst>>, TRUE, TRUE, linear, FALSE)>>
    IN
    IF inst1.v = inst2.v
    THEN IF inst1.v # value THEN <<>>
         ELSE <<tsequence_make(<<inst1, inst2>>, lower_inc, upper_inc,
                               linear, FALSE)>>
    ELSE IF ~linear
    THEN IF inst1.v = value
         THEN <<tsequence_make(<<inst1, Instant(inst1.v, inst2.t)>>,
                               lower_inc, FALSE, linear, FALSE)>>
         ELSE IF upper_inc /\ inst2.v = value THEN single(inst2)
         ELSE <<>>
    ELSE IF inst1.v = value THEN IF lower_inc THEN single(inst1) ELSE <<>>
    ELSE IF inst2.v = value THEN IF upper_inc THEN single(inst2) ELSE <<>>
    ELSE LET cross == tlinearseq_intersection_value(inst1, inst2, value)
         IN  IF cross = <<>> THEN <<>> ELSE single(cross[1])

\* tsequence_at_value
tsequence_at_value(s, value) ==
    IF Count(s) = 1 THEN IF s.inst[1].v # value THEN <<>> ELSE <<s>>
    ELSE IF ~temporal_bbox_restrict_value(s, value) THEN <<>>
    ELSE PerSegment(s, LAMBDA i :
           tsequence_at_value1(s.inst[i], s.inst[i + 1], s.linear,
                               SegLowerInc(s, i), SegUpperInc(s, i), value))

\* Mutant: both parts around a crossing keep the crossing instant.
minus_value1_closed_crossing(inst1, inst2, lower_inc, upper_inc, value) ==
    LET piece(a, b, li, ui) == tsequence_make(<<a, b>>, li, ui, TRUE, FALSE)
        cross == tlinearseq_intersection_value(inst1, inst2, value)
    IN
    IF inst1.v = inst2.v
    THEN IF inst1.v = value THEN <<>>
         ELSE <<piece(inst1, inst2, lower_inc, upper_inc)>>
    ELSE IF inst1.v = value THEN <<piece(inst1, inst2, FALSE, upper_inc)>>
    ELSE IF inst2.v = value THEN <<piece(inst1, inst2, lower_inc, FALSE)>>
    ELSE IF cross = <<>> THEN <<piece(inst1, inst2, lower_inc, upper_inc)>>
    ELSE <<piece(inst1, cross[1], lower_inc, TRUE),
           piece(cross[1], inst2, TRUE, upper_inc)>>

\* tlinearseq_minus_value1: the parts of a linear segment not at value.
tlinearseq_minus_value1(inst1, inst2, lower_inc, upper_inc, value) ==
    LET piece(a, b, li, ui) == tsequence_make(<<a, b>>, li, ui, TRUE, FALSE)
        cross == tlinearseq_intersection_value(inst1, inst2, value)
    IN
    IF inst1.v = inst2.v
    THEN IF inst1.v = value THEN <<>>
         ELSE <<piece(inst1, inst2, lower_inc, upper_inc)>>
    ELSE IF inst1.v = value THEN <<piece(inst1, inst2, FALSE, upper_inc)>>
    ELSE IF inst2.v = value THEN <<piece(inst1, inst2, lower_inc, FALSE)>>
    ELSE IF cross = <<>> THEN <<piece(inst1, inst2, lower_inc, upper_inc)>>
    ELSE <<piece(inst1, cross[1], lower_inc, FALSE),
           piece(cross[1], inst2, FALSE, upper_inc)>>

\* The step interpolation loop of tsequence_minus_value: l holds the
\* instants of the piece under construction.
RECURSIVE StepMinusValueLoop(_, _, _, _, _)
StepMinusValueLoop(s, value, i, l, lower_inc) ==
    IF i > Count(s)
    THEN IF l # <<>>
         THEN <<tsequence_make(l, lower_inc, s.upper_inc, FALSE, FALSE)>>
         ELSE <<>>
    ELSE LET inst == s.inst[i] IN
         IF inst.v = value
         THEN (IF l # <<>>
               THEN <<tsequence_make(Append(l, Instant(l[Len(l)].v, inst.t)),
                                     lower_inc, FALSE, FALSE, FALSE)>>
               ELSE <<>>) \o StepMinusValueLoop(s, value, i + 1, <<>>, TRUE)
         ELSE StepMinusValueLoop(s, value, i + 1, Append(l, inst), lower_inc)

\* tsequence_minus_value
tsequence_minus_value(s, value) ==
    IF Count(s) = 1 THEN IF s.inst[1].v = value THEN <<>> ELSE <<s>>
    ELSE IF ~temporal_bbox_restrict_value(s, value) THEN <<s>>
    ELSE IF ~s.linear THEN StepMinusValueLoop(s, value, 1, <<>>, s.lower_inc)
    ELSE PerSegment(s, LAMBDA i :
           tlinearseq_minus_value1(s.inst[i], s.inst[i + 1],
                                   SegLowerInc(s, i), SegUpperInc(s, i), value))

\* tsequence_restrict_value: the pieces normalised as a sequence set.
tsequence_restrict_value(s, value, atfunc) ==
    tsequenceset_make(IF atfunc THEN tsequence_at_value(s, value)
                      ELSE tsequence_minus_value(s, value), TRUE)

\* tsequencearr_sort (temporal_util.c): the sequences in the order of
\* their periods (period_cmp_internal: lower bound, inclusive lower first,
\* then upper bound, exclusive upper first).
tsequencearr_sort(seqs) ==
    SortSeq(seqs, LAMBDA a, b :
              LET p == PeriodOf(a)
                  q == PeriodOf(b)
              IN  \/ p.lower < q.lower
                  \/ p.lower = q.lower /\ p.lower_inc /\ ~q.lower_inc
                  \/ p.lower = q.lower /\ p.lower_inc = q.lower_inc /\
                     (\/ p.upper < q.upper
                      \/ p.upper = q.upper /\ ~p.upper_inc /\ q.upper_inc))

\* tsequence_at_values1: the parts of every segment at each value, sorted.
tsequence_at_values1(s, values) ==
    IF Count(s) = 1
    THEN IF \E j \in 1..Len(values) : values[j] = s.inst[1].v
         THEN <<s>> ELSE <<>>
    ELSE IF temporal_bbox_restrict_values(s, values) = <<>> THEN <<>>
    ELSE tsequencearr_sort(PerSegment(s, LAMBDA i :
           FlattenSeq([j \in 1..Len(values) |->
             tsequence_at_value1(s.inst[i], s.inst[i + 1], s.linear,
                                 SegLowerInc(s, i), SegUpperInc(s, i),
                                 values[j])])))

\* tsequenceset_get_time (tsequenceset.c): the periods of the sequences.
tsequenceset_get_time(seqs) == [i \in 1..Len(seqs) |-> PeriodOf(seqs[i])]

\* tsequence_restrict_values: at is the normalised union of the parts at
\* each value; minus restricts s to its period minus the time of at.
tsequence_restrict_values(s, values, atfunc) ==
    LET values1  == temporal_bbox_restrict_values(s, values)
        atpieces == tsequence_at_values1(s, values1)
        atresult == tsequenceset_make(atpieces, TRUE)
        ps2      == minus_period_periodset_internal(PeriodOf(s),
                      tsequenceset_get_time(atresult))
    IN
    IF values1 = <<>> THEN IF atfunc THEN <<>> ELSE <<s>>
    ELSE IF atfunc THEN atresult
    ELSE IF atpieces = <<>> THEN <<s>>
    ELSE IF ps2 = <<>> THEN <<>>
    ELSE tsequence_restrict_periodset(s, ps2, TRUE)

(***************************************************************************)
(* Ever and always comparisons with a base value                           *)
(***************************************************************************)

\* The bounding box tests of temporal_boxops.c for temporal numbers.
temporal_bbox_ever_eq(s, value)       == temporal_bbox_restrict_value(s, value)
temporal_bbox_always_eq(s, value)     == s.box.xmin = value /\ s.box.xmax = value
temporal_bbox_ever_lt_le(s, value)    == s.box.xmin <= value
temporal_bbox_always_lt_le(s, value)  == s.box.xmax <= value

\* tlinearseq_ever_eq1
tlinearseq_ever_eq1(inst1, inst2, lower_inc, upper_inc, value) ==
    IF inst1.v = inst2.v /\ inst1.v = value THEN TRUE
    ELSE IF inst1.v = value THEN lower_inc
    ELSE IF inst2.v = value THEN upper_inc
    ELSE tlinearseq_intersection_value(inst1, inst2, value) # <<>>

\* tsequence_ever_eq
tsequence_ever_eq(s, value) ==
    /\ temporal_bbox_ever_eq(s, value)
    /\ IF ~s.linear \/ Count(s) = 1
       THEN \E i \in 1..Count(s) : s.inst[i].v = value
       ELSE \E i \in 1..Count(s) - 1 :
              tlinearseq_ever_eq1(s.inst[i], s.inst[i + 1], SegLowerInc(s, i),
                                  SegUpperInc(s, i), value)

\* tsequence_always_eq: for temporal numbers the box test decides.
tsequence_always_eq(s, value) == temporal_bbox_always_eq(s, value)

\* Mutant: an increasing segment ignores an exclusive lower bound.
ever_le1_ignore_bound(value1, value2, lower_inc, upper_inc, value) ==
    IF value1 = value2 THEN value1 <= value
    ELSE IF value1 < value2 THEN value1 <= value
    ELSE value2 < value \/ (upper_inc /\ value2 = value)

\* tlinearseq_ever_le1
tlinearseq_ever_le1(value1, value2, lower_inc, upper_inc, value) ==
    IF value1 = value2 THEN value1 <= value
    ELSE IF value1 < value2 THEN value1 < value \/ (lower_inc /\ value1 = value)
    ELSE value2 < value \/ (upper_inc /\ value2 = value)

\* tlinearseq_always_lt1: a constant segment compares its value with
\* itself (datum_lt(value1, value1)).
tlinearseq_always_lt1(value1, value2, lower_inc, upper_inc, value) ==
    IF value1 = value2 THEN value1 < value1
    ELSE IF value1 < value2 THEN value2 < value \/ (~upper_inc /\ value = value2)
    ELSE value1 < value \/ (~lower_inc /\ value1 = value)

\* tsequence_ever_lt: only the values of the instants are compared.
tsequence_ever_lt(s, value) ==
    /\ temporal_bbox_ever_lt_le(s, value)
    /\ \E i \in 1..Count(s) : s.inst[i].v < value

\* tsequence_ever_le
tsequence_ever_le(s, value) ==
    /\ temporal_bbox_ever_lt_le(s, value)
    /\ IF ~s.linear \/ Count(s) = 1
       THEN \E i \in 1..Count(s) : s.inst[i].v <= value
       ELSE \E i \in 1..Count(s) - 1 :
              tlinearseq_ever_le1(s.inst[i].v, s.inst[i + 1].v,
                                  SegLowerInc(s, i), SegUpperInc(s, i), value)

\* tsequence_always_lt
tsequence_always_lt(s, value) ==
    /\ temporal_bbox_always_lt_le(s, value)
    /\ IF ~s.linear \/ Count(s) = 1
       THEN \A i \in 1..Count(s) : s.inst[i].v < value
       ELSE \A i \in 1..Count(s) - 1 :
              tlinearseq_always_lt1(s.inst[i].v, s.inst[i + 1].v,
                                    SegLowerInc(s, i), SegUpperInc(s, i), value)

\* tsequence_always_le: for temporal numbers the box test decides.
tsequence_always_le(s, value) == temporal_bbox_always_lt_le(s, value)

=============================================================================
