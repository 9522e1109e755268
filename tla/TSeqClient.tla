----------------------------- MODULE TSeqClient -----------------------------
(***************************************************************************)
(* A client of the sequence operations of tsequence.c: it holds one        *)
(* temporal sequence value seq and applies the operations of the library   *)
(* to it, one call per step, each with an argument chosen from small sets. *)
(* The result of the call replaces seq (one of its sequences, when the     *)
(* result is a sequence set), so that a behaviour is a chain of calls      *)
(* each made on the result of the previous one.  last records the call:   *)
(* the operation, its input, the time samples it keeps and its result.    *)
(*                                                                         *)
(* Time is checked at half-timestamp resolution: a sample u stands for the *)
(* instant u/2.  Every instant of the model is at an integer timestamp,    *)
(* so the samples tell apart a bound and the open interval next to it.     *)
(***************************************************************************)
EXTENDS Integers, Sequences, FiniteSets, TSeqMerge, TSeqRange, TSeqSync, TSeqAgg, TSeqCmp

CONSTANTS
    Vals,       \* the base values of instants and of value arguments
    InstTimes,  \* the timestamps of the instants of the initial values
    Times,      \* the timestamps of the arguments
    PSTimes,    \* the bounds of the periods of period set arguments
    MaxLen,     \* the largest number of instants of an initial value
    MaxCount,   \* the largest number of instants Append may reach
    MaxCalls    \* the length of the chains of calls explored

ASSUME /\ Vals \subseteq Int /\ InstTimes \subseteq Times /\ Times \subseteq Int
       /\ PSTimes \subseteq Times
       /\ MaxLen \in Nat \ {0} /\ MaxCount \in Nat \ {0} /\ MaxCalls \in Nat

VARIABLES seq, last, calls
vars == <<seq, last, calls>>

TMin == CHOOSE t \in Times : \A u \in Times : t <= u
TMax == CHOOSE t \in Times : \A u \in Times : t >= u
Samples == 2 * TMin - 1 .. 2 * TMax + 1

(***************************************************************************)
(* Arguments                                                               *)
(***************************************************************************)

Periods == {p \in [lower : Times, upper : Times,
                   lower_inc : BOOLEAN, upper_inc : BOOLEAN] : IsPeriod(p)}

\* Strictly increasing sequences of length 1..n over a set of integers.
IncSeqs(S, n) == {f \in UNION {[1..k -> S] : k \in 1..n} :
                    \A i \in 1..Len(f) - 1 : f[i] < f[i + 1]}

TimestampSets == IncSeqs(Times, 3)

\* Period sets of two periods as periodset_make leaves them: ordered,
\* disjoint and not adjacent (adjacent periods are merged by its
\* normalisation).  A period set of one period takes the paths of a
\* longer one through the loops; at_period covers its time domain.
PSPeriods == {p \in Periods : p.lower \in PSTimes /\ p.upper \in PSTimes}

PeriodSets ==
    {<<p1, p2>> \in PSPeriods \X PSPeriods :
        p1.upper < p2.lower \/
        (p1.upper = p2.lower /\ ~p1.upper_inc /\ ~p2.lower_inc)}

\* The sample u lies in the period p.
InPeriod2(p, u) ==
    /\ 2 * p.lower < u \/ (2 * p.lower = u /\ p.lower_inc)
    /\ u < 2 * p.upper \/ (u = 2 * p.upper /\ p.upper_inc)

(***************************************************************************)
(* The function of time a sequence denotes, as a reference definition      *)
(* independent of the search and interpolation of tsequence.c.  A value   *)
(* is the rational <<num, den>>.                                           *)
(***************************************************************************)

Defined(s, u) == InPeriod2(PeriodOf(s), u)

ValAt(s, u) ==
    IF \E i \in 1..Count(s) : 2 * s.inst[i].t = u
    THEN LET i == CHOOSE i \in 1..Count(s) : 2 * s.inst[i].t = u
         IN  <<s.inst[i].v, 1>>
    ELSE LET i  == CHOOSE i \in 1..Count(s) - 1 :
                     2 * s.inst[i].t < u /\ u < 2 * s.inst[i + 1].t
             a  == s.inst[i]
             b  == s.inst[i + 1]
         IN  IF s.linear
             THEN <<2 * a.v * (b.t - a.t) + (b.v - a.v) * (u - 2 * a.t),
                    2 * (b.t - a.t)>>
             ELSE <<a.v, 1>>

SameVal(x, y) == x[1] * y[2] = y[1] * x[2]

\* A linear segment whose interpolations at integer timestamps, and whose
\* crossings of the values of Vals, are integers: on such segments the
\* integer arithmetic of the model is exact.
Divides(d, n) == n % (IF d < 0 THEN -d ELSE d) = 0

ExactSegment(i1, i2) ==
    /\ Divides(i2.t - i1.t, i2.v - i1.v)
    /\ \A v \in Vals : CrossesInside(i1, i2, v) =>
          Divides(i2.v - i1.v, (v - i1.v) * (i2.t - i1.t))

Exact(s) == s.linear => \A i \in 1..Count(s) - 1 :
                          ExactSegment(s.inst[i], s.inst[i + 1])

(***************************************************************************)
(* Initial values: every sequence tsequence_make accepts from instants    *)
(* over InstTimes x Vals, normalised as tsequence_make does.               *)
(***************************************************************************)

\* Runs of 1..n instants over times x Vals, in time order.
InstantRuns(times, n) ==
    {[i \in 1..Len(f) |-> Instant(f[i][2], f[i][1])] :
        f \in {f \in UNION {[1..k -> times \X Vals] : k \in 1..n} :
                 \A i \in 1..Len(f) - 1 : f[i][1] < f[i + 1][1]}}

\* The sequences tsequence_make accepts from such runs, normalised.
SeqsOver(times, n) ==
    {tsequence_make(x[1], x[2], x[3], x[4], TRUE) :
        x \in {x \in InstantRuns(times, n) \X BOOLEAN \X BOOLEAN \X BOOLEAN :
                 tsequence_make_valid(x[1], x[2], x[3], x[4])}}

InitialSeqs == SeqsOver(InstTimes, MaxLen)

\* The sequence of one instant, as tinstant_to_tsequence makes it.
InstSeq(inst, linear) == tsequence_make(<<inst>>, TRUE, TRUE, linear, FALSE)

NoExt == [inst |-> <<>>, lower_inc |-> FALSE, upper_inc |-> FALSE,
          linear |-> FALSE, box |-> [xmin |-> 0, xmax |-> 0]]

\* A result is accepted when tsequence_make and tsequenceset_make accept
\* its sequences; otherwise the call raises an error.
Accepted(out) ==
    /\ \A i \in 1..Len(out) :
          tsequence_make_valid(out[i].inst, out[i].lower_inc,
                               out[i].upper_inc, out[i].linear)
    /\ tsequenceset_make_valid(out)

\* One call: record it, and continue with one sequence of its result, or
\* with the same value when the result is empty or the call failed.  A
\* call fails when it raises an error (err) or runs into undefined
\* behaviour (ub), both reported by the operation in fail.
CallOutcome(op, keep, ext, out, fail) ==
    /\ calls < MaxCalls
    /\ calls' = calls + 1
    /\ last' = [op |-> op, in |-> seq, keep |-> keep, ext |-> ext,
                out |-> out, err |-> fail.err \/ ~Accepted(out), ub |-> fail.ub]
    /\ IF out = <<>> \/ fail.err \/ fail.ub \/ ~Accepted(out)
       THEN seq' = seq
       ELSE \E i \in 1..Len(out) : seq' = out[i]

Call(op, keep, ext, out) ==
    CallOutcome(op, keep, ext, out, [err |-> FALSE, ub |-> FALSE])

Init ==
    /\ seq \in InitialSeqs
    /\ last = [op |-> "none", in |-> seq, keep |-> Samples, ext |-> NoExt,
               out |-> <<seq>>, err |-> FALSE, ub |-> FALSE]
    /\ calls = 0

(***************************************************************************)
(* The calls                                                               *)
(***************************************************************************)

AtTimestamp(t) ==
    Call("at_timestamp", {2 * t}, NoExt,
         [i \in 1..Len(tsequence_at_timestamp(seq, t)) |->
            InstSeq(tsequence_at_timestamp(seq, t)[i], seq.linear)])

MinusTimestamp(t) ==
    Call("minus_timestamp", Samples \ {2 * t}, NoExt,
         tsequence_minus_timestamp1(seq, t))

AtTimestampSet(ts) ==
    LET r == tsequence_at_timestampset(seq, ts)
    IN  Call("at_timestampset", {2 * ts[i] : i \in 1..Len(ts)}, NoExt,
             [i \in 1..Len(r) |-> InstSeq(r[i], seq.linear)])

MinusTimestampSet(ts) ==
    Call("minus_timestampset", Samples \ {2 * ts[i] : i \in 1..Len(ts)}, NoExt,
         tsequenceset_make(tsequence_minus_timestampset1(seq, ts), TRUE))

AtPeriod(p) ==
    Call("at_period", {u \in Samples : InPeriod2(p, u)}, NoExt,
         tsequence_at_period(seq, p))

MinusPeriod(p) ==
    Call("minus_period", {u \in Samples : ~InPeriod2(p, u)}, NoExt,
         tsequence_minus_period1(seq, p))

InPeriodSet2(ps, u) == \E i \in 1..Len(ps) : InPeriod2(ps[i], u)

AtPeriodSet(ps) ==
    Call("at_periodset", {u \in Samples : InPeriodSet2(ps, u)}, NoExt,
         tsequence_restrict_periodset(seq, ps, TRUE))

MinusPeriodSet(ps) ==
    Call("minus_periodset", {u \in Samples : ~InPeriodSet2(ps, u)}, NoExt,
         tsequence_restrict_periodset(seq, ps, FALSE))

\* The samples where the input is defined and equal to one of values.
AtValuesKeep(values) ==
    {u \in Samples : Defined(seq, u) /\
                     \E j \in 1..Len(values) : SameVal(ValAt(seq, u), <<values[j], 1>>)}

ValueSets == IncSeqs(Vals, 2)

AtValue(v) ==
    Call("at_value", AtValuesKeep(<<v>>), NoExt,
         tsequence_restrict_value(seq, v, TRUE))

MinusValue(v) ==
    Call("minus_value", Samples \ AtValuesKeep(<<v>>), NoExt,
         tsequence_restrict_value(seq, v, FALSE))

AtValues(values) ==
    Call("at_values", AtValuesKeep(values), NoExt,
         tsequence_restrict_values(seq, values, TRUE))

MinusValues(values) ==
    Call("minus_values", Samples \ AtValuesKeep(values), NoExt,
         tsequence_restrict_values(seq, values, FALSE))

\* tsequence_append_tinstant, called with an instant after the end of seq
\* (earlier ones are rejected by ensure_increasing_timestamps).  ext is
\* the segment the append adds.
AppendInstant(inst) ==
    LET lastinst == seq.inst[Count(seq)]
        res      == tsequence_append_tinstant(seq, inst)
    IN  /\ lastinst.t < inst.t
        /\ Count(res) <= MaxCount
        /\ Exact(res)
        /\ Call("append", Samples,
                [inst |-> <<lastinst, inst>>, lower_inc |-> TRUE,
                 upper_inc |-> TRUE, linear |-> seq.linear, box |-> seq.box],
                <<res>>)

\* The inputs tsequence_merge_array is documented to accept: the same
\* interpolation, periods that at most touch, and equal values where both
\* are defined (otherwise it raises an error by design).
Mergeable(s, o) ==
    /\ s.linear = o.linear
    /\ PeriodOf(s).upper <= PeriodOf(o).lower \/
       PeriodOf(o).upper <= PeriodOf(s).lower
    /\ \A u \in Samples : Defined(s, u) /\ Defined(o, u) =>
                            SameVal(ValAt(s, u), ValAt(o, u))

\* tsequence_merge of the held sequence with other: the result should be
\* the union of the two.
Merge(other) ==
    LET r == tsequence_merge(seq, other)
    IN  /\ Mergeable(seq, other)
        /\ CallOutcome("merge", Samples, other, r.out, r)

\* tsequenceset_make with NORMALIZE (the sequence-set constructor) on the
\* held sequence and other, given in time order as it requires: the same
\* interpolation, ordered and disjoint periods.  The set should denote the
\* union of the two.
SeqSetMake(other) ==
    LET arr == IF PeriodOf(seq).lower <= PeriodOf(other).lower
               THEN <<seq, other>> ELSE <<other, seq>>
    IN  /\ seq.linear = other.linear
        /\ tsequenceset_make_valid(arr)
        /\ Call("seqset_make", Samples, other, tsequenceset_make(arr, TRUE))

\* The non-empty ranges with bounds in B.
RangesOver(B) == {r \in {range_make(l, u, li, ui) :
                          l \in B, u \in B, li \in BOOLEAN, ui \in BOOLEAN} :
                    ~RangeIsEmpty(r)}

\* The normalised arrays of 1..n ranges with bounds in B, as the range
\* array arguments arrive (sorted, neither overlapping nor adjacent).
NormRangeArrays(B, n) ==
    {rs \in UNION {[1..k -> RangesOver(B)] : k \in 1..n} :
       \A i \in 1..Len(rs) - 1 :
          \/ rs[i].upper < rs[i + 1].lower
          \/ rs[i].upper = rs[i + 1].lower /\ ~rs[i].upper_inc /\ ~rs[i + 1].lower_inc}

\* The bounds of ranges crossed inside a linear segment of s are crossed
\* at integer timestamps (as Exact asks of the values of Vals).
RangeExact(s, ranges) ==
    s.linear =>
      \A i \in 1..Count(s) - 1, j \in 1..Len(ranges) :
        \A b \in {ranges[j].lower, ranges[j].upper} :
          LET i1 == s.inst[i]
              i2 == s.inst[i + 1]
          IN  CrossesInside(i1, i2, b) =>
                Divides(i2.v - i1.v, (b - i1.v) * (i2.t - i1.t))

\* The rational value x lies in the range r.
InRange2(r, x) ==
    /\ r.lower * x[2] < x[1] \/ (r.lower * x[2] = x[1] /\ r.lower_inc)
    /\ x[1] < r.upper * x[2] \/ (x[1] = r.upper * x[2] /\ r.upper_inc)

\* The samples where the input is defined with a value in one of ranges.
RangesKeep(ranges) ==
    {u \in Samples : Defined(seq, u) /\
                     \E j \in 1..Len(ranges) : InRange2(ranges[j], ValAt(seq, u))}

\* tnumberseq_restrict_range / tnumberseq_restrict_ranges, at and minus.
AtRange(r) ==
    /\ RangeExact(seq, <<r>>)
    /\ Call("at_range", RangesKeep(<<r>>), NoExt,
            tnumberseq_restrict_range(seq, r, TRUE))

MinusRange(r) ==
    /\ RangeExact(seq, <<r>>)
    /\ Call("minus_range", Samples \ RangesKeep(<<r>>), NoExt,
            tnumberseq_restrict_range(seq, r, FALSE))

AtRanges(rs) ==
    /\ RangeExact(seq, rs)
    /\ Call("at_ranges", RangesKeep(rs), NoExt,
            tnumberseq_restrict_ranges(seq, rs, TRUE))

MinusRanges(rs) ==
    /\ RangeExact(seq, rs)
    /\ Call("minus_ranges", Samples \ RangesKeep(rs), NoExt,
            tnumberseq_restrict_ranges(seq, rs, FALSE))

(***************************************************************************)
(* Synchronisation and intersection with a second value                    *)
(***************************************************************************)

\* A call of a function of two temporal values (as the lifted operators
\* make it) on the held sequence and other.  The held value is unchanged;
\* last records the two outputs.
PairCall(op, other, r) ==
    /\ calls < MaxCalls
    /\ calls' = calls + 1
    /\ last' = [op |-> op, in |-> seq, keep |-> Samples, ext |-> other,
                out |-> r.out, err |-> r.err, ub |-> r.ub]
    /\ UNCHANGED seq

\* The value of s at time q/4, for q/4 strictly inside s and off its
\* instants.
InsideQ(s, q) == 4 * s.inst[1].t < q /\ q < 4 * s.inst[Count(s)].t

ValAtQ(s, q) ==
    LET i == CHOOSE i \in 1..Count(s) - 1 :
               4 * s.inst[i].t < q /\ q < 4 * s.inst[i + 1].t
        a == s.inst[i]
        b == s.inst[i + 1]
    IN  IF s.linear
        THEN <<4 * a.v * (b.t - a.t) + (b.v - a.v) * (q - 4 * a.t), 4 * (b.t - a.t)>>
        ELSE <<a.v, 1>>

\* The sign of x - y, scaled by the (positive) denominators.
ValDiff(x, y) == x[1] * y[2] - y[1] * x[2]

\* s and o cross only at integer timestamps.  On each unit interval
\* (t, t+1) both are linear; their difference, known at t+1/4 (a) and
\* t+3/4 (b), has a zero strictly inside exactly when its extensions to
\* the ends, (3a - b)/2 and (3b - a)/2, have opposite signs.
SyncExact(s, o) ==
    \A t \in TMin..TMax - 1 :
        (\A q \in {4 * t + 1, 4 * t + 3} : InsideQ(s, q) /\ InsideQ(o, q)) =>
            LET a == ValDiff(ValAtQ(s, 4 * t + 1), ValAtQ(o, 4 * t + 1))
                b == ValDiff(ValAtQ(s, 4 * t + 3), ValAtQ(o, 4 * t + 3))
            IN  (3 * a - b) * (3 * b - a) >= 0

\* synchronize_tsequence_tsequence with or without crossings.
Synchronize(other, crossings) ==
    PairCall(IF crossings THEN "synchronize_crossings" ELSE "synchronize",
             other, synchronize_tsequence_tsequence(seq, other, crossings))

\* intersection_tsequence_tsequence.
IntersectionSeq(other) ==
    PairCall("intersection_seq", other, intersection_tsequence_tsequence(seq, other))

\* intersection_tsequence_tinstant; the instants are shown as instant
\* sequences.
IntersectionInst(inst) ==
    LET r == intersection_tsequence_tinstant(seq, inst)
    IN  PairCall("intersection_inst", InstSeq(inst, seq.linear),
                 [r EXCEPT !.out = [i \in DOMAIN @ |-> InstSeq(@[i], seq.linear)]])

Next ==
    \/ \E t \in Times : AtTimestamp(t) \/ MinusTimestamp(t)
    \/ \E ts \in TimestampSets : AtTimestampSet(ts)
    \/ \E ts \in TimestampSets : MinusTimestampSet(ts)
    \/ \E p \in Periods : AtPeriod(p) \/ MinusPeriod(p)
    \/ \E ps \in PeriodSets : AtPeriodSet(ps) \/ MinusPeriodSet(ps)
    \/ \E v \in Vals : AtValue(v) \/ MinusValue(v)
    \/ \E values \in ValueSets : AtValues(values) \/ MinusValues(values)
    \/ \E t \in Times, v \in Vals : AppendInstant(Instant(v, t))
    \/ \E o \in InitialSeqs : Merge(o) \/ SeqSetMake(o)
    \/ \E r \in RangesOver(Vals) : AtRange(r) \/ MinusRange(r)
    \/ \E rs \in NormRangeArrays(Vals, 2) : AtRanges(rs) \/ MinusRanges(rs)
    \/ \E o \in InitialSeqs, c \in BOOLEAN : Synchronize(o, c) \/ IntersectionSeq(o)
    \/ \E t \in Times, v \in Vals : IntersectionInst(Instant(v, t))

Spec == Init /\ [][Next]_vars

(***************************************************************************)
(* Properties                                                              *)
(***************************************************************************)

\* The values a sequence may take: interpolation never leaves the range of
\* the values it interpolates.
ValRange == (CHOOSE v \in Vals : \A w \in Vals : v <= w) ..
            (CHOOSE v \in Vals : \A w \in Vals : v >= w)

\* Every value the client holds is a run of instants over the value range
\* of Vals and the timestamps of Times, with bounded length.
TypeOK ==
    /\ seq.inst \in Seq([v : ValRange, t : Times]) /\ Count(seq) \in 1..MaxCount
    /\ {seq.lower_inc, seq.upper_inc, seq.linear} \subseteq BOOLEAN
    /\ last.err \in BOOLEAN /\ last.ub \in BOOLEAN /\ last.keep \subseteq Samples
    /\ calls \in 0..MaxCalls

\* The value the client holds is always one tsequence_make accepts, in the
\* normal form of tinstantarr_normalize, and with the box of its instants:
\* no chain of restrictions and appends reaches a value that breaks the
\* representation invariants the other operations rely on.
ValueWellFormed ==
    /\ tsequence_make_valid(seq.inst, seq.lower_inc, seq.upper_inc, seq.linear)
    /\ Count(seq) > 1 => tinstantarr_normalize(seq.inst, seq.linear) = seq.inst
    /\ seq.box = tsequence_make_bbox(seq.inst)

\* The function of time the last call should have returned: the input
\* restricted to the samples the operation keeps, extended by the segment
\* an append adds.
ExpectedDefined(l, u) ==
    \/ Defined(l.in, u) /\ u \in l.keep
    \/ l.ext # NoExt /\ Defined(l.ext, u)

ExpectedVal(l, u) ==
    IF Defined(l.in, u) THEN ValAt(l.in, u) ELSE ValAt(l.ext, u)

\* Each call returns what it promises: the sequences of its result are
\* accepted by tsequence_make and tsequenceset_make (ordered and disjoint
\* in time) and together denote exactly the input restricted to the time
\* the operation keeps (or extended by the appended segment).  This is the
\* partition law of the restriction engine, checked pointwise over dense
\* time at half-timestamp resolution.
ResultDenotesOperation ==
    /\ ~last.err /\ ~last.ub
    /\ \A u \in Samples :
         LET covering == {i \in 1..Len(last.out) : Defined(last.out[i], u)}
         IN  /\ (covering # {}) = ExpectedDefined(last, u)
             /\ \A i \in covering :
                  SameVal(ValAt(last.out[i], u), ExpectedVal(last, u))

\* Reference comparisons over dense time: some (every) defined sample of
\* s has a value in relation rel with value.  With the instants and the
\* crossings of values at integer timestamps, the sign of s - value is
\* constant between two consecutive samples, so the samples decide.
RefEver(s, rel(_, _), value) ==
    \E u \in Samples : Defined(s, u) /\ rel(ValAt(s, u), <<value, 1>>)

RefAlways(s, rel(_, _), value) ==
    \A u \in Samples : Defined(s, u) => rel(ValAt(s, u), <<value, 1>>)

LtVal(x, y) == x[1] * y[2] < y[1] * x[2]
LeVal(x, y) == x[1] * y[2] <= y[1] * x[2]

\* The ever and always comparisons of a temporal number with a base value
\* (tsequence_ever_eq, _always_eq, _ever_lt, _ever_le, _always_le) agree
\* with their meaning over dense time, exclusive bounds included, on every
\* value a chain of calls reaches.
EverAlwaysCorrect ==
    \A v \in Vals :
        /\ tsequence_ever_eq(seq, v)   = RefEver(seq, SameVal, v)
        /\ tsequence_always_eq(seq, v) = RefAlways(seq, SameVal, v)
        /\ tsequence_ever_lt(seq, v)   = RefEver(seq, LtVal, v)
        /\ tsequence_ever_le(seq, v)   = RefEver(seq, LeVal, v)
        /\ tsequence_always_le(seq, v) = RefAlways(seq, LeVal, v)

\* The area under the held value, scaled by AggScale = 4 * 840: every unit
\* interval (t, t + 1) between the first and last instant lies inside one
\* segment, on which the value is linear, so its area is the value at its
\* midpoint, ValAtQ(s, 4t + 2).
AggScale == 4 * 840

RefArea(s) ==
    MapThenSumSet(LAMBDA t : LET x == ValAtQ(s, 4 * t + 2)
                             IN  (x[1] * AggScale) \div x[2],
                  s.inst[1].t .. s.inst[Count(s)].t - 1)

\* tnumberseq_integral is the area under the curve the value denotes
\* (trapezoids for linear, left rectangles for step interpolation), and
\* tnumberseq_twavg is that area over the duration, or the one value of an
\* instantaneous sequence, on every value a chain of calls reaches.
AggregatesCorrect ==
    LET duration == seq.inst[Count(seq)].t - seq.inst[1].t
    IN  /\ SameVal(tnumberseq_integral(seq), <<RefArea(seq), AggScale>>)
        /\ SameVal(tnumberseq_twavg(seq),
                   IF duration = 0 THEN ValAt(seq, 2 * seq.inst[1].t)
                   ELSE <<RefArea(seq), AggScale * duration>>)

\* The values a call relates: its input, the value held now and, when the
\* call succeeded, every sequence of its result.
Compared == {seq, last.in} \cup
            (IF last.err \/ last.ub THEN {} ELSE {last.out[i] : i \in 1..Len(last.out)})

\* tsequence_cmp is a total order whose equivalence is tsequence_eq:
\* antisymmetric, transitive, 0 exactly on equal sequences; and, as the
\* comment before its flag test says, two sequences that agree on period,
\* box and the common instants have the same count, so the loop over
\* Min(count) compared them all.  Checked on every pair and triple of
\* values related by a call, which differ in bounds, instants and count.
CmpTotalOrder ==
    \A a, b \in Compared :
        /\ tsequence_cmp(a, b) = -tsequence_cmp(b, a)
        /\ (tsequence_cmp(a, b) = 0) = tsequence_eq(a, b)
        /\ CmpReachesFlags(a, b) => Count(a) = Count(b)
        /\ \A c \in Compared :
              tsequence_cmp(a, b) <= 0 /\ tsequence_cmp(b, c) <= 0
                  => tsequence_cmp(a, c) <= 0

\* tsequence_always_lt agrees with its meaning over dense time: every
\* value of the sequence is below v.
AlwaysLtCorrect ==
    \A v \in Vals : tsequence_always_lt(seq, v) = RefAlways(seq, LtVal, v)

(***************************************************************************)
(* Refinement of TemporalValue                                             *)
(***************************************************************************)

\* Values as integers: ValAt scaled by 2 * 840, which every denominator
\* 2 * (t2 - t1) of a segment within Times divides (840 = lcm(1..8)).
ValScale == 2 * 840

ASSUME TMax - TMin <= 8

\* The function of time the held sequence denotes.
AbsFn(s) == [u \in {u \in Samples : Defined(s, u)} |->
               LET x == ValAt(s, u) IN (x[1] * ValScale) \div x[2]]

RestrictOps == {"at_timestamp", "minus_timestamp", "at_timestampset",
                "minus_timestampset", "at_period", "minus_period",
                "at_periodset", "minus_periodset", "at_value", "minus_value",
                "at_values", "minus_values", "at_range", "minus_range",
                "at_ranges", "minus_ranges"}

\* The second operand of the last call as a function of time.
AbsExt == IF last.ext = NoExt THEN [u \in {} |-> 0] ELSE AbsFn(last.ext)

TV == INSTANCE TemporalValue WITH fn <- AbsFn(seq), op <- last.op,
                                  keep <- last.keep, ext <- AbsExt,
                                  CombineOps <- {"merge", "seqset_make"}

\* The client implements the abstract temporal value: every call on the
\* held sequence (a restriction, an append, a merge) changes the function
\* of time it denotes only as TemporalValue allows, so no restriction
\* returns a value the input did not take or time outside what it keeps.
TemporalValueSpec == TV!Spec

\* The calls of functions of two values, and those whose outputs are
\* synchronized.
PairOps == {"synchronize", "synchronize_crossings", "intersection_seq",
            "intersection_inst"}
SyncOps == {"synchronize", "synchronize_crossings", "intersection_inst"}

Timestamps(s) == [i \in 1..Count(s) |-> s.inst[i].t]

\* What the lifted operators rely on from synchronize_tsequence_tsequence
\* and the intersections: no error, false exactly when the two values
\* share no time, and otherwise two values defined exactly on the common
\* time, each denoting its own input there; synchronized outputs have the
\* same timestamps and bounds (spec 4.5 and "Synchronization alignment").
SyncAligned ==
    last.op \in PairOps =>
        /\ ~last.err /\ ~last.ub
        /\ (last.out # <<>>) =
              \E u \in Samples : Defined(last.in, u) /\ Defined(last.ext, u)
        /\ last.out # <<>> =>
             LET s1 == last.out[1]
                 s2 == last.out[2]
             IN  /\ last.op \in SyncOps =>
                      /\ Timestamps(s1) = Timestamps(s2)
                      /\ s1.lower_inc = s2.lower_inc /\ s1.upper_inc = s2.upper_inc
                 /\ \A u \in Samples :
                      /\ Defined(s1, u) = (Defined(last.in, u) /\ Defined(last.ext, u))
                      /\ Defined(s2, u) = Defined(s1, u)
                      /\ Defined(s1, u) =>
                            /\ SameVal(ValAt(s1, u), ValAt(last.in, u))
                            /\ SameVal(ValAt(s2, u), ValAt(last.ext, u))

\* The value of segment i of s at sample u of the closed segment; a step
\* segment keeps its first value up to its end.
SegVal(s, i, u) ==
    LET a == s.inst[i]
        b == s.inst[i + 1]
    IN  IF s.linear
        THEN <<2 * a.v * (b.t - a.t) + (b.v - a.v) * (u - 2 * a.t), 2 * (b.t - a.t)>>
        ELSE <<a.v, 1>>

\* Synchronised with crossings, the two values keep one order along each
\* segment: wherever one overtakes the other there is an instant of both,
\* so that a lifted comparison changes its result only at instants
\* (spec 4.5: the crossings are added so that less-than changes value
\* exactly at the crossing).
SyncCrossings ==
    last.op = "synchronize_crossings" /\ last.out # <<>> =>
        LET s1 == last.out[1]
            s2 == last.out[2]
        IN  \A i \in 1..Count(s1) - 1 :
              \A u, w \in 2 * s1.inst[i].t .. 2 * s1.inst[i + 1].t :
                 ValDiff(SegVal(s1, i, u), SegVal(s2, i, u)) *
                 ValDiff(SegVal(s1, i, w), SegVal(s2, i, w)) >= 0

=============================================================================
