------------------------------ MODULE TSeqSync ------------------------------
(***************************************************************************)
(* Synchronisation and temporal intersection of two sequences:            *)
(* synchronize_tsequence_tsequence, tsequence_intersection and            *)
(* tnumberseq_intersection, intersection_tsequence_tsequence and          *)
(* intersection_tsequence_tinstant of src/src/tsequence.c.                *)
(*                                                                         *)
(* The while loop walks both sequences in timestamp order and appends to  *)
(* instants1/instants2 one pair per turn, preceded by the crossing of the *)
(* previous pair's segments when asked.  The arrays have count slots and  *)
(* tofree 2 * count: the model keeps their lengths and reports writing    *)
(* past them, or dereferencing a NULL tsequence_at_timestamp, as ub.     *)
(***************************************************************************)
EXTENDS Integers, Sequences, TSequence

\* The outcome of a synchronisation or intersection: ereport (err),
\* undefined behaviour (ub), or the two outputs (<<>> for false).
SyncResult(out, err, ub) == [out |-> out, err |-> err, ub |-> ub]

\* tnumberseq_intersection: the crossing of two synchronized linear
\* segments strictly inside them, as <<>> or <<t>>.  fraction is
\* (x3 - x1) / denum; the timestamp start1->t + (long)(duration *
\* fraction) is truncated.
tnumberseq_intersection(start1, end1, start2, end2) ==
    LET denum == end1.v - start1.v - end2.v + start2.v
        n     == IF denum < 0 THEN start1.v - start2.v ELSE start2.v - start1.v
        d     == IF denum < 0 THEN -denum ELSE denum
    IN  IF denum = 0 \/ n <= 0 \/ n >= d THEN <<>>
        ELSE <<start1.t + ((end1.t - start1.t) * n) \div d>>

\* The crossing r of the linear side with the constant value v of the
\* step side; linear1 tells which side is linear.
CrossingOf(r, v, linear1) ==
    IF r = <<>> THEN <<>>
    ELSE <<[inter1 |-> IF linear1 THEN r[1].v ELSE v,
            inter2 |-> IF linear1 THEN v ELSE r[1].v, t |-> r[1].t]>>

\* The crossing of two linear segments, with the values both take there.
LinearCrossingOf(r, start1, end1, start2, end2) ==
    IF r = <<>> THEN <<>>
    ELSE <<[inter1 |-> tsequence_value_at_timestamp1(start1, end1, TRUE, r[1]),
            inter2 |-> tsequence_value_at_timestamp1(start2, end2, TRUE, r[1]),
            t |-> r[1]]>>

\* tsequence_intersection: <<>>, or <<[inter1, inter2, t]>> with the
\* values both segments take at the crossing.  A step side is constant:
\* the crossing is that of the other side with its value.
tsequence_intersection(start1, end1, linear1, start2, end2, linear2) ==
    IF ~linear1
    THEN CrossingOf(tlinearseq_intersection_value(start2, end2, start1.v),
                    start1.v, FALSE)
    ELSE IF ~linear2
    THEN CrossingOf(tlinearseq_intersection_value(start1, end1, start2.v),
                    start2.v, TRUE)
    ELSE LinearCrossingOf(tnumberseq_intersection(start1, end1, start2, end2),
                          start1, end1, start2, end2)

\* The instant tsequence_at_timestamp returns, and whether it is NULL.
AtTsOf(x, dflt) == [inst |-> IF x = <<>> THEN dflt ELSE x[1], null |-> x = <<>>]

AtTs(s, t, dflt) == AtTsOf(tsequence_at_timestamp(s, t), dflt)

\* The loop step past the earlier instant (both when equal), the other
\* sequence interpolated at its timestamp into tofree.
SyncInterp1(st, x) ==
    [st EXCEPT !.j = @ + 1, !.inst1 = x.inst, !.l = @ + 1, !.ub = @ \/ x.null]

SyncInterp2(st, x) ==
    [st EXCEPT !.i = @ + 1, !.inst2 = x.inst, !.l = @ + 1, !.ub = @ \/ x.null]

\* Mutant: equal timestamps advance only the first sequence.
sync_advance_first(seq1, seq2, st) ==
    IF st.inst1.t = st.inst2.t THEN [st EXCEPT !.i = @ + 1]
    ELSE IF st.inst1.t < st.inst2.t
    THEN SyncInterp2(st, AtTs(seq2, st.inst1.t, st.inst2))
    ELSE SyncInterp1(st, AtTs(seq1, st.inst2.t, st.inst1))

SyncAdvance(seq1, seq2, st) ==
    IF st.inst1.t = st.inst2.t THEN [st EXCEPT !.i = @ + 1, !.j = @ + 1]
    ELSE IF st.inst1.t < st.inst2.t
    THEN SyncInterp2(st, AtTs(seq2, st.inst1.t, st.inst2))
    ELSE SyncInterp1(st, AtTs(seq1, st.inst2.t, st.inst1))

\* The crossing pair, when there is one, goes to both arrays and tofree.
SyncAddInter(st, x) ==
    IF x = <<>> THEN st
    ELSE [st EXCEPT !.ins1 = Append(@, Instant(x[1].inter1, x[1].t)),
                    !.ins2 = Append(@, Instant(x[1].inter2, x[1].t)),
                    !.l = @ + 2]

\* Mutant: the crossing of the two segments is never added.
sync_add_crossing_none(seq1, seq2, crossings, st) == st

\* When crossings are asked, one side is linear and a pair was added, the
\* crossing of the segments from the last pair to the new instants.
SyncAddCrossing(seq1, seq2, crossings, st) ==
    IF crossings /\ (seq1.linear \/ seq2.linear) /\ Len(st.ins1) > 0
    THEN SyncAddInter(st, tsequence_intersection(
                            st.ins1[Len(st.ins1)], st.inst1, seq1.linear,
                            st.ins2[Len(st.ins2)], st.inst2, seq2.linear))
    ELSE st

SyncAddPair(st) == [st EXCEPT !.ins1 = Append(@, st.inst1), !.ins2 = Append(@, st.inst2)]

\* One turn of the while loop: advance, add the crossing, add the pair.
SyncStep(seq1, seq2, crossings, st) ==
    SyncAddPair(SyncAddCrossing(seq1, seq2, crossings,
                                SyncAdvance(seq1, seq2, st)))

\* The next instants, unless the turn reached the end of either sequence.
SyncNext(seq1, seq2, c) ==
    [c EXCEPT !.inst1 = seq1.inst[c.i + 1], !.inst2 = seq2.inst[c.j + 1]]

\* while (i < seq1->count && j < seq2->count &&
\*        (inst1->t <= inter->upper || inst2->t <= inter->upper)),
\* leaving the loop after a turn that reaches the end of either sequence.
RECURSIVE SyncLoop(_, _, _, _, _)
SyncLoopEnd(seq1, seq2, inter, crossings, c) ==
    IF c.i = Count(seq1) \/ c.j = Count(seq2) \/ c.ub THEN c
    ELSE SyncLoop(seq1, seq2, inter, crossings, SyncNext(seq1, seq2, c))

SyncLoop(seq1, seq2, inter, crossings, st) ==
    IF /\ ~st.ub /\ st.i < Count(seq1) /\ st.j < Count(seq2)
       /\ st.inst1.t <= inter.upper \/ st.inst2.t <= inter.upper
    THEN SyncLoopEnd(seq1, seq2, inter, crossings,
                     SyncStep(seq1, seq2, crossings, st))
    ELSE st

\* The last two values of a step side are made equal when the common
\* period excludes its upper bound.
SyncCloseStep(ins, linear, inter) ==
    IF ~inter.upper_inc /\ Len(ins) > 1 /\ ~linear /\
       ins[Len(ins) - 1].v # ins[Len(ins)].v
    THEN [ins EXCEPT ![Len(ins)] = Instant(ins[Len(ins) - 1].v, ins[Len(ins)].t)]
    ELSE ins

\* The two outputs of tsequence_make (NORMALIZE_NO) on the arrays, or an
\* error when it rejects one of them.
SyncMake(ins1, ins2, inter, linear1, linear2) ==
    IF /\ tsequence_make_valid(ins1, inter.lower_inc, inter.upper_inc, linear1)
       /\ tsequence_make_valid(ins2, inter.lower_inc, inter.upper_inc, linear2)
    THEN SyncResult(<<tsequence_make(ins1, inter.lower_inc, inter.upper_inc,
                                     linear1, FALSE),
                      tsequence_make(ins2, inter.lower_inc, inter.upper_inc,
                                     linear2, FALSE)>>, FALSE, FALSE)
    ELSE SyncResult(<<>>, TRUE, FALSE)

\* After the loop: k = 0, or more than count instants, or more than
\* 2 * count entries of tofree (one per step closing), is ub; otherwise
\* the step closing and the two sequences.
SyncFinish(seq1, seq2, inter, count, st) ==
    LET l == st.l
             + (IF SyncCloseStep(st.ins1, seq1.linear, inter) # st.ins1 THEN 1 ELSE 0)
             + (IF SyncCloseStep(st.ins2, seq2.linear, inter) # st.ins2 THEN 1 ELSE 0)
    IN  IF st.ub \/ Len(st.ins1) = 0 \/ Len(st.ins1) > count \/ l > 2 * count
        THEN SyncResult(<<>>, FALSE, TRUE)
        ELSE SyncMake(SyncCloseStep(st.ins1, seq1.linear, inter),
                      SyncCloseStep(st.ins2, seq2.linear, inter),
                      inter, seq1.linear, seq2.linear)

\* The walk from the instants at the common lower bound: i and j are the
\* segments holding it, and the arrays have count slots.
SyncWalk(seq1, seq2, crossings, inter, st0) ==
    SyncFinish(seq1, seq2, inter,
               (Count(seq1) - st0.i + Count(seq2) - st0.j) * 2,
               SyncLoop(seq1, seq2, inter, crossings, st0))

\* The start of the walk: the sequence that starts before the common
\* lower bound (cut) starts at its instant there, which goes to tofree.
SyncStartOf(seq1, seq2, inter, cut1, cut2, lo1, lo2) ==
    [i |-> IF cut1 THEN tsequence_find_timestamp(seq1, inter.lower) ELSE 0,
     j |-> IF cut2 THEN tsequence_find_timestamp(seq2, inter.lower) ELSE 0,
     inst1 |-> IF cut1 THEN lo1.inst ELSE seq1.inst[1],
     inst2 |-> IF cut2 THEN lo2.inst ELSE seq2.inst[1],
     ins1 |-> <<>>, ins2 |-> <<>>,
     l |-> IF cut1 \/ cut2 THEN 1 ELSE 0,
     ub |-> (cut1 /\ lo1.null) \/ (cut2 /\ lo2.null)]

\* The instants at a single common timestamp.
SyncInstant(seq1, seq2, lo1, lo2) ==
    IF lo1.null \/ lo2.null THEN SyncResult(<<>>, FALSE, TRUE)
    ELSE SyncResult(<<tsequence_make(<<lo1.inst>>, TRUE, TRUE, seq1.linear, FALSE),
                      tsequence_make(<<lo2.inst>>, TRUE, TRUE, seq2.linear, FALSE)>>,
                    FALSE, FALSE)

SyncInter(seq1, seq2, crossings, inter) ==
    IF inter.lower = inter.upper
    THEN SyncInstant(seq1, seq2, AtTs(seq1, inter.lower, seq1.inst[1]),
                     AtTs(seq2, inter.lower, seq2.inst[1]))
    ELSE SyncWalk(seq1, seq2, crossings, inter,
                  SyncStartOf(seq1, seq2, inter,
                              seq1.inst[1].t < inter.lower,
                              seq1.inst[1].t >= inter.lower /\
                                  seq2.inst[1].t < inter.lower,
                              AtTs(seq1, inter.lower, seq1.inst[1]),
                              AtTs(seq2, inter.lower, seq2.inst[1])))

\* synchronize_tsequence_tsequence: false (<<>>) when the periods do not
\* overlap; the instants at a single common timestamp; otherwise the
\* walk from the common lower bound, the step closing and the two
\* sequences over the common period.
synchronize_tsequence_tsequence(seq1, seq2, crossings) ==
    IF ~overlaps_period_period_internal(PeriodOf(seq1), PeriodOf(seq2))
    THEN SyncResult(<<>>, FALSE, FALSE)
    ELSE SyncInter(seq1, seq2, crossings,
                   intersection_period_period_internal(PeriodOf(seq1),
                                                       PeriodOf(seq2)))

\* intersection_tsequence_tsequence: both sequences restricted to the
\* common period, false (<<>>) when the periods do not overlap.
intersection_tsequence_tsequence(seq1, seq2) ==
    LET p1 == PeriodOf(seq1)
        p2 == PeriodOf(seq2)
        inter == intersection_period_period_internal(p1, p2)
    IN  IF ~overlaps_period_period_internal(p1, p2)
        THEN SyncResult(<<>>, FALSE, FALSE)
        ELSE SyncResult(<<tsequence_at_period(seq1, inter)[1],
                          tsequence_at_period(seq2, inter)[1]>>, FALSE, FALSE)

\* intersection_tsequence_tinstant: the instant of seq at inst->t, twice
\* (inter2 is a copy of inst1), false (<<>>) when seq is not defined there.
intersection_tsequence_tinstant(seq, inst) ==
    LET inst1 == tsequence_at_timestamp(seq, inst.t)
    IN  IF inst1 = <<>> THEN SyncResult(<<>>, FALSE, FALSE)
        ELSE SyncResult(<<inst1[1], inst1[1]>>, FALSE, FALSE)

=============================================================================
