------------------------------- MODULE TSeqAgg -------------------------------
(***************************************************************************)
(* The local aggregates of a temporal number: tnumberseq_integral and     *)
(* tnumberseq_twavg of src/src/tsequence.c.                               *)
(*                                                                         *)
(* The code sums doubles; here a result is the rational <<num, den>> of    *)
(* the other modules, and the loop accumulates twice the area so that the  *)
(* halving of the linear case stays an integer.                            *)
(***************************************************************************)
EXTENDS Integers, Sequences, SequencesExt, TSequence

LOCAL MinOf(a, b) == IF a <= b THEN a ELSE b
LOCAL MaxOf(a, b) == IF a >= b THEN a ELSE b

\* Mutant: a step segment weighted by its right value.
integral_term_step_next(inst1, inst2, linear) ==
    IF linear
    THEN (MaxOf(inst1.v, inst2.v) + MinOf(inst1.v, inst2.v)) * (inst2.t - inst1.t)
    ELSE 2 * inst2.v * (inst2.t - inst1.t)

\* One turn of the loop, doubled: the trapezoid (max + min) * dt for a
\* linear segment, the left value times dt for a step segment.
IntegralTerm(inst1, inst2, linear) ==
    IF linear
    THEN (MaxOf(inst1.v, inst2.v) + MinOf(inst1.v, inst2.v)) * (inst2.t - inst1.t)
    ELSE 2 * inst1.v * (inst2.t - inst1.t)

\* for (int i = 1; i < seq->count; i++) { ...; inst1 = inst2; }, with i the
\* 1-based index of inst2: twice the result after the turns from i on.
RECURSIVE IntegralLoop(_, _, _)
IntegralLoop(s, i, result) ==
    IF i > Count(s) THEN result
    ELSE IntegralLoop(s, i + 1,
                      result + IntegralTerm(s.inst[i - 1], s.inst[i], s.linear))

\* double result = 0; ... return result;
tnumberseq_integral(s) == <<IntegralLoop(s, 2, 0), 2>>

\* The value of the first instant of an instantaneous sequence, and the
\* integral over the duration otherwise.
tnumberseq_twavg(s) ==
    LET duration == PeriodOf(s).upper - PeriodOf(s).lower
    IN  IF duration = 0 THEN <<s.inst[1].v, 1>>
        ELSE <<IntegralLoop(s, 2, 0), 2 * duration>>

=============================================================================
