------------------------------ MODULE Periods ------------------------------
(***************************************************************************)
(* The period, timestamp-set and period-set primitives that tsequence.c    *)
(* consumes (period.c, timestampset.c, periodset.c are not part of the     *)
(* modelled sources: these definitions follow the interface of spec.md     *)
(* section 6).  Time is dense; a period is a record of its two bounds and  *)
(* their inclusivity, a timestamp set a strictly increasing sequence of    *)
(* timestamps and a period set a sequence of ordered disjoint periods.     *)
(***************************************************************************)
EXTENDS Integers, Sequences

\* period_set: build a period from its bounds.
period_set(lower, upper, lower_inc, upper_inc) ==
    [lower |-> lower, upper |-> upper,
     lower_inc |-> lower_inc, upper_inc |-> upper_inc]

\* A period is well formed: lower <= upper, and an instantaneous period is
\* closed.
IsPeriod(p) ==
    /\ p.lower <= p.upper
    /\ p.lower = p.upper => p.lower_inc /\ p.upper_inc

\* contains_period_timestamp_internal
contains_period_timestamp_internal(p, t) ==
    /\ p.lower < t \/ (p.lower = t /\ p.lower_inc)
    /\ t < p.upper \/ (t = p.upper /\ p.upper_inc)

\* The lower bound of the intersection of two periods and its inclusivity.
LaterLower(p1, p2) ==
    IF p1.lower = p2.lower
    THEN [b |-> p1.lower, inc |-> p1.lower_inc /\ p2.lower_inc]
    ELSE IF p1.lower > p2.lower THEN [b |-> p1.lower, inc |-> p1.lower_inc]
                                ELSE [b |-> p2.lower, inc |-> p2.lower_inc]

EarlierUpper(p1, p2) ==
    IF p1.upper = p2.upper
    THEN [b |-> p1.upper, inc |-> p1.upper_inc /\ p2.upper_inc]
    ELSE IF p1.upper < p2.upper THEN [b |-> p1.upper, inc |-> p1.upper_inc]
                                ELSE [b |-> p2.upper, inc |-> p2.upper_inc]

\* overlaps_period_period_internal: the two periods share a timestamp.
overlaps_period_period_internal(p1, p2) ==
    LET lo == LaterLower(p1, p2)
        hi == EarlierUpper(p1, p2)
    IN  lo.b < hi.b \/ (lo.b = hi.b /\ lo.inc /\ hi.inc)

\* intersection_period_period_internal, for two overlapping periods.
intersection_period_period_internal(p1, p2) ==
    LET lo == LaterLower(p1, p2)
        hi == EarlierUpper(p1, p2)
    IN  period_set(lo.b, hi.b, lo.inc, hi.inc)

\* minus_period_period_internal: the part of p1 before p2 and the part of
\* p1 after p2, as a period set (<<>> stands for the NULL result).
minus_period_period_internal(p1, p2) ==
    IF ~overlaps_period_period_internal(p1, p2) THEN <<p1>>
    ELSE
      LET left  == period_set(p1.lower, p2.lower, p1.lower_inc, ~p2.lower_inc)
          right == period_set(p2.upper, p1.upper, ~p2.upper_inc, p1.upper_inc)
          hasleft  == p1.lower < p2.lower \/
                      (p1.lower = p2.lower /\ p1.lower_inc /\ ~p2.lower_inc)
          hasright == p2.upper < p1.upper \/
                      (p2.upper = p1.upper /\ p1.upper_inc /\ ~p2.upper_inc)
      IN  (IF hasleft THEN <<left>> ELSE <<>>) \o
          (IF hasright THEN <<right>> ELSE <<>>)

\* minus_period_periodset_internal: p minus every period of ps.
RECURSIVE MinusEach(_, _)
MinusEach(pieces, ps) ==
    IF ps = <<>> THEN pieces
    ELSE MinusEach(
           LET RECURSIVE Flat(_)
               Flat(s) == IF s = <<>> THEN <<>>
                          ELSE minus_period_period_internal(Head(s), Head(ps))
                               \o Flat(Tail(s))
           IN  Flat(pieces),
           Tail(ps))

minus_period_periodset_internal(p, ps) == MinusEach(<<p>>, ps)

\* The bounding period of a timestamp set and of a period set.
timestampset_bbox(ts) == period_set(ts[1], ts[Len(ts)], TRUE, TRUE)

periodset_bbox(ps) ==
    period_set(ps[1].lower, ps[Len(ps)].upper,
               ps[1].lower_inc, ps[Len(ps)].upper_inc)

contains_timestampset_timestamp_internal(ts, t) ==
    \E i \in 1..Len(ts) : ts[i] = t

contains_periodset_timestamp_internal(ps, t) ==
    \E i \in 1..Len(ps) : contains_period_timestamp_internal(ps[i], t)

\* timestampset_find_timestamp: the 0-based position of t in ts, or of the
\* first timestamp after t.
timestampset_find_timestamp(ts, t) ==
    LET after == {i \in 1..Len(ts) : ts[i] >= t}
    IN  IF after = {} THEN Len(ts)
        ELSE (CHOOSE i \in after : \A j \in after : i <= j) - 1

\* periodset_find_timestamp: the 0-based position of the period of ps that
\* contains t, or of the first period after t.
periodset_find_timestamp(ps, t) ==
    LET notbefore == {i \in 1..Len(ps) :
                        t < ps[i].upper \/ (t = ps[i].upper /\ ps[i].upper_inc)}
    IN  IF notbefore = {} THEN Len(ps)
        ELSE (CHOOSE i \in notbefore : \A j \in notbefore : i <= j) - 1

=============================================================================
