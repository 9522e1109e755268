--------------------------- MODULE MC_TSeqClient ---------------------------
(***************************************************************************)
(* Model-checking instance of TSeqClient.  Instants of the initial values *)
(* are on even timestamps with values that are multiples of 12, so that    *)
(* every interpolation at an integer timestamp, and every crossing of a    *)
(* value of MCVals, falls on an integer: the integer arithmetic of the     *)
(* model computes what the floating point code computes.  Arguments range *)
(* over one timestamp before and after the values, and over the odd        *)
(* timestamps in between, so that bounds fall on instants, between them   *)
(* and outside the value.                                                  *)
(***************************************************************************)
EXTENDS TSeqClient

MCVals      == {0, 12, 24}
MCInstTimes == {0, 2, 4}
MCTimes     == -1 .. 5
MCPSTimes   == {-1, 1, 2, 4}
MCMaxLen    == 3
MCMaxCount  == 4
MCMaxCalls  == 3
MCMaxCalls2 == 2
MCMaxCalls1 == 1
MCMaxCalls0 == 0

\* The bounds of the period arguments: before the values, on the first, a
\* middle and the last instant, and inside the first and second segment.
\* A bound after the values is symmetric to the one before them.
MCPeriodTimes == {-1, 0, 1, 2, 3, 4}

\* The second arguments of merges: runs of one or two instants that end
\* where the initial values start (-1, 0) or start where they end (4, 5),
\* so that the two inputs touch at a shared instant or leave a gap.
MCMergeSeqs == SeqsOver({-1, 0}, 2) \cup SeqsOver({4, 5}, 2)

\* A sequence with both bounds inclusive.
Closed(s) == s.lower_inc /\ s.upper_inc

\* The calls with timestamp arguments, and append.
NextTimestamps ==
    \/ \E t \in Times : AtTimestamp(t) \/ MinusTimestamp(t)
    \/ \E ts \in TimestampSets : AtTimestampSet(ts)
    \/ \E t \in Times, v \in Vals : AppendInstant(Instant(v, t))

SpecTimestamps == Init /\ [][calls < MaxCalls /\ NextTimestamps]_vars

\* The calls with period arguments, and append.
NextPeriods ==
    \/ \E p \in {p \in Periods : {p.lower, p.upper} \subseteq MCPeriodTimes} :
          AtPeriod(p) \/ MinusPeriod(p)
    \/ \E t \in Times, v \in Vals : AppendInstant(Instant(v, t))

SpecPeriods == Init /\ [][calls < MaxCalls /\ NextPeriods]_vars

\* The calls with period set arguments.
NextPeriodSets ==
    \E ps \in PeriodSets : AtPeriodSet(ps) \/ MinusPeriodSet(ps)

\* The calls of tsequence_minus_timestampset.
NextMinusTimestampSet ==
    \E ts \in TimestampSets : MinusTimestampSet(ts)

\* The calls with value arguments, and append.
NextValues ==
    \/ \E v \in Vals : AtValue(v) \/ MinusValue(v)
    \/ \E values \in ValueSets : AtValues(values) \/ MinusValues(values)
    \/ \E t \in Times, v \in Vals : AppendInstant(Instant(v, t))

SpecValues == Init /\ [][calls < MaxCalls /\ NextValues]_vars

\* Merges of two sequences with any bounds.
NextMerge == \E o \in MCMergeSeqs : Merge(o)

\* Merges of two sequences whose bounds are all inclusive.
NextMergeClosed == \E o \in MCMergeSeqs : Closed(seq) /\ Closed(o) /\ Merge(o)


\* The second sequences of a sequence set: one or two instants two time
\* units apart, before the initial values or after them, so that the
\* junction can continue a segment with the same slope.
MCSetSeqs == SeqsOver({-2, 0}, 2) \cup SeqsOver({4, 6}, 2)

\* Sequence sets built from two sequences.
NextSeqSet == \E o \in MCSetSeqs : SeqSetMake(o)

\* Sequence sets of two linear sequences.
NextSeqSetLinear == \E o \in MCSetSeqs : seq.linear /\ SeqSetMake(o)

\* Two independent families in one run: a period-set restriction as the
\* only call, or up to two sequence sets of linear sequences.
NextSetsLinear ==
    \/ calls = 0 /\ NextPeriodSets
    \/ last.op \in {"none", "seqset_make"} /\ NextSeqSetLinear

SpecSetsLinear == Init /\ [][calls < MaxCalls /\ NextSetsLinear]_vars

\* Range arguments: bounds at the values of Vals and half-way between
\* them, so that a bound falls on an instant value, inside a segment, or
\* outside the value.
MCRangeBounds == {0, 6, 12, 18, 24}

MCRanges == RangesOver(MCRangeBounds)

\* Arrays of two ranges over the values of Vals.
MCRangeArrays == {rs \in NormRangeArrays(Vals, 2) : Len(rs) = 2}

\* Range restrictions of step sequences.
NextRangeStep == \E r \in MCRanges : ~seq.linear /\ (AtRange(r) \/ MinusRange(r))

\* Closed merges and range restrictions of step sequences, in any order.
SpecMergeRange ==
    Init /\ [][calls < MaxCalls /\ (NextMergeClosed \/ NextRangeStep)]_vars

\* Range restrictions of linear sequences.
NextRangeLinear == \E r \in MCRanges : seq.linear /\ (AtRange(r) \/ MinusRange(r))

\* Restrictions of step sequences to arrays of two ranges.
NextRangesStep ==
    \E rs \in MCRangeArrays : ~seq.linear /\ (AtRanges(rs) \/ MinusRanges(rs))

\* Values crossed by a linear segment of the initial values half a time
\* unit after the segment's start (3 on 0 -> 12 over two units), so that
\* the crossing time is not a whole timestamp.
MCCrossVals == {3}

\* at/minus value of linear sequences at such a value.
NextValueCrossing == \E v \in MCCrossVals : seq.linear /\ (AtValue(v) \/ MinusValue(v))

\* The operations whose results the code gets wrong: minus a timestamp
\* set, at/minus a value crossed between timestamps, merge and sequence set of any two sequences, and linear ranges
\* and step range arrays.
NextResultsViolation ==
    \/ NextMinusTimestampSet
    \/ NextValueCrossing
    \/ NextMerge \/ NextSeqSet
    \/ NextRangeLinear \/ NextRangesStep

SpecResultsViolation == Init /\ [][calls < MaxCalls /\ NextResultsViolation]_vars

\* The second arguments of synchronisations and intersections: one or two
\* instants on odd timestamps before, inside and after the held values,
\* so that the two values overlap, start and end apart, and interleave
\* their instants.
MCSyncSeqs == SeqsOver({-1, 1, 3, 5}, 2)

\* Synchronisations whose crossings fall on integer timestamps, and the
\* intersection of two sequences.
NextSync ==
    \E o \in MCSyncSeqs :
        \/ SyncExact(seq, o) /\ \E c \in BOOLEAN : Synchronize(o, c)
        \/ IntersectionSeq(o)

\* Synchronisations with crossings anywhere, and the intersection of a
\* sequence with an instant.
NextSyncAny ==
    \/ \E o \in MCSyncSeqs : Synchronize(o, TRUE)
    \/ \E t \in Times, v \in Vals : IntersectionInst(Instant(v, t))

SpecSyncViolation == Init /\ [][calls < MaxCalls /\ NextSyncAny]_vars


\* One family of calls of each kind whose results keep to the input:
\* restrictions (minus timestampset, which loses time but invents no
\* value, included), appends, closed merges and linear sequence sets.
NextRefinement ==
    \/ NextTimestamps \/ NextMinusTimestampSet \/ NextPeriods
    \/ NextRangeStep
    \/ NextMergeClosed \/ NextSeqSetLinear

\* The refinement families and the synchronisations in one run, one call
\* each: a synchronisation or an intersection leaves the value held
\* unchanged, a stuttering step of TemporalValue.
SpecSyncRefinement ==
    Init /\ [][calls < MaxCalls /\ (NextRefinement \/ NextSync)]_vars

=============================================================================
