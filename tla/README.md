# Model-checking project for `src/src/tsequence.c`

`tsequence.c` implements **temporal sequences**: a temporal value given by a
strictly increasing array of instants (value@timestamp) over one period,
with step or linear interpolation between instants, inclusive or exclusive
bounds, a bounding box, and (for points) a trajectory stored in one packed
allocation. It is a pure, single-threaded library. Nothing in it runs
concurrently, and nothing is persisted across calls. Its hard behaviours
are long sequences of legal calls, and the boundary cases of dense time:
- inclusive and exclusive bounds;
- crossings inside segments;
- instants that normalisation must remove;
- results that must stay in the canonical form every later call relies on.

The model is therefore a **client state machine**. A client holds one
sequence value and applies library operations to it, one after another.
Each step is one whole library call: a restriction or an append. The
properties compare every result with the input's meaning as a function of
dense time.

## Inventory

| Part | Code (tsequence.c) | State it changes | Status |
|---|---|---|---|
| Segment arithmetic | `tsequence_value_at_timestamp1`, `tsequence_at_timestamp1`, `tnumberseq_intersection_value`, `tlinearseq_intersection_value`, `datum_collinear` | none (pure) | modelled (TSequence) |
| Construction, normalisation | `tsequence_make`, `tinstantarr_normalize`, `tsequence_copy` | a new value: instants, period, flags, bbox | modelled; the packed layout in TSeqLayout |
| Restriction to time | `tsequence_at/minus_timestamp(1)`, `_timestampset(1)`, `_period(1)`, `_periodset`, `tsequence_restrict_periodset`, `tsequence_find_timestamp` | new values | modelled; the binary search also step by step (TSeqFind) |
| Restriction to values | `tsequence_at_value(1)`, `tlinearseq_minus_value1`, `tsequence_minus_value`, `_restrict_value`, `_at_values1`, `_restrict_values` | new values | modelled |
| Restriction to ranges | `tnumberseq_at_range1`, `_restrict_range(1)`, `_restrict_ranges(1)` | new values | modelled (TSeqRange) |
| Ever/always | `tlinearseq_ever_eq1`, `tsequence_ever_eq`, `_always_eq`, `tlinearseq_ever_le1`, `tlinearseq_always_lt1`, `tsequence_ever_lt/le`, `_always_lt/le` | none | modelled |
| Append | `tsequence_append_tinstant` | a new value | modelled, the layout included (TSeqLayout) |
| Array normalisation | `tsequencearr_normalize`, `tsequence_join` | new values | modelled; the layout of `tsequence_join` in TSeqLayout |
| Merge | `tsequence_merge`, `tsequence_merge_array` | new values | modelled (TSeqMerge) |
| Synchronisation, intersection | `synchronize_tsequence_tsequence`, `tsequence_intersection`, `tnumberseq_intersection`, `intersection_tsequence_tsequence`, `intersection_tsequence_tinstant` | two new values | modelled for numbers (TSeqSync); point crossings and instant-set/sequence-set intersections not modelled |
| Integral, twavg | `tnumberseq_integral`, `tnumberseq_twavg` | none | modelled (TSeqAgg) |
| Accessors, casts | values, time, instants, shift, ... | none | not modelled (projections) |
| Comparison | `tsequence_eq`, `tsequence_cmp` | none | modelled (TSeqCmp) |
| Hash, I/O | `tsequence_hash`, `to_string`, `write`, `read` | none | not modelled (external hashes, bytes and text) |
| Contract of a value | what every operation above promises of the value as a function of time | none | TemporalValue.tla, refined by TSeqClient |
| Period primitives | period.c, timestampset.c, periodset.c (not under src/) | none | Periods.tla, from spec.md |

The parts interact in one direction. Every operation builds its result with
`tsequence_make`, which validates and normalises it. A restriction yielding
several pieces passes them through `tsequenceset_make` and
`tsequencearr_normalize`. Append keeps the bbox of its input and expands it.
The hazards (PROJECT.json) are where one of these hand-offs can go wrong at
a boundary.

## Modules

* **Periods.tla** holds the period, timestamp-set and period-set operations
  that tsequence.c calls. It is modelled from spec.md §6, because that code
  is not under src/.
* **TSequence.tla** holds the library. A sequence is a record:
  `[inst, lower_inc, upper_inc, linear, box]`.
  - `inst` is a sequence of `[v, t]` records.
  - `box` is the `[xmin, xmax]` value range, which is the part of the bbox
    that the restrictions and ever/always consult.
  - Every function of the table is an operator with the C name.
  - The C loops are RECURSIVE operators. They carry the loop variables
    (`i`, `j`, `k`, `l`, `lower_inc`, ...) of the code.
  - Times and values are integers. Exact comparison replaces the EPSILON
    tolerance.
  - The truncating crossing-time computation of line 83 is kept as written.
* **TSeqMerge.tla** holds `tsequence_merge_array`. Pass 1
  (`MergeCountLoop`) counts the instants of each output. Pass 2
  (`MergeOutLoop`, `MergeFill`, `MergeCopy`) copies them into one
  `instants` buffer of `maxcount` slots. The buffer is shared by all
  outputs and never cleared. The model keeps the buffer and the set of
  slots written so far. Three things are undefined behaviour in C, and the
  model reports each as `ub`:
  - reading a slot that was never written;
  - writing at or past `maxcount`;
  - reading `sequences[count]`.

  Stale slots of an earlier output are kept, as in the code.
* **TSeqRange.tla** holds the restrictions to a range and to an array of
  ranges. A range is a record like a period. The PostgreSQL functions
  `range_make`, `range_intersect` and `range_contains_elem_internal` are
  modelled from their documented meaning. `tnumberseq_at_range1` is
  translated case by case, with the bound flags that each case passes to
  `tsequence_make`. Minus is the sequence restricted to its period minus
  the time of the at result, as in the code.
* **TSeqSync.tla** holds the synchronisation and the intersections of two
  sequences. The walk of `synchronize_tsequence_tsequence` is the recursive
  `SyncLoop`. It carries a record with:
  - `i`, `j`: the indices of the code;
  - `inst1`, `inst2`: the current instants;
  - `ins1`, `ins2`: the arrays `instants1`/`instants2` (their length is `k`);
  - `l`: the number of `tofree` entries;
  - `ub`: set when a NULL from `tsequence_at_timestamp` is dereferenced.

  One turn is `SyncStep`, built from three parts:
  - `SyncAdvance`: step past the earlier instant and interpolate the other
    sequence;
  - `SyncAddCrossing`: the crossing from `tsequence_intersection`, when
    asked;
  - `SyncAddPair`: append the pair.

  `SyncLoopEnd` is the `break`. `SyncFinish` does three things:
  - applies the step closing of lines 1696-1714;
  - reports `ub` when `k` is 0, when `k` exceeds the `count` slots, or when
    `l` exceeds the `2 * count` slots of `tofree`;
  - builds both outputs with `tsequence_make` (`SyncMake`), or reports the
    error it would raise.

  `tnumberseq_intersection` keeps the truncating `(long)(duration * fraction)`.
  The module is written as a chain of operators that pass each intermediate
  result as a parameter. TLC's coverage pass expands every reference to a
  LET definition, so a repeated reference would cost exponential time.
* **TSeqClient.tla** is the client state machine. Its variables:
  - `seq` is the current value;
  - `last` is the most recent call: operation, input, kept time samples,
    appended segment, result, error;
  - `calls` counts the calls, bounded by `MaxCalls`.

  `Init` is every value that `tsequence_make` accepts from 1..`MaxLen`
  instants over `InstTimes` x `Vals`. Each action is one public entry point.
  If the call succeeds and the result is not empty, the client continues
  with one piece of the result. Two actions take a second sequence: `Merge`
  (`tsequence_merge`) and `SeqSetMake` (the sequence-set constructor,
  `tsequenceset_make` with NORMALIZE, which calls
  `tsequencearr_normalize`). The client passes only inputs that the code
  documents as valid: the same interpolation, and periods that at most
  touch. For a merge, the values must also agree where both are defined.
  The expected result is the union of the two. Three more actions take a
  second value and leave `seq` as it is (`PairCall`):
  - `Synchronize(other, crossings)`;
  - `IntersectionSeq(other)`;
  - `IntersectionInst(inst)`.

  `last.out` holds the pair of outputs.
* **TemporalValue.tla** is the abstract specification: what the
  operations promise a client that holds one temporal value, whatever the
  representation. Its state is the value `fn`, a partial function from the
  time samples to values, and the operation `op` of the last call, the
  time `keep` it keeps and its second operand `ext`. Its actions:
  - `Unchanged`: the value stays (a failed or empty call);
  - `Restrict`: the value becomes a part of itself inside `keep`;
  - `Extend` (append): the value grows by `ext`, only after its end;
  - `Combine` (merge, sequence set): the value is made of itself and `ext`,
    agreeing with each where it is defined.

  TSeqClient implements it under the refinement mapping
  `fn <- AbsFn(seq)` (the value of the held sequence at each sample,
  scaled by `ValScale` to an integer), `op <- last.op`,
  `keep <- last.keep` and `ext <- AbsExt`. The property
  `TemporalValueSpec == TV!Spec` says so, and run sync checks it.
  ResultDenotesOperation checks the whole result of one call; the
  refinement checks the piece the client keeps, over every chain of calls
  of different kinds.
* **MC_TSeqClient.tla** gives the constants and splits the next-state
  relation into one family per kind of argument, so that each run stays
  within minutes.

* **TSeqAgg.tla** holds `tnumberseq_integral` as the RECURSIVE
  `IntegralLoop` (one turn of the C loop per call, accumulating twice the
  area so that the linear halving stays an integer) and
  `tnumberseq_twavg`, whose instantaneous case returns the first value.
* **TSeqCmp.tla** holds `tsequence_eq` and `tsequence_cmp`: count, flags,
  period, box and instants for equality; period, box, the first
  `Min(count)` instants and the flags for the order. The comparisons of
  periods, boxes and instants they call live in period.c, temporal.c and
  tinstant.c and are modelled from spec.md (§4.6, §6).
* **TimestampSearch.tla** is the abstract specification of a search for
  the segment holding a timestamp: one `Answer` step, under weak fairness,
  sets `answer` to the one segment that holds `t` under the bound flags,
  or -1.
* **TSeqFind.tla** is `tsequence_find_timestamp` one loop turn per step.
  Its state is the input (`ts`, the flags, `t`), the loop variables
  `first`, `last`, `middle`, and `pc`/`result`. The actions are the
  branches of the loop body: `FindReturn` (line 1426), `FindLeft` (1428),
  `FindRight` (1430), each with the update of `middle` (1431), and
  `FindExit` (1433). `Half` is C's truncating division, which matters when
  `first + last = -1`. It refines TimestampSearch under
  `answer <- IF pc = "done" THEN <<result>> ELSE <<>>`;
  MC_TSeqFind.tla gives its constants.
* **TSeqLayout.tla** is the packed allocation of a sequence:
  `header | offsets[0..count+1] | instants | bbox | trajectory`, each part
  at a double-padded position. Sizes are 4-byte units (`double_pad` rounds
  to 2, a `size_t` is 2). A unit of memory holds a tag `<<what, value, k>>`
  (the k-th unit of an instant, a box or a trajectory), so a read can tell
  whether it finds whole what it expects. Values are identities: an
  instant is `[n, size]`, a box the set of instants it bounds, a
  trajectory the sequence of instants it runs through. The writers
  `tsequence_make`, `tsequence_join` and `tsequence_append_tinstant` keep
  `pos` and `offsets` as the code does (`Put`, `WriteInsts`, `WriteBox`,
  `WriteTraj`); `WriteBox` takes whether the code advances `pos` after the
  box (join does, append does not). The readers are `tsequence_inst_n`,
  `tsequence_bbox_ptr` and `tsequence_traj`. A write past the allocation
  sets `ub`. The client holds one value `obj` and the ghosts `insts`,
  `box`, `traj` of what it should hold; `AppendInstant` appends a fresh
  instant (replacing the last one when normalisation would, a free choice
  since values are abstracted) and `JoinSeq` joins a fresh run of one or
  two instants, dropping the instants at the junction that
  `tsequencearr_normalize` removes. MC_TSeqLayout.tla gives the constants
  and `SpecNoPointAppend`, which leaves out appends to points.

### Reference meaning

The properties do not reuse the code. `Defined(s, u)` and `ValAt(s, u)`
give the value of `s` at the doubled time `u`, as an exact rational, from
the definition of step and linear interpolation (spec §3). The doubled
times sample every timestamp and every midpoint between timestamps. Because
all instants and crossings fall on integers, two values that agree on these
samples agree on all of dense time.

## Runs

| Run | Actions | Properties | Expect |
|---|---|---|---|
| timestamps | at/minus timestamp, at timestampset, append | ValueWellFormed, ResultDenotesOperation | pass |
| periods | at/minus period, append | TypeOK, ValueWellFormed, ResultDenotesOperation | pass |
| values | at/minus value, at/minus values, append | ValueWellFormed, ResultDenotesOperation, EverAlwaysCorrect, AggregatesCorrect | pass |
| always_lt | (initial values) | AlwaysLtCorrect | violation |
| merge_range | merges with `MCMergeSeqs` with inclusive bounds only, and at/minus range on step values, in any order, up to three calls | ValueWellFormed, ResultDenotesOperation | pass |
| sets | at/minus period set as the only call, or up to two sequence sets of linear values with `MCSetSeqs` | ValueWellFormed, ResultDenotesOperation, CmpTotalOrder | pass |
| results | minus timestampset; at/minus value 3 on linear values; merge with sequences over {-1, 0} and {4, 5}; sequence set with sequences over {-2, 0} and {4, 6}; at/minus range on linear values; at/minus an array of two ranges on step values | ResultDenotesOperation | violation |
| sync | synchronize (with and without crossings) and intersection with the 384 sequences of `MCSyncSeqs`, when every crossing falls on a whole timestamp (`SyncExact`); and the refinement families: timestamps, timestamp sets, periods (with append), range on step values, closed merges, linear sequence sets; one call | SyncAligned, SyncCrossings, TemporalValueSpec | pass |
| sync_violations | synchronize with crossings with any sequence of `MCSyncSeqs`; intersection with an instant | SyncAligned | violation |
| layout (MC_TSeqLayout) | tsequence_make of a run of 1 or 2 instants of every kind, then two calls of join, or of append for the kinds without a trajectory | LayoutSound | pass |
| layout_append (MC_TSeqLayout) | the same, appends to points included | LayoutSound | violation |
| find (MC_TSeqFind) | the loop turns of `tsequence_find_timestamp` on every run of 2..5 instants over {0, 2, 4, 6, 8}, every flag pair and every `t` in -1..9 | SearchWindow, TimestampSearchSpec | pass |

* **TypeOK:**
  - every value stays inside the hull of the input values and the time bounds;
  - the counters and flags have their types.

  A restriction that extrapolates past the last instant breaks it.
* **ValueWellFormed:** every reachable value has three properties:
  - `tsequence_make` would accept it;
  - it is in normal form (no instant that `tinstantarr_normalize` would
    remove);
  - its box is the box of its instants.

  Append, which normalises incrementally and keeps the old box, is what this
  checks after restrictions.
* **ResultDenotesOperation:** the last call raised no error. The union of its
  pieces is defined exactly where the input is defined and the argument
  keeps it, and there it has the same values. For append, the pieces are the
  input extended by the new segment. This is the partition law of spec §4.4
  stated on the meaning.
* **TemporalValueSpec:** the client implements the abstract TemporalValue
  (see Modules). Each call is one step of it. A failed call leaves the value
  as it was. A restriction returns part of the value inside the kept time.
  An append extends the value after its end. A merge or a sequence set is
  made of its two operands. The run takes one call from every initial value
  and argument, in run sync: synchronisations leave the value unchanged,
  so they are stuttering steps of it. Four families are left out:
  - value restrictions and period sets are the costliest to evaluate, and
    runs values and sets check them with ResultDenotesOperation;
  - range arrays and merges with open bounds violate the property through
    findings 8 and 9.
* **SyncAligned:** a synchronisation or intersection raises no error and
  reaches no undefined behaviour. It returns the pair exactly when the two
  values share a defined sample. Each output is defined exactly on the
  samples where both inputs are defined, and it takes its input's value
  there. The two synchronized outputs also have the same timestamps and
  bound flags (spec §4.5). The buffer bound of line 1646 is part of the
  "no undefined behaviour" clause.
* **SyncCrossings:** with crossings, no synchronized segment has two
  points where the difference of the two outputs has opposite signs. So a
  comparison of the two values changes only at an instant of the outputs,
  which is what the crossings are added for.
* **AggregatesCorrect:** the integral is the area under the value's
  meaning, and twavg is that area over the duration, or the single value
  of an instantaneous sequence. The reference `RefArea` sums the value at
  the midpoint of every unit interval (`ValAtQ`, exact on a linear piece),
  independent of the code's trapezoids and rectangles, and is checked on
  every value the chains of restrictions and appends reach.
* **CmpTotalOrder:** `tsequence_cmp` is antisymmetric and transitive, it
  is 0 exactly when `tsequence_eq` holds, and whenever it gets as far as
  the flags the two counts are equal, which the comment at line 4298
  relies on. It is checked on every pair and triple of the input and the
  results of a call (`Compared`): these differ in bound flags only, in
  instants, or in count, which are the cases the period test must
  separate before the box, which ignores bound flags.
* **SearchWindow:** while the loop of `tsequence_find_timestamp` runs,
  the segment holding `t` stays inside `first..last`.
* **TimestampSearchSpec:** every search ends (liveness, under the
  fairness below) with the segment TimestampSearch names.
* **LayoutSound:** every value the writers build reads back as it was
  meant: no write passes the allocation, every offset is even
  (double-aligned), `tsequence_inst_n` finds each instant whole, the box at
  `offsets[count]` bounds every instant the value was made from, and for
  points the trajectory at `offsets[count + 1]` runs through the current
  instants. It takes several calls to break: the offsets of a value are
  computed from the sizes of earlier parts, and a `pos` that is not
  advanced, or advanced without padding, makes a later part overwrite or
  misalign an earlier one.
* **EverAlwaysCorrect / AlwaysLtCorrect:** each ever/always function agrees
  with "some/every defined instant of dense time satisfies the comparison".

Two things are deliberately not checked as properties. The binary
search is checked once, step by step, in run find (SearchWindow,
TimestampSearchSpec); a second check of the recursive `FindLoop` against
the same reference on fewer inputs would add nothing. The canonical form
of sequence sets (line 806) is not checked either: a missed join leaves
the denoted function unchanged, so ResultDenotesOperation cannot see it,
and a check on the representation would restate the join guard of
`tsequencearr_normalize` itself.

### Findings

The violation runs are real bugs, reported in PROJECT.json:

1. **`tsequence_minus_timestampset1` loses data when the timestamp set
   reaches past the sequence's end** (line 3844). TLC's counterexample is
   `[0@0, 0@2] minus {-1, 3}`: the result is empty.
2. **`tlinearseq_always_lt1` answers a constant segment with
   `value1 < value1`** (line 2451). TLC's counterexample is
   `[0@0, 0@2] always_lt 12`: the answer is false.

3. **`tsequence_merge_array` starts an input with an exclusive lower bound
   at its second instant** (line 1358). The output is then one instant
   short of its count. TLC's counterexample (run results) merges the step sequences
   `(0@-1, 0@0)` and `(0@0, 0@4)`: `tsequence_make` reads a slot of
   `instants` that was never written.
4. **The copy loop of the merge runs on into the next input** (lines
   1356-1363). For `[0@0, 0@2)` merged with `[12@4, 12@5]`:
   - it writes three instants into two slots;
   - then it reads `sequences[2]`.

   For step `[0@0, 12@2]` merged with `(12@2, 24@4]`, the second output is
   built from stale instants and the call raises an error. Merges whose
   bounds are all inclusive are correct (run merge_range).
5. **`tsequencearr_normalize` joins step sequences by collinearity** (line
   776). The third join case has no `linear &&` guard. A counterexample
   (found by TLC on the sequence-set actions alone) is the sequence set of the step sequences `(24@-2, 12@0]` and
   `(12@0, 0@2, 0@4)`. It becomes `(24@-2, 0@2, 0@4)`, which takes the
   value 24 instead of 12 on `(0, 2)`.

6. **`tnumberseq_at_range1` puts a one-value intersection at a segment
   end** (line 3091). TLC's counterexample (run results) is `(0@0, 24@2)`
   at range `[12, 12]`. It gives `12@2` although the value 12 is taken at
   time 1.
7. **`tnumberseq_at_range1` takes wrong bound flags.** Evaluating the
   model gives two more wrong results:
   - `[24@0, 0@4]` at `[6, 18)` gives `[18@1, 6@3)` instead of
     `(18@1, 6@3]`. On a decreasing segment the flags are swapped (line
     3118).
   - `[0@0, 12@2]` at `(0, 6]` gives `[0@0, 6@1]`. An end of the piece on
     an instant takes the segment's flag, not the intersection's (lines
     3111-3157).
8. **`tnumberseq_restrict_ranges1` tests the closing instant of a step
   sequence against the last range only** (line 3346). A counterexample
   (found by TLC on the range-array actions alone) is `(0@0, 0@2]` at an array whose first range holds 0.
   The result loses `0@2`.

9. **`tsequence_merge_array` joins an input that starts where the
   previous one ends exclusively, with a different value** (line 1337).
   The different-value check also requires the previous upper bound to be
   inclusive, so the two inputs go to the same output. The copy pass then
   skips the excluded last instant. The linear `[0@-1, 12@0)` merged with
   `[0@0, 0@2, 0@4]` gives `[0@-1, 0@4]`, whose value at -0.5 is 0 instead
   of 6. The refinement property found it first. ResultDenotesOperation in
   run results is violated by the same input.

10. **`intersection_tsequence_tinstant` returns the sequence's value
    twice** (line 1481). `*inter2 = tinstant_copy(inst1)` copies the
    sequence's instant, not `inst`. TLC's counterexample (run
    sync_violations): `(0@0, 0@2)` intersected with `12@1` gives `0@1` and
    `0@1`.
11. **The crossing of two linear segments is truncated onto the segment
    start** (line 216). Spec §4.5 places crossings strictly inside their
    segments. `(long)(duration * fraction)` puts a crossing less than one
    unit after the start on the start itself. The linear `(0@0, 12@2)`,
    synchronized with crossings against `(0@-1, 12@5)`, crosses it at 0.5.
    The code places the crossing at 0, `instants1` then holds two instants
    at 0, and `tsequence_make` raises an error. TLC reaches this once the
    intersection action is left out. Otherwise finding 10 comes first.
12. **A value crossed inside a linear segment is placed on the truncated
    time, with the value found there** (line 83, then line 140).
    `tlinearseq_timestamp_at_value` computes the crossing time
    as `inst1->t + (long)(duration * fraction)`.
    `tlinearseq_intersection_value` then interpolates the value at that
    truncated time. TLC's counterexample (run results) is the linear
    `(0@0, 12@2)` at value 3. The crossing lies at 0.5, so the result
    should be `3@0.5`. The code returns `0@0` instead: another value, at a
    time the open lower bound excludes. `minus_value` on the same input
    builds `[0@0, 0@0)` and `tsequence_make` rejects it.

13. **`tsequence_append_tinstant` writes the trajectory of a point over
    its box** (lines 1262-1271). It sets `offsets[newcount] = pos` and
    copies the expanded box there, but never does
    `pos += double_pad(bboxsize)`, so the trajectory is copied at the same
    `pos` and `offsets[newcount + 1]` equals `offsets[newcount]`. Spec §3
    says the box and trajectory are always those of the current instants.
    TLC's counterexample (run layout_append): a `tgeompoint` of one instant
    of 5 units, one append; the offsets are `0, 6, 12, 12` and the box read
    at offset 12 is the first units of the trajectory. `tsequence_join`
    (line 1106) advances `pos` and is correct (run layout). Values without
    a trajectory are unaffected, as nothing is written after the box.

The runs that pass show five groups of correct behaviour:
- range restrictions of step sequences with one range, and merges with inclusive bounds (run merge_range);
- synchronisation and intersection of sequences (run sync);
- the step closing;
- the count and tofree bounds, when crossings fall on whole timestamps;
- the packed layout built by `tsequence_make` and `tsequence_join` for
  every kind, and by append for values without a trajectory (run layout).

### Bounds

| Constant | Value | Why it is enough |
|---|---|---|
| `Vals` | {0, 12, 24} | Gives equal, increasing and decreasing segments, and crossings inside a segment. |
| `InstTimes` | {0, 2, 4} | Even times keep every midpoint crossing and every interpolation integral. |
| `Times` | -1..5 | Reaches before, on, between and after the instants. |
| `PSTimes` | {-1, 1, 2, 4} | The period-set bounds: bounds that straddle the start, cut a segment, or fall on an instant. |
| `MaxLen` | 3 | Initial values have 1 to 3 instants: instantaneous, one segment, or two segments. |
| `MaxCount` | 4 | The most instants an append result may have. |
| `MaxCalls` | 3 (timestamps, values, merge_range), 2 (periods, sets), 1 (sync, results) | The number of calls in a run: restriction after append, append after restriction, and restriction after restriction. Period sets take one call (run sets), because `Init` already holds every flag combination and every length that earlier calls could produce. |
| `MCPeriodTimes` | {-1, 0, 1, 2, 3, 4} | The bounds of period arguments: before the value, on the first, middle and last instant, and inside each segment. A bound after the value is the mirror of the one before it. |

| `MCMergeSeqs` | sequences of up to 2 instants over {-1, 0} or {4, 5} | The second merge argument: it touches the held value at 0 or 4, with every pair of bound flags, or lies apart from it. |
| `MCSetSeqs` | sequences of up to 2 instants over {-2, 0} or {4, 6} | The second argument of a sequence set. Its instants are two time units apart, like the held value's, so a junction can continue a segment with the same slope. Over {4, 5} no such junction exists with `Vals`. |

| `MCRangeBounds` | {0, 6, 12, 18, 24} | Range bounds on the instant values and half-way between them. Range actions are enabled only when every bound crossed inside a linear segment is crossed at an integer time (`RangeExact`). |
| `MCRangeArrays` | normalised arrays of two ranges over `Vals` | Enough for the closing instant to lie in the first range and not in the last one. |
| `MCSyncSeqs` | sequences of up to 2 instants over {-1, 1, 3, 5} | The second operand of synchronisation. It starts before, inside or after the held value and ends likewise, and its odd timestamps interleave with the held value's even ones. Every turn kind of the walk is reached: equal timestamps, interpolation of either side, a cut start, the break, and a crossing in a segment. The pass run keeps only pairs whose crossings fall on whole timestamps (`SyncExact`, tested at quarter times). |

Period sets have two periods. Timestamp sets have up to three timestamps.
Value arrays have up to two values.

Appends are enabled only when the result is **exact**: its slopes are
integers, and its crossings of `Vals` fall on integer times. This keeps the
integer model faithful. The value crossings at half units that the truncation
of line 83 needs come from `MCCrossVals` = {3} in run results (finding 12).

For runs layout and layout_append (MC_TSeqLayout), the kinds are a
`tfloat` (box of 10 units), an internal `double2` (no box) and a
`tgeompoint` (box of 18 units, a trajectory); instants have 5 or 6 units,
so that an odd size needs padding; `offsets` starts at unit 12;
`MaxCount` = 4 and `MaxCalls` = 2 give every mix of a make, two appends or
joins, and a replaced last instant, with both even and odd positions.

For run find, `MCInstTimes` = {0, 2, 4, 6, 8} and `MCMaxLen` = 5 give up
to four segments, so the search takes up to three turns and goes both left
and right. `MCTimes` = -1..9 puts `t` before, on and between every instant
and after the last. Every pair of bound flags is enumerated.

Every property has a mutant: a plausible bug in a mapped definition that
TLC catches under the same configuration. Examples are a closed step
segment, a missing loop break, a skipped first period, a closed crossing,
an ignored exclusive bound, and a skipped normalisation.

### Fairness

The client runs of MC_TSeqClient have no fairness and only safety
properties. A client may stop calling at any time, which is why their
configurations set `CHECK_DEADLOCK FALSE`: a state where `calls = MaxCalls`
has no successor by design.

Run find assumes `WF_vars(Next)` for the loop of
`tsequence_find_timestamp`. The function is called synchronously. It runs
on the caller's thread, holds no lock and waits for nothing, so a loop
turn that is enabled is taken. With this fairness the property
`TimestampSearchSpec` includes the liveness `WF_vars(Answer)` of the
abstract search: every call returns. A loop that kept `middle`
(`first = middle` instead of `middle + 1`) would stutter on the same
window forever; its mutant violates the property. Once the function has
returned (`pc = "done"`) no action is enabled, so that configuration too
sets `CHECK_DEADLOCK FALSE`.

## Plan for later work

1. (Done: TSeqMerge and the sequence-set constructor.)
2. (Done: range restrictions, TSeqRange.)
3. (Done: TSeqSync for numbers.) Left open: the intersections with
   instant sets and sequence sets (lines 1500-1560).
4. (Done: TSeqLayout, finding 13.) Left open: the layout of sequence
   sets and the bbox contents for points (stbox) beyond their identity.
5. (Done: the abstract TemporalValue, checked in run sync.)
6. (Done: integral and twavg, TSeqAgg; eq and cmp, TSeqCmp; the
   step-level binary search, TSeqFind; the truncation of line 83, finding
   12.)
7. The at_ranges piece order (line 3352) can be reached only once the
   linear range restrictions are fixed (findings 6 and 7).
