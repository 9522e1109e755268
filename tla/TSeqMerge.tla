----------------------------- MODULE TSeqMerge ------------------------------
(***************************************************************************)
(* tsequence_merge and tsequence_merge_array of src/src/tsequence.c.      *)
(*                                                                         *)
(* The merge runs in two passes over the sorted inputs.  The first counts  *)
(* the instants of each output sequence: an input continues the current    *)
(* output when it starts at the timestamp where the previous one ends      *)
(* with an inclusive lower bound.  The second copies the instants into one *)
(* buffer `instants` of maxcount slots, reused for every output, and       *)
(* builds each output with tsequence_make from the first countinst[i]      *)
(* slots.                                                                  *)
(*                                                                         *)
(* The buffer is palloc'ed and never cleared.  The model keeps the set of  *)
(* slots written so far: reading a slot never written, writing past        *)
(* maxcount, or reading sequences[count] is undefined behaviour, reported  *)
(* as ub.  Slots written for an earlier output keep their stale instants,  *)
(* as in the code.                                                         *)
(***************************************************************************)
EXTENDS Integers, Sequences, SequencesExt, TSequence

\* The outcome of a merge: ereport (err), undefined behaviour (ub), or the
\* output sequences.
MergeResult(err, ub, out) == [err |-> err, ub |-> ub, out |-> out]

\* Pass 1: the instant count of each output sequence (countinst[0..k-1]),
\* or <<>> when a check raises an error: different interpolations,
\* overlapping inputs, or different values at a shared inclusive instant.
RECURSIVE MergeCountLoop(_, _, _)
MergeCountLoop(seqs, i, countinst) ==
    IF i > Len(seqs) THEN countinst
    ELSE LET prev  == seqs[i - 1]
             inst1 == prev.inst[Count(prev)]
             inst2 == seqs[i].inst[1]
         IN  IF prev.linear # seqs[i].linear \/ inst1.t > inst2.t THEN <<>>
             ELSE IF inst1.t = inst2.t /\ seqs[i].lower_inc
             THEN IF inst1.v # inst2.v /\ prev.upper_inc THEN <<>>
                  ELSE MergeCountLoop(seqs, i + 1,
                         [countinst EXCEPT ![Len(countinst)] =
                                              @ + Count(seqs[i]) - 1])
             ELSE MergeCountLoop(seqs, i + 1,
                                 Append(countinst, Count(seqs[i])))

\* Mutant: the first instant of an input is copied even when the previous
\* input of the same output already wrote it.
merge_copy_no_skip(seqs, maxcount, st) ==
    LET s     == seqs[st.l + 1]
        end   == IF s.upper_inc THEN Count(s) ELSE Count(s) - 1
        slots == {j \in st.m .. st.m + end - 1 : j < maxcount}
    IN  [st EXCEPT
           !.l = @ + 1,
           !.m = @ + end,
           !.buf = [j \in DOMAIN @ |->
                      IF j \in slots THEN s.inst[j - st.m + 1] ELSE @[j]],
           !.written = @ \cup slots,
           !.ub = @ \/ st.m + end > maxcount]

\* One turn of the copying while loop: instants start..end-1 of
\* sequences[l] go to slots m, m+1, ...  The first instant is skipped
\* when the lower bound is exclusive or when the previous input of the
\* same output already wrote it; the last one when the upper bound is
\* exclusive.  A write at or past maxcount overflows the buffer.
MergeCopy(seqs, maxcount, st) ==
    LET s     == seqs[st.l + 1]
        start == IF s.lower_inc /\ (st.m = 0 \/ ~seqs[st.l].upper_inc)
                 THEN 0 ELSE 1
        end   == IF s.upper_inc THEN Count(s) ELSE Count(s) - 1
        slots == {j \in st.m .. st.m + end - start - 1 : j < maxcount}
    IN  [st EXCEPT
           !.l = @ + 1,
           !.m = @ + end - start,
           !.buf = [j \in DOMAIN @ |->
                      IF j \in slots THEN s.inst[start + j - st.m + 1]
                      ELSE @[j]],
           !.written = @ \cup slots,
           !.ub = @ \/ st.m + end - start > maxcount]

\* while (m < countinst[i] && l < count)
RECURSIVE MergeFill(_, _, _, _)
MergeFill(seqs, maxcount, target, st) ==
    IF st.m < target /\ st.l < Len(seqs) /\ ~st.ub
    THEN MergeFill(seqs, maxcount, target, MergeCopy(seqs, maxcount, st))
    ELSE st

\* Mutant: the output sequences are made without normalisation.
merge_make_no_normalize(insts, lowerinc, upperinc, linear) ==
    tsequence_make(insts, lowerinc, upperinc, linear, FALSE)

\* newseqs[i] = tsequence_make(instants, countinst[i], ..., NORMALIZE)
MergeMake(insts, lowerinc, upperinc, linear) ==
    tsequence_make(insts, lowerinc, upperinc, linear, TRUE)

\* Pass 2, output sequence i: fill the buffer, add the last instant of
\* the last input when its upper bound is exclusive, and make the
\* sequence from the first countinst[i] slots.
RECURSIVE MergeOutLoop(_, _, _, _, _)
MergeOutLoop(seqs, countinst, maxcount, i, st) ==
    IF i > Len(countinst) \/ st.ub \/ st.err THEN st
    ELSE IF st.l >= Len(seqs) THEN [st EXCEPT !.ub = TRUE]
    ELSE
      LET lowerinc == seqs[st.l + 1].lower_inc
          f        == MergeFill(seqs, maxcount, countinst[i],
                                [st EXCEPT !.m = 0])
          lastseq  == seqs[f.l]
          upperinc == lastseq.upper_inc
          g == IF upperinc \/ f.ub THEN f
               ELSE IF f.m < maxcount
               THEN [f EXCEPT !.buf[f.m] = lastseq.inst[Count(lastseq)],
                              !.written = @ \cup {f.m}]
               ELSE [f EXCEPT !.ub = TRUE]
          insts == [j \in 1..countinst[i] |-> g.buf[j - 1]]
          linear == seqs[1].linear
      IN  IF g.ub \/ ~(0..countinst[i] - 1 \subseteq g.written)
          THEN [g EXCEPT !.ub = TRUE]
          ELSE IF ~tsequence_make_valid(insts, lowerinc, upperinc, linear)
          THEN [g EXCEPT !.err = TRUE]
          ELSE MergeOutLoop(seqs, countinst, maxcount, i + 1,
                 [g EXCEPT !.out = Append(@, MergeMake(insts, lowerinc,
                                                          upperinc, linear))])

\* tsequence_merge_array: sort, count, copy, and return the single
\* sequence or the normalised sequence set of the outputs.
tsequence_merge_array(sequences) ==
    LET seqs     == tsequencearr_sort(sequences)
        countinst == MergeCountLoop(seqs, 2, <<Count(seqs[1])>>)
        maxcount == FoldSeq(LAMBDA c, mx : IF c > mx THEN c ELSE mx,
                            0, countinst)
        st0 == [l |-> 0, m |-> 0,
                buf |-> [j \in 0..maxcount - 1 |-> seqs[1].inst[1]],
                written |-> {}, ub |-> FALSE, err |-> FALSE, out |-> <<>>]
        st  == MergeOutLoop(seqs, countinst, maxcount, 1, st0)
    IN  IF countinst = <<>> THEN MergeResult(TRUE, FALSE, <<>>)
        ELSE IF st.ub \/ st.err THEN MergeResult(st.err, st.ub, <<>>)
        ELSE IF Len(st.out) = 1 THEN MergeResult(FALSE, FALSE, st.out)
        ELSE IF ~tsequenceset_make_valid(st.out)
        THEN MergeResult(TRUE, FALSE, <<>>)
        ELSE MergeResult(FALSE, FALSE, tsequenceset_make(st.out, TRUE))

\* tsequence_merge: the merge of two sequences.
tsequence_merge(seq1, seq2) == tsequence_merge_array(<<seq1, seq2>>)

=============================================================================
