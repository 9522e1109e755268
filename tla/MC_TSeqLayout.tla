---------------------------- MODULE MC_TSeqLayout ----------------------------
EXTENDS TSeqLayout

\* A temporal float (TBOX of 40 bytes), an internal double2 without a box,
\* and a temporal geometry point (STBOX of 72 bytes, with a trajectory).
MCKinds      == {"tfloat", "double2", "tgeompoint"}
MCBBoxSize   == [k \in MCKinds |-> CASE k = "tfloat" -> 10
                                     [] k = "double2" -> 0
                                     [] k = "tgeompoint" -> 18]
MCPointKinds == {"tgeompoint"}
\* Instants of 20 and 24 bytes: one needs padding, one does not.
MCInstSizes  == {5, 6}
MCOffsetsAt  == 12
MCMaxCount   == 4
MCMaxCalls   == 2

\* Appends only to values without a trajectory; joins of every kind.
NextNoPointAppend ==
    \/ obj.kind \notin PointKinds /\ AppendInstant
    \/ JoinSeq

SpecNoPointAppend == Init /\ [][NextNoPointAppend]_vars

=============================================================================
