------------------------------ MODULE TSeqLayout -----------------------------
(***************************************************************************)
(* The packed allocation of a temporal sequence, as tsequence_make,        *)
(* tsequence_join and tsequence_append_tinstant of src/src/tsequence.c     *)
(* lay it out and tsequence_inst_n and tsequence_bbox_ptr read it:         *)
(*                                                                         *)
(*   header | offsets[0..count+1] | inst_0 | ... | inst_n-1 | bbox | traj  *)
(*                                                                         *)
(* each part starting at a double-padded position.  Sizes are in units of  *)
(* 4 bytes, so double_pad rounds up to 2 units and a size_t is 2 units.    *)
(* A byte (unit) of the allocation holds a tag <<what, value, k>>: the     *)
(* k-th unit of the instant, box or trajectory value, or a header or zero  *)
(* unit (palloc0).                                                         *)
(*                                                                         *)
(* Values are abstracted to identities: an instant is [n, size], a box is  *)
(* the set of instants n it bounds, a trajectory the sequence of the       *)
(* instants n it passes through.  Which instants normalisation removes     *)
(* depends on values and is a nondeterministic choice here.  The client   *)
(* holds one value obj and the ghost insts, box and traj of what it should *)
(* contain.                                                                *)
(***************************************************************************)
EXTENDS Integers, Sequences, SequencesExt

CONSTANTS
    Kinds,           \* the base types
    BBoxSize,        \* [Kinds -> Nat]: temporal_bbox_size, 0 for internal types
    PointKinds,      \* the kinds with a precomputed trajectory
    InstSizes,       \* the sizes VARSIZE of an instant may have
    OffsetsAt,       \* offsetof(TSequence, offsets), a multiple of 2
    MaxCount,        \* the most instants of a value
    MaxCalls         \* the most calls after the first tsequence_make

VARIABLES obj, insts, box, traj, calls

vars == <<obj, insts, box, traj, calls>>

SizeT == 2

double_pad(n) == ((n + 1) \div 2) * 2

\* The trajectory of n points: a geometry whose size grows with n.
TrajSize(t) == 3 + 2 * Len(t)

HdrByte  == <<"hdr", 0, 0>>
ZeroByte == <<"zero", 0, 0>>

\* memcpy of a value of sz units to address a (unit a + 1 of mem); the
\* units past the allocation are lost, and Fits tells whether there were.
Write(mem, a, what, val, sz) ==
    [x \in DOMAIN mem |-> IF a < x /\ x <= a + sz THEN <<what, val, x - 1 - a>>
                          ELSE mem[x]]

\* Whether the write of sz units at a stays inside the allocation.
Fits(mem, a, sz) == a + sz <= Len(mem)

\* palloc0(pdata + memsize): the header part, then zeros.
Alloc(pdata, memsize) ==
    [x \in 1..pdata + memsize |-> IF x <= pdata THEN HdrByte ELSE ZeroByte]

(***************************************************************************)
(* An allocation is a record [kind, count, mem, offsets, ub]: mem is a     *)
(* sequence indexed from 1 whose unit at 1 + a is the unit at address a;   *)
(* ub records a write past the allocation.                                 *)
(***************************************************************************)
Unit(o, a) == IF a >= 0 /\ a < Len(o.mem) THEN o.mem[a + 1] ELSE ZeroByte

\* (char *)(&seq->offsets[seq->count + 2]): where the reader's data start.
DataStart(o) == OffsetsAt + (o.count + 2) * SizeT

\* The size in units of a value of kind what: VARSIZE of an instant or a
\* trajectory, the bbox size of the kind for a box.
ValueSize(o, what, v) ==
    CASE what = "inst" -> v.size
      [] what = "box"  -> BBoxSize[o.kind]
      [] what = "traj" -> TrajSize(v)

\* The value of kind what stored at address a: [ok, val], ok being false
\* when the units there are not one whole such value.
ReadAt(o, a, what) ==
    LET b == Unit(o, a)
    IN  IF b[1] = what /\ b[3] = 0
           /\ \A k \in 0..ValueSize(o, what, b[2]) - 1 :
                 LET c == Unit(o, a + k)
                 IN  c[1] = what /\ c[2] = b[2] /\ c[3] = k
        THEN [ok |-> TRUE, val |-> b[2]] ELSE [ok |-> FALSE, val |-> 0]

\* tsequence_inst_n(seq, i).
tsequence_inst_n(o, i) == ReadAt(o, DataStart(o) + o.offsets[i], "inst")

\* tsequence_bbox_ptr(seq).
tsequence_bbox_ptr(o) == ReadAt(o, DataStart(o) + o.offsets[o.count], "box")

\* The trajectory at offsets[count + 1].
tsequence_traj(o) == ReadAt(o, DataStart(o) + o.offsets[o.count + 1], "traj")

(***************************************************************************)
(* The writers.  A writer's state is [mem, offsets, k, pos, ub]: k the     *)
(* next offset to set, pos the next free position after pdata.            *)
(***************************************************************************)

\* size_t pdata = double_pad(sizeof(TSequence)) + (count + 1) * sizeof(size_t);
\* sizeof(TSequence) ends with its first offset.
PData(count) == double_pad(OffsetsAt + SizeT) + (count + 1) * SizeT

\* palloc0 and the offsets array of count + 2 zero entries.
NewWriter(count, memsize) ==
    [mem |-> Alloc(PData(count), memsize), offsets |-> [i \in 0..count + 1 |-> 0],
     k |-> 0, pos |-> 0, ub |-> FALSE]

\* memcpy(((char *) result) + pdata + pos, v, sz), with ub on an overrun.
Put(st, pdata, what, v, sz) ==
    [st EXCEPT !.mem = Write(st.mem, pdata + st.pos, what, v, sz),
               !.ub  = @ \/ ~Fits(st.mem, pdata + st.pos, sz)]

\* Mutant: pos advances by the unpadded size of each instant.
RECURSIVE write_insts_no_pad(_, _, _, _)
write_insts_no_pad(st, pdata, xs, i) ==
    IF i > Len(xs) THEN st
    ELSE write_insts_no_pad([Put(st, pdata, "inst", xs[i], xs[i].size)
                               EXCEPT !.offsets[st.k] = st.pos, !.k = @ + 1,
                                      !.pos = @ + xs[i].size],
                            pdata, xs, i + 1)

\* The instant loop: memcpy at pos, offsets[k++] = pos, pos += double_pad.
RECURSIVE WriteInsts(_, _, _, _)
WriteInsts(st, pdata, xs, i) ==
    IF i > Len(xs) THEN st
    ELSE WriteInsts([Put(st, pdata, "inst", xs[i], xs[i].size)
                       EXCEPT !.offsets[st.k] = st.pos, !.k = @ + 1,
                              !.pos = @ + double_pad(xs[i].size)],
                    pdata, xs, i + 1)

\* The bounding box at pos, offsets[k] = pos; pos advances when advance.
WriteBox(st, pdata, kind, b, advance) ==
    IF BBoxSize[kind] = 0 THEN st
    ELSE [Put(st, pdata, "box", b, BBoxSize[kind])
            EXCEPT !.offsets[st.k] = st.pos,
                   !.pos = IF advance THEN @ + double_pad(BBoxSize[kind]) ELSE @]

\* The trajectory at pos, offsets[k + 1] = pos.
WriteTraj(st, pdata, kind, t) ==
    IF kind \notin PointKinds THEN st
    ELSE [Put(st, pdata, "traj", t, TrajSize(t)) EXCEPT !.offsets[st.k + 1] = st.pos]

\* The allocation a writer state describes.
Result(kind, count, st) ==
    [kind |-> kind, count |-> count, mem |-> st.mem, offsets |-> st.offsets, ub |-> st.ub]

Ns(xs) == [i \in 1..Len(xs) |-> xs[i].n]

\* memsize: the padded box, the padded instants and the padded trajectory.
MemSize(kind, xs, t) ==
    double_pad(BBoxSize[kind])
    + FoldLeft(LAMBDA acc, x : acc + double_pad(x.size), 0, xs)
    + (IF kind \in PointKinds THEN double_pad(TrajSize(t)) ELSE 0)

\* tsequence_make on the normalised instants xs: the instants, the box of
\* xs (from the trajectory for points), the trajectory through xs.
tsequence_make(kind, xs) ==
    LET pdata == PData(Len(xs))
        st    == NewWriter(Len(xs), MemSize(kind, xs, Ns(xs)))
        st1   == WriteInsts(st, pdata, xs, 1)
        st2   == WriteBox(st1, pdata, kind, ToSet(Ns(xs)), TRUE)
    IN  Result(kind, Len(xs), WriteTraj(st2, pdata, kind, Ns(xs)))

\* The instants of o from 0-based position from on, count of them, as
\* tsequence_inst_n reads them.
InstsOf(o, from, count) == [i \in 1..count |-> tsequence_inst_n(o, from + i - 1).val]

\* Whether every part of o the writers below read is a whole value.
Readable(o) ==
    /\ \A i \in 0..o.count - 1 : tsequence_inst_n(o, i).ok
    /\ BBoxSize[o.kind] # 0 => tsequence_bbox_ptr(o).ok
    /\ o.kind \in PointKinds => tsequence_traj(o).ok

\* tsequence_append_tinstant: the first newcount - 1 instants of seq, then
\* inst; the box of seq expanded by inst at pos, offsets[newcount] = pos;
\* then the trajectory of tpointseq_trajectory_append at offsets[newcount + 1].
tsequence_append_tinstant(o, inst, replace) ==
    LET newcount == IF replace THEN o.count ELSE o.count + 1
        xs       == InstsOf(o, 0, newcount - 1) \o <<inst>>
        oldtraj  == tsequence_traj(o).val
        t        == (IF replace THEN Front(oldtraj) ELSE oldtraj) \o <<inst.n>>
        pdata    == PData(newcount)
        st1      == WriteInsts(NewWriter(newcount, MemSize(o.kind, xs, t)), pdata, xs, 1)
        st2      == WriteBox(st1, pdata, o.kind,
                             tsequence_bbox_ptr(o).val \cup {inst.n}, FALSE)
    IN  Result(o.kind, newcount, WriteTraj(st2, pdata, o.kind, t))

\* tsequence_join: count1 instants of seq1 and those of seq2 from start2;
\* the box of seq1 expanded by that of seq2; tpointseq_trajectory_join.
tsequence_join(o1, o2, removelast, removefirst) ==
    LET count1 == IF removelast THEN o1.count - 1 ELSE o1.count
        start2 == IF removefirst THEN 1 ELSE 0
        xs     == InstsOf(o1, 0, count1) \o InstsOf(o2, start2, o2.count - start2)
        t1     == tsequence_traj(o1).val
        t2     == tsequence_traj(o2).val
        t      == (IF removelast THEN Front(t1) ELSE t1) \o
                  (IF removefirst THEN Tail(t2) ELSE t2)
        pdata  == PData(Len(xs))
        st1    == WriteInsts(NewWriter(Len(xs), MemSize(o1.kind, xs, t)), pdata, xs, 1)
        st2    == WriteBox(st1, pdata, o1.kind,
                           tsequence_bbox_ptr(o1).val \cup tsequence_bbox_ptr(o2).val, TRUE)
    IN  Result(o1.kind, Len(xs), WriteTraj(st2, pdata, o1.kind, t))

(***************************************************************************)
(* The client: it holds one value and appends to it or joins another one  *)
(* to it.  The ghost insts, box and traj are what the value should hold:   *)
(* spec section 3 says the box and the trajectory are always those of the  *)
(* current instants, never stale.                                          *)
(***************************************************************************)

\* Runs of 1 or 2 instants numbered from n0, of any sizes.
Runs(n0) ==
    {<<[n |-> n0, size |-> s]>> : s \in InstSizes} \cup
    {<<[n |-> n0, size |-> s1], [n |-> n0 + 1, size |-> s2]>> : s1, s2 \in InstSizes}

\* Fresh instant numbers for the call number calls.
Fresh == 3 * (calls + 1)

Init ==
    /\ \E kind \in Kinds, xs \in Runs(1) :
          /\ obj = tsequence_make(kind, xs)
          /\ insts = xs
          /\ box = ToSet(Ns(xs))
          /\ traj = IF kind \in PointKinds THEN Ns(xs) ELSE <<>>
    /\ calls = 0

\* Append an instant, which replaces the last one when normalisation makes
\* it redundant (a choice, as values are abstracted).
AppendInstant ==
    /\ calls < MaxCalls /\ Readable(obj)
    /\ \E s \in InstSizes, replace \in BOOLEAN :
          LET inst == [n |-> Fresh, size |-> s]
          IN  /\ replace => obj.count > 1
              /\ ~replace => obj.count < MaxCount
              /\ obj' = tsequence_append_tinstant(obj, inst, replace)
              /\ insts' = (IF replace THEN Front(insts) ELSE insts) \o <<inst>>
              /\ box' = box \cup {inst.n}
              /\ traj' = IF obj.kind \in PointKinds THEN Ns(insts') ELSE <<>>
    /\ calls' = calls + 1

\* Join a fresh sequence of the same kind after the held one, dropping the
\* last and/or first instant at the junction as tsequencearr_normalize asks.
JoinSeq ==
    /\ calls < MaxCalls /\ Readable(obj)
    /\ \E xs \in Runs(Fresh), removelast, removefirst \in BOOLEAN :
          LET o2 == tsequence_make(obj.kind, xs)
              ys == (IF removelast THEN Front(insts) ELSE insts) \o
                    (IF removefirst THEN Tail(xs) ELSE xs)
          IN  /\ removelast => obj.count > 1
              /\ removefirst => Len(xs) > 1
              /\ Len(ys) <= MaxCount
              /\ obj' = tsequence_join(obj, o2, removelast, removefirst)
              /\ insts' = ys
              /\ box' = box \cup ToSet(Ns(xs))
              /\ traj' = IF obj.kind \in PointKinds THEN Ns(ys) ELSE <<>>
    /\ calls' = calls + 1

Next == AppendInstant \/ JoinSeq

Spec == Init /\ [][Next]_vars

-----------------------------------------------------------------------------

\* A read that succeeded and returned x.
Holds(r, x) == r.ok /\ r.val = x

\* Every value the calls build can be read back as it was meant: no write
\* passed the allocation, every offset is double-aligned, tsequence_inst_n
\* finds each instant whole, the box at offsets[count] is the box of all
\* instants the value was made from, and for points the trajectory at
\* offsets[count + 1] runs through the current instants.  The writers lay
\* out instants, box and trajectory by hand with pos and the offsets array;
\* a write at a stale pos overwrites an earlier part.
LayoutSound ==
    /\ ~obj.ub
    /\ \A i \in DOMAIN obj.offsets : obj.offsets[i] % 2 = 0
    /\ \A i \in 0..obj.count - 1 : Holds(tsequence_inst_n(obj, i), insts[i + 1])
    /\ BBoxSize[obj.kind] # 0 => Holds(tsequence_bbox_ptr(obj), box)
    /\ obj.kind \in PointKinds => Holds(tsequence_traj(obj), traj)

=============================================================================
