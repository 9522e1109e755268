---------------------------- MODULE TemporalValue ----------------------------
(***************************************************************************)
(* What the operations of tsequence.c promise a client that holds one      *)
(* temporal value, independent of how sequences store it.  The value is a  *)
(* partial function fn from time (the samples of TSeqClient) to values;    *)
(* op is the operation of the last call, keep the time it keeps and ext   *)
(* its second operand (a function of time, empty for restrictions).       *)
(*                                                                         *)
(* A call that fails leaves the value as it was.  A restriction returns    *)
(* part of the value inside the kept time; an append returns the value     *)
(* extended after its end by the appended segment ext; a merge or a        *)
(* sequence set returns a value made of the held one and the other operand *)
(* ext, agreeing with each wherever it is defined.                         *)
(***************************************************************************)
EXTENDS Integers

CONSTANTS
    Samples,      \* the points of time
    RestrictOps,  \* the names of the restriction operations
    CombineOps    \* the names of the operations that combine two values

VARIABLES fn, op, keep, ext

vars == <<fn, op, keep, ext>>

Init ==
    /\ DOMAIN fn # {} /\ DOMAIN fn \subseteq Samples
    /\ op = "none"

\* The held value is unchanged, whatever the call.
Unchanged == fn' = fn

\* The result of a restriction is the held value on part of the kept time.
Restrict ==
    LET old == fn
        new == fn'
    IN  /\ op' \in RestrictOps
        /\ DOMAIN new \subseteq DOMAIN old \cap keep'
        /\ \A u \in DOMAIN new : new[u] = old[u]

\* The value new is made of f and g: it is defined only where one of them
\* is, and there takes its value.
MadeOf(new, f, g) ==
    /\ DOMAIN new \subseteq DOMAIN f \cup DOMAIN g
    /\ \A u \in DOMAIN new \cap DOMAIN f : new[u] = f[u]
    /\ \A u \in DOMAIN new \cap DOMAIN g : new[u] = g[u]

\* The result of an append is the held value followed by the appended
\* segment, all of whose new part lies after the held value ends.
Extend ==
    LET old == fn
        new == fn'
    IN  /\ op' = "append"
        /\ DOMAIN old \subseteq DOMAIN new
        /\ MadeOf(new, old, ext')
        /\ \A u \in DOMAIN new \ DOMAIN old, w \in DOMAIN old : w < u

\* The result of a merge or a sequence set is made of the two operands.
Combine ==
    LET old == fn
        new == fn'
        other == ext'
    IN  /\ op' \in CombineOps
        /\ MadeOf(new, old, other)

Next == Unchanged \/ Restrict \/ Extend \/ Combine

Spec == Init /\ [][Next]_vars

=============================================================================
