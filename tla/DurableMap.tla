----------------------------- MODULE DurableMap -----------------------------
(***************************************************************************)
(* What a crash-safe store of versioned records promises, and no more.     *)
(*                                                                         *)
(* seen is a non-empty sequence of maps: its last element is what a reader *)
(* of the store finds, and a crash may fall back to any of them.  op holds *)
(* the last operation on each id, and whether the store has answered it    *)
(* with success.  The store may answer only an operation that every map it *)
(* can fall back to contains: what was answered never comes undone.        *)
(***************************************************************************)
EXTENDS Naturals, Sequences

CONSTANTS Ids, Versions, None

VARIABLES seen, op

Values == Versions \cup {None}
Current == seen[Len(seen)]

Init ==
    /\ seen = <<[id \in Ids |-> None]>>
    /\ op = [id \in Ids |-> [version |-> None, confirmed |-> FALSE]]

\* An id is written, or removed by writing None.
Write(id) ==
    \E v \in Values :
        /\ seen' = Append(seen, [Current EXCEPT ![id] = v])
        /\ op' = [op EXCEPT ![id] = [version |-> v, confirmed |-> FALSE]]

\* The store changes where no reader looks.
Touch == seen' = Append(seen, Current) /\ UNCHANGED op

\* The operation on id is answered: no crash can go back behind it.
Confirm(id) ==
    /\ op[id].version = Current[id]
    /\ seen' = <<Current>>
    /\ op' = [op EXCEPT ![id].confirmed = TRUE]

\* A crash loses the latest of the writes that can be lost and makes the rest
\* stay; the store may also make all of them stay.
Settle == \E k \in 1..Len(seen) : seen' = <<seen[k]>> /\ UNCHANGED op

Next == (\E id \in Ids : Write(id) \/ Confirm(id)) \/ Touch \/ Settle

Spec == Init /\ [][Next]_<<seen, op>>

\* What a caller may rely on.
Promise ==
    \A id \in Ids :
        op[id].confirmed => \A k \in 1..Len(seen) : seen[k][id] = op[id].version
=============================================================================
