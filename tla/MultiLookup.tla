---------------------------- MODULE MultiLookup ----------------------------
(***************************************************************************)
(* What a multi-lookup promises, whatever its schedule: every key of       *)
(* lookups is answered exactly once, a key is counted as found exactly     *)
(* when it occurs in v, and in the end no lookup is left unanswered.       *)
(* CoroLookup (coro.h) and SmLookup (sm.h) implement this specification.   *)
(***************************************************************************)
EXTENDS Integers, Sequences

VARIABLES
    v,        \* the sorted vector that is searched
    lookups,  \* the keys to look for
    pending,  \* the positions of lookups that have no answer yet
    found     \* how many answers were "found"

vars == <<v, lookups, pending, found>>

Present(key) == \E k \in DOMAIN v : v[k] = key

Init ==
    /\ v \in Seq(Int)
    /\ lookups \in Seq(Int)
    /\ pending = DOMAIN lookups
    /\ found = 0

\* One lookup gets its answer, in any order.
Answer(i) ==
    /\ i \in pending
    /\ pending' = pending \ {i}
    /\ found' = IF Present(lookups[i]) THEN found + 1 ELSE found
    /\ UNCHANGED <<v, lookups>>

Next == \E i \in pending : Answer(i)

Spec == Init /\ [][Next]_vars /\ WF_vars(Next)
=============================================================================
