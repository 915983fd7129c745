----------------------------- MODULE MCSmLookup -----------------------------
(* Small inputs for SmLookup. *)
EXTENDS SmLookup

MCArrays == {<<2>>, <<0, 2>>, <<1, 1, 2>>, <<0, 2, 4, 6>>}
MCLookupLists ==
    UNION {[1..n -> 0..3] : n \in 0..4} \cup {<<6, 5, 0, 4, 3, 2>>, <<1, 6, 6, 0, 1, 4>>}
=============================================================================
