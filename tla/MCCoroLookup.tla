---------------------------- MODULE MCCoroLookup ----------------------------
(* A small ring and small inputs for CoroLookup. *)
EXTENDS CoroLookup

MCArrays == {<<>>, <<2>>, <<0, 2>>, <<1, 1, 2>>, <<0, 2, 4, 6>>}
MCLookupLists == UNION {[1..n -> 0..2] : n \in 0..3} \cup {<<2, 5, 0, 4>>, <<3, 6, 6, 0, 1>>}
=============================================================================
