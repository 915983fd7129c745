-------------------------- MODULE SearchAlgorithms --------------------------
(***************************************************************************)
(* naive.h: the binary search that the coroutine and the state machine of  *)
(* 2018_CppCon/src rewrite.  Iterators are positions of a sequence.        *)
(***************************************************************************)
EXTENDS Integers, Sequences

Sorted(a) == \A i, j \in DOMAIN a : i < j => a[i] <= a[j]

\* One round of the loop on [first, first + len) of a: what is left of it and
\* whether *middle was the key.  len > 0.
Round(a, key, first, len) ==
    LET half == len \div 2
        middle == first + half
    IN  [first |-> IF a[middle] < key THEN middle + 1 ELSE first,
         len   |-> IF a[middle] < key THEN len - half - 1 ELSE half,
         hit   |-> a[middle] = key]

\* [first, first + len) as the loop leaves it: inside of [begin, end).
Part(first, len) == [first |-> first, len |-> len]
Parts(a) ==
    {w \in [first : 1..Len(a) + 1, len : 0..Len(a)] : w.first + w.len <= Len(a) + 1}

\* naive_binary_search(begin, end, val).
NaiveBinarySearch(a, key) ==
    LET search[w \in Parts(a)] ==
            IF w.len = 0 THEN FALSE
            ELSE LET r == Round(a, key, w.first, w.len)
                 IN  r.hit \/ search[Part(r.first, r.len)]
    IN  search[Part(1, Len(a))]
=============================================================================
