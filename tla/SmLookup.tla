------------------------------ MODULE SmLookup ------------------------------
(***************************************************************************)
(* SmMultiLookup of 2018_CppCon/src/sm.h: `streams' hand-written state     *)
(* machines, each a binary search, advanced round robin from the last      *)
(* frame to the first, and a final loop that drains what is unfinished.    *)
(***************************************************************************)
EXTENDS SearchAlgorithms, FiniteSets

CONSTANTS
    Arrays,       \* the vectors v that may be searched
    LookupLists,  \* the vectors of keys
    StreamCounts  \* the values of the command line's <streams>

ASSUME InputAssumption ==
    /\ \A a \in Arrays : a \in Seq(Int) /\ Sorted(a)
    /\ <<>> \notin Arrays    \* &v[0] of sm.h:83 needs an element
    /\ \A l \in LookupLists : l \in Seq(Int)
    /\ StreamCounts \subseteq Nat \ {0}

VARIABLES
    v, lookups, streams,  \* the arguments of the call
    f,                    \* the vector of frames
    i,                    \* the frame whose turn it is
    next,                 \* the position in lookups
    result,               \* how many keys were found
    pc,                   \* "loop" over the keys, the inner "scan", "drain", ...
    j, moreWork           \* the drain loop's position and flag

args == <<v, lookups, streams>>
drain == <<j, moreWork>>
vars == <<args, f, i, next, result, pc, drain>>

FrameIds == 0..streams-1

\* Frame: id is the position of val in lookups (0 while EMPTY).
Frames == [state : {"KEEP_GOING", "FOUND", "NOT_FOUND", "EMPTY"},
           id : Nat, first : Nat, len : Nat]

\* Frame::init for the key at position n of lookups.
InitFrame(n) ==
    [state |-> IF Len(v) = 0 THEN "NOT_FOUND" ELSE "KEEP_GOING",
     id |-> n, first |-> 1, len |-> Len(v)]

\* Mutant of RunFrame: it looks for work left before it looks for a hit.
RunFrameLenFirst(fr) ==
    LET r == Round(v, lookups[fr.id], fr.first, fr.len)
    IN  [fr EXCEPT !.first = r.first, !.len = r.len,
                   !.state = IF r.len > 0 THEN "KEEP_GOING"
                             ELSE IF r.hit THEN "FOUND"
                             ELSE "NOT_FOUND"]

\* Frame::run: one probe.  It returns whether the search is over.
RunFrame(fr) ==
    LET r == Round(v, lookups[fr.id], fr.first, fr.len)
    IN  [fr EXCEPT !.first = r.first, !.len = r.len,
                   !.state = IF r.hit THEN "FOUND"
                             ELSE IF r.len > 0 THEN "KEEP_GOING"
                             ELSE "NOT_FOUND"]
Over(fr) == fr.state # "KEEP_GOING"
\* Mutant of Score: any search that is over counts as found.
ScoreAny(fr) == IF Over(fr) THEN 1 ELSE 0

Score(fr) == IF fr.state = "FOUND" THEN 1 ELSE 0

\* if (i == 0) i = N; else --i;
Prev(n) == IF n = 0 THEN streams - 1 ELSE n - 1

Init ==
    /\ v \in Arrays /\ lookups \in LookupLists /\ streams \in StreamCounts
    /\ f = [k \in FrameIds |-> [state |-> "EMPTY", id |-> 0, first |-> 0, len |-> 0]]
    /\ i = streams - 1
    /\ next = 1 /\ result = 0 /\ pc = "loop"
    /\ j = 0 /\ moreWork = FALSE

\* The next key goes into a frame that has no search under way.
LoopInit ==
    /\ pc = "loop" /\ next <= Len(lookups) /\ Over(f[i])
    /\ f' = [f EXCEPT ![i] = InitFrame(next)]
    /\ i' = Prev(i)
    /\ next' = next + 1
    /\ UNCHANGED <<args, result, pc, drain>>

\* Mutant of Scanning: the loop does not look whether the frame is free.
ScanningAlways == pc = "scan" \/ (pc = "loop" /\ next <= Len(lookups))

\* The for(;;): run() without a look at the state, on one frame after the
\* other.  On a frame without a search its fields mean nothing.
Scanning == pc = "scan" \/ (pc = "loop" /\ next <= Len(lookups) /\ ~Over(f[i]))

ScanStep ==
    /\ Scanning
    /\ IF Over(f[i])
       THEN pc' = "undefined" /\ UNCHANGED <<f, i>>
       ELSE /\ ~Over(RunFrame(f[i]))
            /\ f' = [f EXCEPT ![i] = RunFrame(f[i])]
            /\ i' = Prev(i)
            /\ pc' = "scan"
    /\ UNCHANGED <<args, next, result, drain>>

\* ... until one is over: its frame takes the next key.
ScanDone ==
    /\ Scanning /\ ~Over(f[i]) /\ Over(RunFrame(f[i]))
    /\ result' = result + Score(RunFrame(f[i]))
    /\ f' = [f EXCEPT ![i] = InitFrame(next)]
    /\ i' = Prev(i)
    /\ next' = next + 1
    /\ pc' = "loop"
    /\ UNCHANGED <<args, drain>>

LoopEnd ==
    /\ pc = "loop" /\ next > Len(lookups)
    /\ pc' = "drain" /\ j' = 0 /\ moreWork' = FALSE
    /\ UNCHANGED <<args, f, i, next, result>>

\* for (auto& fr: f) if (fr.state == 0) ...
DrainFrame ==
    /\ pc = "drain" /\ j < streams
    /\ j' = j + 1
    /\ IF Over(f[j])
       THEN UNCHANGED <<f, result, moreWork>>
       ELSE /\ moreWork' = TRUE
            /\ f' = [f EXCEPT ![j] = RunFrame(f[j])]
            /\ result' = result + Score(RunFrame(f[j]))
    /\ UNCHANGED <<args, i, next, pc>>

\* } while (moreWork);
DrainRound ==
    /\ pc = "drain" /\ j = streams
    /\ IF moreWork THEN j' = 0 /\ pc' = "drain" ELSE j' = j /\ pc' = "done"
    /\ moreWork' = FALSE
    /\ UNCHANGED <<args, f, i, next, result>>

Next ==
    \/ LoopInit \/ ScanStep \/ ScanDone
    \/ LoopEnd \/ DrainFrame \/ DrainRound

\* One thread runs the whole call and nothing in it blocks.
Spec == Init /\ [][Next]_vars /\ WF_vars(Next)

-----------------------------------------------------------------------------
\* Every variable has its type; i and j index the vector of frames.
TypeOK ==
    /\ v \in Arrays /\ lookups \in LookupLists /\ streams \in StreamCounts
    /\ f \in [FrameIds -> Frames]
    /\ i \in FrameIds /\ j \in 0..streams
    /\ next \in 1..Len(lookups) + 1 /\ result \in Nat
    /\ pc \in {"loop", "scan", "drain", "done", "undefined"}
    /\ moreWork \in BOOLEAN

\* The scan (sm.h:92-102) tests the state of the frame it starts from only,
\* and then runs every frame it comes to: yet none is EMPTY or over, because
\* frames are filled and refilled in the order in which they are scanned.
NoStrayRun == pc # "undefined"

\* nanotest compares the sums of its three algorithms with one number
\* (nanotest.cpp:136): the state machines find what naive.h finds.
ResultIsNaive ==
    pc = "done" =>
        result = Cardinality({n \in DOMAIN lookups : NaiveBinarySearch(v, lookups[n])})

\* The abstract view of a state: a lookup is pending until its key has been in
\* a frame that reported the end of its search.
Lookups == INSTANCE MultiLookup WITH
    pending <- {n \in DOMAIN lookups :
                  n >= next \/ \E k \in FrameIds : f[k].id = n /\ ~Over(f[k])},
    found <- result

\* SmMultiLookup implements MultiLookup: every lookup is answered once,
\* rightly, and eventually.
MultiLookupSpec == Lookups!Spec
=============================================================================
