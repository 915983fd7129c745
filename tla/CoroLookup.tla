----------------------------- MODULE CoroLookup -----------------------------
(***************************************************************************)
(* CoroMultiLookup of 2018_CppCon/src/coro.h on the scheduler, throttler,  *)
(* prefetch awaitable and frame allocator of coro_infra.h: one thread that *)
(* interleaves up to `streams' binary searches, each a coroutine that      *)
(* suspends at every probe, through a ring of N coroutine handles.         *)
(*                                                                         *)
(* A task is named by the position of its key in lookups.  The handle the  *)
(* thread is executing is `running'; `main' is where the caller, the body  *)
(* of CoroMultiLookup, stands underneath it.                               *)
(***************************************************************************)
EXTENDS SearchAlgorithms, FiniteSets

CONSTANTS
    N,            \* scheduler_queue::N, the slots of the ring
    UIntMax,      \* the largest value of `unsigned'
    Null,         \* the null coroutine_handle
    Dangling,     \* a handle whose frame an earlier call has destroyed
    Arrays,       \* the vectors v that may be searched
    LookupLists,  \* the vectors of keys
    StreamCounts  \* the values of the command line's <streams>

ASSUME NAssumption == N \in Nat \ {0} /\ UIntMax \in Nat
ASSUME HandleAssumption ==
    Null \notin Nat /\ Dangling \notin Nat /\ Null # Dangling
ASSUME InputAssumption ==
    /\ \A a \in Arrays : a \in Seq(Int) /\ Sorted(a)
    /\ \A l \in LookupLists : l \in Seq(Int)
    /\ \A s \in StreamCounts : s \in 1..UIntMax

VARIABLES
    v, lookups, streams,  \* the arguments of the call
    head, tail, arr,      \* the global scheduler_queue
    limit,                \* throttler::limit
    frame,                \* the coroutine frame of each task
    cached, allocCount,   \* tcalloc: free-list length, calls of malloc
    found, notFound,      \* the caller's two counters
    next,                 \* the caller's position in lookups
    main,                 \* the caller's place in CoroMultiLookup
    running               \* the coroutine that executes, or Null

args == <<v, lookups, streams>>
ring == <<head, tail, arr>>
heap == <<cached, allocCount>>
answers == <<found, notFound>>
vars == <<args, ring, limit, frame, heap, answers, next, main, running>>

Slots == 0..N-1
Tasks == DOMAIN lookups
Handles == Tasks \cup {Null, Dangling}

\* A frame: not yet made, suspended initially, suspended at a probe of
\* [first, first + len), or freed.
Frames == [phase : {"none", "fresh", "probe", "destroyed"},
           first : Nat, len : Nat]
NoFrame == [phase |-> "none", first |-> 0, len |-> 0]

Live(h) == h \in Tasks /\ frame[h].phase \in {"fresh", "probe"}

-----------------------------------------------------------------------------
\* head = (head + 1) % N, and the same for tail.
Succ(i) == (i + 1) % N

\* Mutant of UDec: spawn forgets --limit.
UDecForgotten(n) == n

\* ++limit and --limit on an unsigned.
UInc(n) == IF n = UIntMax THEN 0 ELSE n + 1
UDec(n) == IF n = 0 THEN UIntMax ELSE n - 1

\* Mutant of Probed: the missing ++first.
ProbedNoIncrement(t) ==
    LET f == frame[t]
        half == f.len \div 2
        middle == f.first + half
        x == v[middle]
    IN  [first |-> IF x < lookups[t] THEN middle ELSE f.first,
         len   |-> IF x < lookups[t] THEN f.len - half - 1 ELSE half,
         hit   |-> x = lookups[t]]

\* The frame of task t after it has looked at *middle: the part of v still
\* to be searched, and whether the key was hit.
Probed(t) ==
    LET f == frame[t]
        half == f.len \div 2
        middle == f.first + half
        x == v[middle]
    IN  [first |-> IF x < lookups[t] THEN middle + 1 ELSE f.first,
         len   |-> IF x < lookups[t] THEN f.len - half - 1 ELSE half,
         hit   |-> x = lookups[t]]

\* The same when t is resumed from wherever it is suspended.
Resumed(t) ==
    IF frame[t].phase = "fresh"
    THEN [first |-> frame[t].first, len |-> frame[t].len, hit |-> FALSE]
    ELSE Probed(t)

\* coroutine_handle::resume: of a handle without a live frame it is undefined.
Resume(h, place) ==
    IF Live(h) THEN running' = h /\ main' = place
               ELSE running' = Null /\ main' = "undefined"

-----------------------------------------------------------------------------
\* The queue is global: an earlier call has pushed `used' handles (N stands
\* for that many or more) and drained them, leaving stale handles behind and
\* freed frames in the allocator's list.
Init ==
    /\ v \in Arrays /\ lookups \in LookupLists /\ streams \in StreamCounts
    /\ \E used \in 0..N :
          /\ arr = [s \in Slots |-> IF s < used THEN Dangling ELSE Null]
          /\ head \in IF used = N THEN Slots ELSE {used}
          /\ cached \in IF used = 0 THEN {0} ELSE 1..used
    /\ tail = head
    /\ limit = streams
    /\ frame = [t \in Tasks |-> NoFrame]
    /\ allocCount = 0
    /\ found = 0 /\ notFound = 0
    /\ next = 1 /\ main = "loop" /\ running = Null

\* The call of CoroBinarySearch: a frame from tcalloc, the arguments copied
\* into it, and the initial suspension.
Create ==
    /\ main = "loop" /\ next <= Len(lookups)
    /\ frame' = [frame EXCEPT ![next] =
                    [phase |-> "fresh", first |-> 1, len |-> Len(v)]]
    /\ IF cached > 0
       THEN cached' = cached - 1 /\ UNCHANGED allocCount
       ELSE allocCount' = allocCount + 1 /\ UNCHANGED cached
    /\ main' = "spawn"
    /\ UNCHANGED <<args, ring, limit, answers, next, running>>

\* throttler::spawn at its limit: scheduler.pop_front().resume().  Nobody
\* looks whether the ring is empty.
SpawnThrottled ==
    /\ main = "spawn" /\ limit = 0
    /\ tail' = Succ(tail)
    /\ Resume(arr[tail], "throttled")
    /\ UNCHANGED <<args, head, arr, limit, frame, heap, answers, next>>

\* Mutant of SpawnPush: push_back leaves head where it is.
SpawnPushNoAdvance ==
    /\ running = Null
    /\ main = "throttled" \/ (main = "spawn" /\ limit # 0)
    /\ arr' = [arr EXCEPT ![head] = next]
    /\ limit' = UDec(limit)
    /\ next' = next + 1
    /\ main' = "loop"
    /\ UNCHANGED <<args, head, tail, frame, heap, answers, running>>

\* The rest of throttler::spawn, below the limit or after that resume().
SpawnPush ==
    /\ running = Null
    /\ main = "throttled" \/ (main = "spawn" /\ limit # 0)
    /\ arr' = [arr EXCEPT ![head] = next]
    /\ head' = Succ(head)
    /\ limit' = UDec(limit)
    /\ next' = next + 1
    /\ main' = "loop"
    /\ UNCHANGED <<args, tail, frame, heap, answers, running>>

LoopEnd ==
    /\ main = "loop" /\ next > Len(lookups)
    /\ main' = "run"
    /\ UNCHANGED <<args, ring, limit, frame, heap, answers, next, running>>

\* Mutant of RunPop: pop_front in place of try_pop_front.
RunPopUnchecked ==
    /\ main \in {"run", "dtor"} /\ running = Null
    /\ arr[tail] # Null
    /\ tail' = Succ(tail)
    /\ Resume(arr[tail], main)
    /\ UNCHANGED <<args, head, arr, limit, frame, heap, answers, next>>

\* scheduler_queue::run: called by t.run() (main = "run") and again by the
\* throttler's destructor (main = "dtor").
RunPop ==
    /\ main \in {"run", "dtor"} /\ running = Null
    /\ head # tail /\ arr[tail] # Null
    /\ tail' = Succ(tail)
    /\ Resume(arr[tail], main)
    /\ UNCHANGED <<args, head, arr, limit, frame, heap, answers, next>>

\* Mutant of RunEnd: run() stops although the ring is not empty.
RunEndEarly ==
    /\ main \in {"run", "dtor"} /\ running = Null
    /\ main' = IF main = "run" THEN "dtor" ELSE "done"
    /\ UNCHANGED <<args, ring, limit, frame, heap, answers, next, running>>

\* ... until try_pop_front gives a null handle, from an empty ring or a slot.
RunEnd ==
    /\ main \in {"run", "dtor"} /\ running = Null
    /\ head = tail \/ arr[tail] = Null
    /\ tail' = IF head = tail THEN tail ELSE Succ(tail)
    /\ main' = IF main = "run" THEN "dtor" ELSE "done"
    /\ UNCHANGED <<args, head, arr, limit, frame, heap, answers, next, running>>

\* The running coroutine goes on to co_await prefetch(*middle): await_suspend
\* queues it and transfers to the front of the ring.
RunToPrefetch ==
    /\ running # Null
    /\ LET r == Resumed(running)
       IN  /\ ~r.hit /\ r.len > 0
           /\ frame' = [frame EXCEPT ![running] =
                           [phase |-> "probe", first |-> r.first, len |-> r.len]]
    /\ arr' = [arr EXCEPT ![head] = running]
    /\ head' = Succ(head)
    /\ tail' = Succ(tail)
    /\ Resume(arr'[tail], main)
    /\ UNCHANGED <<args, limit, heap, answers, next>>

\* The running coroutine answers and returns: on_found or on_not_found,
\* return_void, the frame back to tcalloc, control back to who resumed it.
RunToEnd ==
    /\ running # Null
    /\ LET r == Resumed(running)
       IN  /\ r.hit \/ r.len = 0
           /\ found' = IF r.hit THEN found + 1 ELSE found
           /\ notFound' = IF r.hit THEN notFound ELSE notFound + 1
    /\ limit' = UInc(limit)
    /\ frame' = [frame EXCEPT ![running].phase = "destroyed"]
    /\ cached' = cached + 1
    /\ running' = Null
    /\ UNCHANGED <<args, ring, allocCount, next, main>>

Next ==
    \/ Create \/ SpawnThrottled \/ SpawnPush \/ LoopEnd
    \/ RunPop \/ RunEnd \/ RunToPrefetch \/ RunToEnd

\* One thread runs the whole call and nothing in it blocks.
Spec == Init /\ [][Next]_vars /\ WF_vars(Next)

-----------------------------------------------------------------------------
\* Every variable has its type: the ring's indices stay below N, the throttle
\* within its width, the frames' ranges natural.
TypeOK ==
    /\ v \in Arrays /\ lookups \in LookupLists /\ streams \in StreamCounts
    /\ head \in Slots /\ tail \in Slots /\ arr \in [Slots -> Handles]
    /\ limit \in 0..UIntMax
    /\ frame \in [Tasks -> Frames]
    /\ cached \in Nat /\ allocCount \in Nat /\ found \in Nat /\ notFound \in Nat
    /\ next \in 1..Len(lookups) + 1
    /\ main \in {"loop", "spawn", "throttled", "run", "dtor", "done", "undefined"}
    /\ running \in Tasks \cup {Null}

\* The slots from t up to h, around the end of the ring.
Between(t, h) ==
    {s \in Slots : IF h >= t THEN t <= s /\ s < h ELSE t <= s \/ s < h}

Occupied == Between(tail, head)

\* The caller holds a task that it has not handed to the scheduler yet.
Spawning == main \in {"spawn", "throttled"}

\* The tasks that wait for a turn: live, not executing, and handed over by
\* the caller already.
Suspended ==
    {t \in Tasks : Live(t) /\ t # running /\ ~(Spawning /\ t = next)}

\* The ring between tail and head (scheduler_queue, coro_infra.h:8-32) holds
\* every suspended search exactly once and nothing else: no lookup is lost,
\* none is queued twice.
RingHoldsSuspended ==
    /\ \A s \in Occupied : arr[s] \in Suspended
    /\ \A t \in Suspended : \E s \in Occupied : arr[s] = t
    /\ \A s1, s2 \in Occupied : arr[s1] = arr[s2] => s1 = s2

\* pop_front has no emptiness check (coro_infra.h:21-25) and two of its three
\* callers make none either: still, no null, stale or destroyed handle is
\* ever resumed.
NoDeadResume == main # "undefined"

\* What CoroMultiLookup checks of itself (coro.h:41): once the scheduler has
\* run dry, found_count + not_found_count = lookups.size().
AllAnswered == main \in {"dtor", "done"} => found + notFound = Len(lookups)

\* nanotest compares the found counts of its three algorithms
\* (nanotest.cpp:136): the coroutines find what naive.h finds.
FoundIsNaive ==
    main \in {"dtor", "done"} =>
        found = Cardinality({t \in Tasks : NaiveBinarySearch(v, lookups[t])})

\* The throttle bounds memory: a call takes at most streams + 1 frames from
\* malloc (one is made before spawn waits), the rest come from the free list.
AllocsBounded == allocCount <= streams + 1

\* The abstract view of a state: a lookup is pending until its frame is gone.
Lookups == INSTANCE MultiLookup WITH
    pending <- {t \in Tasks : frame[t].phase # "destroyed"}

\* CoroMultiLookup implements MultiLookup: every lookup is answered once,
\* rightly, and eventually.
MultiLookupSpec == Lookups!Spec

\* The ring is big enough for the streams that were asked for.
StreamsFit == \A s \in StreamCounts : s < N
=============================================================================
