--------------------------- MODULE CoroLookup_proof ---------------------------
(***************************************************************************)
(* Proofs about CoroLookup for every ring size, every sorted vector, every *)
(* list of keys and every number of streams that fits in the ring.         *)
(***************************************************************************)
EXTENDS CoroLookup, SearchAlgorithms_proof, FiniteSetTheorems, TLAPS

-----------------------------------------------------------------------------
\* The inductive invariant.

\* How many slots are occupied.
Count(t, h) == IF h >= t THEN h - t ELSE h - t + N

\* Every stream is idle, queued or executing.
Budget == Count(tail, head) + limit + (IF running = Null THEN 0 ELSE 1) = streams

\* Where the caller stands says which frames exist and who may execute.
Caller ==
    /\ \A t \in Tasks :
          frame[t].phase = "none" <=> (t > next \/ (t = next /\ ~Spawning))
    /\ Spawning => next \in Tasks /\ Live(next)
    /\ main \in {"loop", "spawn"} => running = Null
    /\ main = "throttled" /\ running = Null => limit # 0
    /\ main \in {"run", "dtor", "done"} => next = Len(lookups) + 1
    /\ main \in {"dtor", "done"} => head = tail /\ running = Null

RunningLive == running # Null => Live(running) /\ ~(Spawning /\ running = next)

\* malloc'ed frames are in the free list or in use.
Heap ==
    /\ allocCount <= cached + streams - limit + (IF Spawning THEN 1 ELSE 0)
    /\ AllocsBounded

\* What is left of v for a search lies inside v, and holds the key if v does.
Window(t) ==
    /\ frame[t].first >= 1
    /\ frame[t].first + frame[t].len <= Len(v) + 1
    /\ frame[t].phase = "probe" => frame[t].len > 0
    /\ Lookups!Present(lookups[t]) =>
          \E k \in frame[t].first .. frame[t].first + frame[t].len - 1 :
              v[k] = lookups[t]
Searches == \A t \in Tasks : Live(t) => Window(t)

Destroyed == {t \in Tasks : frame[t].phase = "destroyed"}
Answers == found + notFound = Cardinality(Destroyed)

RingInv == NoDeadResume /\ RingHoldsSuspended /\ Budget /\ Caller /\ RunningLive
IInv == TypeOK /\ RingInv /\ Heap /\ Searches /\ Answers

-----------------------------------------------------------------------------
\* Arithmetic of the ring.

\* (i + 1) % N (coro_infra.h:18, 23) wraps at N and stays inside the array.
LEMMA SuccWraps ==
    ASSUME NEW i \in Slots
    PROVE  Succ(i) = (IF i + 1 = N THEN 0 ELSE i + 1) /\ Succ(i) \in Slots
  <1>1. N \in Nat \ {0} /\ i \in Nat /\ i < N
    BY NAssumption DEF Slots
  <1>2. CASE i + 1 = N
    <2>1. (i + 1) % N = 0
      BY <1>1, <1>2
    <2> QED  BY <1>1, <1>2, <2>1 DEF Succ, Slots
  <1>3. CASE i + 1 # N
    <2>1. i + 1 \in 0..N-1
      BY <1>1, <1>3
    <2>2. (i + 1) % N = i + 1
      BY <1>1, <2>1
    <2> QED  BY <1>1, <1>3, <2>1, <2>2 DEF Succ, Slots
  <1> QED  BY <1>2, <1>3

\* push_back into a ring with room to spare occupies one more slot, the one
\* at head, and does not make the ring look empty.
LEMMA PushOccupies ==
    ASSUME NEW t \in Slots, NEW h \in Slots, Count(t, h) + 1 < N
    PROVE  /\ h \notin Between(t, h)
           /\ Between(t, Succ(h)) = Between(t, h) \cup {h}
           /\ Count(t, Succ(h)) = Count(t, h) + 1
  <1>1. N \in Nat \ {0} /\ t \in Nat /\ h \in Nat /\ t < N /\ h < N
    BY NAssumption DEF Slots
  <1>2. Succ(h) = IF h + 1 = N THEN 0 ELSE h + 1
    BY SuccWraps
  <1> QED  BY <1>1, <1>2 DEF Between, Count, Slots

\* pop_front of a ring that is not empty frees exactly the slot at tail.
LEMMA PopFrees ==
    ASSUME NEW t \in Slots, NEW h \in Slots, t # h
    PROVE  /\ t \in Between(t, h)
           /\ Between(Succ(t), h) = Between(t, h) \ {t}
           /\ Count(Succ(t), h) = Count(t, h) - 1
  <1>1. N \in Nat \ {0} /\ t \in Nat /\ h \in Nat /\ t < N /\ h < N
    BY NAssumption DEF Slots
  <1>2. Succ(t) = IF t + 1 = N THEN 0 ELSE t + 1
    BY SuccWraps
  <1> QED  BY <1>1, <1>2 DEF Between, Count, Slots

\* A ring is empty exactly when it looks empty.
LEMMA CountRange ==
    ASSUME NEW t \in Slots, NEW h \in Slots
    PROVE  /\ Count(t, h) \in 0..N-1
           /\ Count(t, h) = 0 <=> t = h
           /\ t = h => Between(t, h) = {}
  BY NAssumption DEF Between, Count, Slots

-----------------------------------------------------------------------------
\* What the constants and the types give.

LEMMA ArgsFacts ==
    ASSUME TypeOK
    PROVE  /\ v \in Seq(Int) /\ Sorted(v) /\ lookups \in Seq(Int)
           /\ Tasks = 1..Len(lookups) /\ Len(lookups) \in Nat /\ Len(v) \in Nat
           /\ streams \in Nat /\ 1 <= streams /\ streams <= UIntMax
           /\ Null \notin Tasks /\ Dangling \notin Tasks
  <1>1. v \in Seq(Int) /\ Sorted(v) /\ lookups \in Seq(Int) /\ streams \in 1..UIntMax
    BY InputAssumption DEF TypeOK
  <1>2. Tasks = 1..Len(lookups) /\ Len(lookups) \in Nat /\ Len(v) \in Nat
    BY <1>1 DEF Tasks
  <1> QED  BY <1>1, <1>2, NAssumption, HandleAssumption

\* A resumed search has a narrower window, still inside v; it holds the key
\* if the old one did, unless the probe was the hit.
LEMMA ProbeNarrows ==
    ASSUME TypeOK, NEW t \in Tasks, Live(t), Window(t)
    PROVE  /\ Resumed(t).first \in Nat /\ Resumed(t).len \in Nat
           /\ Resumed(t).hit \in BOOLEAN
           /\ Resumed(t).first >= 1
           /\ Resumed(t).first + Resumed(t).len <= Len(v) + 1
           /\ Resumed(t).hit => Lookups!Present(lookups[t])
           /\ ~Resumed(t).hit /\ Lookups!Present(lookups[t]) =>
                 \E k \in Resumed(t).first .. Resumed(t).first + Resumed(t).len - 1 :
                     v[k] = lookups[t]
  <1>1. PICK lo, n : lo = frame[t].first /\ n = frame[t].len
    OBVIOUS
  <1>2. /\ lo \in Nat /\ n \in Nat /\ lo >= 1 /\ lo + n <= Len(v) + 1
        /\ v \in Seq(Int) /\ Sorted(v) /\ lookups[t] \in Int /\ Len(v) \in Nat
    BY <1>1, ArgsFacts DEF TypeOK, Frames, Tasks, Window
  <1>3. CASE frame[t].phase = "fresh"
    BY <1>1, <1>2, <1>3 DEF Resumed, Window
  <1>4. CASE frame[t].phase # "fresh"
    <2>1. n > 0
      BY <1>1, <1>2, <1>4 DEF Live, Window
    <2> DEFINE r == Round(v, lookups[t], lo, n)
    <2>2. r = Resumed(t)
      BY <1>1, <1>4 DEF Resumed, Probed, Round
    <2>3. /\ r.first \in Nat /\ r.len \in Nat /\ r.hit \in BOOLEAN
          /\ lo <= r.first /\ r.first + r.len <= lo + n
          /\ r.hit => \E k \in lo .. lo + n - 1 : k \in DOMAIN v /\ v[k] = lookups[t]
          /\ \A k \in lo .. lo + n - 1 :
                v[k] = lookups[t] /\ ~r.hit => k \in r.first .. r.first + r.len - 1
      BY <1>2, <2>1, RoundNarrows
    <2> HIDE DEF r
    <2>4. r.first >= 1 /\ r.first + r.len <= Len(v) + 1
      <3>1. \A x, y \in Nat : lo <= x /\ x + y <= lo + n => x >= 1 /\ x + y <= Len(v) + 1
        BY <1>2
      <3> QED  BY <2>3, <3>1
    <2>5. r.hit => Lookups!Present(lookups[t])
      BY <2>3 DEF Lookups!Present
    <2>6. ASSUME ~r.hit, Lookups!Present(lookups[t])
          PROVE  \E k \in r.first .. r.first + r.len - 1 : v[k] = lookups[t]
      <3>1. PICK k \in lo .. lo + n - 1 : v[k] = lookups[t]
        BY <1>1, <2>6 DEF Window
      <3>2. k \in r.first .. r.first + r.len - 1
        BY <2>3, <2>6, <3>1
      <3> QED  BY <3>1, <3>2
    <2> QED  BY <2>2, <2>3, <2>4, <2>5, <2>6
  <1> QED  BY <1>3, <1>4

-----------------------------------------------------------------------------
\* The invariant holds initially and every action preserves it.

LEMMA InitTypeOK == Init => TypeOK
  <1> SUFFICES ASSUME Init PROVE TypeOK
    OBVIOUS
  <1>1. lookups \in Seq(Int) /\ streams \in 1..UIntMax
    BY InputAssumption DEF Init
  <1>2. /\ head \in Slots /\ tail \in Slots /\ arr \in [Slots -> Handles]
        /\ cached \in Nat
    BY NAssumption DEF Init, Slots, Handles
  <1>3. frame \in [Tasks -> Frames]
    BY DEF Init, Frames, NoFrame
  <1>4. next \in 1..Len(lookups) + 1 /\ limit \in 0..UIntMax
    BY <1>1, NAssumption DEF Init
  <1> QED  BY <1>1, <1>2, <1>3, <1>4 DEF Init, TypeOK

LEMMA InitIInv ==
    ASSUME StreamsFit, Init
    PROVE  IInv
  <1>1. TypeOK
    BY InitTypeOK
  <1>2. Suspended = {} /\ Occupied = {} /\ Count(tail, head) = 0
    BY <1>1, CountRange DEF Init, TypeOK, Suspended, Live, NoFrame, Occupied
  <1>3. RingInv
    <2>1. RingHoldsSuspended
      BY <1>2 DEF RingHoldsSuspended
    <2>2. Budget
      BY <1>1, <1>2, ArgsFacts DEF Init, Budget
    <2>3. Caller
      BY <1>1, ArgsFacts DEF Init, Caller, Spawning, NoFrame, Tasks
    <2> QED  BY <2>1, <2>2, <2>3 DEF RingInv, Init, NoDeadResume, RunningLive
  <1>4. Heap
    BY <1>1, ArgsFacts DEF Heap, AllocsBounded, Init, Spawning, TypeOK
  <1>5. Searches
    BY DEF Init, Searches, Live, NoFrame
  <1>6. Answers
    <2>1. Destroyed = {}
      BY DEF Init, Destroyed, NoFrame
    <2> QED  BY <2>1, FS_EmptySet DEF Init, Answers
  <1> QED  BY <1>1, <1>3, <1>4, <1>5, <1>6 DEF IInv

\* What resuming a handle can do to the program counters.
LEMMA ResumeType ==
    ASSUME TypeOK, NEW h, NEW place \in {"throttled", "run", "dtor", "spawn", "loop"},
           Resume(h, place)
    PROVE  /\ running' \in Tasks \cup {Null}
           /\ main' \in {"loop", "spawn", "throttled", "run", "dtor", "undefined"}
  BY DEF Resume, Live

LEMMA TypeStep ==
    ASSUME IInv, [Next]_vars
    PROVE  TypeOK'
  <1> USE DEF IInv, args, ring, heap, answers
  <1>1. TypeOK
    OBVIOUS
  <1>2. /\ Tasks = 1..Len(lookups) /\ Len(lookups) \in Nat /\ Len(v) \in Nat
        /\ Succ(head) \in Slots /\ Succ(tail) \in Slots
        /\ limit \in Nat /\ UIntMax \in Nat /\ Null \notin Tasks
    BY <1>1, ArgsFacts, SuccWraps, NAssumption DEF TypeOK
  <1>3. CASE Create
    <2>1. next \in Tasks
      BY <1>1, <1>2, <1>3 DEF Create, TypeOK
    <2>2. frame' \in [Tasks -> Frames]
      BY <1>1, <1>2, <1>3, <2>1 DEF Create, TypeOK, Frames
    <2> QED  BY <1>1, <1>2, <1>3, <2>2 DEF Create, TypeOK, Tasks, Handles
  <1>4. CASE SpawnThrottled
    <2>1. running' \in Tasks \cup {Null} /\ main' \in {"loop", "spawn", "throttled", "run", "dtor", "undefined"}
      BY <1>1, <1>4, ResumeType DEF SpawnThrottled
    <2> QED  BY <1>1, <1>2, <1>4, <2>1 DEF SpawnThrottled, TypeOK, Tasks, Handles
  <1>5. CASE SpawnPush
    <2>1. next \in Tasks
      BY <1>5 DEF SpawnPush, RingInv, Caller, Spawning
    <2>2. limit' \in 0..UIntMax
      BY <1>1, <1>2, <1>5 DEF SpawnPush, UDec, TypeOK
    <2>3. next' \in 1..Len(lookups) + 1
      BY <1>2, <1>5, <2>1 DEF SpawnPush
    <2>4. arr' \in [Slots -> Handles]
      BY <1>1, <1>5, <2>1 DEF SpawnPush, TypeOK, Handles
    <2> QED  BY <1>1, <1>2, <1>5, <2>2, <2>3, <2>4 DEF SpawnPush, TypeOK, Tasks, Handles
  <1>6. CASE LoopEnd
    BY <1>1, <1>6 DEF LoopEnd, TypeOK, Tasks, Handles
  <1>7. CASE RunPop
    <2>1. running' \in Tasks \cup {Null} /\ main' \in {"loop", "spawn", "throttled", "run", "dtor", "undefined"}
      BY <1>1, <1>7, ResumeType DEF RunPop
    <2> QED  BY <1>1, <1>2, <1>7, <2>1 DEF RunPop, TypeOK, Tasks, Handles
  <1>8. CASE RunEnd
    BY <1>1, <1>2, <1>8 DEF RunEnd, TypeOK, Tasks, Handles
  <1>9. CASE RunToPrefetch
    <2>1. running \in Tasks /\ Live(running) /\ Window(running)
      BY <1>1, <1>9 DEF RunToPrefetch, TypeOK, RingInv, RunningLive, Searches
    <2>2. Resumed(running).first \in Nat /\ Resumed(running).len \in Nat
      BY <1>1, <2>1, ProbeNarrows
    <2>3. frame' \in [Tasks -> Frames]
      BY <1>1, <1>9, <2>1, <2>2 DEF RunToPrefetch, TypeOK, Frames
    <2>4. arr' \in [Slots -> Handles]
      BY <1>1, <1>9, <2>1 DEF RunToPrefetch, TypeOK, Handles
    <2>5. main' \in {main, "undefined"} /\ running' \in Tasks \cup {Null}
      BY <1>9 DEF RunToPrefetch, Resume, Live
    <2> QED  BY <1>1, <1>2, <1>9, <2>3, <2>4, <2>5 DEF RunToPrefetch, TypeOK, Tasks, Handles
  <1>10. CASE RunToEnd
    <2>1. running \in Tasks
      BY <1>1, <1>10 DEF RunToEnd, TypeOK
    <2>2. frame' \in [Tasks -> Frames]
      BY <1>1, <1>10, <2>1 DEF RunToEnd, TypeOK, Frames
    <2>3. limit' \in 0..UIntMax
      BY <1>1, <1>2, <1>10 DEF RunToEnd, UInc, TypeOK
    <2>4. found' \in Nat /\ notFound' \in Nat /\ cached' \in Nat
      BY <1>1, <1>10 DEF RunToEnd, TypeOK
    <2>5. running' = Null /\ UNCHANGED <<args, ring, allocCount, next, main>>
      BY <1>10 DEF RunToEnd
    <2> QED  BY <1>1, <2>2, <2>3, <2>4, <2>5 DEF TypeOK, Tasks, Handles
  <1>11. CASE UNCHANGED vars
    BY <1>1, <1>11 DEF vars, TypeOK, Tasks, Handles
  <1> QED  BY <1>3, <1>4, <1>5, <1>6, <1>7, <1>8, <1>9, <1>10, <1>11 DEF Next

\* The three moves of a task through the ring keep RingHoldsSuspended: it is
\* taken from the front, put at the back, or both at once.
LEMMA RingPop ==
    ASSUME TypeOK, RingHoldsSuspended, head # tail, arr' = arr,
           Occupied' = Occupied \ {tail}, Suspended' = Suspended \ {arr[tail]}
    PROVE  RingHoldsSuspended'
  <1>1. tail \in Occupied
    BY PopFrees DEF TypeOK, Occupied
  <1> QED  BY <1>1 DEF RingHoldsSuspended

LEMMA RingPush ==
    ASSUME TypeOK, RingHoldsSuspended, NEW t, t \notin Suspended,
           arr' = [arr EXCEPT ![head] = t], head \notin Occupied,
           Occupied' = Occupied \cup {head}, Suspended' = Suspended \cup {t}
    PROVE  RingHoldsSuspended'
  <1>1. arr'[head] = t /\ \A s \in Occupied : arr'[s] = arr[s]
    BY DEF TypeOK, Occupied, Between
  <1> QED  BY <1>1 DEF RingHoldsSuspended

LEMMA RingRotate ==
    ASSUME TypeOK, RingHoldsSuspended, NEW t, t \notin Suspended,
           arr' = [arr EXCEPT ![head] = t], head \notin Occupied,
           tail \in Occupied \cup {head},
           Occupied' = (Occupied \cup {head}) \ {tail},
           Suspended' = (Suspended \cup {t}) \ {arr'[tail]}
    PROVE  RingHoldsSuspended'
  <1>1. arr'[head] = t /\ \A s \in Occupied : arr'[s] = arr[s]
    BY DEF TypeOK, Occupied, Between
  <1> QED  BY <1>1 DEF RingHoldsSuspended

\* The front of a ring that is not empty is a live task, free to be resumed.
LEMMA FrontIsSuspended ==
    ASSUME TypeOK, RingHoldsSuspended, head # tail
    PROVE  /\ arr[tail] \in Suspended /\ arr[tail] \in Tasks /\ Live(arr[tail])
           /\ arr[tail] # Null
           /\ Occupied = Between(tail, head)
           /\ Between(Succ(tail), head) = Occupied \ {tail}
           /\ Count(Succ(tail), head) = Count(tail, head) - 1
           /\ Count(tail, head) > 0
  <1>1. tail \in Occupied
    BY PopFrees DEF TypeOK, Occupied
  <1>2. arr[tail] \in Suspended
    BY <1>1 DEF RingHoldsSuspended
  <1>3. Count(tail, head) > 0
    BY CountRange, NAssumption DEF TypeOK
  <1> QED  BY <1>2, <1>3, PopFrees, ArgsFacts DEF Suspended, TypeOK, Occupied

LEMMA RingStep ==
    ASSUME StreamsFit, IInv, [Next]_vars, TypeOK'
    PROVE  RingInv'
  <1> USE DEF args, ring, heap, answers
  <1>1. /\ TypeOK /\ NoDeadResume /\ RingHoldsSuspended /\ Budget /\ Caller
        /\ RunningLive
    BY DEF IInv, RingInv
  <1>2. /\ Tasks = 1..Len(lookups) /\ Len(lookups) \in Nat /\ Null \notin Tasks
        /\ streams \in Nat /\ 1 <= streams /\ streams < N /\ N \in Nat
        /\ streams <= UIntMax /\ UIntMax \in Nat /\ limit \in Nat
        /\ head \in Slots /\ tail \in Slots /\ next \in 1..Len(lookups) + 1
    BY <1>1, ArgsFacts, NAssumption DEF TypeOK, StreamsFit
  <1>3. Count(tail, head) \in 0..N-1 /\ (Count(tail, head) = 0 <=> tail = head)
    BY <1>2, CountRange
  <1>4. CASE Create
    <2>1. next \in Tasks /\ frame[next].phase = "none"
      BY <1>1, <1>2, <1>4 DEF Create, Caller, Spawning
    <2>2. /\ \A t \in Tasks : t # next => frame'[t] = frame[t]
          /\ frame'[next].phase = "fresh" /\ Tasks' = Tasks
      BY <1>1, <1>4, <2>1 DEF Create, TypeOK, Tasks
    <2>3. Suspended' = Suspended
      BY <1>4, <2>1, <2>2 DEF Create, Suspended, Live, Spawning
    <2>4. RingHoldsSuspended'
      BY <1>1, <1>4, <2>3 DEF Create, RingHoldsSuspended, Occupied, Between, Slots
    <2>5. Budget'
      BY <1>1, <1>4 DEF Create, Budget, Count
    <2>6. Caller'
      BY <1>1, <1>2, <1>4, <2>1, <2>2 DEF Create, Caller, Spawning, Live
    <2> QED  BY <1>1, <1>4, <2>4, <2>5, <2>6 DEF Create, RingInv, NoDeadResume, RunningLive, Caller
  <1>5. CASE SpawnThrottled
    <2>1. running = Null /\ head # tail
      BY <1>1, <1>2, <1>3, <1>5 DEF SpawnThrottled, Caller, Budget
    <2>2. arr[tail] \in Suspended /\ Live(arr[tail]) /\ arr[tail] # Null /\ arr[tail] # next
      BY <1>1, <1>5, <2>1, FrontIsSuspended DEF Suspended, SpawnThrottled, Spawning
    <2>3. running' = arr[tail] /\ main' = "throttled" /\ Tasks' = Tasks
      BY <1>5, <2>2 DEF SpawnThrottled, Resume, Tasks
    <2>4. Suspended' = Suspended \ {arr[tail]}
      BY <1>2, <1>5, <2>1, <2>2, <2>3 DEF SpawnThrottled, Suspended, Live, Spawning
    <2>5. Occupied' = Occupied \ {tail} /\ Count(tail, head)' = Count(tail, head) - 1
      BY <1>1, <1>5, <2>1, FrontIsSuspended DEF SpawnThrottled, Occupied, Between, Count, Slots
    <2>6. RingHoldsSuspended'
      BY <1>1, <1>5, <2>1, <2>4, <2>5, RingPop DEF SpawnThrottled
    <2>7. Budget'
      BY <1>1, <1>2, <1>3, <1>5, <2>1, <2>2, <2>3, <2>5 DEF SpawnThrottled, Budget
    <2>8. Caller' /\ RunningLive'
      BY <1>1, <1>5, <2>2, <2>3 DEF SpawnThrottled, Caller, RunningLive, Spawning, Live
    <2> QED  BY <2>3, <2>6, <2>7, <2>8 DEF RingInv, NoDeadResume
  <1>6. CASE SpawnPush
    <2>1. /\ running = Null /\ limit # 0 /\ next \in Tasks /\ Live(next) /\ Spawning
          /\ Tasks' = Tasks
      BY <1>1, <1>6 DEF SpawnPush, Caller, Spawning, Tasks
    <2>2. Count(tail, head) + 1 < N
      BY <1>1, <1>2, <1>3, <2>1 DEF Budget
    <2>3. /\ head \notin Occupied /\ Occupied' = Occupied \cup {head}
          /\ Count(tail, head)' = Count(tail, head) + 1
      BY <1>2, <1>6, <2>2, PushOccupies, SMTT(30) DEF SpawnPush, Occupied, Between, Count, Slots
    <2>4. Suspended' = Suspended \cup {next} /\ next \notin Suspended
      BY <1>2, <1>6, <2>1 DEF SpawnPush, Suspended, Live, Spawning
    <2>5. RingHoldsSuspended'
      BY <1>1, <1>6, <2>3, <2>4, RingPush DEF SpawnPush
    <2>6. Budget'
      BY <1>1, <1>2, <1>3, <1>6, <2>1, <2>3 DEF SpawnPush, Budget, UDec
    <2>7. Caller'
      BY <1>1, <1>2, <1>6, <2>1 DEF SpawnPush, Caller, Spawning, Live
    <2> QED  BY <1>6, <2>1, <2>5, <2>6, <2>7 DEF SpawnPush, RingInv, NoDeadResume, RunningLive
  <1>7. CASE LoopEnd
    <2>1. Suspended' = Suspended /\ Tasks' = Tasks
      BY <1>7 DEF LoopEnd, Suspended, Live, Spawning, Tasks
    <2>2. RingHoldsSuspended'
      BY <1>1, <1>7, <2>1 DEF LoopEnd, RingHoldsSuspended, Occupied, Between, Slots
    <2>3. Budget' /\ RunningLive'
      BY <1>1, <1>7, <2>1 DEF LoopEnd, Budget, Count, RunningLive, Caller
    <2>4. Caller'
      BY <1>1, <1>2, <1>7, <2>1 DEF LoopEnd, Caller, Spawning
    <2> QED  BY <1>7, <2>2, <2>3, <2>4 DEF LoopEnd, RingInv, NoDeadResume
  <1>8. CASE RunPop
    <2>1. arr[tail] \in Suspended /\ Live(arr[tail]) /\ arr[tail] # Null /\ running = Null
      BY <1>1, <1>8, FrontIsSuspended DEF RunPop
    <2>2. running' = arr[tail] /\ main' = main /\ Tasks' = Tasks /\ ~Spawning
      BY <1>8, <2>1 DEF RunPop, Resume, Tasks, Spawning
    <2>3. Suspended' = Suspended \ {arr[tail]}
      BY <1>2, <1>8, <2>1, <2>2 DEF RunPop, Suspended, Live, Spawning
    <2>4. Occupied' = Occupied \ {tail} /\ Count(tail, head)' = Count(tail, head) - 1
      BY <1>1, <1>8, FrontIsSuspended DEF RunPop, Occupied, Between, Count, Slots
    <2>5. RingHoldsSuspended'
      BY <1>1, <1>8, <2>3, <2>4, RingPop DEF RunPop
    <2>6. Budget'
      BY <1>1, <1>2, <1>3, <1>8, <2>1, <2>2, <2>4 DEF RunPop, Budget
    <2>7. Caller' /\ RunningLive'
      BY <1>1, <1>8, <2>1, <2>2 DEF RunPop, Caller, RunningLive, Spawning, Live
    <2> QED  BY <1>1, <2>2, <2>5, <2>6, <2>7 DEF RingInv, NoDeadResume
  <1>9. CASE RunEnd
    <2>1. head = tail
      BY <1>1, <1>9, FrontIsSuspended DEF RunEnd
    <2>2. ring' = ring /\ Suspended' = Suspended /\ Tasks' = Tasks /\ running = Null
      BY <1>9, <2>1 DEF RunEnd, Suspended, Live, Spawning, Tasks
    <2>3. RingHoldsSuspended'
      BY <1>1, <2>2 DEF RingHoldsSuspended, Occupied, Between, Slots
    <2>4. Budget' /\ RunningLive'
      BY <1>1, <1>9, <2>2 DEF RunEnd, Budget, Count, RunningLive
    <2>5. Caller'
      BY <1>1, <1>9, <2>1, <2>2 DEF RunEnd, Caller, Spawning
    <2> QED  BY <1>9, <2>3, <2>4, <2>5 DEF RunEnd, RingInv, NoDeadResume
  <1>10. CASE RunToPrefetch
    <2>1. /\ running \in Tasks /\ Live(running) /\ ~(Spawning /\ running = next)
          /\ running \notin Suspended
      BY <1>1, <1>10 DEF RunToPrefetch, RunningLive, Live, Suspended
    <2>2. Count(tail, head) + 1 < N
      BY <1>1, <1>2, <1>3, <1>10, <2>1 DEF RunToPrefetch, Budget
    <2>3. /\ head \notin Occupied /\ Between(tail, Succ(head)) = Occupied \cup {head}
          /\ Count(tail, Succ(head)) = Count(tail, head) + 1 /\ Succ(head) \in Slots
      BY <1>2, <2>2, PushOccupies, SuccWraps DEF Occupied
    <2>4. tail # Succ(head)
      BY <1>2, <1>3, <2>3, CountRange
    <2>5. /\ tail \in Occupied \cup {head}
          /\ Between(Succ(tail), Succ(head)) = (Occupied \cup {head}) \ {tail}
          /\ Count(Succ(tail), Succ(head)) = Count(tail, head)
      BY <1>2, <1>3, <2>3, <2>4, PopFrees
    <2>6. Occupied' = (Occupied \cup {head}) \ {tail} /\ Count(tail, head)' = Count(tail, head)
      BY <1>10, <2>5 DEF RunToPrefetch, Occupied, Between, Count, Slots
    <2>7. /\ arr'[head] = running /\ \A s \in Occupied : arr'[s] = arr[s]
      BY <1>1, <1>10, <2>3 DEF RunToPrefetch, TypeOK, Occupied, Between
    <2>8. /\ arr'[tail] \in Suspended \cup {running}
          /\ Live(arr'[tail]) /\ arr'[tail] # Null /\ arr'[tail] \in Tasks
          /\ ~(Spawning /\ arr'[tail] = next)
      BY <1>1, <1>2, <2>1, <2>5, <2>7 DEF RingHoldsSuspended, Suspended
    <2>9. running' = arr'[tail] /\ main' = main /\ next' = next /\ Tasks' = Tasks
      BY <1>10, <2>8 DEF RunToPrefetch, Resume, Tasks
    <2>10. /\ \A t \in Tasks : t # running => frame'[t] = frame[t]
           /\ frame'[running].phase = "probe"
      BY <1>1, <1>10, <2>1 DEF RunToPrefetch, TypeOK
    <2>11. Suspended' = (Suspended \cup {running}) \ {arr'[tail]}
      BY <2>1, <2>8, <2>9, <2>10 DEF Suspended, Live, Spawning
    <2>12. RingHoldsSuspended'
      BY <1>1, <1>10, <2>1, <2>3, <2>5, <2>6, <2>11, RingRotate DEF RunToPrefetch
    <2>13. Budget'
      BY <1>1, <1>10, <2>6, <2>8, <2>9 DEF RunToPrefetch, Budget
    <2>14. Caller'
      BY <1>1, <1>10, <2>1, <2>8, <2>9, <2>10 DEF RunToPrefetch, Caller, Spawning, Live
    <2>15. RunningLive'
      BY <2>8, <2>9, <2>10 DEF RunningLive, Spawning, Live
    <2> QED  BY <1>1, <2>9, <2>12, <2>13, <2>14, <2>15 DEF RingInv, NoDeadResume
  <1>11. CASE RunToEnd
    <2>1. /\ running \in Tasks /\ Live(running) /\ ~(Spawning /\ running = next)
          /\ running' = Null /\ main' = main /\ next' = next /\ Tasks' = Tasks
      BY <1>1, <1>11 DEF RunToEnd, RunningLive, Live, Tasks
    <2>2. /\ \A t \in Tasks : t # running => frame'[t] = frame[t]
          /\ frame'[running].phase = "destroyed"
      BY <1>1, <1>11, <2>1 DEF RunToEnd, TypeOK, Frames
    <2>3. Suspended' = Suspended
      BY <1>2, <2>1, <2>2 DEF Suspended, Live, Spawning
    <2>4. RingHoldsSuspended'
      BY <1>1, <1>11, <2>3 DEF RunToEnd, RingHoldsSuspended, Occupied, Between, Slots
    <2>5. limit' = limit + 1
      BY <1>1, <1>2, <1>3, <1>11, <2>1 DEF RunToEnd, Budget, UInc
    <2>6. Budget'
      BY <1>1, <1>2, <1>3, <1>11, <2>1, <2>5, SMTT(30) DEF RunToEnd, Budget, Count
    <2>7. Caller'
      BY <1>1, <1>2, <1>11, <2>1, <2>2, <2>5 DEF RunToEnd, Caller, Spawning, Live
    <2> QED  BY <1>1, <2>1, <2>4, <2>6, <2>7 DEF RingInv, NoDeadResume, RunningLive
  <1>12. CASE UNCHANGED vars
    <2>1. Suspended' = Suspended /\ Occupied' = Occupied /\ Tasks' = Tasks
      BY <1>12 DEF vars, Suspended, Live, Spawning, Tasks, Occupied, Between, Slots
    <2>2. RingHoldsSuspended' /\ Budget' /\ NoDeadResume'
      BY <1>1, <1>12, <2>1 DEF vars, RingHoldsSuspended, Budget, Count, NoDeadResume
    <2>3. Caller' /\ RunningLive'
      BY <1>1, <1>12, <2>1 DEF vars, Caller, RunningLive, Spawning, Live
    <2> QED  BY <2>2, <2>3 DEF RingInv
  <1> QED  BY <1>4, <1>5, <1>6, <1>7, <1>8, <1>9, <1>10, <1>11, <1>12 DEF Next

\* A step leaves the arguments alone, so the key is present after as before.
LEMMA ArgsStay ==
    ASSUME [Next]_vars
    PROVE  v' = v /\ lookups' = lookups /\ streams' = streams /\ Tasks' = Tasks
  BY DEF Next, vars, args, Create, SpawnThrottled, SpawnPush, LoopEnd, RunPop,
         RunEnd, RunToPrefetch, RunToEnd, Tasks

LEMMA SearchesStep ==
    ASSUME IInv, [Next]_vars
    PROVE  Searches'
  <1> SUFFICES ASSUME NEW t \in Tasks, Live(t)' PROVE Window(t)'
    BY ArgsStay DEF Searches
  <1>1. TypeOK /\ v' = v /\ lookups' = lookups /\ Tasks' = Tasks
        /\ v \in Seq(Int) /\ Len(v) \in Nat
        /\ (Live(t) => Window(t))
    BY ArgsStay, ArgsFacts DEF IInv, Searches
  <1>2. CASE frame'[t] = frame[t]
    <2>1. Window(t)
      BY <1>1, <1>2 DEF Live
    <2> QED  BY <1>1, <1>2, <2>1 DEF Window, Lookups!Present
  <1>3. CASE Create /\ t = next
    <2>1. frame'[t] = [phase |-> "fresh", first |-> 1, len |-> Len(v)]
      BY <1>1, <1>3 DEF Create, TypeOK
    <2>2. Lookups!Present(lookups[t]) => \E k \in 1..Len(v) : v[k] = lookups[t]
      BY <1>1 DEF Lookups!Present
    <2> QED  BY <1>1, <2>1, <2>2 DEF Window, Lookups!Present
  <1>4. CASE RunToPrefetch /\ t = running
    <2>1. Live(t) /\ Window(t)
      BY <1>1, <1>4 DEF IInv, RingInv, RunningLive, RunToPrefetch
    <2>2. /\ ~Resumed(t).hit /\ Resumed(t).len > 0
          /\ frame'[t] = [phase |-> "probe", first |-> Resumed(t).first,
                          len |-> Resumed(t).len]
      BY <1>1, <1>4 DEF RunToPrefetch, TypeOK
    <2>3. /\ Resumed(t).first >= 1
          /\ Resumed(t).first + Resumed(t).len <= Len(v) + 1
          /\ Lookups!Present(lookups[t]) =>
                \E k \in Resumed(t).first .. Resumed(t).first + Resumed(t).len - 1 :
                    v[k] = lookups[t]
      BY <1>1, <2>1, <2>2, ProbeNarrows
    <2> QED  BY <1>1, <2>2, <2>3 DEF Window, Lookups!Present
  <1>5. \/ frame'[t] = frame[t]
        \/ Create /\ t = next
        \/ RunToPrefetch /\ t = running
    <2>1. CASE Create
      BY <1>1, <2>1 DEF Create, TypeOK
    <2>2. CASE RunToPrefetch
      BY <1>1, <2>2 DEF RunToPrefetch, TypeOK
    <2>3. CASE RunToEnd
      <3>1. CASE t = running
        BY <1>1, <2>3, <3>1 DEF RunToEnd, TypeOK, Frames, Live
      <3> QED  BY <1>1, <2>3, <3>1 DEF RunToEnd, TypeOK
    <2>4. CASE ~(Create \/ RunToPrefetch \/ RunToEnd)
      BY <2>4 DEF Next, vars, SpawnThrottled, SpawnPush, LoopEnd, RunPop, RunEnd
    <2> QED  BY <2>1, <2>2, <2>3, <2>4
  <1> QED  BY <1>2, <1>3, <1>4, <1>5

LEMMA HeapStep ==
    ASSUME StreamsFit, IInv, [Next]_vars, RingInv'
    PROVE  Heap'
  <1> USE DEF args, ring, heap, answers
  <1>1. /\ TypeOK /\ Heap /\ Budget /\ Caller /\ RunningLive /\ main' # "undefined"
    BY DEF IInv, RingInv, NoDeadResume
  <1>2. /\ streams \in Nat /\ limit \in Nat /\ cached \in Nat /\ allocCount \in Nat
        /\ streams < N /\ streams <= UIntMax /\ UIntMax \in Nat /\ N \in Nat
        /\ Count(tail, head) \in 0..N-1
    BY <1>1, ArgsFacts, NAssumption, CountRange DEF TypeOK, StreamsFit
  <1>3. streams' = streams
    BY ArgsStay
  <1>4. CASE Create
    BY <1>1, <1>2, <1>3, <1>4 DEF Create, Heap, AllocsBounded, Spawning
  <1>5. CASE SpawnPush
    <2>1. limit # 0
      BY <1>1, <1>5 DEF SpawnPush, Caller
    <2> QED  BY <1>1, <1>2, <1>3, <1>5, <2>1 DEF SpawnPush, Heap, AllocsBounded, Spawning, UDec
  <1>6. CASE RunToEnd
    <2>1. limit' = limit + 1
      BY <1>1, <1>2, <1>6 DEF RunToEnd, Budget, UInc
    <2> QED  BY <1>1, <1>2, <1>3, <1>6, <2>1 DEF RunToEnd, Heap, AllocsBounded, Spawning
  <1>7. CASE SpawnThrottled \/ LoopEnd \/ RunPop \/ RunEnd \/ RunToPrefetch \/ UNCHANGED vars
    <2>1. /\ limit' = limit /\ cached' = cached /\ allocCount' = allocCount
          /\ Spawning' = Spawning
      BY <1>1, <1>7 DEF SpawnThrottled, LoopEnd, RunPop, RunEnd, RunToPrefetch, vars,
                        Resume, Spawning
    <2> QED  BY <1>1, <1>2, <1>3, <2>1 DEF Heap, AllocsBounded
  <1> QED  BY <1>4, <1>5, <1>6, <1>7 DEF Next

\* Only the end of a search destroys a frame, and then exactly its own.
LEMMA DestroyedStep ==
    ASSUME IInv, [Next]_vars
    PROVE  IF RunToEnd
           THEN /\ running \in Tasks /\ running \notin Destroyed
                /\ Destroyed' = Destroyed \cup {running}
           ELSE /\ Destroyed' = Destroyed
                /\ found' = found /\ notFound' = notFound
  <1>1. TypeOK /\ Tasks' = Tasks /\ Caller /\ RunningLive
        /\ Tasks = 1..Len(lookups) /\ Len(lookups) \in Nat
    BY ArgsStay, ArgsFacts DEF IInv, RingInv
  <1>2. CASE RunToEnd
    <2>1. running \in Tasks /\ running \notin Destroyed
      BY <1>1, <1>2 DEF RunToEnd, RunningLive, Live, Destroyed
    <2>2. /\ frame'[running].phase = "destroyed"
          /\ \A t \in Tasks : t # running => frame'[t] = frame[t]
      BY <1>1, <1>2, <2>1 DEF RunToEnd, TypeOK, Frames
    <2> QED  BY <1>1, <1>2, <2>1, <2>2 DEF Destroyed
  <1>3. CASE RunToPrefetch
    <2>1. /\ running \in Tasks /\ running \notin Destroyed
          /\ frame'[running].phase = "probe"
          /\ \A t \in Tasks : t # running => frame'[t] = frame[t]
      BY <1>1, <1>3 DEF RunToPrefetch, RunningLive, Live, Destroyed, TypeOK
    <2>2. ~RunToEnd
      BY <1>1, <2>1 DEF RunToEnd, TypeOK, Frames, Destroyed
    <2> QED  BY <1>1, <1>3, <2>1, <2>2 DEF Destroyed, RunToPrefetch, answers
  <1>4. CASE Create
    <2>1. next \in Tasks /\ frame[next].phase = "none" /\ running = Null
      BY <1>1, <1>4 DEF Create, Caller, Spawning, TypeOK
    <2>2. /\ frame'[next].phase = "fresh"
          /\ \A t \in Tasks : t # next => frame'[t] = frame[t]
      BY <1>1, <1>4, <2>1 DEF Create, TypeOK
    <2> QED  BY <1>1, <1>4, <2>1, <2>2 DEF Destroyed, Create, RunToEnd, answers
  <1>5. CASE ~RunToEnd /\ (SpawnThrottled \/ SpawnPush \/ LoopEnd \/ RunPop \/ RunEnd \/ UNCHANGED vars)
    BY <1>1, <1>5 DEF SpawnThrottled, SpawnPush, LoopEnd, RunPop, RunEnd, vars,
                      Destroyed, answers
  <1> QED  BY <1>2, <1>3, <1>4, <1>5 DEF Next

LEMMA AnswersStep ==
    ASSUME IInv, [Next]_vars
    PROVE  Answers'
  <1>1. TypeOK /\ Answers /\ Tasks = 1..Len(lookups) /\ Len(lookups) \in Nat
    BY ArgsFacts DEF IInv
  <1>2. IsFiniteSet(Destroyed) /\ Cardinality(Destroyed) \in Nat
    <2>1. IsFiniteSet(1..Len(lookups)) /\ Destroyed \in SUBSET (1..Len(lookups))
      BY <1>1, FS_Interval DEF Destroyed
    <2>2. IsFiniteSet(Destroyed)
      BY <2>1, FS_Subset
    <2> QED  BY <2>2, FS_CardinalityType
  <1>3. CASE RunToEnd
    <2>1. Cardinality(Destroyed') = Cardinality(Destroyed) + 1
      BY <1>2, <1>3, DestroyedStep, FS_AddElement
    <2>2. found' + notFound' = found + notFound + 1
      BY <1>1, <1>3 DEF RunToEnd, TypeOK
    <2> QED  BY <1>1, <2>1, <2>2 DEF Answers
  <1>4. CASE ~RunToEnd
    BY <1>1, <1>4, DestroyedStep DEF Answers
  <1> QED  BY <1>3, <1>4

LEMMA IInvStep ==
    ASSUME StreamsFit, IInv, [Next]_vars
    PROVE  IInv'
  <1>1. TypeOK'
    BY TypeStep
  <1>2. RingInv'
    BY <1>1, RingStep
  <1> QED  BY <1>1, <1>2, HeapStep, SearchesStep, AnswersStep DEF IInv

-----------------------------------------------------------------------------
\* The theorems.

\* Ring, throttle, frames and allocator agree after every step, as long as the
\* streams fit in the ring (coro.h:27-46, coro_infra.h:8-166).
THEOREM CoroInvariant ==
    ASSUME StreamsFit
    PROVE  Spec => []IInv
  <1>1. Init => IInv
    BY InitIInv
  <1>2. IInv /\ [Next]_vars => IInv'
    BY IInvStep
  <1> QED  BY <1>1, <1>2, PTL DEF Spec

\* Every variable has its type: the indices stay in the array, the throttle
\* in its width (coro_infra.h:12-19, 147).
THEOREM CoroTypes ==
    ASSUME StreamsFit
    PROVE  Spec => []TypeOK
  <1>1. IInv => TypeOK
    BY DEF IInv
  <1> QED  BY <1>1, CoroInvariant, PTL

\* With fewer streams than slots the ring holds every suspended search exactly
\* once and nothing else (coro_infra.h:8-32).
THEOREM CoroRing ==
    ASSUME StreamsFit
    PROVE  Spec => []RingHoldsSuspended
  <1>1. IInv => RingHoldsSuspended
    BY DEF IInv, RingInv
  <1> QED  BY <1>1, CoroInvariant, PTL

\* With fewer streams than slots no null, stale or destroyed handle is ever
\* resumed, though pop_front never looks (coro_infra.h:21-25, 49, 155).
THEOREM CoroNoDeadResume ==
    ASSUME StreamsFit
    PROVE  Spec => []NoDeadResume
  <1>1. IInv => NoDeadResume
    BY DEF IInv, RingInv
  <1> QED  BY <1>1, CoroInvariant, PTL

\* A call takes at most streams + 1 frames from malloc (coro_infra.h:77-99).
THEOREM CoroAllocs ==
    ASSUME StreamsFit
    PROVE  Spec => []AllocsBounded
  <1>1. IInv => AllocsBounded
    BY DEF IInv, Heap
  <1> QED  BY <1>1, CoroInvariant, PTL

\* Once the scheduler has run dry, every lookup has its answer.
LEMMA DtorDestroyed ==
    ASSUME IInv, main \in {"dtor", "done"}
    PROVE  Destroyed = Tasks
  <1>1. /\ TypeOK /\ Caller /\ RingHoldsSuspended
        /\ Tasks = 1..Len(lookups) /\ Len(lookups) \in Nat
    BY ArgsFacts DEF IInv, RingInv
  <1>2. head = tail /\ running = Null /\ next = Len(lookups) + 1
    BY <1>1 DEF Caller
  <1>3. Suspended = {}
    BY <1>1, <1>2, CountRange DEF RingHoldsSuspended, Occupied, TypeOK
  <1>4. \A t \in Tasks : frame[t].phase = "destroyed"
    <2> SUFFICES ASSUME NEW t \in Tasks PROVE frame[t].phase = "destroyed"
      OBVIOUS
    <2>1. ~Live(t)
      BY <1>1, <1>2, <1>3, ArgsFacts DEF Suspended, Spawning
    <2>2. frame[t].phase # "none"
      BY <1>1, <1>2 DEF Caller
    <2> QED  BY <1>1, <2>1, <2>2 DEF Live, TypeOK, Frames
  <1> QED  BY <1>4 DEF Destroyed

\* The self-check of coro.h:41 never fires when the streams fit in the ring.
THEOREM CoroAllAnswered ==
    ASSUME StreamsFit
    PROVE  Spec => []AllAnswered
  <1>1. IInv => AllAnswered
    <2> SUFFICES ASSUME IInv, main \in {"dtor", "done"}
                 PROVE  found + notFound = Len(lookups)
      BY DEF AllAnswered
    <2>1. TypeOK /\ Answers /\ Tasks = 1..Len(lookups) /\ Len(lookups) \in Nat
      BY ArgsFacts DEF IInv
    <2>2. Destroyed = 1..Len(lookups)
      BY <2>1, DtorDestroyed
    <2>3. Cardinality(1..Len(lookups)) = Len(lookups)
      <3>1. 1 \in Int /\ Len(lookups) \in Int /\ (1 > Len(lookups) => Len(lookups) = 0)
        BY <2>1
      <3>2. Cardinality(1..Len(lookups)) =
              IF 1 > Len(lookups) THEN 0 ELSE Len(lookups) - 1 + 1
        BY <3>1, FS_Interval
      <3> QED  BY <2>1, <3>1, <3>2
    <2> QED  BY <2>1, <2>2, <2>3 DEF Answers
  <1> QED  BY <1>1, CoroInvariant, PTL

\* The end of a search reports whether its key is in the vector (coro.h:8-25).
LEMMA EndAnswers ==
    ASSUME IInv, RunToEnd
    PROVE  found' = IF Lookups!Present(lookups[running]) THEN found + 1 ELSE found
  <1>1. TypeOK /\ running \in Tasks /\ Live(running) /\ Window(running)
    BY DEF IInv, RingInv, RunningLive, RunToEnd, Searches, Live
  <1>2. /\ Resumed(running).hit \in BOOLEAN /\ Resumed(running).first \in Nat
        /\ Resumed(running).hit => Lookups!Present(lookups[running])
        /\ ~Resumed(running).hit /\ Lookups!Present(lookups[running]) =>
             \E k \in Resumed(running).first
                        .. Resumed(running).first + Resumed(running).len - 1 :
                 v[k] = lookups[running]
    BY <1>1, ProbeNarrows
  <1>3. Resumed(running).hit <=> Lookups!Present(lookups[running])
    BY <1>2 DEF RunToEnd
  <1> QED  BY <1>3 DEF RunToEnd

\* The keys that are in the vector.
Hits == {t \in Tasks : Lookups!Present(lookups[t])}
Counted == found = Cardinality((Tasks \ (Tasks \ Destroyed)) \cap Hits)

\* found is at every step the number of keys answered so far that are in the
\* vector, in whatever order the scheduler has run their searches.
LEMMA CoroCounts ==
    ASSUME StreamsFit
    PROVE  Spec => []Counted
  <1>1. Init => Counted
    <2> SUFFICES ASSUME Init PROVE Counted
      OBVIOUS
    <2>1. Destroyed = {}
      BY DEF Init, NoFrame, Destroyed
    <2>2. (Tasks \ (Tasks \ Destroyed)) \cap Hits = {}
      BY <2>1
    <2> QED  BY <2>2, FS_EmptySet DEF Counted, Init
  <1>2. IInv /\ Counted /\ [Next]_vars => Counted'
    <2> SUFFICES ASSUME IInv, Counted, [Next]_vars PROVE Counted'
      OBVIOUS
    <2>1. v' = v /\ lookups' = lookups /\ Tasks' = Tasks /\ Hits' = Hits
      BY ArgsStay DEF Hits, Lookups!Present
    <2>2. CASE ~RunToEnd
      BY <2>1, <2>2, DestroyedStep DEF Counted
    <2>3. CASE RunToEnd
      <3>1. /\ running \in Tasks /\ running \in Tasks \ Destroyed
            /\ Tasks \ Destroyed' = (Tasks \ Destroyed) \ {running}
        BY <2>3, DestroyedStep
      <3>2. IsFiniteSet(Tasks)
        BY ArgsFacts, FS_Interval DEF IInv
      <3>3. Cardinality((Tasks \ ((Tasks \ Destroyed) \ {running})) \cap Hits) =
               IF running \in Hits
               THEN Cardinality((Tasks \ (Tasks \ Destroyed)) \cap Hits) + 1
               ELSE Cardinality((Tasks \ (Tasks \ Destroyed)) \cap Hits)
        <4> DEFINE P == Tasks \ Destroyed
        <4>1. P \in SUBSET Tasks /\ running \in P
          BY <3>1
        <4> HIDE DEF P
        <4>2. Cardinality((Tasks \ (P \ {running})) \cap Hits) =
                 IF running \in Hits THEN Cardinality((Tasks \ P) \cap Hits) + 1
                 ELSE Cardinality((Tasks \ P) \cap Hits)
          BY <3>2, <4>1, CountAnswered
        <4> QED  BY <4>2 DEF P
      <3>4. running \in Hits <=> Lookups!Present(lookups[running])
        BY <3>1 DEF Hits
      <3> QED  BY <2>1, <2>3, <3>1, <3>3, <3>4, EndAnswers DEF Counted
    <2> QED  BY <2>2, <2>3
  <1> QED  BY <1>1, <1>2, CoroInvariant, PTL DEF Spec

\* nanotest's checksum (nanotest.cpp:136): when the scheduler has run dry, the
\* coroutines have found exactly as many keys as naive.h finds one by one.
THEOREM CoroFoundIsNaive ==
    ASSUME StreamsFit
    PROVE  Spec => []FoundIsNaive
  <1>1. IInv /\ Counted => FoundIsNaive
    <2> SUFFICES ASSUME IInv, Counted, main \in {"dtor", "done"}
                 PROVE  found = Cardinality({t \in Tasks : NaiveBinarySearch(v, lookups[t])})
      BY DEF FoundIsNaive
    <2>1. v \in Seq(Int) /\ Sorted(v) /\ \A t \in Tasks : lookups[t] \in Int
      BY ArgsFacts DEF IInv, Tasks
    <2>2. \A t \in Tasks : NaiveBinarySearch(v, lookups[t]) <=> Lookups!Present(lookups[t])
      BY <2>1, NaiveFinds DEF Lookups!Present
    <2>3. {t \in Tasks : NaiveBinarySearch(v, lookups[t])}
             = (Tasks \ (Tasks \ Destroyed)) \cap Hits
      BY <2>2, DtorDestroyed DEF Hits
    <2> QED  BY <2>3 DEF Counted
  <1> QED  BY <1>1, CoroInvariant, CoroCounts, PTL

\* Every step of the coroutines answers one lookup rightly or is a stutter of
\* MultiLookup: the safety half of the refinement, coro.h:8-25 included.
THEOREM CoroRefines ==
    ASSUME StreamsFit
    PROVE  Spec => Lookups!Init /\ [][Lookups!Next]_(Lookups!vars)
  <1>1. Init => Lookups!Init
    <2> SUFFICES ASSUME Init PROVE Lookups!Init
      OBVIOUS
    <2>1. v \in Seq(Int) /\ lookups \in Seq(Int)
      BY InitTypeOK, ArgsFacts
    <2>2. {t \in Tasks : frame[t].phase # "destroyed"} = DOMAIN lookups
      BY DEF Init, NoFrame, Tasks
    <2> QED  BY <2>1, <2>2 DEF Init, Lookups!Init
  <1>2. IInv /\ [Next]_vars => [Lookups!Next]_(Lookups!vars)
    <2> SUFFICES ASSUME IInv, [Next]_vars PROVE [Lookups!Next]_(Lookups!vars)
      OBVIOUS
    <2> DEFINE pending == {t \in Tasks : frame[t].phase # "destroyed"}
    <2>1. pending = Tasks \ Destroyed /\ pending' = Tasks \ Destroyed'
      BY ArgsStay DEF Destroyed
    <2>2. v' = v /\ lookups' = lookups
      BY ArgsStay
    <2>3. CASE ~RunToEnd
      BY <2>1, <2>2, <2>3, DestroyedStep DEF Lookups!vars
    <2>4. CASE RunToEnd
      <3>1. PICK t \in Tasks : t = running /\ t \in pending /\ pending' = pending \ {t}
        BY <2>1, <2>4, DestroyedStep
      <3>2. found' = IF Lookups!Present(lookups[t]) THEN found + 1 ELSE found
        BY <2>4, <3>1, EndAnswers
      <3>3. Lookups!Answer(t)
        BY <2>2, <3>1, <3>2 DEF Lookups!Answer
      <3>4. Lookups!Next
        BY <3>1, <3>3 DEF Lookups!Next
      <3> QED  BY <3>4
    <2> QED  BY <2>3, <2>4
  <1> QED  BY <1>1, <1>2, CoroInvariant, PTL DEF Spec
=============================================================================
