---------------------------- MODULE SmLookup_proof ----------------------------
(***************************************************************************)
(* Proofs about SmLookup for every sorted vector, every list of keys and   *)
(* every number of state machines.                                         *)
(***************************************************************************)
EXTENDS SmLookup, SearchAlgorithms_proof, TLAPS

-----------------------------------------------------------------------------
\* The inductive invariant.

\* A search that is under way has a key of its own, looks into v only, and has
\* the key in what is left if the key is in v.
Searching(k) == ~Over(f[k])
Holds(fr) ==
    Lookups!Present(lookups[fr.id]) =>
        \E k \in fr.first .. fr.first + fr.len - 1 : v[k] = lookups[fr.id]
Inside(fr) ==
    /\ fr.id \in 1..next-1 /\ fr.id <= Len(lookups)
    /\ fr.first >= 1 /\ fr.len > 0 /\ fr.first + fr.len <= Len(v) + 1
    /\ Holds(fr)
Searches == \A k \in FrameIds : Searching(k) => Inside(f[k])
Distinct == \A k, l \in FrameIds : Searching(k) /\ Searching(l) /\ f[k].id = f[l].id => k = l

\* The frames are filled from the last to the first, once, and from then on each
\* is refilled as soon as it is free; but in an empty vector no search starts.
Filled ==
    \/ Len(v) = 0 /\ pc = "loop" /\ \A k \in FrameIds : ~Searching(k)
    \/ /\ Len(v) > 0 /\ next <= streams /\ pc = "loop" /\ i = streams - next
       /\ \A k \in FrameIds : Searching(k) <=> k > i
    \/ Len(v) > 0 /\ next > streams /\ \A k \in FrameIds : Searching(k)
Turns ==
    /\ pc \in {"loop", "scan"} => Filled
    /\ pc = "scan" => next <= Len(lookups)
    /\ pc \in {"drain", "done"} => next = Len(lookups) + 1

\* A round of the drain loop without work has seen every frame over.
Drained ==
    /\ pc = "drain" => moreWork \/ \A k \in FrameIds : k < j => ~Searching(k)
    /\ pc = "done" => \A k \in FrameIds : ~Searching(k)

IInv == TypeOK /\ Searches /\ Distinct /\ Turns /\ Drained /\ NoStrayRun

\* The abstract state: the lookups that have no answer yet.
Pending == {n \in DOMAIN lookups : n >= next \/ \E k \in FrameIds : f[k].id = n /\ Searching(k)}

-----------------------------------------------------------------------------
\* One probe.

LEMMA ArgsFacts ==
    ASSUME TypeOK
    PROVE  /\ v \in Seq(Int) /\ Sorted(v) /\ lookups \in Seq(Int) /\ streams \in Nat \ {0}
           /\ Len(v) \in Nat /\ Len(lookups) \in Nat /\ DOMAIN lookups = 1..Len(lookups)
           /\ DOMAIN v = 1..Len(v) /\ i \in FrameIds /\ FrameIds = 0..streams-1
           /\ next \in Nat
  BY InputAssumption DEF TypeOK, FrameIds

\* Frame::run on a search that is under way.
LEMMA RunFacts ==
    ASSUME IInv, NEW k \in FrameIds, Searching(k)
    PROVE  /\ RunFrame(f[k]) \in Frames /\ RunFrame(f[k]).id = f[k].id
           /\ RunFrame(f[k]).state \in {"KEEP_GOING", "FOUND", "NOT_FOUND"}
           /\ RunFrame(f[k]).state = "KEEP_GOING" => Inside(RunFrame(f[k]))
           /\ RunFrame(f[k]).state = "FOUND" => Lookups!Present(lookups[f[k].id])
           /\ RunFrame(f[k]).state = "NOT_FOUND" => ~Lookups!Present(lookups[f[k].id])
  <1>1. TypeOK /\ Inside(f[k]) /\ f[k] \in Frames
    BY DEF IInv, Searches, TypeOK
  <1>2. PICK key, lo, n, id : key = lookups[id] /\ lo = f[k].first /\ n = f[k].len /\ id = f[k].id
    OBVIOUS
  <1>3. /\ key \in Int /\ lo \in Nat /\ n \in Nat /\ lo >= 1 /\ n > 0 /\ lo + n <= Len(v) + 1
        /\ v \in Seq(Int) /\ Sorted(v) /\ id \in Nat /\ Len(v) \in Nat
    BY <1>1, <1>2, ArgsFacts DEF Inside, Frames
  <1> DEFINE r == Round(v, key, lo, n)
  <1>4. /\ r.first \in Nat /\ r.len \in Nat /\ r.hit \in BOOLEAN
        /\ r.first >= 1 /\ r.first + r.len <= Len(v) + 1
        /\ r.hit => \E q \in DOMAIN v : v[q] = key
        /\ \A q \in lo .. lo + n - 1 :
              v[q] = key /\ ~r.hit => q \in r.first .. r.first + r.len - 1
    <2>1. /\ r.first \in Nat /\ r.len \in Nat /\ r.hit \in BOOLEAN
          /\ lo <= r.first /\ r.first + r.len <= lo + n
          /\ r.hit => \E q \in lo .. lo + n - 1 : q \in DOMAIN v /\ v[q] = key
          /\ \A q \in lo .. lo + n - 1 :
                v[q] = key /\ ~r.hit => q \in r.first .. r.first + r.len - 1
      BY <1>3, RoundNarrows
    <2> HIDE DEF r
    <2>2. r.first >= 1 /\ r.first + r.len <= Len(v) + 1
      BY <1>3, <2>1
    <2> QED  BY <2>1, <2>2
  <1>5. RunFrame(f[k]) = [f[k] EXCEPT !.first = r.first, !.len = r.len,
                             !.state = IF r.hit THEN "FOUND"
                                       ELSE IF r.len > 0 THEN "KEEP_GOING" ELSE "NOT_FOUND"]
    BY <1>2 DEF RunFrame
  <1> HIDE DEF r
  <1>6. PICK s \in {"KEEP_GOING", "FOUND", "NOT_FOUND"} :
           /\ s = IF r.hit THEN "FOUND" ELSE IF r.len > 0 THEN "KEEP_GOING" ELSE "NOT_FOUND"
           /\ RunFrame(f[k]) = [state |-> s, id |-> id, first |-> r.first, len |-> r.len]
    BY <1>1, <1>2, <1>5 DEF Frames
  <1>7. RunFrame(f[k]) \in Frames
    BY <1>3, <1>4, <1>6 DEF Frames
  <1>8. Lookups!Present(key) /\ ~r.hit => \E q \in r.first .. r.first + r.len - 1 : v[q] = key
    <2> SUFFICES ASSUME Lookups!Present(key), ~r.hit
                 PROVE  \E q \in r.first .. r.first + r.len - 1 : v[q] = key
      OBVIOUS
    <2>1. PICK q \in lo .. lo + n - 1 : v[q] = key
      BY <1>1, <1>2 DEF Inside, Holds
    <2>2. q \in r.first .. r.first + r.len - 1
      BY <1>4, <2>1
    <2> QED  BY <2>1, <2>2
  <1>9. r.hit => Lookups!Present(key)
    BY <1>4 DEF Lookups!Present
  <1>10. ~r.hit /\ ~(r.len > 0) => ~Lookups!Present(key)
    <2>1. r.len = 0 => r.first .. r.first + r.len - 1 = {}
      BY <1>4
    <2> QED  BY <1>4, <1>8, <2>1
  <1>11. s = "KEEP_GOING" => Inside(RunFrame(f[k]))
    BY <1>1, <1>2, <1>4, <1>6, <1>8 DEF Inside, Holds
  <1> QED  BY <1>2, <1>6, <1>7, <1>9, <1>10, <1>11

\* Frame::init with the key at next.
LEMMA InitFacts ==
    ASSUME TypeOK, next <= Len(lookups)
    PROVE  /\ InitFrame(next) \in Frames /\ InitFrame(next).id = next
           /\ Over(InitFrame(next)) <=> Len(v) = 0
           /\ next \in DOMAIN lookups
           /\ Len(v) = 0 => ~Lookups!Present(lookups[next])
           /\ InitFrame(next).first = 1 /\ InitFrame(next).len = Len(v)
           /\ Holds(InitFrame(next))
  <1>1. InitFrame(next) \in Frames
    BY ArgsFacts DEF InitFrame, Frames
  <1>2. next \in DOMAIN lookups
    BY ArgsFacts DEF TypeOK
  <1>3. Len(v) = 0 => ~Lookups!Present(lookups[next])
    BY ArgsFacts DEF Lookups!Present
  <1>4. Holds(InitFrame(next))
    <2> SUFFICES ASSUME Lookups!Present(lookups[next])
                 PROVE  \E k \in 1 .. 1 + Len(v) - 1 : v[k] = lookups[next]
      BY DEF Holds, InitFrame
    <2> QED  BY ArgsFacts DEF Lookups!Present
  <1> QED  BY <1>1, <1>2, <1>3, <1>4 DEF InitFrame, Over

LEMMA InitInv == Init => IInv
  <1> SUFFICES ASSUME Init PROVE IInv
    OBVIOUS
  <1>1. /\ v \in Seq(Int) /\ lookups \in Seq(Int) /\ streams \in Nat \ {0}
        /\ Len(lookups) \in Nat /\ Len(v) \in Nat
    BY InputAssumption DEF Init
  <1>2. \A k \in FrameIds : ~Searching(k)
    BY DEF Init, Searching, Over
  <1>3. TypeOK
    <2>1. f \in [FrameIds -> Frames] /\ i \in FrameIds /\ j \in 0..streams
      BY <1>1 DEF Init, Frames, FrameIds
    <2>2. next \in 1..Len(lookups) + 1 /\ result \in Nat
      BY <1>1 DEF Init
    <2> QED  BY <2>1, <2>2 DEF Init, TypeOK
  <1>4. Turns
    <2>1. \A k \in FrameIds : ~(k > i)
      BY <1>1 DEF Init, FrameIds
    <2>2. next <= streams /\ i = streams - next
      BY <1>1 DEF Init
    <2> QED  BY <1>1, <1>2, <2>1, <2>2 DEF Init, Turns, Filled
  <1> QED  BY <1>2, <1>3, <1>4 DEF Init, IInv, Searches, Distinct, Drained, NoStrayRun

-----------------------------------------------------------------------------
\* What a step does to the answers.

StepMaps == [Lookups!Next]_(Lookups!vars)

LEMMA Stutters ==
    ASSUME UNCHANGED args, Pending' = Pending, result' = result
    PROVE  StepMaps
  BY DEF StepMaps, Pending, Searching, Lookups!vars, args

LEMMA Answers ==
    ASSUME UNCHANGED args, NEW n \in Pending, Pending' = Pending \ {n},
           result' = IF Lookups!Present(lookups[n]) THEN result + 1 ELSE result
    PROVE  StepMaps
  <1>1. Lookups!Answer(n)
    BY DEF Lookups!Answer, Pending, Searching, args
  <1> QED  BY <1>1 DEF StepMaps, Lookups!Next, Pending, Searching

\* A frame that changes leaves the other searches as they are.
LEMMA OtherFrames ==
    ASSUME IInv, NEW k \in FrameIds, NEW g \in Frames, f' = [f EXCEPT ![k] = g],
           UNCHANGED args
    PROVE  /\ f'[k] = g /\ f' \in [FrameIds' -> Frames] /\ FrameIds' = FrameIds
           /\ (Searching(k)' <=> ~Over(g))
           /\ \A q \in FrameIds : q # k => f'[q] = f[q] /\ (Searching(q)' <=> Searching(q))
  BY DEF IInv, TypeOK, args, FrameIds, Searching, Over

\* Inside does not depend on where the loop is, only on what it has begun.
LEMMA InsideStays ==
    ASSUME TypeOK, NEW fr \in Frames, Inside(fr), UNCHANGED args, next' \in {next, next + 1}
    PROVE  Inside(fr)'
  <1>1. next \in Nat /\ fr.id \in Nat /\ fr.id \in 1..next-1 /\ fr.id <= Len(lookups)
    BY ArgsFacts DEF Inside, Frames
  <1>2. fr.id \in 1..next'-1
    BY <1>1
  <1>3. Holds(fr)'
    BY DEF Inside, Holds, Lookups!Present, args
  <1> QED  BY <1>1, <1>2, <1>3 DEF Inside, args

LEMMA PrevFacts ==
    ASSUME TypeOK
    PROVE  Prev(i) \in FrameIds /\ (i > 0 => Prev(i) = i - 1) /\ (i = 0 => Prev(i) = streams - 1)
  BY ArgsFacts DEF Prev, FrameIds

-----------------------------------------------------------------------------
\* The steps.

LEMMA LoopInitStep == ASSUME IInv, LoopInit PROVE IInv' /\ StepMaps
  <1>1. TypeOK /\ Searches /\ Distinct /\ Filled
    BY DEF IInv, Turns, LoopInit
  <1>2. /\ pc = "loop" /\ next <= Len(lookups) /\ ~Searching(i) /\ next' = next + 1
        /\ i' = Prev(i) /\ UNCHANGED <<args, result, pc, drain>>
    BY DEF LoopInit, Searching
  <1>3. PICK g \in Frames : /\ f' = [f EXCEPT ![i] = g] /\ g.id = next
                            /\ Over(g) <=> Len(v) = 0
                            /\ g.first = 1 /\ g.len = Len(v) /\ Holds(g)
    BY <1>1, <1>2, InitFacts DEF LoopInit
  <1>4. PICK k \in FrameIds : k = i
    BY <1>1, ArgsFacts
  <1>5. /\ f'[k] = g /\ f' \in [FrameIds' -> Frames] /\ FrameIds' = FrameIds
        /\ (Searching(k)' <=> ~Over(g))
        /\ \A q \in FrameIds : q # k => f'[q] = f[q] /\ (Searching(q)' <=> Searching(q))
    BY <1>2, <1>3, <1>4, OtherFrames
  <1>6. TypeOK'
    <2>1. next' \in 1..Len(lookups)' + 1 /\ i' \in FrameIds'
      BY <1>1, <1>2, <1>5, ArgsFacts, PrevFacts DEF args, TypeOK
    <2> QED  BY <1>1, <1>2, <1>5, <2>1 DEF TypeOK, args, drain
  <1>7. Searches'
    <2> SUFFICES ASSUME NEW q \in FrameIds, Searching(q)' PROVE Inside(f[q])'
      BY <1>5 DEF Searches
    <2>1. CASE q = k
      <3>1. Len(v) > 0 /\ next \in Nat /\ next >= 1 /\ Len(v) \in Nat /\ Len(lookups) \in Nat
        BY <1>1, <1>3, <1>5, <2>1, ArgsFacts DEF TypeOK
      <3>2. Holds(g)'
        BY <1>2, <1>3 DEF Holds, Lookups!Present, args
      <3> QED  BY <1>2, <1>3, <1>5, <2>1, <3>1, <3>2 DEF Inside, args, Holds
    <2>2. CASE q # k
      <3>1. f'[q] = f[q] /\ Inside(f[q]) /\ f[q] \in Frames
        BY <1>1, <1>5, <2>2 DEF Searches, TypeOK
      <3>2. PICK fr \in Frames : fr = f[q] /\ Inside(fr)
        BY <3>1
      <3>3. Inside(fr)'
        BY <1>1, <1>2, <3>2, InsideStays
      <3> QED  BY <3>1, <3>2, <3>3 DEF Inside, Holds
    <2> QED  BY <2>1, <2>2
  <1>8. \A q \in FrameIds : Searching(q) => f[q].id # next /\ f[q].id < next
    BY <1>1, ArgsFacts, SMTT(30) DEF Searches, Inside
  <1>9. Distinct'
    <2> SUFFICES ASSUME NEW q \in FrameIds, NEW l \in FrameIds, Searching(q)', Searching(l)',
                        f'[q].id = f'[l].id
                 PROVE  q = l
      BY <1>5 DEF Distinct
    <2> QED  BY <1>1, <1>3, <1>5, <1>8 DEF Distinct
  <1>10. Filled'
    <2>1. CASE Len(v) = 0
      BY <1>1, <1>2, <1>3, <1>4, <1>5, <2>1 DEF Filled, args
    <2>2. CASE Len(v) > 0
      <3>1. /\ next <= streams /\ i = streams - next /\ streams \in Nat /\ next \in Nat
            /\ \A q \in FrameIds : Searching(q) <=> q > i
        BY <1>1, <1>2, <1>4, <2>2, ArgsFacts DEF Filled
      <3>2. \A q \in FrameIds : q \in Int /\ (Searching(q)' <=> q > i - 1)
        BY <1>3, <1>4, <1>5, <2>2, <3>1 DEF FrameIds
      <3>3. CASE i = 0
        BY <1>2, <1>5, <2>2, <3>1, <3>2, <3>3 DEF Filled, args, FrameIds
      <3>4. CASE i > 0
        <4>1. i' = i - 1
          BY <1>1, <1>2, <3>4, PrevFacts
        <4> QED  BY <1>2, <1>5, <2>2, <3>1, <3>2, <3>4, <4>1 DEF Filled, args
      <3> QED  BY <1>1, <3>3, <3>4, ArgsFacts
    <2> QED  BY <1>1, <2>1, <2>2, ArgsFacts
  <1>11. IInv'
    BY <1>2, <1>6, <1>7, <1>9, <1>10 DEF IInv, Turns, Drained, NoStrayRun
  <1>12. StepMaps
    <2>1. /\ lookups' = lookups /\ next \in DOMAIN lookups /\ next \in Nat
          /\ DOMAIN lookups = 1..Len(lookups) /\ Len(lookups) \in Nat
      BY <1>1, <1>2, ArgsFacts, InitFacts DEF args
    <2>2. CASE Len(v) = 0
      <3>1. \A q \in FrameIds : ~Searching(q) /\ ~Searching(q)'
        BY <1>1, <1>3, <1>4, <1>5, <2>2 DEF Filled
      <3>2. next \in Pending /\ Pending' = Pending \ {next}
        BY <1>2, <1>5, <2>1, <3>1 DEF Pending
      <3>3. ~Lookups!Present(lookups[next])
        BY <1>1, <1>2, <2>2, InitFacts
      <3>4. PICK n : n = next
        OBVIOUS
      <3> QED  BY <1>2, <3>2, <3>3, <3>4, Answers
    <2>3. CASE Len(v) > 0
      <3>1. Searching(k)'
        BY <1>3, <1>5, <2>3
      <3>2. ~Searching(k)
        BY <1>2, <1>4
      <3>3. ASSUME NEW n \in DOMAIN lookups PROVE n \in Pending' <=> n \in Pending
        <4>1. n \in Pending' <=> n >= next + 1 \/ \E q \in FrameIds : f'[q].id = n /\ Searching(q)'
          BY <1>2, <1>5, <2>1 DEF Pending
        <4>2. n \in Pending <=> n >= next \/ \E q \in FrameIds : f[q].id = n /\ Searching(q)
          BY DEF Pending
        <4>3. (\E q \in FrameIds : f'[q].id = n /\ Searching(q)')
                 <=> n = next \/ \E q \in FrameIds : f[q].id = n /\ Searching(q)
          BY <1>3, <1>5, <3>1, <3>2
        <4> QED  BY <2>1, <4>1, <4>2, <4>3
      <3>4. Pending' = Pending
        BY <2>1, <3>3 DEF Pending
      <3> QED  BY <1>2, <3>4, Stutters
    <2> QED  BY <1>1, <2>2, <2>3, ArgsFacts
  <1> QED  BY <1>11, <1>12

\* Scanning begins only once all frames are under way.
LEMMA AllSearch ==
    ASSUME IInv, Scanning
    PROVE  /\ pc \in {"loop", "scan"} /\ Len(v) > 0 /\ next > streams /\ next <= Len(lookups)
           /\ \A k \in FrameIds : Searching(k)
  <1>1. TypeOK /\ Turns /\ pc \in {"loop", "scan"} /\ Filled /\ next <= Len(lookups)
    BY DEF IInv, Turns, Scanning
  <1>2. i \in FrameIds /\ i \in Int
    BY <1>1, ArgsFacts
  <1>3. pc = "scan" \/ Searching(i)
    BY DEF Scanning, Searching
  <1> QED  BY <1>1, <1>2, <1>3 DEF Filled

\* A probe of one search: it stays with its key, and an end of it answers that key.
LEMMA ProbeStep ==
    ASSUME IInv, NEW k \in FrameIds, Searching(k), f' = [f EXCEPT ![k] = RunFrame(f[k])],
           result' = result + Score(RunFrame(f[k])), UNCHANGED <<args, next>>
    PROVE  /\ f' \in [FrameIds' -> Frames] /\ FrameIds' = FrameIds /\ result' \in Nat
           /\ Searching(k)' <=> ~Over(RunFrame(f[k]))
           /\ \A q \in FrameIds : q # k => f'[q] = f[q] /\ (Searching(q)' <=> Searching(q))
           /\ Searches' /\ Distinct' /\ StepMaps
  <1>1. TypeOK /\ Searches /\ Distinct /\ Inside(f[k]) /\ f[k] \in Frames
    BY DEF IInv, Searches, TypeOK
  <1>2. PICK g \in Frames :
           /\ g = RunFrame(f[k]) /\ g.id = f[k].id
           /\ g.state \in {"KEEP_GOING", "FOUND", "NOT_FOUND"}
           /\ g.state = "KEEP_GOING" => Inside(g)
           /\ g.state = "FOUND" => Lookups!Present(lookups[f[k].id])
           /\ g.state = "NOT_FOUND" => ~Lookups!Present(lookups[f[k].id])
    BY RunFacts
  <1>3. /\ f'[k] = g /\ f' \in [FrameIds' -> Frames] /\ FrameIds' = FrameIds
        /\ (Searching(k)' <=> ~Over(g))
        /\ \A q \in FrameIds : q # k => f'[q] = f[q] /\ (Searching(q)' <=> Searching(q))
    BY <1>2, OtherFrames
  <1>4. result' \in Nat
    BY <1>1 DEF TypeOK, Score
  <1>5. Searches'
    <2> SUFFICES ASSUME NEW q \in FrameIds, Searching(q)' PROVE Inside(f[q])'
      BY <1>3 DEF Searches
    <2>1. PICK fr \in Frames : fr = f'[q] /\ Inside(fr)
      <3>1. CASE q = k
        BY <1>2, <1>3, <3>1 DEF Over
      <3>2. CASE q # k
        BY <1>1, <1>3, <3>2 DEF Searches, TypeOK
      <3> QED  BY <3>1, <3>2
    <2>2. Inside(fr)'
      BY <1>1, <2>1, InsideStays
    <2> QED  BY <2>1, <2>2 DEF Inside, Holds
  <1>6. \A q \in FrameIds : f'[q].id = f[q].id /\ (Searching(q)' => Searching(q))
    BY <1>2, <1>3
  <1>7. Distinct'
    BY <1>1, <1>3, <1>6 DEF Distinct
  <1>8. StepMaps
    <2>1. lookups' = lookups /\ next' = next
      BY DEF args
    <2>2. Pending' = {n \in DOMAIN lookups :
                        n >= next \/ \E q \in FrameIds : f'[q].id = n /\ Searching(q)'}
      BY <1>3, <2>1 DEF Pending
    <2>3. CASE ~Over(g)
      <3>1. \A q \in FrameIds : Searching(q)' <=> Searching(q)
        BY <1>3, <2>3
      <3>2. Pending' = Pending
        BY <1>6, <2>2, <3>1 DEF Pending
      <3>3. result' = result
        BY <1>1, <1>2, <2>3 DEF TypeOK, Score, Over
      <3> QED  BY <3>2, <3>3, Stutters
    <2>4. CASE Over(g)
      <3>1. PICK n : n = f[k].id
        OBVIOUS
      <3>2. n \in DOMAIN lookups /\ n \in Nat /\ ~(n >= next)
        BY <1>1, <3>1, ArgsFacts, SMTT(30) DEF Inside, Frames
      <3>3. n \in Pending
        BY <3>1, <3>2 DEF Pending
      <3>4. \A q \in FrameIds : Searching(q)' => f[q].id # n
        BY <1>1, <1>3, <2>4, <3>1 DEF Distinct
      <3>5. \A q \in FrameIds : Searching(q) /\ f[q].id # n => Searching(q)'
        BY <1>3, <3>1
      <3>6. Pending' = Pending \ {n}
        BY <1>6, <2>2, <3>2, <3>4, <3>5 DEF Pending
      <3>7. result' = IF Lookups!Present(lookups[n]) THEN result + 1 ELSE result
        BY <1>1, <1>2, <2>4, <3>1 DEF TypeOK, Score, Over
      <3> QED  BY <3>3, <3>6, <3>7, Answers
    <2> QED  BY <2>3, <2>4
  <1> QED  BY <1>2, <1>3, <1>4, <1>5, <1>7, <1>8

LEMMA ScanStepStep == ASSUME IInv, ScanStep PROVE IInv' /\ StepMaps
  <1>1. /\ TypeOK /\ pc \in {"loop", "scan"} /\ Len(v) > 0 /\ next > streams
        /\ next <= Len(lookups) /\ \A q \in FrameIds : Searching(q)
    BY AllSearch DEF IInv, ScanStep
  <1>2. PICK k \in FrameIds : k = i
    BY <1>1, ArgsFacts
  <1>3. /\ ~Over(RunFrame(f[k])) /\ f' = [f EXCEPT ![k] = RunFrame(f[k])] /\ i' = Prev(i)
        /\ pc' = "scan" /\ UNCHANGED <<args, next, result, drain>>
    BY <1>1, <1>2 DEF ScanStep, Searching
  <1>4. result' = result + Score(RunFrame(f[k]))
    BY <1>1, <1>3 DEF Over, Score, TypeOK
  <1>5. /\ f' \in [FrameIds' -> Frames] /\ FrameIds' = FrameIds /\ result' \in Nat
        /\ Searching(k)' <=> ~Over(RunFrame(f[k]))
        /\ \A q \in FrameIds : q # k => f'[q] = f[q] /\ (Searching(q)' <=> Searching(q))
        /\ Searches' /\ Distinct' /\ StepMaps
    BY <1>1, <1>3, <1>4, ProbeStep
  <1>6. TypeOK'
    <2>1. i' \in FrameIds'
      BY <1>1, <1>3, <1>5, PrevFacts
    <2> QED  BY <1>1, <1>3, <1>5, <2>1 DEF TypeOK, args, drain
  <1>7. Turns'
    <2>1. \A q \in FrameIds : Searching(q)'
      BY <1>1, <1>3, <1>5
    <2> QED  BY <1>1, <1>3, <1>5, <2>1 DEF Turns, Filled, args
  <1> QED  BY <1>3, <1>5, <1>6, <1>7 DEF IInv, Drained, NoStrayRun

LEMMA ScanDoneStep == ASSUME IInv, ScanDone PROVE IInv' /\ StepMaps
  <1>1. /\ TypeOK /\ Searches /\ Distinct /\ Len(v) > 0 /\ next > streams
        /\ next <= Len(lookups) /\ \A q \in FrameIds : Searching(q)
    BY AllSearch DEF IInv, ScanDone
  <1>2. PICK k \in FrameIds : k = i
    BY <1>1, ArgsFacts
  <1>3. /\ Over(RunFrame(f[k])) /\ i' = Prev(i) /\ next' = next + 1 /\ pc' = "loop"
        /\ result' = result + Score(RunFrame(f[k])) /\ UNCHANGED <<args, drain>>
    BY <1>2 DEF ScanDone
  <1>4. PICK g \in Frames : /\ f' = [f EXCEPT ![k] = g] /\ g.id = next /\ ~Over(g)
                            /\ g.first = 1 /\ g.len = Len(v) /\ Holds(g)
    <2>1. /\ InitFrame(next) \in Frames /\ InitFrame(next).id = next /\ ~Over(InitFrame(next))
          /\ InitFrame(next).first = 1 /\ InitFrame(next).len = Len(v) /\ Holds(InitFrame(next))
      BY <1>1, InitFacts
    <2>2. f' = [f EXCEPT ![k] = InitFrame(next)]
      BY <1>2 DEF ScanDone
    <2> QED  BY <2>1, <2>2
  <1>5. /\ f'[k] = g /\ f' \in [FrameIds' -> Frames] /\ FrameIds' = FrameIds
        /\ (Searching(k)' <=> ~Over(g))
        /\ \A q \in FrameIds : q # k => f'[q] = f[q] /\ (Searching(q)' <=> Searching(q))
    BY <1>3, <1>4, OtherFrames
  <1>6. TypeOK'
    <2>1. next' \in 1..Len(lookups)' + 1 /\ i' \in FrameIds'
      BY <1>1, <1>3, <1>5, ArgsFacts, PrevFacts DEF args, TypeOK
    <2>2. result' \in Nat
      BY <1>1, <1>3 DEF TypeOK, Score
    <2> QED  BY <1>1, <1>3, <1>5, <2>1, <2>2 DEF TypeOK, args, drain
  <1>7. Searches'
    <2> SUFFICES ASSUME NEW q \in FrameIds PROVE Inside(f[q])'
      BY <1>5 DEF Searches
    <2>1. CASE q = k
      <3>1. next \in Nat /\ next >= 1 /\ Len(v) \in Nat /\ Len(lookups) \in Nat
        BY <1>1, ArgsFacts DEF TypeOK
      <3>2. Holds(g)'
        BY <1>3, <1>4 DEF Holds, Lookups!Present, args
      <3> QED  BY <1>1, <1>3, <1>4, <1>5, <2>1, <3>1, <3>2 DEF Inside, args, Holds
    <2>2. CASE q # k
      <3>1. PICK fr \in Frames : fr = f[q] /\ f'[q] = fr /\ Inside(fr)
        BY <1>1, <1>5, <2>2 DEF Searches, TypeOK
      <3>2. Inside(fr)'
        BY <1>1, <1>3, <3>1, InsideStays
      <3> QED  BY <3>1, <3>2 DEF Inside, Holds
    <2> QED  BY <2>1, <2>2
  <1>8. \A q \in FrameIds : f[q].id # next /\ f[q].id < next /\ f[q].id \in 1..Len(lookups)
    <2> SUFFICES ASSUME NEW q \in FrameIds
                 PROVE  f[q].id # next /\ f[q].id < next /\ f[q].id \in 1..Len(lookups)
      OBVIOUS
    <2>1. f[q].id \in 1..next-1 /\ f[q].id <= Len(lookups) /\ next \in Nat /\ Len(lookups) \in Nat
      BY <1>1, ArgsFacts DEF Searches, Inside
    <2> QED  BY <2>1
  <1>9. \A q \in FrameIds : Searching(q)'
    BY <1>1, <1>4, <1>5
  <1>10. Distinct'
    <2> SUFFICES ASSUME NEW q \in FrameIds, NEW l \in FrameIds, f'[q].id = f'[l].id
                 PROVE  q = l
      BY <1>5 DEF Distinct
    <2> QED  BY <1>1, <1>4, <1>5, <1>8 DEF Distinct
  <1>11. Turns'
    <2>1. next \in Nat /\ streams \in Nat
      BY <1>1, ArgsFacts
    <2> QED  BY <1>1, <1>3, <1>5, <1>9, <2>1 DEF Turns, Filled, args
  <1>12. IInv'
    BY <1>3, <1>6, <1>7, <1>10, <1>11 DEF IInv, Drained, NoStrayRun
  <1>13. StepMaps
    <2>1. PICK n : n = f[k].id
      OBVIOUS
    <2>2. /\ lookups' = lookups /\ next \in Nat /\ n \in DOMAIN lookups /\ n \in Nat /\ n < next
          /\ DOMAIN lookups = 1..Len(lookups) /\ Len(lookups) \in Nat
      BY <1>1, <1>3, <1>8, <2>1, ArgsFacts, SMTT(30) DEF args
    <2>3. n \in Pending
      BY <1>1, <2>1, <2>2 DEF Pending
    <2>4. ASSUME NEW m \in DOMAIN lookups PROVE m \in Pending' <=> m \in Pending /\ m # n
      <3>1. m \in Pending' <=> m >= next + 1 \/ \E q \in FrameIds : f'[q].id = m
        BY <1>3, <1>5, <1>9, <2>2 DEF Pending
      <3>2. m \in Pending <=> m >= next \/ \E q \in FrameIds : f[q].id = m
        BY <1>1 DEF Pending
      <3>3. (\E q \in FrameIds : f'[q].id = m)
               <=> m = next \/ \E q \in FrameIds : q # k /\ f[q].id = m
        BY <1>4, <1>5
      <3>4. (\E q \in FrameIds : q # k /\ f[q].id = m)
               <=> m # n /\ \E q \in FrameIds : f[q].id = m
        BY <1>1, <2>1 DEF Distinct
      <3> QED  BY <2>2, <3>1, <3>2, <3>3, <3>4
    <2>5. Pending' = Pending \ {n}
      BY <2>2, <2>4 DEF Pending
    <2>6. result' = IF Lookups!Present(lookups[n]) THEN result + 1 ELSE result
      <3>1. /\ RunFrame(f[k]).state \in {"KEEP_GOING", "FOUND", "NOT_FOUND"}
            /\ RunFrame(f[k]).state = "FOUND" => Lookups!Present(lookups[n])
            /\ RunFrame(f[k]).state = "NOT_FOUND" => ~Lookups!Present(lookups[n])
        BY <1>1, <2>1, RunFacts
      <3> QED  BY <1>1, <1>3, <3>1 DEF Score, Over, TypeOK
    <2> QED  BY <1>3, <2>3, <2>5, <2>6, Answers
  <1> QED  BY <1>12, <1>13

LEMMA LoopEndStep == ASSUME IInv, LoopEnd PROVE IInv' /\ StepMaps
  <1>1. /\ TypeOK /\ pc = "loop" /\ next > Len(lookups) /\ pc' = "drain" /\ j' = 0
        /\ moreWork' = FALSE /\ UNCHANGED <<args, f, i, next, result>>
    BY DEF IInv, LoopEnd
  <1>2. FrameIds' = FrameIds /\ streams' = streams /\ lookups' = lookups
    BY <1>1 DEF FrameIds, args
  <1>3. TypeOK'
    <2>1. /\ v' = v /\ lookups' = lookups /\ streams' = streams /\ f' = f /\ i' = i
          /\ next' = next /\ result' = result /\ 0 \in 0..streams
      BY <1>1, ArgsFacts DEF args
    <2> QED  BY <1>1, <1>2, <2>1 DEF TypeOK
  <1>4. Searches' /\ Distinct'
    BY <1>1, <1>2 DEF IInv, Searches, Distinct, Searching, Inside, Holds, Lookups!Present, args
  <1>5. Turns'
    BY <1>1, <1>2, ArgsFacts DEF Turns, TypeOK
  <1>6. Drained'
    BY <1>1, <1>2, ArgsFacts DEF Drained
  <1>7. IInv'
    BY <1>1, <1>3, <1>4, <1>5, <1>6 DEF IInv, NoStrayRun
  <1>8. Pending' = Pending
    BY <1>1, <1>2 DEF Pending, Searching
  <1> QED  BY <1>1, <1>7, <1>8, Stutters

LEMMA DrainFrameStep == ASSUME IInv, DrainFrame PROVE IInv' /\ StepMaps
  <1>1. /\ TypeOK /\ Searches /\ Distinct /\ Turns /\ Drained /\ pc = "drain" /\ j < streams
        /\ j' = j + 1 /\ UNCHANGED <<args, i, next, pc>>
    BY DEF IInv, DrainFrame
  <1>2. PICK k \in FrameIds : k = j
    BY <1>1, ArgsFacts DEF TypeOK
  <1>3. FrameIds' = FrameIds /\ j' \in 0..streams' /\ \A q \in FrameIds : q \in Nat
    BY <1>1, <1>2, ArgsFacts DEF FrameIds, args
  <1>4. CASE Over(f[k])
    <2>1. UNCHANGED <<f, result, moreWork>>
      BY <1>2, <1>4 DEF DrainFrame
    <2>2. TypeOK'
      BY <1>1, <1>3, <2>1 DEF TypeOK, args
    <2>3. Searches' /\ Distinct'
      BY <1>1, <1>3, <2>1 DEF Searches, Distinct, Searching, Inside, Holds, Lookups!Present, args
    <2>4. \A q \in FrameIds : Searching(q)' <=> Searching(q)
      BY <2>1 DEF Searching
    <2>5. Drained'
      <3>1. moreWork \/ \A q \in FrameIds : q < j + 1 => ~Searching(q)
        BY <1>1, <1>2, <1>3, <1>4 DEF Drained, Searching
      <3> QED  BY <1>1, <1>3, <2>1, <2>4, <3>1 DEF Drained
    <2>6. Turns'
      BY <1>1 DEF Turns, args
    <2>7. Pending' = Pending
      BY <1>1, <1>3, <2>1 DEF Pending, Searching, args
    <2> QED  BY <1>1, <2>1, <2>2, <2>3, <2>5, <2>6, <2>7, Stutters DEF IInv, NoStrayRun
  <1>5. CASE ~Over(f[k])
    <2>1. /\ moreWork' = TRUE /\ f' = [f EXCEPT ![k] = RunFrame(f[k])]
          /\ result' = result + Score(RunFrame(f[k])) /\ Searching(k)
      BY <1>2, <1>5 DEF DrainFrame, Searching
    <2>2. /\ f' \in [FrameIds' -> Frames] /\ FrameIds' = FrameIds /\ result' \in Nat
          /\ Searches' /\ Distinct' /\ StepMaps
      BY <1>1, <2>1, ProbeStep
    <2>3. TypeOK'
      BY <1>1, <1>3, <2>1, <2>2 DEF TypeOK, args
    <2>4. Turns' /\ Drained'
      BY <1>1, <2>1 DEF Turns, Drained, args
    <2> QED  BY <1>1, <2>2, <2>3, <2>4 DEF IInv, NoStrayRun
  <1> QED  BY <1>4, <1>5

LEMMA DrainRoundStep == ASSUME IInv, DrainRound PROVE IInv' /\ StepMaps
  <1>1. /\ TypeOK /\ Turns /\ Drained /\ pc = "drain" /\ j = streams /\ moreWork' = FALSE
        /\ \/ moreWork /\ j' = 0 /\ pc' = "drain"
           \/ ~moreWork /\ j' = j /\ pc' = "done"
        /\ UNCHANGED <<args, f, i, next, result>>
    BY DEF IInv, DrainRound
  <1>2. /\ FrameIds' = FrameIds /\ streams' = streams /\ lookups' = lookups
        /\ streams \in Nat /\ \A q \in FrameIds : q \in Nat /\ q < streams /\ ~(q < 0)
    BY <1>1, ArgsFacts DEF FrameIds, args
  <1>3. TypeOK'
    <2>1. /\ v' = v /\ lookups' = lookups /\ streams' = streams /\ f' = f /\ i' = i
          /\ next' = next /\ result' = result /\ j' \in 0..streams
          /\ pc' \in {"drain", "done"}
      BY <1>1, <1>2 DEF args
    <2> QED  BY <1>1, <1>2, <2>1 DEF TypeOK
  <1>4. Searches' /\ Distinct'
    BY <1>1, <1>2 DEF IInv, Searches, Distinct, Searching, Inside, Holds, Lookups!Present, args
  <1>5. \A q \in FrameIds : Searching(q)' <=> Searching(q)
    BY <1>1 DEF Searching
  <1>6. Turns' /\ Drained'
    BY <1>1, <1>2, <1>5 DEF Turns, Drained
  <1>7. IInv'
    BY <1>1, <1>3, <1>4, <1>6 DEF IInv, NoStrayRun
  <1>8. Pending' = Pending
    BY <1>1, <1>2 DEF Pending, Searching
  <1> QED  BY <1>1, <1>7, <1>8, Stutters

LEMMA StutterStep == ASSUME IInv, UNCHANGED vars PROVE IInv' /\ StepMaps
  <1>1. FrameIds' = FrameIds
    BY DEF vars, args, FrameIds
  <1>2. TypeOK'
    BY <1>1 DEF IInv, TypeOK, vars, args, drain
  <1>3. Searches' /\ Distinct'
    BY <1>1 DEF IInv, Searches, Distinct, Searching, Inside, Holds, Lookups!Present, vars, args
  <1>4. Turns' /\ Drained'
    BY <1>1 DEF IInv, Turns, Filled, Drained, Searching, vars, args, drain
  <1>5. Pending' = Pending
    BY <1>1 DEF Pending, Searching, vars, args
  <1> QED  BY <1>2, <1>3, <1>4, <1>5, Stutters DEF IInv, NoStrayRun, vars

LEMMA Steps == IInv /\ [Next]_vars => IInv' /\ StepMaps
  BY LoopInitStep, ScanStepStep, ScanDoneStep, LoopEndStep, DrainFrameStep, DrainRoundStep,
     StutterStep DEF Next

-----------------------------------------------------------------------------
\* The theorems.

\* The frames are filled and refilled in the order of the scan, no two of them
\* search for the same key, and none loses its key (sm.h:52-120).
THEOREM SmInvariant == Spec => []IInv
  <1>1. IInv /\ [Next]_vars => IInv'
    BY Steps
  <1> QED  BY InitInv, <1>1, PTL DEF Spec

\* Types, and i and j index the vector of frames.
THEOREM SmTypes == Spec => []TypeOK
  <1>1. IInv => TypeOK
    BY DEF IInv
  <1> QED  BY SmInvariant, <1>1, PTL

\* The scan of sm.h:92-102 runs no frame that is EMPTY or over.
THEOREM SmNoStrayRun == Spec => []NoStrayRun
  <1>1. IInv => NoStrayRun
    BY DEF IInv
  <1> QED  BY SmInvariant, <1>1, PTL

\* At the return every key has been answered: the drain loop leaves none behind.
THEOREM SmAllAnswered == Spec => [](pc = "done" => Pending = {})
  <1>1. IInv => (pc = "done" => Pending = {})
    <2> SUFFICES ASSUME IInv, pc = "done" PROVE Pending = {}
      OBVIOUS
    <2>1. next = Len(lookups) + 1 /\ \A k \in FrameIds : ~Searching(k)
      BY DEF IInv, Turns, Drained
    <2> QED  BY <2>1, ArgsFacts DEF IInv, Pending
  <1> QED  BY SmInvariant, <1>1, PTL

\* The keys that are in the vector.
Hits == {n \in DOMAIN lookups : Lookups!Present(lookups[n])}
Counted == result = Cardinality((DOMAIN lookups \ Pending) \cap Hits)

\* result is at every step the number of keys answered so far that are in the
\* vector, whatever part of its frames the loop has drained.
LEMMA SmCounts == Spec => []Counted
  <1>1. Init => Counted
    <2> SUFFICES ASSUME Init PROVE Counted
      OBVIOUS
    <2>1. IInv
      BY InitInv
    <2>2. \A n \in DOMAIN lookups : n >= next
      BY <2>1, ArgsFacts DEF Init, IInv
    <2>3. (DOMAIN lookups \ Pending) \cap Hits = {}
      BY <2>2 DEF Pending
    <2> QED  BY <2>3, FS_EmptySet DEF Counted, Init
  <1>2. IInv /\ Counted /\ [Next]_vars => Counted'
    <2> SUFFICES ASSUME IInv, Counted, [Next]_vars PROVE Counted'
      OBVIOUS
    <2>1. StepMaps
      BY Steps
    <2>2. CASE UNCHANGED Lookups!vars
      <3>1. lookups' = lookups /\ v' = v /\ result' = result /\ Pending' = Pending
        BY <2>2 DEF Lookups!vars, Pending, Searching
      <3> QED  BY <3>1 DEF Counted, Hits, Lookups!Present
    <2>3. ASSUME NEW n \in Pending, Lookups!Answer(n) PROVE Counted'
      <3>1. /\ lookups' = lookups /\ v' = v /\ Pending' = Pending \ {n}
            /\ result' = IF Lookups!Present(lookups[n]) THEN result + 1 ELSE result
        BY <2>3 DEF Lookups!Answer, Pending, Searching
      <3>2. Hits' = Hits /\ n \in DOMAIN lookups /\ Pending \subseteq DOMAIN lookups
        BY <3>1 DEF Hits, Lookups!Present, Pending
      <3>3. IsFiniteSet(DOMAIN lookups)
        BY ArgsFacts, FS_Interval DEF IInv
      <3>4. Cardinality((DOMAIN lookups \ (Pending \ {n})) \cap Hits) =
               IF n \in Hits THEN Cardinality((DOMAIN lookups \ Pending) \cap Hits) + 1
               ELSE Cardinality((DOMAIN lookups \ Pending) \cap Hits)
        BY <3>2, <3>3, CountAnswered
      <3>5. n \in Hits <=> Lookups!Present(lookups[n])
        BY <3>2 DEF Hits
      <3> QED  BY <3>1, <3>2, <3>4, <3>5 DEF Counted
    <2> QED  BY <2>1, <2>2, <2>3 DEF StepMaps, Lookups!Next, Pending, Searching
  <1> QED  BY SmInvariant, <1>1, <1>2, PTL DEF Spec

\* nanotest's checksum (nanotest.cpp:136): when the state machines return, they
\* have found exactly as many keys as naive.h finds one by one.
THEOREM SmResultIsNaive == Spec => []ResultIsNaive
  <1>1. IInv /\ (pc = "done" => Pending = {}) /\ Counted => ResultIsNaive
    <2> SUFFICES ASSUME IInv, pc = "done", Pending = {}, Counted
                 PROVE  result = Cardinality({n \in DOMAIN lookups :
                                                 NaiveBinarySearch(v, lookups[n])})
      BY DEF ResultIsNaive
    <2>1. /\ v \in Seq(Int) /\ Sorted(v)
          /\ \A n \in DOMAIN lookups : lookups[n] \in Int
      BY ArgsFacts DEF IInv
    <2>2. \A n \in DOMAIN lookups :
             NaiveBinarySearch(v, lookups[n]) <=> Lookups!Present(lookups[n])
      BY <2>1, NaiveFinds DEF Lookups!Present
    <2>3. {n \in DOMAIN lookups : NaiveBinarySearch(v, lookups[n])}
             = (DOMAIN lookups \ Pending) \cap Hits
      BY <2>2 DEF Hits
    <2> QED  BY <2>3 DEF Counted
  <1> QED  BY SmInvariant, SmAllAnswered, SmCounts, <1>1, PTL

\* SmMultiLookup implements the safety part of MultiLookup: it answers every key
\* at most once, and counts exactly those that are in the vector.
THEOREM SmRefines == Spec => Lookups!Init /\ [][Lookups!Next]_(Lookups!vars)
  <1>1. Init => Lookups!Init
    <2> SUFFICES ASSUME Init PROVE Lookups!Init
      OBVIOUS
    <2>1. /\ lookups \in Seq(Int) /\ v \in Seq(Int) /\ next = 1 /\ result = 0
      BY InputAssumption DEF Init
    <2>2. \A n \in DOMAIN lookups : n >= next
      <3>1. Len(lookups) \in Nat /\ DOMAIN lookups = 1..Len(lookups)
        BY <2>1
      <3> QED  BY <2>1, <3>1
    <2> QED  BY <2>1, <2>2 DEF Lookups!Init
  <1>2. IInv /\ [Next]_vars => [Lookups!Next]_(Lookups!vars)
    BY Steps DEF StepMaps
  <1> QED  BY SmInvariant, <1>1, <1>2, PTL DEF Spec
=============================================================================
