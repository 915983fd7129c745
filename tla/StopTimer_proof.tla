---------------------------- MODULE StopTimer_proof ----------------------------
(***************************************************************************)
(* Proofs about StopTimer: for every interval, every point at which the    *)
(* io_context is stopped, and however often the library moves a handler,   *)
(* the coroutine is resumed once per suspension.                           *)
(***************************************************************************)
EXTENDS StopTimer, TLAPS

-----------------------------------------------------------------------------
\* The inductive invariant.

\* All Callbacks but the one in slot o are empty or gone.
OthersEmpty(o) == \A s \in Slots : s # o => cb[s] \in {None, Null}

\* The suspension that is due to be resumed belongs to one Callback: the one that
\* the timer's wait has, or the one that is about to be called.
OneCallback ==
    /\ frame \in {"running", "ended"} => OthersEmpty(0) /\ holder = 0
    /\ frame = "launching" => holder # 0
    /\ holder # 0 =>
          /\ frame \in {"launching", "suspended"}
          /\ cb[holder] = waits /\ OthersEmpty(holder)
    /\ frame = "suspended" /\ holder = 0 =>
          /\ calling # 0 /\ ~called
          /\ cb[calling] = waits /\ OthersEmpty(calling)
    /\ calling # 0 /\ ~called => frame = "suspended" /\ holder = 0
    /\ calling # 0 /\ called => cb[calling] = Null
    /\ calling # 0 => ~stopped /\ main = "run"
    /\ frame # "running" /\ frame # "ended" => waits > 0
    /\ frame \in {"running", "ended"} => calling = 0 \/ called

\* Once the io_context is stopped nothing is under way, and after that only the
\* destructor of the handler in its queue is: it leaves a coroutine that ends.
AfterStop ==
    /\ main # "run" => stopped
    /\ stopped /\ main \notin {"io", "ended"} => Idle
    /\ main \in {"io", "ended"} =>
          /\ frame = "ended" \/ (frame = "running" /\ ec = "aborted")
          /\ \A s \in Slots : cb[s] = None \/ cb[s] = Null

IInv == TypeOK /\ OneCallback /\ AfterStop /\ ~undefined

LEMMA SlotNumbers == Slots = 1..MaxMoves+3 /\ 0 \notin Slots /\ MaxMoves \in Nat
  BY StopTimerAssumption DEF Slots

LEMMA InitInv == Init => IInv
  <1> SUFFICES ASSUME Init PROVE IInv
    OBVIOUS
  <1>1. TypeOK
    <2>1. cb \in [Slots -> Int]
      BY DEF Init, None
    <2>2. /\ now \in 0..MaxTime /\ due \in Nat /\ waits \in Nat /\ moves \in 0..MaxMoves
          /\ holder \in 0..MaxMoves+3 /\ calling \in 0..MaxMoves+3
      BY StopTimerAssumption DEF Init
    <2> QED  BY <2>1, <2>2 DEF Init, TypeOK
  <1>2. OneCallback /\ AfterStop /\ ~undefined
    BY DEF Init, OneCallback, OthersEmpty, AfterStop
  <1> QED  BY <1>1, <1>2 DEF IInv

-----------------------------------------------------------------------------
\* The steps.

LEMMA StepInv == IInv /\ [Next]_vars => IInv'
  <1> SUFFICES ASSUME IInv, [Next]_vars PROVE IInv'
    OBVIOUS
  <1> USE SlotNumbers DEF choice, objects, None, Null
  <1>1. TypeOK /\ OneCallback /\ AfterStop /\ ~undefined
    BY DEF IInv
  <1>2. ASSUME NEW s \in Slots, Wait(s)
        PROVE  IInv'
    <2>1. /\ frame = "running" /\ ec = "ok" /\ holder = 0 /\ main = "run" /\ ~stopped
          /\ cb[s] = None /\ OthersEmpty(0) /\ waits \in Nat /\ cb \in [Slots -> Int]
      BY <1>1, <1>2 DEF Wait, Free, TypeOK, OneCallback, AfterStop, Idle
    <2>2. s # calling
      BY <1>1, <2>1 DEF OneCallback
    <2>3. TypeOK'
      BY <1>1, <1>2, <2>1 DEF Wait, TypeOK
    <2>4. /\ cb'[s] = waits' /\ OthersEmpty(s)' /\ holder' = s /\ s # 0
          /\ (calling # 0 => cb'[calling] = cb[calling])
      BY <1>1, <1>2, <2>1, <2>2 DEF Wait, OthersEmpty, TypeOK
    <2>5. OneCallback'
      BY <1>1, <1>2, <2>1, <2>4 DEF Wait, OneCallback, TypeOK
    <2> QED  BY <1>1, <1>2, <2>1, <2>3, <2>5 DEF Wait, IInv, AfterStop, Idle
  <1>3. ASSUME NEW s \in Slots, Move(s)
        PROVE  IInv'
    <2>1. /\ frame = "launching" /\ holder \in Slots /\ cb[holder] = waits /\ OthersEmpty(holder)
          /\ cb[s] = None /\ cb \in [Slots -> Int] /\ waits > 0 /\ waits \in Nat
          /\ main = "run" /\ ~stopped
      BY <1>1, <1>3 DEF Move, Free, TypeOK, OneCallback, AfterStop, Idle
    <2>2. s # calling /\ s # holder /\ calling # holder
      BY <1>1, <2>1 DEF OneCallback, OthersEmpty, TypeOK
    <2>3. TypeOK'
      BY <1>1, <1>3, <2>1 DEF Move, MovedFrom, TypeOK
    <2>4. /\ cb'[s] = waits /\ OthersEmpty(s)' /\ holder' = s /\ s # 0
          /\ (calling # 0 => cb'[calling] = cb[calling])
      BY <1>1, <1>3, <2>1, <2>2 DEF Move, MovedFrom, OthersEmpty, TypeOK
    <2>5. OneCallback'
      BY <1>1, <1>3, <2>1, <2>4 DEF Move, OneCallback, TypeOK
    <2> QED  BY <1>1, <1>3, <2>1, <2>3, <2>5 DEF Move, IInv, AfterStop, Idle
  <1>4. ASSUME NEW s \in Slots, DestroyTemporary(s)
        PROVE  IInv'
    <2>1. cb[s] = Null /\ s # holder /\ s # calling /\ cb \in [Slots -> Int]
      BY <1>1, <1>4 DEF DestroyTemporary, Temporary, TypeOK, OneCallback, OthersEmpty
    <2>2. /\ cb' = [cb EXCEPT ![s] = None]
          /\ UNCHANGED <<ec, frame, undefined, choice, main, now, due, stopped, waits, holder,
                         moves, calling, called>>
      BY <1>4, <2>1 DEF DestroyTemporary, Destructor
    <2>3. TypeOK'
      BY <1>1, <2>2 DEF TypeOK
    <2>4. /\ \A o : OthersEmpty(o) => OthersEmpty(o)'
          /\ holder # 0 => cb'[holder] = cb[holder]
          /\ calling # 0 => cb'[calling] = cb[calling]
      BY <1>1, <2>1, <2>2 DEF OthersEmpty, TypeOK
    <2>5. OneCallback'
      BY <1>1, <2>2, <2>4 DEF OneCallback
    <2>6. AfterStop'
      BY <1>1, <2>1, <2>2 DEF AfterStop, Idle, Temporary
    <2> QED  BY <1>1, <2>2, <2>3, <2>5, <2>6 DEF IInv
  <1>5. ASSUME NEW s \in Slots, TakeTimer(s)
        PROVE  IInv'
    <2>1. /\ frame = "suspended" /\ holder \in Slots /\ cb[holder] = waits /\ OthersEmpty(holder)
          /\ cb[s] = None /\ s # holder /\ s # 0 /\ calling = 0 /\ cb \in [Slots -> Int]
          /\ main = "run" /\ ~stopped /\ waits > 0 /\ waits \in Nat
      BY <1>1, <1>5 DEF TakeTimer, Running, Idle, Free, TypeOK, OneCallback
    <2>2. TypeOK'
      <3>1. cb' \in [Slots -> Int]
        <4>1. cb[holder] \in Int /\ 0 \in Int
          BY <2>1
        <4> QED  BY <1>5, <2>1, <4>1 DEF TakeTimer, MovedFrom
      <3>2. 0 \in 0..MaxMoves+3 /\ s \in 0..MaxMoves+3
        BY SlotNumbers
      <3>3. holder' = 0 /\ calling' = s /\ called' = FALSE
        BY <1>5 DEF TakeTimer
      <3> QED  BY <1>1, <1>5, <3>1, <3>2, <3>3 DEF TakeTimer, TypeOK
    <2>3. /\ cb'[s] = waits /\ OthersEmpty(s)' /\ calling' = s /\ holder' = 0 /\ ~called'
      BY <1>5, <2>1 DEF TakeTimer, MovedFrom, OthersEmpty
    <2>4. OneCallback'
      BY <1>5, <2>1, <2>3 DEF TakeTimer, OneCallback
    <2> QED  BY <1>1, <1>5, <2>1, <2>2, <2>4 DEF TakeTimer, IInv, AfterStop
  <1>6. CASE Call
    <2>1. /\ frame = "suspended" /\ holder = 0 /\ calling \in Slots /\ cb[calling] = waits
          /\ OthersEmpty(calling) /\ ~stopped /\ main = "run" /\ cb \in [Slots -> Int]
      BY <1>1, <1>6 DEF Call, TypeOK, OneCallback
    <2>2. frame' = "running" /\ undefined' = undefined
      BY <1>6, <2>1 DEF Call, Resume
    <2>3. TypeOK'
      BY <1>1, <1>6, <2>2 DEF Call, TypeOK
    <2>4. OthersEmpty(0)' /\ cb'[calling] = Null
      BY <1>6, <2>1 DEF Call, OthersEmpty
    <2>5. OneCallback'
      BY <1>1, <1>6, <2>1, <2>2, <2>4 DEF Call, OneCallback
    <2> QED  BY <1>1, <1>6, <2>1, <2>2, <2>3, <2>5 DEF Call, IInv, AfterStop
  <1>7. CASE Returned
    <2>1. /\ calling \in Slots /\ called /\ frame \in {"suspended", "ended"} /\ ~stopped
          /\ main = "run" /\ cb[calling] = Null /\ calling # holder /\ cb \in [Slots -> Int]
      <3>1. calling \in Slots /\ called /\ cb[calling] = Null /\ ~stopped /\ main = "run"
        BY <1>1, <1>7 DEF Returned, TypeOK, OneCallback
      <3>2. calling # holder
        BY <1>1, <1>7, <3>1 DEF Returned, TypeOK, OneCallback
      <3> QED  BY <1>1, <1>7, <3>1, <3>2 DEF Returned, TypeOK
    <2>2. /\ cb' = [cb EXCEPT ![calling] = None] /\ calling' = 0
          /\ UNCHANGED <<ec, frame, undefined, choice, main, now, due, stopped, waits, holder,
                         moves, called>>
      BY <1>7, <2>1 DEF Returned, Destructor
    <2>3. TypeOK'
      <3>1. cb' \in [Slots -> Int] /\ calling' \in 0..MaxMoves+3
        BY <2>1, <2>2
      <3> QED  BY <1>1, <2>2, <3>1 DEF TypeOK
    <2>4. /\ \A o : OthersEmpty(o) => OthersEmpty(o)'
          /\ holder # 0 => cb'[holder] = cb[holder]
      BY <1>1, <2>1, <2>2 DEF OthersEmpty, TypeOK
    <2>5. OneCallback'
      BY <1>1, <2>1, <2>2, <2>4 DEF OneCallback
    <2> QED  BY <1>1, <2>1, <2>2, <2>3, <2>5 DEF IInv, AfterStop
  <1>8. CASE DestroyIo
    <2>1. Idle /\ stopped /\ calling = 0 /\ cb \in [Slots -> Int]
      BY <1>1, <1>8 DEF DestroyIo, AfterStop, Idle, TypeOK
    <2>2. CASE holder # 0
      <3>1. frame = "suspended" /\ cb[holder] = waits /\ waits > 0 /\ OthersEmpty(holder) /\ holder \in Slots
        BY <1>1, <2>1, <2>2 DEF OneCallback, Idle, TypeOK
      <3>2. /\ frame' = "running" /\ undefined' = undefined /\ ec' = "aborted"
            /\ cb' = [cb EXCEPT ![holder] = None] /\ holder' = 0 /\ main' = "io"
        BY <1>8, <2>2, <3>1 DEF DestroyIo, Destructor, Resume
      <3>3. TypeOK'
        <4>0. -1 \in Int
          OBVIOUS
        <4>1. cb' \in [Slots -> Int]
          BY <2>1, <3>1, <3>2, <4>0
        <4>2. 0 \in 0..MaxMoves+3
          BY SlotNumbers
        <4> QED  BY <1>1, <1>8, <3>2, <4>1, <4>2 DEF DestroyIo, TypeOK
      <3>4. OthersEmpty(0)'
        BY <2>1, <3>1, <3>2 DEF OthersEmpty
      <3>5. OneCallback' /\ AfterStop'
        BY <1>8, <2>1, <3>2, <3>4 DEF DestroyIo, OneCallback, AfterStop, OthersEmpty
      <3> QED  BY <1>1, <3>2, <3>3, <3>5 DEF IInv
    <2>3. CASE holder = 0
      <3>1. frame = "ended" /\ OthersEmpty(0)
        BY <1>1, <2>1, <2>3 DEF OneCallback, Idle
      <3>2. UNCHANGED <<cb, ec, frame, undefined>> /\ holder' = 0 /\ main' = "io"
        BY <1>8, <2>3 DEF DestroyIo
      <3>3. TypeOK'
        BY <1>1, <1>8, <3>2 DEF DestroyIo, TypeOK
      <3>4. OthersEmpty(0)' /\ \A k \in Slots : cb'[k] = None \/ cb'[k] = Null
        BY <3>1, <3>2 DEF OthersEmpty
      <3>5. OneCallback' /\ AfterStop'
        BY <1>8, <2>1, <3>1, <3>2, <3>4 DEF DestroyIo, OneCallback, AfterStop
      <3> QED  BY <1>1, <3>2, <3>3, <3>5 DEF IInv
    <2> QED  BY <2>2, <2>3
  <1>9. CASE Catch
    <2>1. TypeOK' /\ OneCallback'
      BY <1>1, <1>9 DEF Catch, TypeOK, OneCallback, OthersEmpty
    <2>2. AfterStop'
      BY <1>1, <1>9 DEF Catch, AfterStop, Idle, Temporary
    <2> QED  BY <1>1, <1>9, <2>1, <2>2 DEF Catch, IInv
  <1>10. CASE Launched
    <2>1. TypeOK'
      BY <1>1, <1>10, StopTimerAssumption DEF Launched, TypeOK
    <2>2. OneCallback'
      BY <1>1, <1>10 DEF Launched, OneCallback, OthersEmpty
    <2>3. AfterStop'
      BY <1>1, <1>10 DEF Launched, AfterStop, Idle, Temporary
    <2> QED  BY <1>1, <1>10, <2>1, <2>2, <2>3 DEF Launched, IInv
  <1>11. CASE TimePasses \/ TakeFastTimer \/ LeaveRun \/ DestroyTimer \/ LeaveScope
    <2>1. UNCHANGED <<frame, ec, waits, objects, undefined>>
      BY <1>11 DEF TimePasses, TakeFastTimer, LeaveRun, DestroyTimer, LeaveScope
    <2>2. TypeOK'
      <3>1. /\ UNCHANGED <<choice, due>> /\ stopped' \in BOOLEAN
            /\ main' \in {"run", "left", "timer", "io", "ended"}
        BY <1>1, <1>11 DEF TimePasses, TakeFastTimer, LeaveRun, DestroyTimer, LeaveScope, TypeOK
      <3>2. now' \in 0..MaxTime
        BY <1>1, <1>11, StopTimerAssumption
           DEF TimePasses, TakeFastTimer, LeaveRun, DestroyTimer, LeaveScope, TypeOK
      <3> QED  BY <1>1, <2>1, <3>1, <3>2 DEF TypeOK
    <2>3. OneCallback'
      BY <1>1, <1>11, <2>1 DEF TimePasses, TakeFastTimer, LeaveRun, DestroyTimer, LeaveScope,
             Running, Idle, OneCallback, OthersEmpty, AfterStop
    <2>4. AfterStop'
      BY <1>1, <1>11, <2>1 DEF TimePasses, TakeFastTimer, LeaveRun, DestroyTimer, LeaveScope,
             Running, Idle, AfterStop, Temporary
    <2> QED  BY <1>1, <2>1, <2>2, <2>3, <2>4 DEF IInv
  <1>12. CASE UNCHANGED vars
    BY <1>1, <1>12 DEF vars, IInv, TypeOK, OneCallback, OthersEmpty, AfterStop, Idle, Temporary
  <1> QED  BY <1>2, <1>3, <1>4, <1>5, <1>6, <1>7, <1>8, <1>9, <1>10, <1>11, <1>12 DEF Next

-----------------------------------------------------------------------------
\* The theorems.

\* One Callback at most has the coroutine, through every move and destruction.
THEOREM StopInvariant == Spec => []IInv
  BY InitInv, StepInv, PTL DEF Spec

\* Each suspension of the coroutine is resumed at most once, never after its end
\* and never with a dead timer, however often its handler is moved
\* (stop1.cpp:29-49, 66-84).
THEOREM StopResumedOnce == Spec => []ResumedOnce
  <1>1. IInv => ResumedOnce
    BY DEF IInv, ResumedOnce
  <1> QED  BY <1>1, StopInvariant, PTL
================================================================================
