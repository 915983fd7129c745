------------------------------ MODULE StopTimer ------------------------------
(***************************************************************************)
(* 2017_CppCon/live/stop1.cpp: a coroutine awaits a timer again and again  *)
(* until another timer stops the io_context, and main destroys everything. *)
(* The handler of a wait, a Callback, has the coroutine.  It resumes it    *)
(* when it is called, and also when it is destroyed without a call.        *)
(*                                                                         *)
(* The library moves handlers as it likes, so the Callback objects are     *)
(* modelled one by one; of the library, only what the program uses.        *)
(***************************************************************************)
EXTENDS Integers

CONSTANTS
    Intervals,  \* the d of better_async_wait
    StopAfter,  \* when fast_timer expires
    MaxTime,    \* bounds the time
    MaxMoves    \* bounds how often a Callback is moved on its way to the timer

ASSUME StopTimerAssumption ==
    /\ Intervals \subseteq Nat \ {0} /\ StopAfter \subseteq 1..MaxTime
    /\ MaxTime \in Nat /\ MaxMoves \in Nat

VARIABLES
    interval, stopAfter,
    main,     \* "run", "left" run(), "timer" is gone, "io" goes, "ended"
    now, due, \* the time, and when timer expires
    stopped,  \* io.stop() was called
    frame,    \* noisy_clock: "running", "launching" a wait, "suspended", "ended"
    waits,    \* how often it has suspended
    ec,       \* the awaiter's ec
    cb,       \* the Callbacks: no object, or the suspension that its coro is for
    holder,   \* the Callback that the timer's wait has, or 0
    moves,    \* how often it was moved since it was made
    calling,  \* the Callback that run() has taken for a call, or 0
    called,   \* and whether it has called it
    undefined \* a coroutine was resumed that is not suspended, or a dead timer used

choice == <<interval, stopAfter>>
objects == <<cb, holder, moves, calling, called>>
vars == <<choice, main, now, due, stopped, frame, waits, ec, objects, undefined>>

Slots == 1..MaxMoves+3
None == -1  \* no object
Null == 0   \* coro == nullptr

Init ==
    /\ interval \in Intervals /\ stopAfter \in StopAfter
    /\ main = "run" /\ now = 0 /\ due = 0 /\ stopped = FALSE
    /\ frame = "running" /\ waits = 0 /\ ec = "ok"
    /\ cb = [s \in Slots |-> None] /\ holder = 0 /\ moves = 0
    /\ calling = 0 /\ called = FALSE
    /\ undefined = FALSE

Free(s) == cb[s] = None
Temporary(s) == cb[s] # None /\ s \notin {holder, calling}

\* coro.resume(), for a handle that was given out at suspension k.
Resume(k) ==
    IF frame = "suspended" /\ k = waits
    THEN frame' = "running" /\ UNCHANGED undefined
    ELSE undefined' = TRUE /\ UNCHANGED frame

-----------------------------------------------------------------------------
\* Callback.

\* Mutants of the next two: a move that copies, and the handler of async_wait in
\* await_adapters.h, which has no destructor.
MoveCopies(s) == cb[s]
DestroyQuietly(s) == cb' = [cb EXCEPT ![s] = None] /\ UNCHANGED <<ec, frame, undefined>>

\* What Callback(Callback&&) leaves behind.
MovedFrom(s) == Null

\* ~Callback.
Destructor(s) ==
    /\ cb' = [cb EXCEPT ![s] = None]
    /\ IF cb[s] # Null
       THEN ec' = "aborted" /\ Resume(cb[s])
       ELSE UNCHANGED <<ec, frame, undefined>>

\* Mutant of Call: coro = {} is missing.
CallAgain ==
    /\ calling # 0 /\ ~called /\ \A s \in Slots : ~Temporary(s)
    /\ called' = TRUE /\ ec' = "ok"
    /\ Resume(cb[calling])
    /\ UNCHANGED <<choice, main, now, due, stopped, waits, cb, holder, moves, calling>>

\* operator(): the coroutine goes on inside of it.
Call ==
    /\ calling # 0 /\ ~called /\ \A s \in Slots : ~Temporary(s)
    /\ called' = TRUE /\ ec' = "ok"
    /\ cb' = [cb EXCEPT ![calling] = Null]
    /\ Resume(cb[calling])
    /\ UNCHANGED <<choice, main, now, due, stopped, waits, holder, moves, calling>>

-----------------------------------------------------------------------------
\* noisy_clock.

\* co_await better_async_wait: a Callback is made.  timer must still exist.
Wait(s) ==
    /\ frame = "running" /\ ec = "ok" /\ Free(s)
    /\ frame' = "launching" /\ waits' = waits + 1
    /\ cb' = [cb EXCEPT ![s] = waits + 1]
    /\ holder' = s /\ moves' = 0
    /\ undefined' = (undefined \/ main \in {"timer", "io"})
    /\ UNCHANGED <<choice, main, now, due, stopped, ec, calling, called>>

\* await_resume throws, noisy_clock catches, prints and returns.
Catch ==
    /\ frame = "running" /\ ec = "aborted"
    /\ frame' = "ended"
    /\ UNCHANGED <<choice, main, now, due, stopped, waits, ec, objects, undefined>>

\* async_wait moves the Callback ...
Move(s) ==
    /\ frame = "launching" /\ moves < MaxMoves /\ Free(s)
    /\ cb' = [cb EXCEPT ![s] = cb[holder], ![holder] = MovedFrom(holder)]
    /\ holder' = s /\ moves' = moves + 1
    /\ UNCHANGED <<choice, main, now, due, stopped, frame, waits, ec, calling, called,
                   undefined>>

\* ... and those that it was moved from are destroyed.
DestroyTemporary(s) ==
    /\ Temporary(s)
    /\ Destructor(s)
    /\ UNCHANGED <<choice, main, now, due, stopped, waits, holder, moves, calling, called>>

\* The wait is launched, and control goes back to who called or resumed.
Launched ==
    /\ frame = "launching" /\ \A s \in Slots : ~Temporary(s)
    /\ frame' = "suspended" /\ due' = now + interval
    /\ UNCHANGED <<choice, main, now, stopped, waits, ec, objects, undefined>>

-----------------------------------------------------------------------------
\* io_context::run(), and time.

Idle == calling = 0 /\ frame \in {"suspended", "ended"} /\ \A s \in Slots : ~Temporary(s)
Running == main = "run" /\ Idle /\ ~stopped

TimePasses ==
    /\ Running /\ now < MaxTime
    /\ now' = now + 1
    /\ UNCHANGED <<choice, main, due, stopped, frame, waits, ec, objects, undefined>>

\* The wait is over: its handler is moved out of it, to be called.
TakeTimer(s) ==
    /\ Running /\ holder # 0 /\ due <= now /\ Free(s)
    /\ cb' = [cb EXCEPT ![s] = cb[holder], ![holder] = MovedFrom(holder)]
    /\ calling' = s /\ called' = FALSE /\ holder' = 0
    /\ UNCHANGED <<choice, main, now, due, stopped, frame, waits, ec, moves, undefined>>

\* The call has returned.
Returned ==
    /\ calling # 0 /\ called /\ frame \in {"suspended", "ended"}
    /\ calling' = 0
    /\ Destructor(calling)
    /\ UNCHANGED <<choice, main, now, due, stopped, waits, holder, moves, called>>

\* fast_timer's handler: io.stop().
TakeFastTimer ==
    /\ Running /\ stopAfter <= now
    /\ stopped' = TRUE
    /\ UNCHANGED <<choice, main, now, due, frame, waits, ec, objects, undefined>>

-----------------------------------------------------------------------------
\* main.

LeaveRun ==
    /\ main = "run" /\ stopped
    /\ main' = "left"
    /\ UNCHANGED <<choice, now, due, stopped, frame, waits, ec, objects, undefined>>

\* After fast_timer and f goes timer: its wait is aborted, which is to say that
\* its handler gets into the queue of an io_context that runs no more.
DestroyTimer ==
    /\ main = "left"
    /\ main' = "timer"
    /\ UNCHANGED <<choice, now, due, stopped, frame, waits, ec, objects, undefined>>

\* Then io, and with it the handlers in its queue.
DestroyIo ==
    /\ main = "timer"
    /\ main' = "io" /\ holder' = 0
    /\ IF holder # 0 THEN Destructor(holder) ELSE UNCHANGED <<cb, ec, frame, undefined>>
    /\ UNCHANGED <<choice, now, due, stopped, waits, moves, calling, called>>

LeaveScope ==
    /\ main = "io" /\ Idle
    /\ main' = "ended"
    /\ UNCHANGED <<choice, now, due, stopped, frame, waits, ec, objects, undefined>>

-----------------------------------------------------------------------------
Next ==
    \/ \E s \in Slots : Wait(s) \/ Move(s) \/ DestroyTemporary(s) \/ TakeTimer(s)
    \/ Call \/ Catch \/ Launched \/ TimePasses \/ Returned \/ TakeFastTimer
    \/ LeaveRun \/ DestroyTimer \/ DestroyIo \/ LeaveScope

\* One thread, which goes on until main returns.
Spec == Init /\ [][Next]_vars /\ WF_vars(Next)

-----------------------------------------------------------------------------
\* Every variable has its type.
TypeOK ==
    /\ interval \in Intervals /\ stopAfter \in StopAfter
    /\ main \in {"run", "left", "timer", "io", "ended"}
    /\ now \in 0..MaxTime /\ due \in Nat /\ stopped \in BOOLEAN
    /\ frame \in {"running", "launching", "suspended", "ended"}
    /\ waits \in Nat /\ ec \in {"ok", "aborted"}
    /\ cb \in [Slots -> Int] /\ holder \in 0..MaxMoves+3 /\ moves \in 0..MaxMoves
    /\ calling \in 0..MaxMoves+3 /\ called \in BOOLEAN /\ undefined \in BOOLEAN

\* However often its handler is moved, called and destroyed (stop1.cpp:29-49),
\* each suspension of the coroutine is resumed at most once, never after its
\* end, and never into the use of a timer that is gone.
ResumedOnce == ~undefined

\* A wait that is abandoned is not forgotten: when main leaves the scope of the
\* io_context (stop1.cpp:84) the coroutine has been told, and its frame is gone.
FrameGoes == <>(main = "ended" /\ frame = "ended")
==============================================================================
