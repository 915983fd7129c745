----------------------------- MODULE BenchClient -----------------------------
(***************************************************************************)
(* The whole of 2017_CppCon/live/myclient.cpp around its session: the      *)
(* threads in io_context::run(), the timer that stops the sessions, main   *)
(* and its joins, and the statistics that the destructors sum up.          *)
(*                                                                         *)
(* One session; another has nothing to do with it but for the timer and a  *)
(* sum under a lock.                                                       *)
(***************************************************************************)
EXTENDS EchoSystem

CONSTANT Workers  \* the threads that main starts

VARIABLES
    timer,   \* stop_timer_: "waiting", "expired", "handled"
    worker,  \* of a thread: "run", "left"
    main,    \* "run", "join", "deleted" the sessions, "printed"
    total    \* total_bytes_written_ - total_bytes_read_

process == <<timer, worker, main, total>>
bvars == <<vars, process>>

BInit ==
    /\ SystemInit
    /\ timer = "waiting" /\ worker = [t \in Workers |-> "run"] /\ main = "run"
    /\ total = 0

\* What keeps run() from returning: handlers, and operations that will have one.
HasWork ==
    \/ timer # "handled" \/ stop = "posted"
    \/ connectOp # "handled" \/ Outstanding(readOp) \/ Outstanding(writeOp)

\* A thread is in run(), and takes a handler that is ready.
SomeoneRuns == main = "run" \/ \E t \in Workers : worker[t] = "run"

-----------------------------------------------------------------------------
\* The session's handlers, and all that is outside of the process.
SessionHandler ==
    /\ SomeoneRuns
    /\ ClientHandles
    /\ UNCHANGED process

Environment ==
    /\ ClientOpEnds \/ ServerHandles \/ ServerOpEnds \/ ServerDestroy \/ Accept \/ Reset
    /\ UNCHANGED process

TimerExpires ==
    /\ timer = "waiting"
    /\ timer' = "expired"
    /\ UNCHANGED <<vars, worker, main, total>>

\* handle_timeout: session::stop.
HandleTimeout ==
    /\ SomeoneRuns /\ timer = "expired"
    /\ timer' = "handled"
    /\ StopClient
    /\ UNCHANGED <<worker, main, total>>

\* Mutant of RunsOut: poll(), which returns when nothing is ready.
PollsOut ==
    ~ \/ timer = "expired" \/ stop = "posted" \/ connectOp \in {"ok", "error"}
      \/ readOp.st = "done" \/ writeOp.st = "done"

\* run() returns when there is no more work.
RunsOut == ~HasWork

WorkerLeaves(t) ==
    /\ worker[t] = "run" /\ RunsOut
    /\ worker' = [worker EXCEPT ![t] = "left"]
    /\ UNCHANGED <<vars, timer, main, total>>

MainLeaves ==
    /\ main = "run" /\ RunsOut
    /\ main' = "join"
    /\ UNCHANGED <<vars, timer, worker, total>>

\* After the joins ~client deletes the sessions, and ~session adds its counters.
DeleteSessions ==
    /\ main = "join" /\ \A t \in Workers : worker[t] = "left"
    /\ main' = "deleted"
    /\ total' = total + ahead
    /\ UNCHANGED <<vars, timer, worker>>

\* stats_.print().
PrintStats ==
    /\ main = "deleted"
    /\ main' = "printed"
    /\ UNCHANGED <<vars, timer, worker, total>>

-----------------------------------------------------------------------------
Process ==
    \/ HandleTimeout \/ MainLeaves \/ DeleteSessions \/ PrintStats
    \/ \E t \in Workers : WorkerLeaves(t)

BNext == SessionHandler \/ Environment \/ Process \/ TimerExpires

\* As EchoSystem's, and the threads go on.  A strand runs its handlers in the
\* order in which they came, so the posted close_socket has its turn.  The time
\* that the timer waits is not bounded.
BFairness ==
    /\ WF_bvars(SessionHandler) /\ WF_bvars(SessionHandler /\ CloseSocket)
    /\ WF_bvars(Process)
    /\ WF_bvars(ClientOpEnds /\ UNCHANGED process)
    /\ WF_bvars(ServerHandles /\ UNCHANGED process)
    /\ WF_bvars(ServerOpEnds /\ UNCHANGED process)
    /\ WF_bvars(ServerDestroy /\ UNCHANGED process)
    /\ WF_bvars(Accept /\ UNCHANGED process)

BSpec == BInit /\ [][BNext]_bvars /\ BFairness

-----------------------------------------------------------------------------
BTypeOK ==
    /\ TypeOK
    /\ timer \in {"waiting", "expired", "handled"}
    /\ worker \in [Workers -> {"run", "left"}]
    /\ main \in {"run", "join", "deleted", "printed"} /\ total \in Int

\* No thread leaves run() before the session has come to its rest, and none of
\* its operations is started again: ~client deletes no session that a handler
\* or the kernel still uses (myclient.cpp:225-234, 286-291).
NoneLeftBehind ==
    (main # "run" \/ \E t \in Workers : worker[t] = "left") => ~HasWork

\* The two rates that are printed (myclient.cpp:57-62) differ by one block at
\* most, whenever and however the session ended: no handler of an operation that
\* succeeded is lost, nor does one count twice.
StatsWithinABlock == main = "printed" => total \in -BlockSize..BlockSize

\* Once the timer has expired the client comes to its end and prints, as stop()
\* drains its session in whatever state it finds it (myclient.cpp:163, 183, 236).
ClientReports == (timer = "expired") ~> (main = "printed")
==============================================================================
