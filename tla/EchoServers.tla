----------------------------- MODULE EchoServers -----------------------------
(***************************************************************************)
(* The echo servers of 2017_CppCon/live, with their acceptors, for several *)
(* connections: myserver.cpp with callbacks, hard1.cpp and hard2.cpp with  *)
(* coroutines that await an operation, easy.cpp with coroutines that await *)
(* its future.  The threads of run() share the io_context; no strand.      *)
(*                                                                         *)
(* A session is where its code stands, `at', and the operation it started. *)
(* In myserver.cpp, which has no frames, at is what its next handler does. *)
(***************************************************************************)
EXTENDS Integers, Sequences, FiniteSets

CONSTANTS
    Conns, NoConn,    \* the connections that clients may make
    BufSize,          \* block_size
    Bytes,            \* of a client: how many bytes it sends
    Servers,          \* the programs
    ThreadCounts,     \* their thread_count
    Faults,           \* what may go wrong
    MaxAcceptErrors   \* bounds the errors of async_accept

ASSUME EchoServersAssumption ==
    /\ NoConn \notin Conns /\ BufSize \in Nat \ {0} /\ MaxAcceptErrors \in Nat
    /\ Bytes \in [Conns -> Nat \ {0}]
    /\ Servers \subseteq {"myserver", "easy", "hard1", "hard2"}
    /\ ThreadCounts \subseteq Nat \ {0} /\ Faults \subseteq {"option", "reset"}

VARIABLES
    server, threads,  \* the program, and its threads in run()
    acceptor,         \* "armed", "done", "error", "serving", "rearm", "closed"
    conn,             \* the connection that was accepted last
    acceptErrors,     \* how often async_accept has failed
    backlog,          \* connections that wait for async_accept
    at,               \* of a session: see Places
    op, res,          \* its last operation and that one's outcome
    stored,           \* what of the outcome the awaiter, or the promise, has
    buf,              \* buf, as far as it is not yet sent back
    inbox, outbox,    \* of a connection: bytes to the session, and back
    sent,             \* of its client: how many bytes it has sent
    link              \* of a connection: "none", "up", "reset"

accepting == <<acceptor, conn, acceptErrors, backlog>>
frames == <<at, op, res, stored, buf>>
wire == <<inbox, outbox, link>>
vars == <<server, threads, accepting, frames, wire, sent>>

Set(fn, c, val) == [fn EXCEPT ![c] = val]

\* Before the call of session(), at its set_option, between async_... and
\* await_ready, between await_ready and then(), suspended, at await_resume, in
\* unhandled_exception (or: destroy is posted), and after its end.
Places == {"none", "begin", "await", "then", "suspended", "resumed", "unwinding", "freed"}

Init ==
    /\ server \in Servers /\ threads \in ThreadCounts
    /\ acceptor = "armed" /\ conn = NoConn /\ acceptErrors = 0 /\ backlog = {}
    /\ at = [c \in Conns |-> "none"]
    /\ op = [c \in Conns |-> "none"] /\ res = [c \in Conns |-> "none"]
    /\ stored = [c \in Conns |-> "none"] /\ buf = [c \in Conns |-> <<>>]
    /\ inbox = [c \in Conns |-> <<>>] /\ outbox = [c \in Conns |-> <<>>]
    /\ link = [c \in Conns |-> "none"]
    /\ sent = [c \in Conns |-> 0]

\* The threads that are inside a session or an accept handler.
Busy ==
    Cardinality({c \in Conns : \/ at[c] \in {"begin", "await", "then", "resumed"}
                               \/ at[c] = "unwinding" /\ server # "myserver"})
    + (IF acceptor = "rearm" THEN 1 ELSE 0)

\* run() takes a handler from the queue.
Dequeue == Busy < threads

-----------------------------------------------------------------------------
\* The acceptor.

\* handle_accept calls session(), which runs in its thread at first.
HandleAccept ==
    /\ Dequeue /\ acceptor = "done"
    /\ at' = Set(at, conn, "begin")
    /\ acceptor' = "serving"
    /\ UNCHANGED <<server, threads, conn, acceptErrors, backlog, op, res, stored, buf,
                   wire, sent>>

\* An error of async_accept is passed over; but hard2's server() throws it, and
\* its frame goes, and with that the acceptor and who waits for it.
HandleAcceptError ==
    /\ Dequeue /\ acceptor = "error"
    /\ IF server = "hard2"
       THEN /\ acceptor' = "closed" /\ backlog' = {}
            /\ link' = [c \in Conns |-> IF c \in backlog THEN "reset" ELSE link[c]]
       ELSE acceptor' = "rearm" /\ UNCHANGED <<backlog, link>>
    /\ UNCHANGED <<server, threads, conn, acceptErrors, frames, inbox, outbox, sent>>

\* start_accept, or the next turn of server().
StartAccept ==
    /\ acceptor = "rearm"
    /\ acceptor' = "armed" /\ conn' = NoConn
    /\ UNCHANGED <<server, threads, acceptErrors, backlog, frames, wire, sent>>

-----------------------------------------------------------------------------
\* session.

\* Mutant of Returns: the caller of session() gets its thread back at the end.
ReturnsAtEnd(c, where) == acceptor = "serving" /\ conn = c /\ where = "freed"

\* The first suspension of session(), or its end, is its return to the acceptor.
Returns(c, where) ==
    /\ acceptor = "serving" /\ conn = c
    /\ \/ where \in {"suspended", "freed"}
       \/ where = "unwinding" /\ server = "myserver"

Goes(c, where) ==
    /\ at' = Set(at, c, where)
    /\ acceptor' = IF Returns(c, where) THEN "rearm" ELSE acceptor

\* async_read_some or async_write, and co_await.  A handler may run before the
\* code that started its operation gets any further.
StartOp(c, kind) ==
    /\ op' = Set(op, c, kind) /\ res' = Set(res, c, "pending")
    /\ stored' = Set(stored, c, "none")
    /\ Goes(c, IF server = "easy" THEN "await" ELSE "suspended")

\* An exception that nobody catches, into the promise of the session's future.
Throws(c) ==
    /\ op' = Set(op, c, "none") /\ res' = Set(res, c, "none")
    /\ stored' = Set(stored, c, "none")
    /\ Goes(c, "unwinding")

\* set_option, and the first read.
Begin(c, optionErr) ==
    /\ at[c] = "begin"
    /\ optionErr => "option" \in Faults
    /\ IF optionErr THEN Throws(c) ELSE StartOp(c, "read")
    /\ UNCHANGED <<server, threads, conn, acceptErrors, backlog, buf, wire, sent>>

\* await_ready of a future: is its result there already?
AwaitReady(c) ==
    /\ at[c] = "await"
    /\ Goes(c, IF stored[c] # "none" THEN "resumed" ELSE "then")
    /\ UNCHANGED <<server, threads, conn, acceptErrors, backlog, op, res, stored, buf,
                   wire, sent>>

\* Mutant of Then: a result that came after await_ready is missed.
ThenTooLate(c) ==
    /\ at[c] = "then"
    /\ Goes(c, "suspended")
    /\ UNCHANGED <<server, threads, conn, acceptErrors, backlog, op, res, stored, buf,
                   wire, sent>>

\* await_suspend: then() runs the continuation at once if the result has come.
Then(c) ==
    /\ at[c] = "then"
    /\ Goes(c, IF stored[c] # "none" THEN "resumed" ELSE "suspended")
    /\ UNCHANGED <<server, threads, conn, acceptErrors, backlog, op, res, stored, buf,
                   wire, sent>>

\* Mutant of Handler: this->ec = ec is missing.
HandlerWithoutError(c) ==
    /\ Dequeue /\ res[c] \in {"ok", "error"} /\ stored[c] = "none"
    /\ stored' = Set(stored, c, "ok")
    /\ at' = IF at[c] = "suspended" THEN Set(at, c, "resumed") ELSE at
    /\ UNCHANGED <<server, threads, accepting, op, res, buf, wire, sent>>

\* The handler of an operation stores its outcome and resumes the session, if
\* that one waits.
Handler(c) ==
    /\ Dequeue /\ res[c] \in {"ok", "error"} /\ stored[c] = "none"
    /\ stored' = Set(stored, c, res[c])
    /\ at' = IF at[c] = "suspended" THEN Set(at, c, "resumed") ELSE at
    /\ UNCHANGED <<server, threads, accepting, op, res, buf, wire, sent>>

\* Mutant of Continue: it writes the whole buffer, whatever n is.
ContinueWholeBuffer(c) ==
    /\ at[c] = "resumed"
    /\ IF stored[c] = "error"
       THEN Throws(c) /\ UNCHANGED buf
       ELSE /\ StartOp(c, IF op[c] = "read" THEN "write" ELSE "read")
            /\ buf' = IF op[c] = "read"
                      THEN Set(buf, c, buf[c] \o [k \in 1..BufSize - Len(buf[c]) |-> 0])
                      ELSE buf
    /\ UNCHANGED <<server, threads, conn, acceptErrors, backlog, wire, sent>>

\* await_resume, and the next operation of the loop.
Continue(c) ==
    /\ at[c] = "resumed"
    /\ IF stored[c] = "error"
       THEN Throws(c)
       ELSE StartOp(c, IF op[c] = "read" THEN "write" ELSE "read")
    /\ UNCHANGED <<server, threads, conn, acceptErrors, backlog, buf, wire, sent>>

\* The frame is destroyed after final_suspend, and the socket is in it; in
\* myserver a handler deletes the session.
Destroy(c) ==
    /\ at[c] = "unwinding" /\ (server = "myserver" => Dequeue)
    /\ Goes(c, "freed")
    /\ UNCHANGED <<server, threads, conn, acceptErrors, backlog, op, res, stored, buf,
                   wire, sent>>

-----------------------------------------------------------------------------
\* The operating system.

AcceptDone(c) ==
    /\ acceptor = "armed" /\ c \in backlog
    /\ acceptor' = "done" /\ conn' = c /\ backlog' = backlog \ {c}
    /\ UNCHANGED <<server, threads, acceptErrors, frames, wire, sent>>

AcceptFails ==
    /\ acceptor = "armed" /\ acceptErrors < MaxAcceptErrors
    /\ acceptor' = "error" /\ acceptErrors' = acceptErrors + 1
    /\ UNCHANGED <<server, threads, conn, backlog, frames, wire, sent>>

\* The first n bytes of the connection go into buf.
ReadCompletes(c, n) ==
    /\ op[c] = "read" /\ res[c] = "pending" /\ link[c] = "up"
    /\ n <= Len(inbox[c])
    /\ buf' = Set(buf, c, SubSeq(inbox[c], 1, n))
    /\ inbox' = Set(inbox, c, SubSeq(inbox[c], n + 1, Len(inbox[c])))
    /\ res' = Set(res, c, "ok")
    /\ UNCHANGED <<server, threads, accepting, at, op, stored, outbox, link, sent>>

\* A part of what async_write has left to send; the clients take their echoes, so
\* that the kernels always have room for it.
WriteSome(c, n) ==
    /\ op[c] = "write" /\ res[c] = "pending" /\ link[c] = "up"
    /\ n <= Len(buf[c])
    /\ outbox' = Set(outbox, c, outbox[c] \o SubSeq(buf[c], 1, n))
    /\ buf' = Set(buf, c, SubSeq(buf[c], n + 1, Len(buf[c])))
    /\ res' = Set(res, c, IF n = Len(buf[c]) THEN "ok" ELSE "pending")
    /\ UNCHANGED <<server, threads, accepting, at, op, stored, inbox, link, sent>>

OpFails(c) ==
    /\ res[c] = "pending" /\ link[c] = "reset"
    /\ res' = Set(res, c, "error")
    /\ UNCHANGED <<server, threads, accepting, at, op, stored, buf, wire, sent>>

\* The clients: each connects, sends bytes 1, 2, ..., Bytes, and may go or lose
\* its connection; EchoSystem tells a close from a reset, here both are "reset".
Connect(c) ==
    /\ link[c] = "none" /\ acceptor # "closed"
    /\ link' = Set(link, c, "up")
    /\ backlog' = backlog \cup {c}
    /\ UNCHANGED <<server, threads, acceptor, conn, acceptErrors, frames, inbox, outbox, sent>>

Send(c) ==
    /\ link[c] = "up" /\ at[c] # "freed" /\ sent[c] < Bytes[c]
    /\ sent' = Set(sent, c, sent[c] + 1)
    /\ inbox' = Set(inbox, c, Append(inbox[c], sent[c] + 1))
    /\ UNCHANGED <<server, threads, accepting, frames, outbox, link>>

Reset(c) ==
    /\ link[c] = "up" /\ at[c] # "freed" /\ "reset" \in Faults
    /\ link' = Set(link, c, "reset") /\ inbox' = Set(inbox, c, <<>>)
    /\ UNCHANGED <<server, threads, accepting, frames, outbox, sent>>

-----------------------------------------------------------------------------
Accepting == HandleAccept \/ HandleAcceptError \/ StartAccept \/ \E c \in Conns : AcceptDone(c)

Session(c) ==
    \/ \E e \in BOOLEAN : Begin(c, e)
    \/ AwaitReady(c) \/ Then(c) \/ Handler(c) \/ Continue(c) \/ Destroy(c)

Kernel(c) ==
    \/ \E n \in 1..BufSize : ReadCompletes(c, n) \/ WriteSome(c, n)
    \/ OpFails(c)

Client(c) == Connect(c) \/ Send(c) \/ Reset(c)

Next ==
    \/ Accepting \/ AcceptFails
    \/ \E c \in Conns : Session(c) \/ Kernel(c) \/ Client(c)

\* A thread goes on, the queue of handlers is served, and the kernel ends what
\* can end.  No client need do anything.
Fairness ==
    /\ WF_vars(Accepting)
    /\ \A c \in Conns : WF_vars(Session(c)) /\ WF_vars(Kernel(c))

Spec == Init /\ [][Next]_vars /\ Fairness

-----------------------------------------------------------------------------
\* Every variable has its type.
TypeOK ==
    /\ server \in Servers /\ threads \in ThreadCounts
    /\ acceptor \in {"armed", "done", "error", "serving", "rearm", "closed"}
    /\ conn \in Conns \cup {NoConn} /\ acceptErrors \in 0..MaxAcceptErrors
    /\ backlog \subseteq Conns
    /\ at \in [Conns -> Places]
    /\ op \in [Conns -> {"none", "read", "write"}]
    /\ res \in [Conns -> {"none", "pending", "ok", "error"}]
    /\ stored \in [Conns -> {"none", "ok", "error"}]
    /\ {buf, inbox, outbox} \subseteq [Conns -> Seq(Nat \ {0})]
    /\ sent \in [Conns -> Nat] /\ \A c \in Conns : sent[c] <= Bytes[c]
    /\ link \in [Conns -> {"none", "up", "reset"}]

\* The bytes that a connection has brought come back in order: sent back, in buf
\* or still on their way, they are all that its client has sent, and a prefix of
\* that once it is lost.  The one buf of a session is free when a read fills it,
\* and a write that the code believes done left nothing (hard1.cpp:20-50).
Round(c) == outbox[c] \o buf[c] \o inbox[c]

EchoesInOrder ==
    \A c \in Conns :
        /\ Len(Round(c)) <= sent[c]
        /\ link[c] # "reset" => Len(Round(c)) = sent[c]
        /\ \A k \in 1..Len(Round(c)) : Round(c)[k] = k

\* What can go on: the acceptor, a session or its handler, the kernel.
AcceptorReady ==
    \/ acceptor \in {"done", "error"} /\ Dequeue
    \/ acceptor = "rearm"
    \/ acceptor = "armed" /\ backlog # {}
SessionReady(c) ==
    \/ at[c] \in {"begin", "await", "then", "resumed"}
    \/ at[c] = "unwinding" /\ (server = "myserver" => Dequeue)
    \/ res[c] \in {"ok", "error"} /\ stored[c] = "none" /\ Dequeue
KernelReady(c) ==
    /\ res[c] = "pending"
    /\ \/ link[c] = "reset"
       \/ link[c] = "up" /\ op[c] = "read" /\ inbox[c] # <<>>
       \/ link[c] = "up" /\ op[c] = "write" /\ buf[c] # <<>>

\* The server is idle only when it owes nobody anything: it accepts again, or
\* its server() has thrown, every byte that came is sent back, and the frames of
\* lost connections are gone.  No handler is waited for that has come already
\* (boost_coro.h:51-63), and no session keeps the acceptor (hard1.cpp:66-86).
IdleWhenServed ==
    ~AcceptorReady /\ (\A c \in Conns : ~SessionReady(c) /\ ~KernelReady(c)) =>
        /\ acceptor \in {"armed", "closed"}
        /\ \A c \in Conns :
              /\ link[c] = "up" => at[c] = "freed" \/ Len(outbox[c]) = sent[c]
              /\ at[c] \in {"none", "suspended", "freed"}
              /\ link[c] = "reset" => at[c] = "freed" \/ acceptor = "closed"

\* A session as myserver.cpp defines it: life, op and destroys of ServerSession.
\* The clients take their echoes, so the kernels have room for a whole buffer.
Life(c) ==
    CASE at[c] = "none" -> "none" [] at[c] = "begin" -> "new"
      [] at[c] = "freed" -> "deleted" [] OTHER -> "started"

Myserver(c) == INSTANCE ServerSession WITH
    life <- Life(c), op <- op[c], opState <- res[c], buf <- buf[c],
    destroys <- IF at[c] = "unwinding" THEN 1 ELSE 0,
    inbox <- inbox[c], outbox <- outbox[c], link <- link[c], peerOpen <- TRUE,
    room <- BufSize

MyserverStep(c) ==
    \/ Life(c) = "none" /\ Life(c)' = "new" /\ UNCHANGED <<op[c], res[c], buf[c]>>
    \/ \E e \in BOOLEAN : Myserver(c)!Start(e)
    \/ Myserver(c)!HandleRead \/ Myserver(c)!HandleWrite \/ Myserver(c)!Destroy
    \/ \E n \in 1..BufSize : Myserver(c)!ReadCompletes(n) \/ Myserver(c)!WriteSome(n)
    \/ Myserver(c)!OpFails

\* Each session of each server does what the hand-written one does: the
\* suspended frames keep its protocol of one operation at a time, an error ends
\* it at once (hard1.cpp:26, 48, boost_coro.h:58), and its frame goes once.
ImplementsMyserver ==
    /\ \A c \in Conns : Myserver(c)!Init
    /\ [][\A c \in Conns : [MyserverStep(c)]_(Myserver(c)!server)]_vars

\* A client that connects and stays gets back what it sends, in order, whatever
\* the other connections and the acceptor meet: no accept is forgotten, and no
\* session sleeps beside a result (boost_coro.h:51-63).
Served ==
    \A c \in Conns :
        []<>(link[c] = "up" /\ at[c] \notin {"unwinding", "freed"} =>
                outbox[c] = [k \in 1..sent[c] |-> k])

\* A connection that has ended frees its session, in whatever operation it was:
\* only the exception out of await_resume does (hard1.cpp:26, 48).
FramesFreed ==
    \A c \in Conns :
        (at[c] # "none" /\ link[c] = "reset") ~> at[c] = "freed"
==============================================================================
