----------------------------- MODULE IocpStreams -----------------------------
(***************************************************************************)
(* 2015_CppCon/SuperLean: Improved.cpp on the completion port of PAL.cpp.  *)
(* Each of the readers connects to the server of its own process, which    *)
(* gives it a writer; the writer sends blocks for ever, and a reader that  *)
(* has counted its bytes deletes itself.  The last one ends the process.   *)
(*                                                                         *)
(* The threads of the pool run the handlers.  A reader and a writer have   *)
(* one OVERLAPPED each (wo), used again for every operation, and no lock:  *)
(* that one operation or one thread at a time has them keeps them apart.   *)
(***************************************************************************)
EXTENDS Integers, FiniteSets

CONSTANTS
    Readers,     \* the readers, and the connections they make
    Bytes,       \* how many bytes a reader waits for
    ReaderSize,  \* sizeof(buf) of a reader
    WriterSize,  \* sizeof(buf) of a writer
    Window,      \* how many bytes the kernel keeps for a connection
    Modes,       \* the values of `sync'
    Faults       \* what may go wrong

ASSUME SizesAssumption ==
    /\ {Bytes, ReaderSize, WriterSize} \subseteq Nat \ {0}
    /\ Window \in Nat /\ Window >= WriterSize
ASSUME ReadersAssumption == IsFiniteSet(Readers) /\ Readers # {}
ASSUME ModesAssumption == Modes \subseteq BOOLEAN /\ Faults \subseteq {"reset", "timeout", "at once"}
ASSUME NamesAssumption == {"none", "kernel", "error"} \cap Readers = {}

VARIABLES
    sync,       \* startSockets.syncCompletion once the pool is made
    main,       \* run(): "starting" readers, "sleeping", "leaving"
    exit,       \* how the process ended: "no", "done", "timeout", "panic",
                \* "unexpected" (a panic of PAL.cpp)
    workCount,  \* the WorkTracker's count
    acceptOp,   \* AcceptEx: "none", "kernel", "error", or the connection it got
    backlog,    \* connections that wait for an AcceptEx
    place,      \* of a reader: where its code stands
    rop,        \* of a reader: its operation
    bytesRead,  \* of a reader: what the loop of OnRead is about to count
    total,      \* of a reader: the bytes it still waits for
    wplace,     \* of a writer: where its code stands
    wop,        \* of a writer: its operation
    link,       \* of a connection: "none", "up", "reset"
    stream,     \* of a connection: the bytes between writer and reader
    received,   \* of a reader: the bytes it was given (history)
    misused     \* an OVERLAPPED was used for two operations at once

process == <<sync, main, exit, workCount>>
server == <<acceptOp, backlog>>
reader == <<place, rop, bytesRead, total>>
writer == <<wplace, wop>>
tcp == <<link, stream, received>>
vars == <<process, server, reader, writer, tcp, misused>>

\* An operation: with the kernel, or a completion packet in the port's queue.
Ops == [st : {"none", "kernel", "queued"}, cb : {"OnConnect", "OnRead", "OnWrite"},
        n : Nat, err : BOOLEAN]
Kernel(cb) == [st |-> "kernel", cb |-> cb, n |-> 0, err |-> FALSE]
Packet(cb, n, err) == [st |-> "queued", cb |-> cb, n |-> n, err |-> err]
NoOp == [st |-> "none", cb |-> "OnRead", n |-> 0, err |-> FALSE]

Set(fn, r, val) == [fn EXCEPT ![r] = val]

-----------------------------------------------------------------------------
\* Mutants of the next two: every success is inline, and no packet is skipped.
AlwaysInline == TRUE
NeverSkip == FALSE

\* Receive and Send report a success at once as kSynchCompletion, "handle it
\* inline" ...
ReportsInline == sync

\* ... and AssociateHandle then asks for no completion packet for it.
SkipOnSuccess == sync

\* ThreadPool q(nReaders * 2 + 8, sync).
Threads == 2 * Cardinality(Readers) + 8

\* The threads inside a loop of OnConnect, OnRead or OnWrite.
Busy ==
    Cardinality({r \in Readers : place[r] \in {"OnConnect", "OnRead"}})
    + Cardinality({r \in Readers : wplace[r] = "OnWrite"})

\* GetQueuedCompletionStatus returns to a thread.
Dequeue == exit = "no" /\ Busy < Threads

\* What startSockets found the socket provider to support, unless sync is 0.
SyncCompletion(enableSync, ifsHandles) == enableSync /\ ifsHandles

Init ==
    /\ \E enableSync \in Modes, ifsHandles \in BOOLEAN :
          sync = SyncCompletion(enableSync, ifsHandles)
    /\ main = "starting" /\ exit = "no" /\ workCount = Cardinality(Readers)
    /\ acceptOp = "none" /\ backlog = {}
    /\ place = [r \in Readers |-> "none"] /\ rop = [r \in Readers |-> NoOp]
    /\ bytesRead = [r \in Readers |-> 0] /\ total = [r \in Readers |-> Bytes]
    /\ wplace = [r \in Readers |-> "none"] /\ wop = [r \in Readers |-> NoOp]
    /\ link = [r \in Readers |-> "none"] /\ stream = [r \in Readers |-> 0]
    /\ received = [r \in Readers |-> 0]
    /\ misused = FALSE

-----------------------------------------------------------------------------
\* run(), on the main thread.

\* OsTcpSocket::Connect and Accept panic when ConnectEx or AcceptEx completes or
\* fails at once, as it may for a connection that waits already.
Unexpected == "at once" \in Faults /\ exit' = "unexpected"

\* tcp_reader::start.
StartReader(r) ==
    /\ exit = "no" /\ main = "starting" /\ place[r] = "none"
    /\ \/ /\ place' = Set(place, r, "idle") /\ rop' = Set(rop, r, Kernel("OnConnect"))
          /\ UNCHANGED exit
       \/ Unexpected /\ UNCHANGED <<place, rop>>
    /\ UNCHANGED <<sync, main, workCount, server, bytesRead, total, writer, tcp, misused>>

\* Server server; server.Start().
StartServer ==
    /\ exit = "no" /\ main = "starting" /\ \A r \in Readers : place[r] # "none"
    /\ \/ main' = "sleeping" /\ acceptOp' = "kernel" /\ UNCHANGED exit
       \/ Unexpected /\ UNCHANGED <<main, acceptOp>>
    /\ UNCHANGED <<sync, workCount, backlog, reader, writer, tcp, misused>>

\* The two minutes are over: run() returns.  The server goes first, and the
\* kernel ends the AcceptEx of its closed socket with an error ...
LeaveRun ==
    /\ exit = "no" /\ main = "sleeping" /\ "timeout" \in Faults
    /\ main' = "leaving"
    /\ acceptOp' = IF acceptOp = "kernel" THEN "error" ELSE acceptOp
    /\ UNCHANGED <<sync, exit, workCount, backlog, reader, writer, tcp, misused>>

\* ... then the thread pool, whose destructor calls exit(0).
DestroyPool ==
    /\ exit = "no" /\ main = "leaving"
    /\ exit' = "timeout"
    /\ UNCHANGED <<sync, main, workCount, server, reader, writer, tcp, misused>>

-----------------------------------------------------------------------------
\* tcp_reader.

\* OnError and OnComplete: the reader deletes itself, and the last one to do so
\* stops the process.
Finish(r) ==
    /\ place' = Set(place, r, "deleted")
    /\ workCount' = workCount - 1
    /\ exit' = IF workCount' = 0 THEN "done" ELSE exit

Goes(r, where) == place' = Set(place, r, where) /\ UNCHANGED <<workCount, exit>>

\* Connection::Read and OsTcpSocket::Receive: n bytes at once, an operation
\* that stays with the kernel, or an error that is handled there and then.
\* The length of an inline completion remains what was asked for.
ReceiveNow(r, n) ==
    /\ link[r] = "up" /\ n <= stream[r]
    /\ stream' = Set(stream, r, stream[r] - n)
    /\ received' = Set(received, r, IF received[r] + n > Bytes + ReaderSize
                                    THEN Bytes + ReaderSize ELSE received[r] + n)
    /\ rop' = Set(rop, r, IF SkipOnSuccess THEN NoOp ELSE Packet("OnRead", n, FALSE))
    /\ bytesRead' = Set(bytesRead, r, IF ReportsInline THEN ReaderSize ELSE 0)
    /\ Goes(r, IF ReportsInline THEN place[r] ELSE "idle")

ReceiveLater(r) ==
    /\ link[r] = "up"
    /\ rop' = Set(rop, r, Kernel("OnRead"))
    /\ bytesRead' = Set(bytesRead, r, 0)
    /\ Goes(r, "idle")
    /\ UNCHANGED <<stream, received>>

ReceiveError(r) ==
    /\ link[r] = "reset"
    /\ Finish(r)
    /\ rop' = Set(rop, r, NoOp)
    /\ bytesRead' = Set(bytesRead, r, 0)
    /\ UNCHANGED <<stream, received>>

Read(r) ==
    /\ \/ \E n \in 1..ReaderSize : ReceiveNow(r, n)
       \/ ReceiveLater(r)
       \/ ReceiveError(r)
    /\ misused' = (misused \/ rop[r].st # "none")

\* The packet of ConnectEx.
OnConnect(r) ==
    /\ Dequeue /\ rop[r].st = "queued" /\ rop[r].cb = "OnConnect"
    /\ rop' = Set(rop, r, NoOp)
    /\ IF rop[r].err THEN Finish(r) ELSE Goes(r, "OnConnect")
    /\ UNCHANGED <<sync, main, server, bytesRead, total, writer, tcp, misused>>

\* while (conn.Read(buf, len, wo.get()));
ConnectLoop(r) ==
    /\ exit = "no" /\ place[r] = "OnConnect"
    /\ Read(r)
    /\ UNCHANGED <<sync, main, server, total, writer, link>>

\* The packet of a WSARecv.
OnRead(r) ==
    /\ Dequeue /\ rop[r].st = "queued" /\ rop[r].cb = "OnRead"
    /\ rop' = Set(rop, r, NoOp)
    /\ bytesRead' = Set(bytesRead, r, rop[r].n)
    /\ IF rop[r].err THEN Finish(r) ELSE Goes(r, "OnRead")
    /\ UNCHANGED <<sync, main, server, total, writer, tcp, misused>>

\* Mutant of Enough: sizeof(buf) is taken for what has come.
EnoughIfFull(r) == total[r] <= ReaderSize \/ bytesRead[r] = 0

\* total <= 0 || bytesRead == 0
Enough(r) == total'[r] <= 0 \/ bytesRead[r] = 0

\* do { total -= bytesRead; ... } while (conn.Read(buf, bytesRead, wo.get()));
ReadLoop(r) ==
    /\ exit = "no" /\ place[r] = "OnRead"
    /\ total' = Set(total, r, total[r] - bytesRead[r])
    /\ IF Enough(r)
       THEN /\ Finish(r)
            /\ bytesRead' = Set(bytesRead, r, 0)
            /\ UNCHANGED <<rop, stream, received, misused>>
       ELSE Read(r)
    /\ UNCHANGED <<sync, main, server, writer, link>>

-----------------------------------------------------------------------------
\* Server and tcp_writer.

\* The reader's end is closed, or the network broke the connection.
Broken(r) == place[r] = "deleted" \/ link[r] = "reset"
Room(r) == ~Broken(r) /\ stream[r] + WriterSize <= Window

\* Connection::Write and OsTcpSocket::Send: the whole block at once, or later,
\* or never.
SendNow(r) ==
    /\ Room(r)
    /\ stream' = Set(stream, r, stream[r] + WriterSize)

SendLater(r) ==
    /\ ~Broken(r)
    /\ wop' = Set(wop, r, Kernel("OnWrite"))
    /\ wplace' = Set(wplace, r, "idle")
    /\ UNCHANGED stream

SendError(r) ==
    /\ Broken(r)
    /\ wop' = Set(wop, r, NoOp)
    /\ wplace' = Set(wplace, r, "leaked")
    /\ UNCHANGED stream

\* The constructor of tcp_writer: a first block that was sent inline is handed
\* to the pool, as if its packet had come.
NewWriter(r) ==
    \/ /\ SendNow(r)
       /\ wop' = Set(wop, r, Packet("OnWrite", WriterSize, FALSE))
       /\ wplace' = Set(wplace, r, "idle")
       /\ misused' = (misused \/ (ReportsInline /\ ~SkipOnSuccess))
    \/ (SendLater(r) \/ SendError(r)) /\ UNCHANGED misused

\* Mutant of OnAccept: the server accepts once.
OnAcceptOnce ==
    /\ Dequeue /\ acceptOp \in Readers
    /\ NewWriter(acceptOp)
    /\ acceptOp' = "none"
    /\ UNCHANGED <<process, backlog, reader, link, received>>

\* The next Accept of OnAccept; on a server that the main thread has destroyed
\* it panics.
AcceptAgain ==
    IF main = "sleeping"
    THEN \/ acceptOp' = "kernel" /\ UNCHANGED exit
         \/ acceptOp' = "none" /\ Unexpected
    ELSE acceptOp' = "none" /\ exit' = "panic"

\* OnAccept: a writer, and the next Accept.
OnAccept ==
    /\ Dequeue /\ acceptOp \in Readers
    /\ NewWriter(acceptOp)
    /\ AcceptAgain
    /\ UNCHANGED <<sync, main, workCount, backlog, reader, link, received>>

\* panic_if(!!ec, "Accept failed").
AcceptFailed ==
    /\ Dequeue /\ acceptOp = "error"
    /\ acceptOp' = "none" /\ exit' = "panic"
    /\ UNCHANGED <<sync, main, workCount, backlog, reader, writer, tcp, misused>>

\* The packet of a WSASend, or the one that was posted.
OnWrite(r) ==
    /\ Dequeue /\ wop[r].st = "queued"
    /\ wop' = Set(wop, r, NoOp)
    /\ wplace' = Set(wplace, r, IF wop[r].err THEN "leaked" ELSE "OnWrite")
    /\ UNCHANGED <<process, server, reader, tcp, misused>>

\* do { nBytes = sizeof(buf); } while (conn.Write(buf, nBytes, wo.get()));
WriteLoop(r) ==
    /\ exit = "no" /\ wplace[r] = "OnWrite"
    /\ \/ /\ SendNow(r)
          /\ wop' = Set(wop, r, IF SkipOnSuccess THEN NoOp
                                ELSE Packet("OnWrite", WriterSize, FALSE))
          /\ wplace' = Set(wplace, r, IF ReportsInline THEN "OnWrite" ELSE "idle")
       \/ SendLater(r)
       \/ SendError(r)
    /\ misused' = (misused \/ wop[r].st # "none")
    /\ UNCHANGED <<process, server, reader, link, received>>

-----------------------------------------------------------------------------
\* The kernel: sockets and the completion port.

\* A connection is made with a listener, and refused without one.
ConnectDone(r) ==
    /\ exit = "no" /\ rop[r] = Kernel("OnConnect")
    /\ rop' = Set(rop, r, Packet("OnConnect", 0, main # "sleeping"))
    /\ IF main = "sleeping"
       THEN link' = Set(link, r, "up") /\ backlog' = backlog \cup {r}
       ELSE UNCHANGED <<link, backlog>>
    /\ UNCHANGED <<process, acceptOp, place, bytesRead, total, writer, stream,
                   received, misused>>

\* A connection that was reset while it waited may end AcceptEx with an error.
AcceptDone(r) ==
    /\ exit = "no" /\ acceptOp = "kernel" /\ r \in backlog
    /\ acceptOp' = r \/ (link[r] = "reset" /\ acceptOp' = "error")
    /\ backlog' = backlog \ {r}
    /\ UNCHANGED <<process, reader, writer, tcp, misused>>

ReadDone(r, n) ==
    /\ exit = "no" /\ rop[r] = Kernel("OnRead") /\ link[r] = "up" /\ n <= stream[r]
    /\ stream' = Set(stream, r, stream[r] - n)
    /\ received' = Set(received, r, IF received[r] + n > Bytes + ReaderSize
                                    THEN Bytes + ReaderSize ELSE received[r] + n)
    /\ rop' = Set(rop, r, Packet("OnRead", n, FALSE))
    /\ UNCHANGED <<process, server, place, bytesRead, total, writer, link, misused>>

ReadFails(r) ==
    /\ exit = "no" /\ rop[r] = Kernel("OnRead") /\ link[r] = "reset"
    /\ rop' = Set(rop, r, Packet("OnRead", 0, TRUE))
    /\ UNCHANGED <<process, server, place, bytesRead, total, writer, tcp, misused>>

WriteDone(r) ==
    /\ exit = "no" /\ wop[r].st = "kernel"
    /\ SendNow(r)
    /\ wop' = Set(wop, r, Packet("OnWrite", WriterSize, FALSE))
    /\ UNCHANGED <<process, server, reader, wplace, link, received, misused>>

WriteFails(r) ==
    /\ exit = "no" /\ wop[r].st = "kernel" /\ Broken(r)
    /\ wop' = Set(wop, r, Packet("OnWrite", 0, TRUE))
    /\ UNCHANGED <<process, server, reader, wplace, tcp, misused>>

Reset(r) ==
    /\ exit = "no" /\ link[r] = "up" /\ "reset" \in Faults
    /\ link' = Set(link, r, "reset") /\ stream' = Set(stream, r, 0)
    /\ UNCHANGED <<process, server, reader, writer, received, misused>>

-----------------------------------------------------------------------------
Handler(r) ==
    OnConnect(r) \/ ConnectLoop(r) \/ OnRead(r) \/ ReadLoop(r) \/ OnWrite(r) \/ WriteLoop(r)

KernelStep(r) ==
    \/ ConnectDone(r) \/ AcceptDone(r) \/ ReadFails(r) \/ WriteDone(r) \/ WriteFails(r)
    \/ \E n \in 1..ReaderSize : ReadDone(r, n)

Work ==
    \/ \E r \in Readers : StartReader(r) \/ Handler(r) \/ KernelStep(r)
    \/ StartServer \/ OnAccept \/ AcceptFailed \/ DestroyPool

Next == Work \/ LeaveRun \/ \E r \in Readers : Reset(r)

\* The kernel or a thread always goes on, whichever of them can.  Nobody need
\* reset a connection.
Spec == Init /\ [][Next]_vars /\ WF_vars(Work)

-----------------------------------------------------------------------------
\* Every variable has its type.
TypeOK ==
    /\ sync \in BOOLEAN /\ main \in {"starting", "sleeping", "leaving"}
    /\ exit \in {"no", "done", "timeout", "panic", "unexpected"} /\ workCount \in Nat
    /\ acceptOp \in {"none", "kernel", "error"} \cup Readers
    /\ backlog \subseteq Readers
    /\ place \in [Readers -> {"none", "idle", "OnConnect", "OnRead", "deleted"}]
    /\ rop \in [Readers -> Ops] /\ bytesRead \in [Readers -> 0..ReaderSize]
    /\ total \in [Readers -> 1-ReaderSize..Bytes]
    /\ wplace \in [Readers -> {"none", "idle", "OnWrite", "leaked"}]
    /\ wop \in [Readers -> Ops]
    /\ link \in [Readers -> {"none", "up", "reset"}]
    /\ stream \in [Readers -> 0..Window] /\ received \in [Readers -> Nat]
    /\ misused \in BOOLEAN

\* wo of a reader or writer (Improved.cpp:194, 250) never serves two operations,
\* and a live object belongs to one thread or to one operation: so its members
\* need no lock, it is not forgotten, and nothing completes after its deletion.
OneOwner ==
    /\ ~misused
    /\ \A r \in Readers :
          /\ place[r] = "idle" <=> rop[r].st # "none"
          /\ wplace[r] = "idle" <=> wop[r].st # "none"

\* A synchronous completion is handled (ReadMe.md:13-14): of the bytes that a
\* reader has been given, all are taken off total or about to be.
ReceivedIsCounted ==
    \A r \in Readers :
        received[r] = Bytes - total[r]
                      + (IF rop[r].st = "queued" THEN rop[r].n ELSE 0)
                      + (IF place[r] = "OnRead" THEN bytesRead[r] ELSE 0)

\* "Done!" is said when it is: the WorkTracker (PAL.h:114-127) ends the process
\* with the last reader and only then, and whoever's connection still stands has
\* been given the bytes that it waited for, as long as no success is inline.
DoneMeansServed ==
    /\ exit = "done" => \A r \in Readers : place[r] = "deleted"
    /\ (\A r \in Readers : place[r] = "deleted") => exit # "no"
    /\ \A r \in Readers :
          ~sync /\ place[r] = "deleted" /\ link[r] = "up" => received[r] >= Bytes

\* What a thread or the kernel can go on with.
RunReady == main \in {"starting", "leaving"}
ServerReady ==
    \/ acceptOp \in Readers \cup {"error"} /\ Dequeue
    \/ acceptOp = "kernel" /\ backlog # {}
ReaderReady(r) ==
    \/ place[r] \in {"OnConnect", "OnRead"}
    \/ rop[r].st = "queued" /\ rop[r].cb \in {"OnConnect", "OnRead"} /\ Dequeue
    \/ rop[r] = Kernel("OnConnect")
    \/ rop[r] = Kernel("OnRead") /\ link[r] = "reset"
    \/ rop[r] = Kernel("OnRead") /\ link[r] = "up" /\ stream[r] > 0
WriterReady(r) ==
    \/ wplace[r] = "OnWrite"
    \/ wop[r].st = "queued" /\ Dequeue
    \/ wop[r].st = "kernel" /\ (Broken(r) \/ Room(r))

\* Nobody waits for everybody: until the process ends there is always a packet
\* that a free thread takes, a handler that goes on or an operation that the
\* kernel can end.  A server that accepts no more, a writer that gives up on a
\* good connection or a reader that is never told would leave nothing
\* (Improved.cpp:219-302, PAL.cpp:78-105).
NeverStuck ==
    exit = "no" =>
        RunReady \/ ServerReady \/ \E r \in Readers : ReaderReady(r) \/ WriterReady(r)

\* panic_if(!!ec, "Accept failed") (Improved.cpp:296) never strikes.
NoPanic == exit # "panic"

\* Every reader gets its bytes or an error, and when the last one is gone, and
\* not before, the WorkTracker (PAL.h:114-127) ends the process.  Before that
\* run() may give up, ConnectEx or AcceptEx do what PAL.cpp does not expect of
\* them, or AcceptEx fail; but that only when a connection was reset.
EndsByItself ==
    <>(\/ main = "leaving" \/ exit = "unexpected"
       \/ exit = "panic" /\ \E r \in Readers : link[r] = "reset"
       \/ exit = "done" /\ \A r \in Readers : place[r] = "deleted")
==============================================================================
