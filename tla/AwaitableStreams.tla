-------------------------- MODULE AwaitableStreams --------------------------
(***************************************************************************)
(* 2015_CppCon/SuperLean/Awaitable.cpp: the readers, the writers and the   *)
(* server of that benchmark as coroutines on the completion port of        *)
(* PAL.cpp.  A frame holds the OVERLAPPED of the one operation that its    *)
(* coroutine awaits, and whichever thread takes the completion packet      *)
(* resumes it.                                                             *)
(***************************************************************************)
EXTENDS Integers

CONSTANTS
    Readers,     \* the readers, and the connections they make
    NoReader,
    Bytes,       \* TcpReader's `total'
    ReaderSize,  \* sizeof(buf) of TcpReader
    WriterSize,  \* sizeof(buf) of ServeClient
    Window,      \* how many bytes the kernel keeps for a connection
    Modes,       \* the values of `sync'
    Faults       \* what may go wrong

ASSUME SizesAssumption ==
    /\ {Bytes, ReaderSize, WriterSize} \subseteq Nat \ {0}
    /\ Window \in Nat /\ Window >= WriterSize
ASSUME ChoicesAssumption ==
    /\ Modes \subseteq BOOLEAN /\ Faults \subseteq {"reset", "timeout", "at once"}
    /\ {NoReader, "none", "kernel"} \cap Readers = {}

VARIABLES
    sync,      \* startSockets.syncCompletion once the pool is made
    main,      \* run(): starts the "server", the "readers", is "sleeping"
    exit,      \* how the process ended: "no", "timeout", "panic"
    acceptOp,  \* the server's AcceptEx: "none", "kernel" or what it got
    serving,   \* the connection whose ServeClient the server's thread began
    backlog,   \* connections that wait for an AcceptEx
    reader,    \* a TcpReader's frame: "none", "running", "suspended", "freed"
    rop,       \* the operation that it awaits
    total,     \* what it still waits for
    writer,    \* the ServeClient frame of a connection
    wop,       \* the operation that it awaits
    link,      \* of a connection: "none", "up", "reset"
    stream,    \* the bytes between a writer and its reader
    received   \* the bytes that a reader was given (history)

process == <<sync, main, exit>>
server == <<acceptOp, serving, backlog>>
readers == <<reader, rop, total>>
writers == <<writer, wop>>
tcp == <<link, stream, received>>
vars == <<process, server, readers, writers, tcp>>

\* An awaited operation: with the kernel, or a packet in the port's queue.
Packets == {"connected", "refused", "read", "read failed", "written", "write failed"}
Ops == {"none", "connecting", "reading", "writing"} \cup Packets

Set(fn, r, val) == [fn EXCEPT ![r] = val]

-----------------------------------------------------------------------------
Init ==
    /\ sync \in Modes /\ main = "server" /\ exit = "no"
    /\ acceptOp = "none" /\ serving = NoReader /\ backlog = {}
    /\ reader = [r \in Readers |-> "none"] /\ rop = [r \in Readers |-> "none"]
    /\ total = [r \in Readers |-> Bytes]
    /\ writer = [r \in Readers |-> "none"] /\ wop = [r \in Readers |-> "none"]
    /\ link = [r \in Readers |-> "none"] /\ stream = [r \in Readers |-> 0]
    /\ received = [r \in Readers |-> 0]

\* OsTcpSocket::Connect and Accept panic when ConnectEx or AcceptEx completes or
\* fails at once, as it may for a connection that waits already.
Unexpected == "at once" \in Faults /\ exit' = "panic"

\* run(): Server(), up to its first Accept ...
StartServer ==
    /\ exit = "no" /\ main = "server"
    /\ \/ main' = "readers" /\ acceptOp' = "kernel" /\ UNCHANGED exit
       \/ Unexpected /\ UNCHANGED <<main, acceptOp>>
    /\ UNCHANGED <<sync, serving, backlog, readers, writers, tcp>>

\* ... TcpReader(bytes) for each, up to its Connect ...
StartReader(r) ==
    /\ exit = "no" /\ main = "readers" /\ reader[r] = "none"
    /\ \/ /\ reader' = Set(reader, r, "suspended") /\ rop' = Set(rop, r, "connecting")
          /\ UNCHANGED exit
       \/ Unexpected /\ UNCHANGED <<reader, rop>>
    /\ UNCHANGED <<sync, main, server, total, writers, tcp>>

\* ... os_sleep, and ~ThreadPool.
LeaveRun ==
    /\ exit = "no" /\ main = "readers" /\ \A r \in Readers : reader[r] # "none"
    /\ "timeout" \in Faults
    /\ main' = "sleeping" /\ exit' = "timeout"
    /\ UNCHANGED <<sync, server, readers, writers, tcp>>

-----------------------------------------------------------------------------
\* TcpReader.

\* Mutant of AwaitResume: a length that is too short.
AwaitResumeShort == ReaderSize - 1

\* Read's await_resume looks at neither err nor bytes: the length asked for.
AwaitResume == ReaderSize

\* while (total > 0)
Unfinished(r) == total[r] > 0

\* A packet resumes it: from Connect, which panics unless it is connected, or
\* from a Read.
ReaderResumes(r) ==
    /\ exit = "no" /\ reader[r] = "suspended" /\ rop[r] \in Packets
    /\ rop' = Set(rop, r, "none")
    /\ reader' = Set(reader, r, "running")
    /\ total' = IF rop[r] \in {"read", "read failed"}
                THEN Set(total, r, total[r] - AwaitResume) ELSE total
    /\ exit' = IF rop[r] = "refused" THEN "panic" ELSE exit
    /\ UNCHANGED <<sync, main, server, writers, tcp>>

\* The coroutine ends, and with its frame the connection.
ReaderEnds(r) ==
    /\ exit = "no" /\ reader[r] = "running" /\ ~Unfinished(r)
    /\ reader' = Set(reader, r, "freed")
    /\ UNCHANGED <<process, server, rop, total, writers, tcp>>

\* co_await conn.Read: n bytes at once, which suspend nothing if sync ...
ReadNow(r, n) ==
    /\ exit = "no" /\ reader[r] = "running" /\ Unfinished(r)
    /\ link[r] = "up" /\ n <= stream[r]
    /\ stream' = Set(stream, r, stream[r] - n)
    /\ received' = Set(received, r, received[r] + n)
    /\ IF sync
       THEN total' = Set(total, r, total[r] - AwaitResume) /\ UNCHANGED <<reader, rop>>
       ELSE /\ rop' = Set(rop, r, "read") /\ reader' = Set(reader, r, "suspended")
            /\ UNCHANGED total
    /\ UNCHANGED <<process, server, writers, link>>

\* ... or later, or panic_if(!!error, "read failed").
ReadLater(r) ==
    /\ exit = "no" /\ reader[r] = "running" /\ Unfinished(r)
    /\ IF link[r] = "up"
       THEN /\ rop' = Set(rop, r, "reading") /\ reader' = Set(reader, r, "suspended")
            /\ UNCHANGED exit
       ELSE exit' = "panic" /\ UNCHANGED <<rop, reader>>
    /\ UNCHANGED <<sync, main, server, total, writers, tcp>>

-----------------------------------------------------------------------------
\* Server and ServeClient.

\* A packet resumes Server: it calls ServeClient, which runs in its thread.
ServerResumes ==
    /\ exit = "no" /\ acceptOp \in Readers
    /\ writer' = Set(writer, acceptOp, "running")
    /\ serving' = acceptOp /\ acceptOp' = "none"
    /\ UNCHANGED <<process, backlog, readers, wop, tcp>>

\* Mutant of Yield: Server accepts once.
YieldForGood(r) ==
    /\ serving' = IF serving = r THEN NoReader ELSE serving
    /\ UNCHANGED <<acceptOp, exit>>

\* ServeClient gives up its thread: the first time it is back to Server, which
\* accepts again.
Yield(r) ==
    IF serving = r
    THEN /\ serving' = NoReader
         /\ \/ acceptOp' = "kernel" /\ UNCHANGED exit
            \/ Unexpected /\ UNCHANGED acceptOp
    ELSE UNCHANGED <<serving, acceptOp, exit>>

\* A packet resumes ServeClient from its Write; nobody looks at err.
WriterResumes(r) ==
    /\ exit = "no" /\ writer[r] = "suspended" /\ wop[r] \in Packets
    /\ wop' = Set(wop, r, "none") /\ writer' = Set(writer, r, "running")
    /\ UNCHANGED <<process, server, readers, tcp>>

Broken(r) == reader[r] = "freed" \/ link[r] = "reset"
Room(r) == ~Broken(r) /\ stream[r] + WriterSize <= Window

\* co_await conn.Write: the block at once, which suspends nothing if sync ...
WriteNow(r) ==
    /\ exit = "no" /\ writer[r] = "running" /\ Room(r)
    /\ stream' = Set(stream, r, stream[r] + WriterSize)
    /\ IF sync
       THEN UNCHANGED <<wop, writer, serving, acceptOp, exit>>
       ELSE /\ wop' = Set(wop, r, "written") /\ writer' = Set(writer, r, "suspended")
            /\ Yield(r)
    /\ UNCHANGED <<sync, main, backlog, readers, link, received>>

\* Mutant of WriteLater: the missing h.destroy().
WriteLaterNoDestroy(r) ==
    /\ exit = "no" /\ writer[r] = "running"
    /\ writer' = Set(writer, r, "suspended")
    /\ wop' = Set(wop, r, IF Broken(r) THEN "none" ELSE "writing")
    /\ Yield(r)
    /\ UNCHANGED <<sync, main, backlog, readers, tcp>>

\* ... or later, or h.destroy(): the frame goes, and with it the connection.
WriteLater(r) ==
    /\ exit = "no" /\ writer[r] = "running"
    /\ IF Broken(r)
       THEN writer' = Set(writer, r, "freed") /\ UNCHANGED wop
       ELSE wop' = Set(wop, r, "writing") /\ writer' = Set(writer, r, "suspended")
    /\ Yield(r)
    /\ UNCHANGED <<sync, main, backlog, readers, tcp>>

-----------------------------------------------------------------------------
\* The kernel: sockets and the completion port.

\* A connection is made with a listener, and refused without one.
ConnectDone(r) ==
    /\ exit = "no" /\ rop[r] = "connecting"
    /\ IF main = "server"
       THEN rop' = Set(rop, r, "refused") /\ UNCHANGED <<link, backlog>>
       ELSE /\ rop' = Set(rop, r, "connected") /\ link' = Set(link, r, "up")
            /\ backlog' = backlog \cup {r}
    /\ UNCHANGED <<process, acceptOp, serving, reader, total, writers, stream, received>>

\* A connection that was reset while it waited may end AcceptEx with an error;
\* nobody looks at err, and the socket is as good as one that was reset later.
AcceptDone(r) ==
    /\ exit = "no" /\ acceptOp = "kernel" /\ r \in backlog
    /\ acceptOp' = r /\ backlog' = backlog \ {r}
    /\ UNCHANGED <<process, serving, readers, writers, tcp>>

ReadDone(r, n) ==
    /\ exit = "no" /\ rop[r] = "reading" /\ link[r] = "up" /\ n <= stream[r]
    /\ stream' = Set(stream, r, stream[r] - n)
    /\ received' = Set(received, r, received[r] + n)
    /\ rop' = Set(rop, r, "read")
    /\ UNCHANGED <<process, server, reader, total, writers, link>>

ReadFails(r) ==
    /\ exit = "no" /\ rop[r] = "reading" /\ link[r] = "reset"
    /\ rop' = Set(rop, r, "read failed")
    /\ UNCHANGED <<process, server, reader, total, writers, tcp>>

WriteDone(r) ==
    /\ exit = "no" /\ wop[r] = "writing" /\ Room(r)
    /\ stream' = Set(stream, r, stream[r] + WriterSize)
    /\ wop' = Set(wop, r, "written")
    /\ UNCHANGED <<process, server, readers, writer, link, received>>

WriteFails(r) ==
    /\ exit = "no" /\ wop[r] = "writing" /\ Broken(r)
    /\ wop' = Set(wop, r, "write failed")
    /\ UNCHANGED <<process, server, readers, writer, tcp>>

Reset(r) ==
    /\ exit = "no" /\ link[r] = "up" /\ "reset" \in Faults
    /\ link' = Set(link, r, "reset") /\ stream' = Set(stream, r, 0)
    /\ UNCHANGED <<process, server, readers, writers, received>>

-----------------------------------------------------------------------------
Coroutine(r) ==
    \/ ReaderResumes(r) \/ ReaderEnds(r) \/ ReadLater(r)
    \/ \E n \in 1..ReaderSize : ReadNow(r, n)
    \/ WriterResumes(r) \/ WriteNow(r) \/ WriteLater(r)

KernelStep(r) ==
    \/ ConnectDone(r) \/ AcceptDone(r) \/ ReadFails(r) \/ WriteDone(r) \/ WriteFails(r)
    \/ \E n \in 1..ReaderSize : ReadDone(r, n)

Work ==
    \/ \E r \in Readers : StartReader(r) \/ Coroutine(r) \/ KernelStep(r)
    \/ StartServer \/ ServerResumes

Next == Work \/ LeaveRun \/ \E r \in Readers : Reset(r)

\* The kernel or a thread always goes on, whichever of them can.  Nobody need
\* reset a connection or lose patience.
Spec == Init /\ [][Next]_vars /\ WF_vars(Work)

-----------------------------------------------------------------------------
\* Every variable has its type.
TypeOK ==
    /\ sync \in Modes /\ main \in {"server", "readers", "sleeping"}
    /\ exit \in {"no", "timeout", "panic"}
    /\ acceptOp \in {"none", "kernel"} \cup Readers
    /\ serving \in Readers \cup {NoReader} /\ backlog \subseteq Readers
    /\ reader \in [Readers -> {"none", "running", "suspended", "freed"}]
    /\ rop \in [Readers -> Ops] /\ total \in [Readers -> 1-ReaderSize..Bytes]
    /\ writer \in [Readers -> {"none", "running", "suspended", "freed"}]
    /\ wop \in [Readers -> Ops]
    /\ link \in [Readers -> {"none", "up", "reset"}]
    /\ stream \in [Readers -> 0..Window] /\ received \in [Readers -> Nat]

\* A frame is resumed once for every suspension and never after its end: it has
\* an operation or a packet exactly while it is suspended, inline completions
\* and destroyed frames included (Awaitable.cpp:58-68, 85-95).  Server's own
\* frame is so too, unless the thread is in its ServeClient.
OneOwner ==
    /\ \A r \in Readers :
          /\ reader[r] = "suspended" <=> rop[r] # "none"
          /\ writer[r] = "suspended" <=> wop[r] # "none"
    /\ exit = "no" /\ main # "server" => (acceptOp = "none" <=> serving # NoReader)
    /\ exit = "no" /\ serving # NoReader => writer[serving] = "running"

\* What a reader believes to have read once it has looked at its packet.
Counted(r) == Bytes - total[r] + (IF rop[r] = "read" THEN ReaderSize ELSE 0)

\* A reader counts every read in full, whatever it brought (Awaitable.cpp:56):
\* never less than it was given, and too much by at most ReaderSize for each
\* byte of a connection that holds, as each read that it counts brought a byte.
CountsReads ==
    \A r \in Readers :
        /\ received[r] <= Counted(r)
        /\ link[r] # "reset" => Counted(r) <= ReaderSize * received[r]

\* What a thread or the kernel can go on with.
ReaderReady(r) == reader[r] \in {"none", "running"} \/ rop[r] \in Packets
WriterReady(r) == writer[r] = "running" \/ wop[r] \in Packets
ServerReady == main = "server" \/ acceptOp \in Readers
KernelReady(r) ==
    \/ rop[r] = "connecting"
    \/ acceptOp = "kernel" /\ r \in backlog
    \/ rop[r] = "reading" /\ link[r] = "reset"
    \/ rop[r] = "reading" /\ link[r] = "up" /\ stream[r] > 0
    \/ wop[r] = "writing" /\ (Broken(r) \/ Room(r))
Ready ==
    ServerReady \/ \E r \in Readers : ReaderReady(r) \/ WriterReady(r) \/ KernelReady(r)

\* Nothing waits for ever: while the process lives, threads and operations are
\* at rest only when every frame, of reader and writer, is freed
\* (Awaitable.cpp:58-97, 161-185).  A ServeClient that is not destroyed, or a
\* Server that does not accept again, leaves some.  A freed reader need not have
\* had its bytes: it has counted as many (56).
RestsWhenFreed ==
    exit = "no" /\ ~Ready => \A r \in Readers : reader[r] = "freed" /\ writer[r] = "freed"

\* Every reader comes to its end, its frame freed, or the process ends before:
\* though the server accepts the next connection only once the writer of the
\* last one has suspended for the first time (Awaitable.cpp:161-185).
EveryReaderEnds == \A r \in Readers : <>(reader[r] = "freed" \/ exit # "no")

\* When its reader has gone, a ServeClient is destroyed by its own next Write:
\* the endless loop leaks no frame.
WritersDestroyed ==
    \A r \in Readers : reader[r] = "freed" ~> (writer[r] = "freed" \/ exit # "no")
=============================================================================
