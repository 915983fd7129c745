-------------------------- MODULE TraditionalStreams --------------------------
(***************************************************************************)
(* 2015_CppCon/SuperLean/Traditional.cpp: the benchmark of Improved.cpp    *)
(* with a fresh handler, an OverlappedBase on the heap, for every          *)
(* operation instead of the one that a reader or writer keeps (wo).        *)
(*                                                                         *)
(* A handler is its caller's until the operation is launched.  Then it is  *)
(* released: the kernel has its OVERLAPPED, the packet calls it, and       *)
(* nobody deletes it.  Of each reader and writer the state of the last     *)
(* handler is kept; those before it are freed or forgotten for good.       *)
(***************************************************************************)
EXTENDS IocpStreams

VARIABLES
    handler,   \* of a reader: "none", "launched", "invoked" and leaked, "freed"
    whandler   \* of a writer

handlers == <<handler, whandler>>
tvars == <<vars, handlers>>

TInit ==
    /\ Init
    /\ handler = [r \in Readers |-> "none"] /\ whandler = [r \in Readers |-> "none"]

-----------------------------------------------------------------------------
\* Mutant of AfterReturn: a handler that the unique_ptr deletes in any case.
AfterReturnFreed(reported) == "freed"

\* The end of Read and Write: an inline completion frees the handler, and a
\* launched operation has it released.
AfterReturn(reported) == IF reported THEN "freed" ELSE "launched"

\* tcp_reader::start: the handler of Connect is released, once ConnectEx is done.
TStartReader(r) ==
    /\ StartReader(r)
    /\ handler' = IF exit' = "no" THEN Set(handler, r, "launched") ELSE handler
    /\ UNCHANGED whandler

\* Connection::Read.  An error invokes the handler, which deletes the reader,
\* and then releases it.
TRead(r) ==
    /\ \/ /\ \E n \in 1..ReaderSize : ReceiveNow(r, n)
          /\ handler' = Set(handler, r, AfterReturn(ReportsInline))
       \/ ReceiveLater(r) /\ handler' = Set(handler, r, AfterReturn(FALSE))
       \/ ReceiveError(r) /\ handler' = Set(handler, r, "invoked")
    /\ misused' = (misused \/ rop[r].st # "none")

\* io_complete_callback: the packet calls OnConnect or OnRead.
TOnConnect(r) ==
    /\ OnConnect(r)
    /\ handler' = Set(handler, r, "invoked")
    /\ UNCHANGED whandler

TOnRead(r) ==
    /\ OnRead(r)
    /\ handler' = Set(handler, r, "invoked")
    /\ UNCHANGED whandler

\* The loop of OnConnect.
TConnectLoop(r) ==
    /\ exit = "no" /\ place[r] = "OnConnect"
    /\ TRead(r)
    /\ UNCHANGED <<sync, main, server, total, writer, link, whandler>>

\* Mutant of TReadLoop: OnComplete without the return, so that the loop goes on.
TReadLoopGoesOn(r) ==
    /\ exit = "no" /\ place[r] = "OnRead"
    /\ total' = Set(total, r, total[r] - bytesRead[r])
    /\ TRead(r)
    /\ UNCHANGED <<sync, main, server, writer, link, whandler>>

\* The loop of OnRead.
TReadLoop(r) ==
    /\ exit = "no" /\ place[r] = "OnRead"
    /\ total' = Set(total, r, total[r] - bytesRead[r])
    /\ IF Enough(r)
       THEN /\ Finish(r)
            /\ bytesRead' = Set(bytesRead, r, 0)
            /\ UNCHANGED <<rop, stream, received, misused, handler>>
       ELSE TRead(r)
    /\ UNCHANGED <<sync, main, server, writer, link, whandler>>

-----------------------------------------------------------------------------
\* The constructor of tcp_writer: after a first block that was sent inline, a
\* second handler is made, posted and released.
TNewWriter(r) ==
    /\ NewWriter(r)
    /\ whandler' = Set(whandler, r, IF wop'[r].st = "none" THEN "invoked"
                                    ELSE AfterReturn(FALSE))

TOnAccept ==
    /\ Dequeue /\ acceptOp \in Readers
    /\ TNewWriter(acceptOp)
    /\ AcceptAgain
    /\ UNCHANGED <<sync, main, workCount, backlog, reader, link, received, handler>>

TOnWrite(r) ==
    /\ OnWrite(r)
    /\ whandler' = Set(whandler, r, "invoked")
    /\ UNCHANGED handler

\* The loop of tcp_writer::OnWrite, with Connection::Write.
TWriteLoop(r) ==
    /\ exit = "no" /\ wplace[r] = "OnWrite"
    /\ \/ /\ SendNow(r)
          /\ wop' = Set(wop, r, IF SkipOnSuccess THEN NoOp
                                ELSE Packet("OnWrite", WriterSize, FALSE))
          /\ wplace' = Set(wplace, r, IF ReportsInline THEN "OnWrite" ELSE "idle")
          /\ whandler' = Set(whandler, r, AfterReturn(ReportsInline))
       \/ SendLater(r) /\ whandler' = Set(whandler, r, AfterReturn(FALSE))
       \/ SendError(r) /\ whandler' = Set(whandler, r, "invoked")
    /\ misused' = (misused \/ wop[r].st # "none")
    /\ UNCHANGED <<process, server, reader, link, received, handler>>

-----------------------------------------------------------------------------
THandler(r) ==
    \/ TOnConnect(r) \/ TConnectLoop(r) \/ TOnRead(r) \/ TReadLoop(r)
    \/ TOnWrite(r) \/ TWriteLoop(r)

\* What no handler of a reader or writer has a part in.
Elsewhere == StartServer \/ AcceptFailed \/ DestroyPool \/ \E r \in Readers : KernelStep(r)

TWork ==
    \/ \E r \in Readers : TStartReader(r) \/ THandler(r)
    \/ TOnAccept
    \/ Elsewhere /\ UNCHANGED handlers

TNext ==
    \/ TWork
    \/ (LeaveRun \/ \E r \in Readers : Reset(r)) /\ UNCHANGED handlers

TSpec == TInit /\ [][TNext]_tvars /\ WF_tvars(TWork)

-----------------------------------------------------------------------------
\* A released handler belongs to one operation, in progress or in a packet: the
\* kernel never writes to freed memory (Traditional.cpp:103-127), no packet
\* calls a freed handler or one twice (15-19) or into a reader that has deleted
\* itself (208), and what leaks has been called: no operation is lost.
HandlersLive ==
    \A r \in Readers :
        /\ handler[r] = "launched" <=> rop[r].st # "none"
        /\ whandler[r] = "launched" <=> wop[r].st # "none"
        /\ place[r] = "deleted" => handler[r] \in {"invoked", "freed"}

\* For its readers, its writers and the wire each step of this program is one of
\* Improved.cpp: the handlers' way of life makes no other difference.
ImplementsImproved == Init /\ [][Next]_vars
==============================================================================
