----------------------------- MODULE EchoSystem -----------------------------
(***************************************************************************)
(* A client session and the server session it talks to, over one TCP       *)
(* connection: a stream of bytes each way, of which the kernels keep at    *)
(* most Window until they are read; reset by the network at worst.         *)
(***************************************************************************)
EXTENDS ClientSession

CONSTANT ServerBufSize  \* the server's block size, chosen by its own command line

ASSUME ServerBufSizeAssumption == ServerBufSize \in Nat \ {0}

VARIABLES life, op, opState, buf, destroys  \* the server's session

Server == INSTANCE ServerSession WITH
    BufSize <- ServerBufSize, inbox <- outbox, outbox <- inbox,
    peerOpen <- sock # "closed", room <- Window - Len(inbox)

server == <<life, op, opState, buf, destroys>>
wire == <<inbox, outbox, link>>
vars == <<session, server, wire, peerOpen>>

SystemInit ==
    /\ Init /\ Server!Init
    /\ inbox = <<>> /\ outbox = <<>> /\ link = "up" /\ peerOpen = TRUE

-----------------------------------------------------------------------------
\* server::handle_accept: the session object is made for a connection that the
\* kernels have established, maybe as the client gave it up.
Accept ==
    /\ life = "none" /\ sock \in {"open", "closed"}
    /\ life' = "new"
    /\ UNCHANGED <<session, op, opState, buf, destroys, wire, peerOpen>>

\* The network gives up on the connection and the bytes it carried.
Reset ==
    /\ link = "up" /\ sock = "open" /\ "reset" \in Faults
    /\ link' = "reset" /\ inbox' = <<>> /\ outbox' = <<>>
    /\ UNCHANGED <<session, server, peerOpen>>

\* The session's destructor closes the server's end.
ServerDestroy ==
    /\ Server!Destroy
    /\ peerOpen' = FALSE
    /\ UNCHANGED session

ServerGone == UNCHANGED <<server, peerOpen>>
ClientGone == UNCHANGED <<session, peerOpen>>

\* The session's own handlers.
ClientHandler ==
    \/ \E e \in BOOLEAN : HandleConnect(e)
    \/ HandleRead
    \/ HandleWrite
    \/ CloseSocket

ServerHandler ==
    \/ \E e \in BOOLEAN : Server!Start(e) /\ (e => "option" \in Faults)
    \/ Server!HandleRead
    \/ Server!HandleWrite

\* Operations that the kernel brings to an end.
ClientKernel ==
    \/ \E ok \in BOOLEAN : ConnectCompletes(ok)
    \/ \E n \in 1..BlockSize : ReadCompletes(n)
    \/ \E n \in 1..BlockSize : WriteSome(n)
    \/ ReadFails
    \/ WriteFails

ServerKernel ==
    \/ \E n \in 1..ServerBufSize : Server!ReadCompletes(n)
    \/ \E n \in 1..ServerBufSize : Server!WriteSome(n)
    \/ Server!OpFails

ClientHandles == ClientHandler /\ ServerGone
ClientOpEnds == ClientKernel /\ ServerGone
ServerHandles == ServerHandler /\ ClientGone
ServerOpEnds == ServerKernel /\ ClientGone
StopClient == Stop /\ ServerGone

Next ==
    \/ ClientHandles \/ ClientOpEnds \/ StopClient
    \/ ServerHandles \/ ServerOpEnds \/ ServerDestroy
    \/ Accept \/ Reset

\* An io_context with a thread in run() runs a handler that is ready, and the
\* kernel ends an operation that can end.  Nobody need stop or reset.
Fairness ==
    /\ WF_vars(ClientHandles) /\ WF_vars(ClientOpEnds)
    /\ WF_vars(ServerHandles) /\ WF_vars(ServerOpEnds) /\ WF_vars(ServerDestroy)
    /\ WF_vars(Accept)

Spec == SystemInit /\ [][Next]_vars /\ Fairness

-----------------------------------------------------------------------------
\* Nobody has closed, and no operation has met an error.
Intact ==
    /\ link = "up" /\ peerOpen /\ sock # "closed" /\ ~failed
    /\ ~readOp.err /\ ~writeOp.err /\ opState # "error" /\ destroys = 0

FirstBytes(b, n) == SubSeq(mem[b], 1, n)

\* What async_write has still to send, or the block before the connection.
Unsent ==
    IF connectOp # "handled" THEN mem[writeData]
    ELSE IF writeOp.st = "pending"
         THEN SubSeq(mem[writeOp.buf], writeOp.n + 1, writeOp.len)
         ELSE <<>>

\* What was read and waits for the write in progress.
Waiting ==
    IF readOp.st = "done" THEN FirstBytes(readOp.buf, readOp.n)
    ELSE IF connectOp = "handled" /\ readOp.st = "none"
         THEN FirstBytes(readData, readLength)
         ELSE <<>>

\* The bytes on their way round, from the front of the stream to the server
\* back to the server's buffer.
Cycle == outbox \o Unsent \o Waiting \o inbox \o buf

Rotations == {[k \in 1..BlockSize |-> 1 + ((k + r - 1) % BlockSize)] : r \in 0..BlockSize-1}

\* The echo loses, repeats and reorders nothing: through the swapped buffers of
\* the client (myclient.cpp:146-157, 168-179) and the one buffer of the server
\* the bytes of the first block circulate in their order, for ever.
NothingLost == Intact => Cycle \in Rotations

\* The client's statistics are exact: bytes_written_ - bytes_read_ is what is
\* on its way, up to the handlers that have not run yet.
CountersExact ==
    Intact =>
        ahead + (IF Outstanding(writeOp) THEN writeOp.n ELSE 0) =
            Len(outbox) + Len(inbox) + Len(buf)
            + (IF readOp.st = "done" THEN readOp.n ELSE 0)

\* The server's session is deleted at most once, and with no operation left
\* whose handler would find it gone (myserver.cpp:39-63).
DeletedOnce ==
    /\ destroys + (IF life = "deleted" THEN 1 ELSE 0) <= 1
    /\ (destroys > 0 \/ life = "deleted") => op = "none" /\ opState = "none"

\* Who can go on by itself: a handler that is ready, and an operation, a connection
\* to accept included, that the kernel can bring to an end.
ClientReady ==
    \/ connectOp \in {"ok", "error"} \/ readOp.st = "done" \/ writeOp.st = "done"
    \/ stop = "posted"
ServerReady == life = "new" \/ opState \in {"ok", "error"} \/ destroys > 0
Broken == sock = "closed" \/ link = "reset"
KernelReady ==
    \/ connectOp = "pending"
    \/ readOp.st = "pending" /\ (Broken \/ ~peerOpen \/ inbox # <<>>)
    \/ writeOp.st = "pending" /\ (Broken \/ ~peerOpen \/ Len(outbox) < Window)
    \/ /\ opState = "pending"
       /\ \/ Broken
          \/ op = "write" /\ Len(inbox) < Window
          \/ op = "read" /\ outbox # <<>>
    \/ life = "none" /\ sock # "connecting"

\* Client and server write to each other and neither reads: the client starts no
\* read while it has a block to send and one that waits (myclient.cpp:144-154),
\* the server none before its echo is sent (myserver.cpp:39-46).  It takes a block
\* that fills the kernels' buffers both ways and leaves a byte in each of the
\* write, the block that waits and the server's buffer.
Clogged ==
    /\ BlockSize > 2 * Window + 2
    /\ writeOp.st = "pending" /\ ~Outstanding(readOp) /\ Len(outbox) = Window
    /\ op = "write" /\ opState = "pending" /\ Len(inbox) = Window

\* The echo comes to rest only when it is over, or with a block that the kernels
\* cannot hold: only then do client and server wait for each other, and never
\* with no byte on its way.  A client that rests otherwise has met an error and
\* has no operation in progress; a server's session that is still there then
\* reads from a connection that is still up (myclient.cpp:138-181, myserver.cpp:29-63).
RestsWhenOver ==
    \/ ClientReady \/ ServerReady \/ KernelReady
    \/ Clogged
    \/ /\ connectOp = "handled" /\ failed
       /\ ~Outstanding(readOp) /\ ~Outstanding(writeOp)
       /\ life \in {"none", "deleted"} \/ (op = "read" /\ ~Broken)

\* The echo does not stall: as long as nothing fails the client gets to read
\* again and again, unless its block is more than the kernels hold; with such a
\* block both may wait for each other until the timer stops the client.
EchoKeepsGoing ==
    (connectOp = "handled" /\ Intact) ~> (readOp.st = "done" \/ ~Intact \/ Clogged)

\* A connection that has ended costs the server nothing: its session goes away.
ServerCleansUp ==
    (life # "none" /\ (sock = "closed" \/ link = "reset")) ~> (life = "deleted")
=============================================================================
