---------------------------- MODULE ServerSession ----------------------------
(***************************************************************************)
(* A session of the echo server, 2017_CppCon/live/myserver.cpp: read some, *)
(* write it back, and so on; at the first error a posted handler deletes   *)
(* the session.  The server's threads run its handlers without a strand:   *)
(* the chain of operations alone keeps them apart.                         *)
(***************************************************************************)
EXTENDS Integers, Sequences

CONSTANT BufSize  \* block_size_, the size of buf_

VARIABLES
    life,       \* the session: "none", "new", "started", "deleted"
    op,         \* the operation in progress: "none", "read", "write"
    opState,    \* "none", "pending", "ok", "error"
    buf,        \* the bytes of buf_ that were read and are not yet written
    destroys,   \* posted calls of destroy that have not run
    inbox, outbox,  \* the connection's bytes to and from the session
    link,           \* "up" or "reset"
    peerOpen,       \* the peer has not closed its end
    room            \* how many more bytes the kernels take from the session

server == <<life, op, opState, buf, destroys>>

Init ==
    /\ life = "none" /\ op = "none" /\ opState = "none"
    /\ buf = <<>> /\ destroys = 0

-----------------------------------------------------------------------------
\* net::post(io_context_, [this] { destroy(this); })
PostDestroy ==
    /\ op' = "none" /\ opState' = "none"
    /\ destroys' = destroys + 1

\* start.
Start(optionErr) ==
    /\ life = "new"
    /\ life' = "started"
    /\ IF optionErr
       THEN PostDestroy
       ELSE op' = "read" /\ opState' = "pending" /\ UNCHANGED destroys
    /\ UNCHANGED <<buf, inbox, outbox, link>>

\* Mutant of HandleRead: the missing return.
HandleReadFallsThrough ==
    /\ op = "read" /\ opState \in {"ok", "error"}
    /\ IF opState = "ok" THEN op' = "write" /\ opState' = "pending"
                         ELSE op' = "none" /\ opState' = "none"
    /\ destroys' = destroys + 1
    /\ UNCHANGED <<life, buf, inbox, outbox, link>>

\* handle_read: read_data_length_ bytes of buf_ are echoed.
HandleRead ==
    /\ op = "read" /\ opState \in {"ok", "error"}
    /\ IF opState = "ok"
       THEN op' = "write" /\ opState' = "pending" /\ UNCHANGED destroys
       ELSE PostDestroy
    /\ UNCHANGED <<life, buf, inbox, outbox, link>>

\* Mutant of HandleWrite: an error that is ignored.
HandleWriteIgnoresError ==
    /\ op = "write" /\ opState \in {"ok", "error"}
    /\ IF opState = "ok" THEN op' = "read" /\ opState' = "pending"
                         ELSE op' = "none" /\ opState' = "none"
    /\ UNCHANGED <<life, buf, destroys, inbox, outbox, link>>

\* handle_write.
HandleWrite ==
    /\ op = "write" /\ opState \in {"ok", "error"}
    /\ IF opState = "ok"
       THEN op' = "read" /\ opState' = "pending" /\ UNCHANGED destroys
       ELSE PostDestroy
    /\ UNCHANGED <<life, buf, inbox, outbox, link>>

\* destroy: delete s, which closes the socket.
Destroy ==
    /\ destroys > 0
    /\ destroys' = destroys - 1
    /\ life' = "deleted"
    /\ UNCHANGED <<op, opState, buf, inbox, outbox, link>>

-----------------------------------------------------------------------------
\* The operating system and the io_context.

\* The first n bytes of the connection go into buf_.
ReadCompletes(n) ==
    /\ op = "read" /\ opState = "pending" /\ link = "up"
    /\ n \in 1..BufSize /\ n <= Len(inbox)
    /\ buf' = SubSeq(inbox, 1, n)
    /\ inbox' = SubSeq(inbox, n + 1, Len(inbox))
    /\ opState' = "ok"
    /\ UNCHANGED <<life, op, destroys, outbox, link>>

\* A part of what async_write has left to send, as far as the kernels have room
\* for it; the last one completes it.  A peer that has closed loses it.
WriteSome(n) ==
    /\ op = "write" /\ opState = "pending" /\ link = "up"
    /\ n \in 1..Len(buf) /\ (peerOpen => n <= room)
    /\ outbox' = IF peerOpen THEN outbox \o SubSeq(buf, 1, n) ELSE outbox
    /\ buf' = SubSeq(buf, n + 1, Len(buf))
    /\ opState' = IF n = Len(buf) THEN "ok" ELSE "pending"
    /\ UNCHANGED <<life, op, destroys, inbox, link>>

\* A reset connection ends an operation with an error, and so does a peer that
\* has closed: the end of its stream, or its reset.
OpFails ==
    /\ opState = "pending"
    /\ link = "reset" \/ ~peerOpen
    /\ opState' = "error"
    /\ UNCHANGED <<life, op, buf, destroys, inbox, outbox, link>>
=============================================================================
