---------------------------- MODULE ClientSession ----------------------------
(***************************************************************************)
(* A session of the echo benchmark's client, 2017_CppCon/live/myclient.cpp *)
(* with handler_allocator.hpp.  It sends one block, and from then on sends *)
(* back what it reads, overlapping a read and a write on two buffers that  *)
(* it swaps when unwritten_count_ says that both operations are over.      *)
(*                                                                         *)
(* The session's handlers run on its strand, so each is one action.  What  *)
(* the io_context and the kernel do with an operation in progress are the  *)
(* actions of the Networking TS, modelled from how the session uses them.  *)
(*                                                                         *)
(* The byte counters bytes_written_ and bytes_read_ grow for ever; only    *)
(* their difference `ahead' is kept.                                       *)
(***************************************************************************)
EXTENDS Integers, Sequences

CONSTANTS
    BlockSize,  \* block_size_, the size of both buffers
    Window,     \* how many bytes the kernels keep for a connection, each way
    ReadHandlerSize, WriteHandlerSize,  \* what their operations allocate
    Faults      \* what the environment may do to the session

ASSUME BlockSizeAssumption == BlockSize \in Nat \ {0}
ASSUME WindowAssumption == Window \in Nat \ {0}
ASSUME HandlerSizeAssumption == ReadHandlerSize \in Nat /\ WriteHandlerSize \in Nat
ASSUME FaultsAssumption == Faults \subseteq {"refused", "option", "stop", "reset"}

VARIABLES
    sock,       \* the socket: "connecting", "open", "closed"
    connectOp,  \* async_connect: "pending", "ok", "error", "handled"
    readOp,     \* the async_read_some in progress, or NoOp
    writeOp,    \* the async_write in progress, or NoOp
    mem,        \* the contents of the two buffers
    readData, writeData,      \* read_data_ and write_data_: which buffer
    readLength,               \* read_data_length_
    unwritten,                \* unwritten_count_
    ahead,                    \* bytes_written_ - bytes_read_
    readInUse, writeInUse,    \* in_use_ of the two handler_allocators
    stop,                     \* session::stop: "no", "posted", "run"
    failed,                   \* a handler was given an error (history)
    inbox, outbox,            \* the connection's bytes to and from the session
    link,                     \* "up" or "reset"
    peerOpen                  \* the peer has not closed its end

ops == <<connectOp, readOp, writeOp>>
buffers == <<mem, readData, writeData, readLength>>
counters == <<unwritten, ahead>>
allocators == <<readInUse, writeInUse>>
session == <<sock, ops, buffers, counters, allocators, stop, failed>>

Buffers == {"A", "B"}
Junk == 0                    \* what new char[] leaves in a buffer
Bytes == Junk..BlockSize     \* the block that is sent: 1, 2, ..., BlockSize

\* An operation: state, buffer, bytes asked for, bytes transferred, error, and
\* where its handler's memory came from: "default" without an allocator.
Ops == [st : {"none", "pending", "done"}, buf : Buffers, len : 0..BlockSize,
        n : 0..BlockSize, err : BOOLEAN, mem : {"storage", "heap", "default"}]
NoOp == [st |-> "none", buf |-> "A", len |-> 0, n |-> 0, err |-> FALSE,
         mem |-> "default"]

Outstanding(op) == op.st # "none"

Init ==
    /\ sock = "connecting" /\ connectOp = "pending"
    /\ readOp = NoOp /\ writeOp = NoOp
    /\ mem = [b \in Buffers |-> [k \in 1..BlockSize |-> IF b = "A" THEN Junk ELSE k]]
    /\ readData = "A" /\ writeData = "B" /\ readLength = 0
    /\ unwritten = 0 /\ ahead = 0
    /\ readInUse = FALSE /\ writeInUse = FALSE
    /\ stop = "no" /\ failed = FALSE

-----------------------------------------------------------------------------
StorageSize == 1024  \* of handler_allocator's array

\* handler_allocator::allocate and SimpleAllocator: the session's storage if it
\* is free and large enough, else the heap; and in_use_ afterwards.
Storage(inUse, size) == IF ~inUse /\ size <= StorageSize THEN "storage" ELSE "heap"
Taken(inUse, size) == inUse \/ size <= StorageSize

Pending(buf, len, m) ==
    [st |-> "pending", buf |-> buf, len |-> len, n |-> 0, err |-> FALSE, mem |-> m]

\* Mutant of InUseAfter: deallocate does not reset in_use_.
InUseForEver(inUse, op) == inUse

\* handler_allocator::deallocate, before the handler is called.
InUseAfter(inUse, op) == IF op.mem = "storage" THEN FALSE ELSE inUse

\* async_read_some into a whole buffer, and async_write of len bytes, of which
\* the handler has the allocator as the caller finds it.
StartRead(b, inUse) ==
    /\ readOp' = Pending(b, BlockSize, Storage(inUse, ReadHandlerSize))
    /\ readInUse' = Taken(inUse, ReadHandlerSize)
StartWrite(b, len, inUse) ==
    /\ writeOp' = Pending(b, len, Storage(inUse, WriteHandlerSize))
    /\ writeInUse' = Taken(inUse, WriteHandlerSize)

\* Mutants of SwapAndStart: no swap, and the swap after the operations.
StartWithoutSwap(len, rUse, wUse) ==
    /\ UNCHANGED <<readData, writeData>>
    /\ StartWrite(writeData, len, wUse) /\ StartRead(readData, rUse)
StartAndSwap(len, rUse, wUse) ==
    /\ readData' = writeData /\ writeData' = readData
    /\ StartWrite(writeData, len, wUse) /\ StartRead(readData, rUse)

\* swap(read_data_, write_data_); async_write(write_data_, read_data_length_);
\* async_read_some(read_data_, block_size_).  rUse and wUse are the allocators
\* as the handler finds them.
SwapAndStart(len, rUse, wUse) ==
    /\ readData' = writeData /\ writeData' = readData
    /\ StartWrite(readData, len, wUse) /\ StartRead(writeData, rUse)

\* handle_connect.  The first write's handler comes without an allocator.  A
\* socket closed meanwhile fails set_option, an open one may.
HandleConnect(optionErr) ==
    /\ connectOp \in {"ok", "error"}
    /\ optionErr => sock = "closed" \/ "option" \in Faults
    /\ (connectOp = "ok" /\ sock = "closed") => optionErr
    /\ connectOp' = "handled"
    /\ IF connectOp = "error" \/ optionErr
       THEN /\ failed' = TRUE
            /\ UNCHANGED <<readOp, writeOp, unwritten, allocators>>
       ELSE /\ unwritten' = unwritten + 1
            /\ writeOp' = Pending(writeData, BlockSize, "default")
            /\ StartRead(readData, readInUse)
            /\ UNCHANGED <<writeInUse, failed>>
    /\ UNCHANGED <<sock, buffers, ahead, stop, inbox, outbox, link>>

\* Mutants of HandleRead: only handle_write starts operations again, and
\* bytes_read_ is forgotten.
HandleReadNoStart ==
    /\ readOp.st = "done"
    /\ readOp' = NoOp /\ readInUse' = InUseAfter(readInUse, readOp)
    /\ IF readOp.err
       THEN failed' = TRUE /\ UNCHANGED <<readLength, counters>>
       ELSE /\ ahead' = ahead - readOp.n
            /\ readLength' = readOp.n /\ unwritten' = unwritten + 1
            /\ UNCHANGED failed
    /\ UNCHANGED <<writeOp, mem, readData, writeData, writeInUse, sock, connectOp,
                   stop, inbox, outbox, link>>
HandleReadUncounted ==
    /\ readOp.st = "done" /\ ~readOp.err
    /\ readLength' = readOp.n
    /\ unwritten' = unwritten + 1
    /\ IF unwritten' = 1
       THEN SwapAndStart(readLength', InUseAfter(readInUse, readOp), writeInUse)
       ELSE /\ readOp' = NoOp /\ readInUse' = InUseAfter(readInUse, readOp)
            /\ UNCHANGED <<writeOp, readData, writeData, writeInUse>>
    /\ UNCHANGED <<ahead, mem, failed, sock, connectOp, stop, inbox, outbox, link>>

\* handle_read.
HandleRead ==
    /\ readOp.st = "done"
    /\ LET freed == InUseAfter(readInUse, readOp)
       IN  IF readOp.err
           THEN /\ readOp' = NoOp /\ readInUse' = freed /\ failed' = TRUE
                /\ UNCHANGED <<writeOp, buffers, counters, writeInUse>>
           ELSE /\ ahead' = ahead - readOp.n
                /\ readLength' = readOp.n
                /\ unwritten' = unwritten + 1
                /\ IF unwritten' = 1
                   THEN SwapAndStart(readLength', freed, writeInUse)
                   ELSE /\ readOp' = NoOp /\ readInUse' = freed
                        /\ UNCHANGED <<writeOp, readData, writeData, writeInUse>>
                /\ UNCHANGED <<mem, failed>>
    /\ UNCHANGED <<sock, connectOp, stop, inbox, outbox, link>>

\* handle_write.
HandleWrite ==
    /\ writeOp.st = "done"
    /\ LET freed == InUseAfter(writeInUse, writeOp)
       IN  IF writeOp.err \/ writeOp.n = 0
           THEN /\ writeOp' = NoOp /\ writeInUse' = freed /\ failed' = TRUE
                /\ UNCHANGED <<readOp, buffers, counters, readInUse>>
           ELSE /\ ahead' = ahead + writeOp.n
                /\ unwritten' = unwritten - 1
                /\ IF unwritten' = 1
                   THEN SwapAndStart(readLength, readInUse, freed)
                   ELSE /\ writeOp' = NoOp /\ writeInUse' = freed
                        /\ UNCHANGED <<readOp, readData, writeData, readInUse>>
                /\ UNCHANGED <<mem, readLength, failed>>
    /\ UNCHANGED <<sock, connectOp, stop, inbox, outbox, link>>

\* The client's timer has expired and handle_timeout calls stop: a post to the
\* strand.
Stop ==
    /\ stop = "no" /\ "stop" \in Faults
    /\ stop' = "posted"
    /\ UNCHANGED <<sock, ops, buffers, counters, allocators, failed, inbox, outbox, link>>

\* Mutant of CloseSocket: the socket stays open.
CloseNothing ==
    /\ stop = "posted"
    /\ stop' = "run"
    /\ UNCHANGED <<sock, ops, buffers, counters, allocators, failed, inbox, outbox, link>>

\* close_socket.
CloseSocket ==
    /\ stop = "posted"
    /\ stop' = "run"
    /\ sock' = "closed"
    /\ UNCHANGED <<ops, buffers, counters, allocators, failed, inbox, outbox, link>>

-----------------------------------------------------------------------------
\* The operating system and the io_context.

\* An established connection, or an error; a close in between aborts it.
ConnectCompletes(ok) ==
    /\ connectOp = "pending"
    /\ IF ok THEN sock = "connecting" ELSE sock = "closed" \/ "refused" \in Faults
    /\ connectOp' = IF ok THEN "ok" ELSE "error"
    /\ sock' = IF ok THEN "open" ELSE sock
    /\ UNCHANGED <<readOp, writeOp, buffers, counters, allocators, stop, failed,
                   inbox, outbox, link>>

\* The first n bytes of the connection go into the buffer of the read.
ReadCompletes(n) ==
    /\ readOp.st = "pending" /\ sock = "open" /\ link = "up"
    /\ n \in 1..readOp.len /\ n <= Len(inbox)
    /\ mem' = [mem EXCEPT ![readOp.buf] =
                  [k \in 1..BlockSize |-> IF k <= n THEN inbox[k] ELSE @[k]]]
    /\ inbox' = SubSeq(inbox, n + 1, Len(inbox))
    /\ readOp' = [readOp EXCEPT !.st = "done", !.n = n]
    /\ UNCHANGED <<sock, connectOp, writeOp, readData, writeData, readLength,
                   counters, allocators, stop, failed, outbox, link>>

\* A part of what async_write has left to send, as far as the kernels have room
\* for it; the last one completes it.
WriteSome(n) ==
    /\ writeOp.st = "pending" /\ sock = "open" /\ link = "up" /\ peerOpen
    /\ n \in 1..(writeOp.len - writeOp.n) /\ Len(outbox) + n <= Window
    /\ outbox' = outbox \o SubSeq(mem[writeOp.buf], writeOp.n + 1, writeOp.n + n)
    /\ writeOp' = [writeOp EXCEPT !.n = @ + n,
                                  !.st = IF writeOp.n + n = writeOp.len
                                         THEN "done" ELSE "pending"]
    /\ UNCHANGED <<sock, connectOp, readOp, buffers, counters, allocators, stop,
                   failed, inbox, link>>

\* A closed socket and a reset connection end an operation with an error, and
\* so does a peer that has closed: the end of its stream, or its reset.
ReadFails ==
    /\ readOp.st = "pending"
    /\ sock = "closed" \/ link = "reset" \/ ~peerOpen
    /\ readOp' = [readOp EXCEPT !.st = "done", !.err = TRUE]
    /\ UNCHANGED <<sock, connectOp, writeOp, buffers, counters, allocators, stop,
                   failed, inbox, outbox, link>>

WriteFails ==
    /\ writeOp.st = "pending"
    /\ sock = "closed" \/ link = "reset" \/ ~peerOpen
    /\ writeOp' = [writeOp EXCEPT !.st = "done", !.err = TRUE]
    /\ UNCHANGED <<sock, connectOp, readOp, buffers, counters, allocators, stop,
                   failed, inbox, outbox, link>>

-----------------------------------------------------------------------------
\* Every variable has its type.
TypeOK ==
    /\ sock \in {"connecting", "open", "closed"}
    /\ connectOp \in {"pending", "ok", "error", "handled"}
    /\ readOp \in Ops /\ writeOp \in Ops
    /\ mem \in [Buffers -> [1..BlockSize -> Bytes]]
    /\ readData \in Buffers /\ writeData \in Buffers
    /\ readLength \in 0..BlockSize
    /\ unwritten \in Nat /\ ahead \in Int
    /\ readInUse \in BOOLEAN /\ writeInUse \in BOOLEAN
    /\ stop \in {"no", "posted", "run"} /\ failed \in BOOLEAN

\* The kernel reads into one buffer while it sends the other: an operation in
\* progress owns the buffer its pointer still names, and the two never share
\* one, whatever handler swapped the pointers (myclient.cpp:148, 170).
BuffersOwned ==
    /\ readData # writeData
    /\ Outstanding(readOp) => readOp.buf = readData
    /\ Outstanding(writeOp) => writeOp.buf = writeData

\* unwritten_count_ is the number of blocks between being read and being sent,
\* as long as no operation has failed: the one async_write has, and the one
\* that waits in read_data_ for it.
UnwrittenMeaning ==
    connectOp = "handled" /\ ~failed =>
        unwritten = (IF Outstanding(writeOp) THEN 1 ELSE 0)
                  + (IF Outstanding(readOp) THEN 0 ELSE 1)

\* A session that has met no error always has an operation in progress: it
\* cannot fall asleep with its socket open.
NeverIdle ==
    connectOp = "handled" /\ ~failed => Outstanding(readOp) \/ Outstanding(writeOp)

\* A handler that fits never has its memory from the heap: a session has at most
\* one operation per allocator, and whichever handler starts both again finds
\* the storage of both free, its own included (handler_allocator.hpp:23-42).
NoHeapFallback ==
    /\ Outstanding(readOp) /\ ReadHandlerSize <= StorageSize => readOp.mem = "storage"
    /\ Outstanding(writeOp) /\ WriteHandlerSize <= StorageSize => writeOp.mem # "heap"
    /\ readInUse <=> Outstanding(readOp) /\ readOp.mem = "storage"
    /\ writeInUse <=> Outstanding(writeOp) /\ writeOp.mem = "storage"
=============================================================================
