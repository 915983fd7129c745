----------------------------- MODULE Echo_proof -----------------------------
(***************************************************************************)
(* Proofs about EchoSystem and BenchClient, for every block size, server   *)
(* buffer, set of faults and set of threads: first the sessions and the    *)
(* bytes between them, then the client's process around its session.       *)
(***************************************************************************)
EXTENDS BenchClient, SequenceTheorems, TLAPS

-----------------------------------------------------------------------------
\* The inductive invariant.

\* The bytes in transit are bytes.
WireOK == inbox \in Seq(Bytes) /\ outbox \in Seq(Bytes) /\ buf \in Seq(Bytes)

\* No operation and no count before the connection is handled.
BeforeConnect ==
    connectOp # "handled" =>
        /\ ~Outstanding(readOp) /\ ~Outstanding(writeOp)
        /\ unwritten = 0 /\ ~failed

\* An error ends one operation for good, and leaves a count with which the
\* other's handler does not start both again.
AfterFailure ==
    failed =>
        /\ ~(Outstanding(readOp) /\ Outstanding(writeOp))
        /\ Outstanding(readOp) \/ Outstanding(writeOp) => unwritten = 1

ClientInv ==
    /\ TypeOK /\ BuffersOwned /\ UnwrittenMeaning /\ NeverIdle /\ NoHeapFallback
    /\ BeforeConnect /\ AfterFailure

\* The server's session has one operation or one posted destroy, or is gone.
ServerInv ==
    /\ life \in {"none", "new", "started", "deleted"}
    /\ op \in {"none", "read", "write"}
    /\ opState \in {"none", "pending", "ok", "error"}
    /\ destroys \in Nat
    /\ op = "none" <=> opState = "none"
    /\ life \in {"none", "new"} => op = "none" /\ destroys = 0
    /\ DeletedOnce

IInv == WireOK /\ ClientInv /\ ServerInv

-----------------------------------------------------------------------------
\* The client's session.

LEMMA SystemInitInv == SystemInit => IInv
  <1> SUFFICES ASSUME SystemInit PROVE IInv
    OBVIOUS
  <1>1. BlockSize \in Nat /\ BlockSize > 0
    BY BlockSizeAssumption
  <1>2. WireOK
    BY DEF SystemInit, WireOK, Server!Init
  <1>3. NoOp \in Ops
    BY <1>1 DEF NoOp, Ops, Buffers
  <1>4. TypeOK
    <2>1. mem \in [Buffers -> [1..BlockSize -> Bytes]]
      BY <1>1 DEF SystemInit, Init, Bytes, Junk
    <2>2. readOp \in Ops /\ writeOp \in Ops
      BY <1>3 DEF SystemInit, Init
    <2>3. failed \in BOOLEAN /\ readInUse \in BOOLEAN /\ writeInUse \in BOOLEAN
      BY DEF SystemInit, Init
    <2>4. readLength \in 0..BlockSize
      BY <1>1 DEF SystemInit, Init
    <2> QED  BY <2>1, <2>2, <2>3, <2>4 DEF SystemInit, Init, TypeOK, Buffers
  <1>5. /\ BuffersOwned /\ UnwrittenMeaning /\ NeverIdle /\ NoHeapFallback
        /\ BeforeConnect /\ AfterFailure
    BY DEF SystemInit, Init, NoOp, Outstanding, BuffersOwned, UnwrittenMeaning,
           NeverIdle, NoHeapFallback, BeforeConnect, AfterFailure
  <1>6. ServerInv
    BY DEF SystemInit, Server!Init, ServerInv, DeletedOnce
  <1> QED  BY <1>2, <1>4, <1>5, <1>6 DEF IInv, ClientInv

\* Storage that is free is taken by what fits, and by nothing else.
LEMMA FreeStorage ==
    ASSUME NEW size \in Nat
    PROVE  /\ Storage(FALSE, size) \in {"storage", "heap"}
           /\ size <= StorageSize <=> Storage(FALSE, size) = "storage"
           /\ Taken(FALSE, size) \in BOOLEAN
           /\ Taken(FALSE, size) <=> Storage(FALSE, size) = "storage"
  BY DEF Storage, Taken, StorageSize

\* The operations that a handler starts have the right types.
LEMMA PendingType ==
    ASSUME NEW b \in Buffers, NEW len \in 0..BlockSize,
           NEW m \in {"storage", "heap", "default"}
    PROVE  Pending(b, len, m) \in Ops
  BY BlockSizeAssumption DEF Pending, Ops

\* Starting both operations anew, from a state in which neither is left and one
\* block is to be written, makes the invariant of the running session.
LEMMA RestartInv ==
    ASSUME TypeOK, BuffersOwned, BeforeConnect, ~failed, failed' = failed,
           connectOp = "handled", connectOp' = connectOp,
           NEW len \in 0..BlockSize, SwapAndStart(len, FALSE, FALSE),
           unwritten' = 1, ahead' \in Int, mem' = mem, readLength' \in 0..BlockSize,
           sock' = sock, stop' = stop
    PROVE  ClientInv'
  <1> DEFINE rmem == Storage(FALSE, ReadHandlerSize)
             wmem == Storage(FALSE, WriteHandlerSize)
  <1>1. /\ readOp' = Pending(writeData, BlockSize, rmem)
        /\ writeOp' = Pending(readData, len, wmem)
        /\ readData' = writeData /\ writeData' = readData
    BY DEF SwapAndStart, StartRead, StartWrite
  <1>2. /\ rmem \in {"storage", "heap"} /\ wmem \in {"storage", "heap"}
        /\ ReadHandlerSize <= StorageSize => rmem = "storage"
        /\ WriteHandlerSize <= StorageSize => wmem = "storage"
        /\ readInUse' \in BOOLEAN /\ (readInUse' <=> rmem = "storage")
        /\ writeInUse' \in BOOLEAN /\ (writeInUse' <=> wmem = "storage")
    BY HandlerSizeAssumption, FreeStorage DEF SwapAndStart, StartRead, StartWrite
  <1> HIDE DEF rmem, wmem
  <1>3. readOp' \in Ops /\ writeOp' \in Ops
    BY <1>1, <1>2, PendingType, BlockSizeAssumption DEF TypeOK
  <1>4. TypeOK'
    BY <1>1, <1>2, <1>3 DEF TypeOK
  <1>5. /\ readOp'.st = "pending" /\ readOp'.buf = writeData /\ readOp'.mem = rmem
        /\ writeOp'.st = "pending" /\ writeOp'.buf = readData /\ writeOp'.mem = wmem
    BY <1>1 DEF Pending
  <1>6. NoHeapFallback'
    BY <1>2, <1>5 DEF NoHeapFallback, Outstanding
  <1>7. /\ BuffersOwned' /\ UnwrittenMeaning' /\ NeverIdle'
        /\ BeforeConnect' /\ AfterFailure'
    BY <1>1, <1>5 DEF Outstanding, BuffersOwned, UnwrittenMeaning, NeverIdle,
                      BeforeConnect, AfterFailure
  <1> QED  BY <1>4, <1>6, <1>7 DEF ClientInv

LEMMA HandleConnectInv ==
    ASSUME ClientInv, NEW e \in BOOLEAN, HandleConnect(e)
    PROVE  ClientInv'
  <1> USE DEF ClientInv, ops, buffers, counters, allocators
  <1>1. CASE connectOp = "error" \/ e
    BY <1>1 DEF HandleConnect, TypeOK, Outstanding, BuffersOwned, UnwrittenMeaning,
                NeverIdle, NoHeapFallback, BeforeConnect, AfterFailure
  <1>2. CASE ~(connectOp = "error" \/ e)
    <2> DEFINE rmem == Storage(FALSE, ReadHandlerSize)
    <2>1. readInUse = FALSE /\ writeInUse = FALSE /\ unwritten = 0 /\ ~failed
      BY DEF HandleConnect, BeforeConnect, NoHeapFallback, TypeOK
    <2>9. StartRead(readData, FALSE)
      <3>1. StartRead(readData, readInUse)
        BY <1>2 DEF HandleConnect
      <3> QED  BY <2>1, <3>1, Zenon
    <2>2. /\ writeOp' = Pending(writeData, BlockSize, "default")
          /\ readOp' = Pending(readData, BlockSize, rmem)
          /\ unwritten' = 1 /\ writeInUse' = writeInUse
          /\ connectOp' = "handled" /\ failed' = failed
          /\ readData' = readData /\ writeData' = writeData
      <3>1. readOp' = Pending(readData, BlockSize, rmem)
        BY <2>9 DEF StartRead
      <3> QED  BY <1>2, <2>1, <3>1 DEF HandleConnect
    <2>3. /\ rmem \in {"storage", "heap"}
          /\ ReadHandlerSize <= StorageSize => rmem = "storage"
          /\ readInUse' \in BOOLEAN /\ (readInUse' <=> rmem = "storage")
      BY <2>9, HandlerSizeAssumption, FreeStorage DEF StartRead
    <2> HIDE DEF rmem
    <2>4. readOp' \in Ops /\ writeOp' \in Ops
      BY <2>2, <2>3, PendingType, BlockSizeAssumption DEF TypeOK
    <2>5. TypeOK'
      BY <2>2, <2>3, <2>4 DEF HandleConnect, TypeOK
    <2>6. /\ readOp'.st = "pending" /\ readOp'.buf = readData /\ readOp'.mem = rmem
          /\ writeOp'.st = "pending" /\ writeOp'.buf = writeData /\ writeOp'.mem = "default"
      BY <2>2 DEF Pending
    <2>7. NoHeapFallback'
      BY <2>1, <2>2, <2>3, <2>6 DEF NoHeapFallback, Outstanding
    <2>8. /\ BuffersOwned' /\ UnwrittenMeaning' /\ NeverIdle'
          /\ BeforeConnect' /\ AfterFailure'
      BY <2>1, <2>2, <2>6 DEF Outstanding, BuffersOwned, UnwrittenMeaning, NeverIdle,
                  BeforeConnect, AfterFailure
    <2> QED  BY <2>5, <2>7, <2>8
  <1> QED  BY <1>1, <1>2

LEMMA HandleReadInv ==
    ASSUME ClientInv, HandleRead
    PROVE  ClientInv'
  <1> USE DEF ClientInv, ops, buffers, counters, allocators
  <1>1. /\ Outstanding(readOp) /\ connectOp = "handled"
        /\ InUseAfter(readInUse, readOp) = FALSE
        /\ NoOp \in Ops /\ NoOp.st = "none"
    BY BlockSizeAssumption DEF HandleRead, Outstanding, BeforeConnect, NoHeapFallback,
                               InUseAfter, NoOp, Ops, Buffers, TypeOK
  <1>2. CASE readOp.err
    <2>1. /\ readOp' = NoOp /\ readInUse' = FALSE /\ failed' = TRUE
          /\ writeOp' = writeOp /\ writeInUse' = writeInUse /\ connectOp' = connectOp
          /\ readData' = readData /\ writeData' = writeData /\ unwritten' = unwritten
      BY <1>1, <1>2 DEF HandleRead
    <2>2. TypeOK'
      <3>1. readOp' \in Ops /\ writeOp' \in Ops
        BY <1>1, <2>1 DEF TypeOK
      <3>2. failed' \in BOOLEAN /\ readInUse' \in BOOLEAN /\ writeInUse' \in BOOLEAN
        BY <2>1 DEF TypeOK
      <3> QED  BY <1>2, <2>1, <3>1, <3>2 DEF HandleRead, TypeOK
    <2>3. Outstanding(writeOp) => unwritten = 1
      BY <1>1 DEF UnwrittenMeaning, AfterFailure
    <2> QED  BY <1>1, <2>1, <2>2, <2>3 DEF Outstanding, BuffersOwned,
                 UnwrittenMeaning, NeverIdle, NoHeapFallback, BeforeConnect, AfterFailure
  <1>3. CASE ~readOp.err
    <2>1. /\ ahead' \in Int /\ readLength' \in 0..BlockSize /\ readLength' = readOp.n
          /\ unwritten' = unwritten + 1 /\ unwritten \in Nat /\ mem' = mem
          /\ failed' = failed /\ sock' = sock /\ connectOp' = connectOp /\ stop' = stop
      BY <1>3 DEF HandleRead, TypeOK, Ops
    <2>2. CASE unwritten' = 1
      <3>1. ~failed /\ ~Outstanding(writeOp) /\ writeInUse = FALSE
        BY <1>1, <2>1, <2>2 DEF UnwrittenMeaning, AfterFailure, NoHeapFallback, TypeOK
      <3>2. SwapAndStart(readLength', FALSE, FALSE)
        BY <1>1, <1>3, <2>2, <3>1 DEF HandleRead, TypeOK
      <3> QED  BY <1>1, <2>1, <2>2, <3>1, <3>2, RestartInv
    <2>3. CASE unwritten' # 1
      <3>1. /\ readOp' = NoOp /\ readInUse' = FALSE /\ writeOp' = writeOp
            /\ readData' = readData /\ writeData' = writeData
            /\ writeInUse' = writeInUse
        BY <1>1, <1>3, <2>3 DEF HandleRead
      <3>2. TypeOK'
        <4>1. readOp' \in Ops /\ writeOp' \in Ops
          BY <1>1, <3>1 DEF TypeOK
        <4>2. failed' \in BOOLEAN /\ readInUse' \in BOOLEAN /\ writeInUse' \in BOOLEAN
          BY <2>1, <3>1 DEF TypeOK
        <4> QED  BY <2>1, <3>1, <4>1, <4>2 DEF TypeOK
      <3>3. failed \/ Outstanding(writeOp)
        BY <1>1, <2>1, <2>3 DEF UnwrittenMeaning
      <3>4. failed => ~Outstanding(writeOp)
        BY <1>1 DEF AfterFailure
      <3> QED  BY <1>1, <2>1, <3>1, <3>2, <3>3, <3>4 DEF Outstanding, BuffersOwned,
                   UnwrittenMeaning, NeverIdle, NoHeapFallback, BeforeConnect, AfterFailure
    <2> QED  BY <2>2, <2>3
  <1> QED  BY <1>2, <1>3

LEMMA HandleWriteInv ==
    ASSUME ClientInv, HandleWrite
    PROVE  ClientInv'
  <1> USE DEF ClientInv, ops, buffers, counters, allocators
  <1>1. /\ Outstanding(writeOp) /\ connectOp = "handled"
        /\ InUseAfter(writeInUse, writeOp) = FALSE
        /\ NoOp \in Ops /\ NoOp.st = "none"
    BY BlockSizeAssumption DEF HandleWrite, Outstanding, BeforeConnect, NoHeapFallback,
                               InUseAfter, NoOp, Ops, Buffers, TypeOK
  <1>2. CASE writeOp.err \/ writeOp.n = 0
    <2>1. /\ writeOp' = NoOp /\ writeInUse' = FALSE /\ failed' = TRUE
          /\ readOp' = readOp /\ readInUse' = readInUse /\ connectOp' = connectOp
          /\ readData' = readData /\ writeData' = writeData /\ unwritten' = unwritten
      BY <1>1, <1>2 DEF HandleWrite
    <2>2. TypeOK'
      <3>1. readOp' \in Ops /\ writeOp' \in Ops
        BY <1>1, <2>1 DEF TypeOK
      <3>2. failed' \in BOOLEAN /\ readInUse' \in BOOLEAN /\ writeInUse' \in BOOLEAN
        BY <2>1 DEF TypeOK
      <3> QED  BY <1>2, <2>1, <3>1, <3>2 DEF HandleWrite, TypeOK
    <2>3. Outstanding(readOp) => unwritten = 1
      BY <1>1 DEF UnwrittenMeaning, AfterFailure
    <2> QED  BY <1>1, <2>1, <2>2, <2>3 DEF Outstanding, BuffersOwned,
                 UnwrittenMeaning, NeverIdle, NoHeapFallback, BeforeConnect, AfterFailure
  <1>3. CASE ~(writeOp.err \/ writeOp.n = 0)
    <2>1. /\ ahead' \in Int /\ readLength' = readLength /\ readLength \in 0..BlockSize
          /\ unwritten' = unwritten - 1 /\ unwritten \in Nat /\ mem' = mem
          /\ failed' = failed /\ sock' = sock /\ connectOp' = connectOp /\ stop' = stop
      BY <1>3 DEF HandleWrite, TypeOK, Ops
    <2>2. CASE unwritten' = 1
      <3>1. ~failed /\ ~Outstanding(readOp) /\ readInUse = FALSE
        BY <1>1, <2>1, <2>2 DEF UnwrittenMeaning, AfterFailure, NoHeapFallback, TypeOK
      <3>2. SwapAndStart(readLength, FALSE, FALSE)
        BY <1>1, <1>3, <2>2, <3>1 DEF HandleWrite, TypeOK
      <3> QED  BY <1>1, <2>1, <2>2, <3>1, <3>2, RestartInv
    <2>3. CASE unwritten' # 1
      <3>1. /\ writeOp' = NoOp /\ writeInUse' = FALSE /\ readOp' = readOp
            /\ readData' = readData /\ writeData' = writeData
            /\ readInUse' = readInUse
        BY <1>1, <1>3, <2>3 DEF HandleWrite
      <3>2. failed \/ Outstanding(readOp)
        BY <1>1, <2>1, <2>3 DEF UnwrittenMeaning
      <3>3. (failed => ~Outstanding(readOp)) /\ unwritten = 1
        BY <1>1, <2>1, <3>2 DEF AfterFailure, UnwrittenMeaning
      <3>4. TypeOK'
        <4>1. readOp' \in Ops /\ writeOp' \in Ops
          BY <1>1, <3>1 DEF TypeOK
        <4>2. failed' \in BOOLEAN /\ readInUse' \in BOOLEAN /\ writeInUse' \in BOOLEAN
          BY <2>1, <3>1 DEF TypeOK
        <4> QED  BY <2>1, <3>1, <3>3, <4>1, <4>2 DEF TypeOK
      <3> QED  BY <1>1, <2>1, <3>1, <3>2, <3>3, <3>4 DEF Outstanding, BuffersOwned,
                   UnwrittenMeaning, NeverIdle, NoHeapFallback, BeforeConnect, AfterFailure
    <2> QED  BY <2>2, <2>3
  <1> QED  BY <1>2, <1>3

\* The kernel changes an operation in progress in ways that the invariant of the
\* session does not see: not its buffer, its memory or that it is outstanding.
LEMMA KernelInv ==
    ASSUME ClientInv, readOp' \in Ops, writeOp' \in Ops,
           mem' \in [Buffers -> [1..BlockSize -> Bytes]],
           sock' \in {"connecting", "open", "closed"},
           stop' \in {"no", "posted", "run"},
           connectOp' \in {"pending", "ok", "error", "handled"},
           connectOp' = "handled" <=> connectOp = "handled",
           Outstanding(readOp)' <=> Outstanding(readOp),
           Outstanding(writeOp)' <=> Outstanding(writeOp),
           readOp'.buf = readOp.buf, writeOp'.buf = writeOp.buf,
           readOp'.mem = readOp.mem, writeOp'.mem = writeOp.mem,
           UNCHANGED <<readData, writeData, readLength, counters, allocators, failed>>
    PROVE  ClientInv'
  <1> USE DEF counters, allocators
  <1>1. TypeOK
    BY DEF ClientInv
  <1>2. failed' \in BOOLEAN /\ readInUse' \in BOOLEAN /\ writeInUse' \in BOOLEAN
    BY <1>1 DEF TypeOK
  <1>3. TypeOK'
    BY <1>1, <1>2 DEF TypeOK
  <1>4. BuffersOwned' /\ UnwrittenMeaning' /\ NeverIdle'
    BY DEF ClientInv, BuffersOwned, UnwrittenMeaning, NeverIdle
  <1>5. NoHeapFallback'
    BY DEF ClientInv, NoHeapFallback
  <1>6. BeforeConnect' /\ AfterFailure'
    BY DEF ClientInv, BeforeConnect, AfterFailure
  <1> QED  BY <1>3, <1>4, <1>5, <1>6 DEF ClientInv

LEMMA ClientStep ==
    ASSUME IInv, [Next]_vars
    PROVE  ClientInv'
  <1> USE DEF ops, buffers, counters, allocators
  <1>1. /\ ClientInv /\ TypeOK /\ BlockSize \in Nat /\ readOp \in Ops /\ writeOp \in Ops
        /\ mem \in [Buffers -> [1..BlockSize -> Bytes]] /\ inbox \in Seq(Bytes)
    BY BlockSizeAssumption DEF IInv, ClientInv, TypeOK, WireOK
  <1>2. CASE ClientHandles
    <2>1. CASE \E e \in BOOLEAN : HandleConnect(e)
      BY <1>1, <2>1, HandleConnectInv
    <2>2. CASE HandleRead
      BY <1>1, <2>2, HandleReadInv
    <2>3. CASE HandleWrite
      BY <1>1, <2>3, HandleWriteInv
    <2>4. CASE CloseSocket
      BY <1>1, <2>4, KernelInv DEF CloseSocket, TypeOK, Outstanding
    <2> QED  BY <1>2, <2>1, <2>2, <2>3, <2>4 DEF ClientHandles, ClientHandler
  <1>3. CASE ClientOpEnds
    <2>1. ASSUME NEW ok \in BOOLEAN, ConnectCompletes(ok)
          PROVE  ClientInv'
      BY <1>1, <2>1, KernelInv DEF ConnectCompletes, TypeOK, Outstanding
    <2>2. ASSUME NEW n \in 1..BlockSize, ReadCompletes(n)
          PROVE  ClientInv'
      <3>1. \A k \in 1..n : inbox[k] \in Bytes
        BY <1>1, <2>2 DEF ReadCompletes
      <3>2. mem' \in [Buffers -> [1..BlockSize -> Bytes]]
        BY <1>1, <2>2, <3>1, SMTT(30) DEF ReadCompletes, TypeOK, Ops
      <3>3. readOp' \in Ops /\ readOp'.st = "done" /\ readOp'.buf = readOp.buf
            /\ readOp'.mem = readOp.mem
        <4>1. n \in 0..BlockSize
          BY <1>1
        <4> QED  BY <1>1, <2>2, <4>1 DEF ReadCompletes, Ops
      <3> QED  BY <1>1, <2>2, <3>2, <3>3, KernelInv DEF ReadCompletes, TypeOK, Outstanding
    <2>3. ASSUME NEW n \in 1..BlockSize, WriteSome(n)
          PROVE  ClientInv'
      <3>1. writeOp.n + n \in 0..BlockSize
        BY <1>1, <2>3, SMTT(30) DEF WriteSome, Ops
      <3>2. writeOp' \in Ops /\ writeOp'.st \in {"done", "pending"}
            /\ writeOp'.buf = writeOp.buf /\ writeOp'.mem = writeOp.mem
        BY <1>1, <2>3, <3>1 DEF WriteSome, Ops
      <3> QED  BY <1>1, <2>3, <3>2, KernelInv DEF WriteSome, TypeOK, Outstanding
    <2>4. CASE ReadFails
      <3>1. readOp' \in Ops /\ readOp'.st = "done" /\ readOp'.buf = readOp.buf
            /\ readOp'.mem = readOp.mem
        BY <1>1, <2>4 DEF ReadFails, Ops
      <3> QED  BY <1>1, <2>4, <3>1, KernelInv DEF ReadFails, TypeOK, Outstanding
    <2>5. CASE WriteFails
      <3>1. writeOp' \in Ops /\ writeOp'.st = "done" /\ writeOp'.buf = writeOp.buf
            /\ writeOp'.mem = writeOp.mem
        BY <1>1, <2>5 DEF WriteFails, Ops
      <3> QED  BY <1>1, <2>5, <3>1, KernelInv DEF WriteFails, TypeOK, Outstanding
    <2> QED  BY <1>3, <2>1, <2>2, <2>3, <2>4, <2>5 DEF ClientOpEnds, ClientKernel
  <1>4. CASE StopClient
    BY <1>1, <1>4, KernelInv DEF StopClient, Stop, TypeOK, Outstanding
  <1>5. CASE UNCHANGED session
    BY <1>1, <1>5, KernelInv DEF session, TypeOK, Outstanding
  <1> QED  BY <1>2, <1>3, <1>4, <1>5
        DEF Next, vars, ServerHandles, ServerOpEnds, ClientGone, ServerDestroy, Accept, Reset

-----------------------------------------------------------------------------
\* The server's session and the wire.

LEMMA ServerStep ==
    ASSUME IInv, [Next]_vars
    PROVE  ServerInv'
  <1>1. ServerInv
    BY DEF IInv
  <1>2. CASE UNCHANGED server
    BY <1>1, <1>2 DEF server, ServerInv, DeletedOnce
  <1>3. CASE ServerHandles
    <2>1. ASSUME NEW e \in BOOLEAN, Server!Start(e)
          PROVE  ServerInv'
      BY <1>1, <2>1 DEF Server!Start, Server!PostDestroy, ServerInv, DeletedOnce
    <2>2. CASE Server!HandleRead
      BY <1>1, <2>2 DEF Server!HandleRead, Server!PostDestroy, ServerInv, DeletedOnce
    <2>3. CASE Server!HandleWrite
      BY <1>1, <2>3 DEF Server!HandleWrite, Server!PostDestroy, ServerInv, DeletedOnce
    <2> QED  BY <1>3, <2>1, <2>2, <2>3 DEF ServerHandles, ServerHandler
  <1>4. CASE ServerOpEnds
    BY <1>1, <1>4 DEF ServerOpEnds, ServerKernel, Server!ReadCompletes, Server!WriteSome,
                      Server!OpFails, ServerInv, DeletedOnce
  <1>5. CASE ServerDestroy
    BY <1>1, <1>5 DEF ServerDestroy, Server!Destroy, ServerInv, DeletedOnce
  <1>6. CASE Accept
    BY <1>1, <1>6 DEF Accept, ServerInv, DeletedOnce
  <1> QED  BY <1>2, <1>3, <1>4, <1>5, <1>6
        DEF Next, vars, ClientHandles, ClientOpEnds, StopClient, ServerGone, Reset

\* Taking a part of a stream of bytes, or adding one, leaves a stream of bytes.
LEMMA PartOfStream ==
    ASSUME NEW str \in Seq(Bytes), NEW i \in Int, NEW j \in Int, i >= 1, j <= Len(str)
    PROVE  SubSeq(str, i, j) \in Seq(Bytes)
  <1>1. \A k \in i..j : str[k] \in Bytes
    OBVIOUS
  <1> QED  BY <1>1, SubSeqProperties

LEMMA WireStep ==
    ASSUME IInv, [Next]_vars
    PROVE  WireOK'
  <1>1. /\ inbox \in Seq(Bytes) /\ outbox \in Seq(Bytes) /\ buf \in Seq(Bytes)
        /\ TypeOK /\ BlockSize \in Nat
    BY BlockSizeAssumption DEF IInv, WireOK, ClientInv
  <1>2. CASE ClientOpEnds
    <2>1. ASSUME NEW n \in 1..BlockSize, ReadCompletes(n)
          PROVE  inbox' \in Seq(Bytes) /\ outbox' = outbox
      BY <1>1, <2>1, PartOfStream DEF ReadCompletes
    <2>2. ASSUME NEW n \in 1..BlockSize, WriteSome(n)
          PROVE  outbox' \in Seq(Bytes) /\ inbox' = inbox
      <3> DEFINE chunk == SubSeq(mem[writeOp.buf], writeOp.n + 1, writeOp.n + n)
      <3>1. /\ writeOp.buf \in Buffers /\ writeOp.n \in Nat
            /\ writeOp.n + n <= BlockSize
        BY <1>1, <2>2 DEF WriteSome, TypeOK, Ops
      <3>2. \A k \in writeOp.n + 1 .. writeOp.n + n : mem[writeOp.buf][k] \in Bytes
        BY <1>1, <3>1 DEF TypeOK
      <3>3. chunk \in Seq(Bytes)
        BY <3>1, <3>2, SubSeqProperties
      <3>4. outbox \o chunk \in Seq(Bytes)
        BY <1>1, <3>3, ConcatProperties
      <3> QED  BY <2>2, <3>4 DEF WriteSome
    <2>3. ASSUME ReadFails \/ WriteFails \/ \E ok \in BOOLEAN : ConnectCompletes(ok)
          PROVE  inbox' = inbox /\ outbox' = outbox
      BY <2>3 DEF ReadFails, WriteFails, ConnectCompletes
    <2> QED  BY <1>1, <1>2, <2>1, <2>2, <2>3
          DEF ClientOpEnds, ClientKernel, ServerGone, server, WireOK
  <1>3. CASE ServerOpEnds
    <2>1. ASSUME NEW n \in 1..ServerBufSize, Server!ReadCompletes(n)
          PROVE  WireOK'
      <3>1. SubSeq(outbox, 1, n) \in Seq(Bytes) /\ SubSeq(outbox, n + 1, Len(outbox)) \in Seq(Bytes)
        BY <1>1, <2>1, ServerBufSizeAssumption, PartOfStream DEF Server!ReadCompletes
      <3> QED  BY <1>1, <2>1, <3>1 DEF Server!ReadCompletes, WireOK
    <2>2. ASSUME NEW n \in 1..ServerBufSize, Server!WriteSome(n)
          PROVE  WireOK'
      <3>1. SubSeq(buf, 1, n) \in Seq(Bytes) /\ SubSeq(buf, n + 1, Len(buf)) \in Seq(Bytes)
        BY <1>1, <2>2, ServerBufSizeAssumption, PartOfStream DEF Server!WriteSome
      <3>2. inbox \o SubSeq(buf, 1, n) \in Seq(Bytes)
        BY <1>1, <3>1, ConcatProperties
      <3> QED  BY <1>1, <2>2, <3>1, <3>2 DEF Server!WriteSome, WireOK
    <2>3. CASE Server!OpFails
      BY <1>1, <2>3 DEF Server!OpFails, WireOK
    <2> QED  BY <1>3, <2>1, <2>2, <2>3 DEF ServerOpEnds, ServerKernel
  <1>4. CASE Reset
    BY <1>1, <1>4 DEF Reset, server, WireOK
  <1>5. CASE inbox' = inbox /\ outbox' = outbox /\ buf' = buf
    BY <1>1, <1>5 DEF WireOK
  <1>6. CASE ClientHandles \/ StopClient \/ ServerHandles \/ ServerDestroy \/ Accept \/ UNCHANGED vars
    <2>1. inbox' = inbox /\ outbox' = outbox /\ buf' = buf
      BY <1>6 DEF ClientHandles, ClientHandler, HandleConnect, HandleRead, HandleWrite,
             CloseSocket, StopClient, Stop, ServerHandles, ServerHandler, Server!Start,
             Server!HandleRead, Server!HandleWrite, ServerDestroy, Server!Destroy, Accept,
             ServerGone, ClientGone, server, wire, vars
    <2> QED  BY <1>5, <2>1
  <1> QED  BY <1>2, <1>3, <1>4, <1>6 DEF Next

-----------------------------------------------------------------------------
\* The theorems about operations and counts.

\* The count, the error flag and the operations in progress of a session keep
\* what they promise each other (myclient.cpp:115-187, myserver.cpp:29-63).
THEOREM EchoInvariant == Spec => []IInv
  <1>1. SystemInit => IInv
    BY SystemInitInv
  <1>2. IInv /\ [Next]_vars => IInv'
    BY ClientStep, ServerStep, WireStep DEF IInv
  <1> QED  BY <1>1, <1>2, PTL DEF Spec

\* Every variable of the client's session has its type.
THEOREM EchoTypes == Spec => []TypeOK
  <1>1. IInv => TypeOK
    BY DEF IInv, ClientInv
  <1> QED  BY <1>1, EchoInvariant, PTL

\* No operation in progress ever loses its buffer to a swap, and a read and a
\* write never share one (myclient.cpp:138-181).
THEOREM EchoBuffers == Spec => []BuffersOwned
  <1>1. IInv => BuffersOwned
    BY DEF IInv, ClientInv
  <1> QED  BY <1>1, EchoInvariant, PTL

\* unwritten_count_ counts what it should, through every interleaving of the
\* two operations (myclient.cpp:125, 145, 167).
THEOREM EchoUnwritten == Spec => []UnwrittenMeaning
  <1>1. IInv => UnwrittenMeaning
    BY DEF IInv, ClientInv
  <1> QED  BY <1>1, EchoInvariant, PTL

\* Without an error a connected session always has an operation in progress.
THEOREM EchoNeverIdle == Spec => []NeverIdle
  <1>1. IInv => NeverIdle
    BY DEF IInv, ClientInv
  <1> QED  BY <1>1, EchoInvariant, PTL

\* A handler that fits finds the storage of its allocator free, and a block is in
\* use exactly while an operation has it (handler_allocator.hpp:21-75).
THEOREM EchoStorage == Spec => []NoHeapFallback
  <1>1. IInv => NoHeapFallback
    BY DEF IInv, ClientInv
  <1> QED  BY <1>1, EchoInvariant, PTL

\* The server deletes a session once, with no operation left (myserver.cpp:39-63).
THEOREM EchoDeletedOnce == Spec => []DeletedOnce
  <1>1. IInv => DeletedOnce
    BY DEF IInv, ServerInv
  <1> QED  BY <1>1, EchoInvariant, PTL

-----------------------------------------------------------------------------
\* Streams of bytes.

LEMMA SplitStream ==
    ASSUME NEW s \in Seq(Bytes), NEW n \in 0..Len(s)
    PROVE  /\ SubSeq(s, 1, n) \in Seq(Bytes) /\ Len(SubSeq(s, 1, n)) = n
           /\ SubSeq(s, n + 1, Len(s)) \in Seq(Bytes)
           /\ Len(SubSeq(s, n + 1, Len(s))) = Len(s) - n
           /\ s = SubSeq(s, 1, n) \o SubSeq(s, n + 1, Len(s))
  <1>1. Len(s) \in Nat /\ \A k \in 1..Len(s) : s[k] \in Bytes
    BY ElementOfSeq, LenProperties
  <1>2. /\ SubSeq(s, 1, n) \in Seq(Bytes)
        /\ Len(SubSeq(s, 1, n)) = IF 1 <= n THEN n - 1 + 1 ELSE 0
    <2>1. \A k \in 1..n : s[k] \in Bytes
      BY <1>1
    <2> QED  BY <1>1, <2>1, SubSeqProperties
  <1>3. /\ SubSeq(s, n + 1, Len(s)) \in Seq(Bytes)
        /\ Len(SubSeq(s, n + 1, Len(s))) = IF n + 1 <= Len(s) THEN Len(s) - (n + 1) + 1 ELSE 0
    <2>1. \A k \in n + 1 .. Len(s) : s[k] \in Bytes
      BY <1>1
    <2> QED  BY <1>1, <2>1, SubSeqProperties
  <1>4. SubSeq(s, 1, n) \o SubSeq(s, n + 1, Len(s)) = SubSeq(s, 1, Len(s))
    <2>1. 1 \in 1 .. Len(s) + 1 /\ n \in 1 - 1 .. Len(s) /\ Len(s) \in n .. Len(s)
      BY <1>1
    <2> QED  BY <2>1, ConcatAdjacentSubSeq
  <1>5. SubSeq(s, 1, Len(s)) = s
    BY SubSeqFull
  <1>6. Len(SubSeq(s, 1, n)) = n /\ Len(SubSeq(s, n + 1, Len(s))) = Len(s) - n
    BY <1>1, <1>2, <1>3
  <1> QED  BY <1>2, <1>3, <1>4, <1>5, <1>6

\* The remainder of something below twice the divisor.
LEMMA RemainderBelowTwice ==
    ASSUME NEW B \in Nat \ {0}, NEW x \in Int, 0 <= x, x < B + B
    PROVE  x % B = IF x < B THEN x ELSE x - B
  OBVIOUS

Wrap(x) == IF x < BlockSize THEN x ELSE x - BlockSize
Rotated(r) == [k \in 1..BlockSize |-> 1 + Wrap(k + r - 1)]

LEMMA RotationsWrap == Rotations = {Rotated(r) : r \in 0..BlockSize-1}
  <1>1. BlockSize \in Nat \ {0}
    BY BlockSizeAssumption
  <1>2. ASSUME NEW r \in 0..BlockSize-1
        PROVE  [k \in 1..BlockSize |-> 1 + ((k + r - 1) % BlockSize)] = Rotated(r)
    <2>1. ASSUME NEW k \in 1..BlockSize
          PROVE  (k + r - 1) % BlockSize = Wrap(k + r - 1)
      <3>1. /\ k + r - 1 \in Int /\ 0 <= k + r - 1
            /\ k + r - 1 < BlockSize + BlockSize
        BY <1>1
      <3> QED  BY <1>1, <3>1, RemainderBelowTwice DEF Wrap
    <2> QED  BY <2>1, Zenon DEF Rotated
  <1> QED  BY <1>2, Zenon DEF Rotations

\* Two rotations, by r and by la, are one.
LEMMA WrapTwice ==
    ASSUME NEW la \in Nat, NEW lb \in Nat, la + lb = BlockSize,
           NEW r \in 0..BlockSize-1, NEW k \in 1..BlockSize
    PROVE  /\ Wrap(r + la) \in 0..BlockSize-1
           /\ k <= lb => Wrap(k + la + r - 1) = Wrap(k + Wrap(r + la) - 1)
           /\ k > lb => Wrap(k - lb + r - 1) = Wrap(k + Wrap(r + la) - 1)
  <1>1. CASE r + la < la + lb
    <2>1. Wrap(r + la) = r + la
      BY <1>1 DEF Wrap
    <2> QED  BY <1>1, <2>1 DEF Wrap
  <1>2. CASE ~(r + la < la + lb)
    <2>1. Wrap(r + la) = r - lb
      BY <1>2 DEF Wrap
    <2> QED  BY <1>2, <2>1 DEF Wrap
  <1> QED  BY <1>1, <1>2

\* A rotation, read from any of its positions on.
LEMMA RotateAgain ==
    ASSUME NEW a \in Seq(Bytes), NEW b \in Seq(Bytes), a \o b \in Rotations
    PROVE  b \o a \in Rotations
  <1> DEFINE B == BlockSize
  <1>1. B \in Nat \ {0}
    BY BlockSizeAssumption
  <1>2. PICK r \in 0..B-1 : a \o b = Rotated(r)
    BY RotationsWrap
  <1>3. /\ a \o b \in Seq(Bytes) /\ Len(a) \in Nat /\ Len(b) \in Nat
        /\ Len(a \o b) = Len(a) + Len(b)
        /\ \A i \in 1..Len(a) + Len(b) :
              (a \o b)[i] = IF i <= Len(a) THEN a[i] ELSE b[i - Len(a)]
    BY ConcatProperties, LenProperties
  <1>4. Len(a) + Len(b) = B
    <2>1. DOMAIN (a \o b) = 1..B
      BY <1>2 DEF Rotated
    <2>2. DOMAIN (a \o b) = 1..Len(a) + Len(b)
      BY <1>3, LenProperties
    <2>3. B \in 1..Len(a) + Len(b)
      BY <1>1, <2>1, <2>2
    <2>4. Len(a) + Len(b) \in 1..B
      BY <1>3, <2>1, <2>2, <2>3
    <2> QED  BY <1>1, <1>3, <2>3, <2>4
  <1>5. /\ b \o a \in Seq(Bytes) /\ Len(b \o a) = B
        /\ \A i \in 1..B : (b \o a)[i] = IF i <= Len(b) THEN b[i] ELSE a[i - Len(b)]
    <2>1. /\ b \o a \in Seq(Bytes) /\ Len(b \o a) = Len(b) + Len(a)
          /\ \A i \in 1..Len(b) + Len(a) :
                (b \o a)[i] = IF i <= Len(b) THEN b[i] ELSE a[i - Len(b)]
      BY ConcatProperties
    <2> QED  BY <1>3, <1>4, <2>1
  <1>6. \A k \in 1..B : (a \o b)[k] = 1 + Wrap(k + r - 1)
    BY <1>2 DEF Rotated
  <1> DEFINE q == Wrap(r + Len(a))
  <1>7. q \in 0..B-1
    <2>1. 1 \in 1..B
      BY <1>1
    <2> QED  BY <1>3, <1>4, <2>1, WrapTwice
  <1>8. ASSUME NEW k \in 1..B
        PROVE  (b \o a)[k] = 1 + Wrap(k + q - 1)
    <2>1. Len(a) \in Nat /\ Len(b) \in Nat /\ Len(a) + Len(b) = BlockSize
      BY <1>3, <1>4
    <2>2. CASE k <= Len(b)
      <3>1. (b \o a)[k] = (a \o b)[k + Len(a)] /\ k + Len(a) \in 1..B
        BY <1>1, <1>3, <1>4, <1>5, <2>2
      <3>2. (b \o a)[k] = 1 + Wrap(k + Len(a) + r - 1)
        BY <1>6, <3>1
      <3>3. Wrap(k + Len(a) + r - 1) = Wrap(k + q - 1)
        BY <2>1, <2>2, WrapTwice
      <3> QED  BY <3>2, <3>3
    <2>3. CASE k > Len(b)
      <3>1. (b \o a)[k] = (a \o b)[k - Len(b)] /\ k - Len(b) \in 1..B
        BY <1>1, <1>3, <1>4, <1>5, <2>3
      <3>2. (b \o a)[k] = 1 + Wrap(k - Len(b) + r - 1)
        BY <1>6, <3>1
      <3>3. Wrap(k - Len(b) + r - 1) = Wrap(k + q - 1)
        BY <2>1, <2>3, WrapTwice
      <3> QED  BY <3>2, <3>3
    <2>4. k <= Len(b) \/ k > Len(b)
      BY <1>1, <1>3
    <2> QED  BY <2>2, <2>3, <2>4
  <1>9. b \o a = Rotated(q)
    <2>1. DOMAIN (b \o a) = 1..B /\ b \o a = [k \in DOMAIN (b \o a) |-> (b \o a)[k]]
      BY <1>5, LenProperties
    <2> HIDE DEF q
    <2> QED  BY <1>8, <2>1, Zenon DEF Rotated
  <1> QED  BY <1>7, <1>9, RotationsWrap

-----------------------------------------------------------------------------
\* The inductive invariant of the bytes.

\* The server reads into an empty buffer, and has emptied it when it has written.
BufferEmptied ==
    /\ life \in {"none", "new"} => buf = <<>>
    /\ op = "read" /\ opState = "pending" => buf = <<>>
    /\ op = "write" /\ opState = "ok" => buf = <<>>

\* Only an operation that has ended has an error.
ErrorsEnd ==
    /\ readOp.err => readOp.st = "done"
    /\ writeOp.err => writeOp.st = "done"

BytesInv == IInv /\ BufferEmptied /\ ErrorsEnd /\ NothingLost /\ CountersExact

LEMMA BufferEmptiedStep ==
    ASSUME IInv, BufferEmptied, [Next]_vars
    PROVE  BufferEmptied'
  <1>1. ServerInv /\ buf \in Seq(Bytes)
    BY DEF IInv, WireOK
  <1>2. CASE UNCHANGED server
    BY <1>2 DEF server, BufferEmptied
  <1>3. CASE ServerHandles
    BY <1>1, <1>3 DEF ServerHandles, ServerHandler, Server!Start, Server!HandleRead,
           Server!HandleWrite, Server!PostDestroy, ServerInv, BufferEmptied
  <1>4. CASE ServerOpEnds
    <2>1. ASSUME NEW n \in 1..ServerBufSize, Server!ReadCompletes(n)
          PROVE  BufferEmptied'
      BY <1>1, <2>1 DEF Server!ReadCompletes, ServerInv, BufferEmptied
    <2>2. ASSUME NEW n \in 1..ServerBufSize, Server!WriteSome(n)
          PROVE  BufferEmptied'
      <3>1. n = Len(buf) => buf' = <<>>
        BY <1>1, <2>2, SubSeqEmpty DEF Server!WriteSome
      <3> QED  BY <1>1, <2>2, <3>1 DEF Server!WriteSome, ServerInv, BufferEmptied
    <2>3. CASE Server!OpFails
      BY <1>1, <2>3 DEF Server!OpFails, ServerInv, BufferEmptied
    <2> QED  BY <1>4, <2>1, <2>2, <2>3 DEF ServerOpEnds, ServerKernel
  <1>5. CASE ServerDestroy
    BY <1>1, <1>5 DEF ServerDestroy, Server!Destroy, ServerInv, DeletedOnce, BufferEmptied
  <1>6. CASE Accept
    BY <1>1, <1>6 DEF Accept, ServerInv, BufferEmptied
  <1> QED  BY <1>2, <1>3, <1>4, <1>5, <1>6
        DEF Next, vars, ClientHandles, ClientOpEnds, StopClient, ServerGone, Reset

LEMMA ErrorsEndStep ==
    ASSUME IInv, ErrorsEnd, [Next]_vars
    PROVE  ErrorsEnd'
  <1> USE DEF ops, buffers, counters, allocators
  <1>1. readOp \in Ops /\ writeOp \in Ops
    BY DEF IInv, ClientInv, TypeOK
  <1>2. CASE ClientHandles
    <2>1. CASE \E e \in BOOLEAN : HandleConnect(e)
      BY <2>1 DEF HandleConnect, StartRead, Pending, ErrorsEnd
    <2>2. CASE HandleRead
      BY <2>2 DEF HandleRead, SwapAndStart, StartRead, StartWrite, Pending, NoOp, ErrorsEnd
    <2>3. CASE HandleWrite
      BY <2>3 DEF HandleWrite, SwapAndStart, StartRead, StartWrite, Pending, NoOp, ErrorsEnd
    <2>4. CASE CloseSocket
      BY <2>4 DEF CloseSocket, ErrorsEnd
    <2> QED  BY <1>2, <2>1, <2>2, <2>3, <2>4 DEF ClientHandles, ClientHandler
  <1>3. CASE ClientOpEnds
    <2>1. CASE ReadFails \/ \E n \in 1..BlockSize : ReadCompletes(n)
      BY <1>1, <2>1 DEF ReadFails, ReadCompletes, Ops, ErrorsEnd
    <2>2. CASE WriteFails \/ \E n \in 1..BlockSize : WriteSome(n)
      BY <1>1, <2>2 DEF WriteFails, WriteSome, Ops, ErrorsEnd
    <2>3. CASE \E ok \in BOOLEAN : ConnectCompletes(ok)
      BY <2>3 DEF ConnectCompletes, ErrorsEnd
    <2> QED  BY <1>3, <2>1, <2>2, <2>3 DEF ClientOpEnds, ClientKernel
  <1>4. CASE UNCHANGED <<readOp, writeOp>>
    BY <1>4 DEF ErrorsEnd
  <1> QED  BY <1>2, <1>3, <1>4 DEF Next, vars, session, StopClient, Stop, ServerHandles,
           ServerOpEnds, ClientGone, ServerDestroy, Accept, Reset

\* What has failed once has failed.
LEMMA IntactBefore ==
    ASSUME IInv, ErrorsEnd, [Next]_vars, Intact'
    PROVE  Intact
  <1> USE DEF ops, buffers, counters, allocators, Intact
  <1>1. ServerInv /\ TypeOK
    BY DEF IInv, ClientInv
  <1>2. CASE ClientHandles
    <2>1. UNCHANGED server /\ peerOpen' = peerOpen /\ link' = link
      BY <1>2 DEF ClientHandles, ClientHandler, ServerGone, HandleConnect, HandleRead,
             HandleWrite, CloseSocket
    <2>2. CASE \E e \in BOOLEAN : HandleConnect(e)
      <3>1. ~Outstanding(readOp) /\ ~Outstanding(writeOp)
        BY <2>2 DEF HandleConnect, IInv, ClientInv, BeforeConnect
      <3> QED  BY <2>1, <2>2, <3>1 DEF HandleConnect, ErrorsEnd, Outstanding, server
    <2>3. CASE HandleRead
      <3>1. ~failed /\ ~readOp.err /\ sock # "closed" /\ unwritten \in Nat /\ connectOp = "handled"
        BY <1>1, <2>3 DEF HandleRead, TypeOK, IInv, ClientInv, BeforeConnect, Outstanding
      <3>2. ~writeOp.err
        <4>1. CASE unwritten + 1 = 1
          BY <2>3, <3>1, <4>1 DEF HandleRead, IInv, ClientInv, UnwrittenMeaning, Outstanding, ErrorsEnd
        <4>2. CASE unwritten + 1 # 1
          BY <2>3, <3>1, <4>2 DEF HandleRead
        <4> QED  BY <4>1, <4>2
      <3> QED  BY <2>1, <3>1, <3>2 DEF server
    <2>4. CASE HandleWrite
      <3>1. ~failed /\ ~writeOp.err /\ sock # "closed" /\ unwritten \in Nat /\ connectOp = "handled"
        BY <1>1, <2>4 DEF HandleWrite, TypeOK, IInv, ClientInv, BeforeConnect, Outstanding
      <3>2. ~readOp.err
        <4>1. CASE unwritten - 1 = 1
          BY <2>4, <3>1, <4>1 DEF HandleWrite, IInv, ClientInv, UnwrittenMeaning, Outstanding, ErrorsEnd
        <4>2. CASE unwritten - 1 # 1
          BY <2>4, <3>1, <4>2 DEF HandleWrite
        <4> QED  BY <4>1, <4>2
      <3> QED  BY <2>1, <3>1, <3>2 DEF server
    <2>5. CASE CloseSocket
      BY <2>5 DEF CloseSocket
    <2> QED  BY <1>2, <2>2, <2>3, <2>4, <2>5 DEF ClientHandles, ClientHandler
  <1>3. CASE ClientOpEnds
    <2>1. ASSUME NEW ok \in BOOLEAN, ConnectCompletes(ok)
          PROVE  Intact
      BY <1>3, <2>1 DEF ClientOpEnds, ConnectCompletes, ServerGone, server
    <2>2. ASSUME NEW n \in 1..BlockSize, ReadCompletes(n) \/ WriteSome(n)
          PROVE  Intact
      BY <1>1, <1>3, <2>2 DEF ClientOpEnds, ReadCompletes, WriteSome, ServerGone, server, TypeOK, Ops
    <2>3. CASE ReadFails \/ WriteFails
      BY <1>1, <2>3 DEF ReadFails, WriteFails, TypeOK, Ops
    <2> QED  BY <1>3, <2>1, <2>2, <2>3 DEF ClientOpEnds, ClientKernel
  <1>4. CASE ServerHandles
    BY <1>1, <1>4 DEF ServerHandles, ServerHandler, ClientGone, session, Server!Start,
           Server!HandleRead, Server!HandleWrite, Server!PostDestroy, ServerInv
  <1>5. CASE ServerOpEnds
    BY <1>5 DEF ServerOpEnds, ServerKernel, ClientGone, session, Server!ReadCompletes,
           Server!WriteSome, Server!OpFails
  <1>6. CASE StopClient \/ Accept \/ UNCHANGED vars
    <2>1. UNCHANGED <<readOp, writeOp, failed, sock, link, peerOpen, opState, destroys>>
      BY <1>6 DEF StopClient, Stop, ServerGone, Accept, session, server, wire, vars
    <2> QED  BY <2>1
  <1>7. ~ServerDestroy /\ ~Reset
    BY DEF ServerDestroy, Reset
  <1> QED  BY <1>2, <1>3, <1>4, <1>5, <1>6, <1>7 DEF Next

\* The handlers and the other steps that move no byte.
Silent ==
    ClientHandles \/ ServerHandles \/ StopClient \/ Accept
    \/ (ClientOpEnds /\ \E ok \in BOOLEAN : ConnectCompletes(ok)) \/ UNCHANGED vars

\* As long as nothing fails a step is silent, or one of four moves bytes.
LEMMA WhatMoves ==
    ASSUME IInv, [Next]_vars, Intact'
    PROVE  \/ Silent
           \/ ServerGone /\ \E n \in 1..BlockSize : ReadCompletes(n)
           \/ ServerGone /\ \E n \in 1..BlockSize : WriteSome(n)
           \/ ClientGone /\ \E n \in 1..ServerBufSize : Server!ReadCompletes(n)
           \/ ClientGone /\ \E n \in 1..ServerBufSize : Server!WriteSome(n)
  <1>1. readOp \in Ops /\ writeOp \in Ops
    BY DEF IInv, ClientInv, TypeOK
  <1>2. ~(ReadFails \/ WriteFails \/ Server!OpFails \/ ServerDestroy \/ Reset)
    BY <1>1 DEF ReadFails, WriteFails, Server!OpFails, ServerDestroy, Reset, Intact, Ops
  <1> QED  BY <1>2 DEF Next, ClientOpEnds, ClientKernel, ServerOpEnds, ServerKernel, Silent

\* A silent step leaves the wire and the two buffers' bytes where they are.
LEMMA SilentWire ==
    ASSUME Silent
    PROVE  UNCHANGED <<inbox, outbox, buf, mem>>
  BY DEF Silent, ClientHandles, ClientHandler, HandleConnect, HandleRead, HandleWrite,
         CloseSocket, ClientOpEnds, ConnectCompletes, ServerGone, ClientGone, ServerHandles,
         ServerHandler, Server!Start, Server!HandleRead, Server!HandleWrite, StopClient, Stop,
         Accept, vars, session, server, wire, buffers

-----------------------------------------------------------------------------
\* The counters.

Sent == IF Outstanding(writeOp) THEN writeOp.n ELSE 0
Got == IF readOp.st = "done" THEN readOp.n ELSE 0
Carried == Len(outbox) + Len(inbox) + Len(buf)

LEMMA CountersStep ==
    ASSUME BytesInv, [Next]_vars
    PROVE  CountersExact'
  <1> SUFFICES ASSUME Intact'
               PROVE  ahead' + Sent' = Carried' + Got'
    BY DEF CountersExact, Sent, Got, Carried
  <1> USE DEF ops, buffers, counters, allocators
  <1>1. Intact /\ IInv /\ ErrorsEnd /\ BufferEmptied
    BY IntactBefore DEF BytesInv
  <1>2. /\ TypeOK /\ readOp \in Ops /\ writeOp \in Ops /\ ahead \in Int /\ unwritten \in Nat
        /\ inbox \in Seq(Bytes) /\ outbox \in Seq(Bytes) /\ buf \in Seq(Bytes)
        /\ Len(inbox) \in Nat /\ Len(outbox) \in Nat /\ Len(buf) \in Nat
        /\ readOp.n \in Nat /\ writeOp.n \in Nat /\ BlockSize \in Nat
    BY <1>1, LenProperties, BlockSizeAssumption DEF IInv, WireOK, ClientInv, TypeOK, Ops
  <1>3. ahead + Sent = Carried + Got
    BY <1>1 DEF BytesInv, CountersExact, Sent, Got, Carried
  <1>4. Sent \in Nat /\ Got \in Nat /\ Carried \in Nat
    BY <1>2 DEF Sent, Got, Carried
  <1>5. CASE Silent
    <2>1. Carried' = Carried
      BY <1>5, SilentWire DEF Carried
    <2>2. CASE HandleRead
      <3>1. ~readOp.err /\ connectOp = "handled" /\ ~failed /\ readOp.st = "done"
        BY <1>1, <2>2 DEF Intact, HandleRead, IInv, ClientInv, BeforeConnect, Outstanding
      <3>2. ahead' = ahead - Got
        BY <2>2, <3>1 DEF HandleRead, Got
      <3>3. Sent' = Sent /\ Got' = 0
        <4>1. CASE unwritten + 1 = 1
          <5>1. Sent = 0
            BY <1>1, <3>1, <4>1 DEF IInv, ClientInv, UnwrittenMeaning, Sent
          <5> QED  BY <2>2, <3>1, <4>1, <5>1 DEF HandleRead, SwapAndStart, StartRead, StartWrite, Pending, Sent, Got
        <4>2. CASE unwritten + 1 # 1
          BY <2>2, <3>1, <4>2 DEF HandleRead, NoOp, Sent, Got, Outstanding
        <4> QED  BY <4>1, <4>2
      <3> QED  BY <1>2, <1>3, <1>4, <2>1, <3>2, <3>3
    <2>3. CASE HandleWrite
      <3>1. /\ ~writeOp.err /\ writeOp.n # 0 /\ connectOp = "handled" /\ ~failed
            /\ Outstanding(writeOp)
        BY <1>1, <2>3 DEF Intact, HandleWrite, IInv, ClientInv, BeforeConnect, Outstanding
      <3>2. ahead' = ahead + Sent
        BY <2>3, <3>1 DEF HandleWrite, Sent
      <3>3. Sent' = 0 /\ Got' = Got
        <4>1. CASE unwritten - 1 = 1
          <5>1. Got = 0
            BY <1>1, <3>1, <4>1 DEF IInv, ClientInv, UnwrittenMeaning, Got, Outstanding
          <5> QED  BY <2>3, <3>1, <4>1, <5>1 DEF HandleWrite, SwapAndStart, StartRead, StartWrite, Pending, Sent, Got
        <4>2. CASE unwritten - 1 # 1
          <5>1. writeOp' = NoOp /\ readOp' = readOp
            BY <2>3, <3>1, <4>2 DEF HandleWrite
          <5> QED  BY <5>1 DEF NoOp, Sent, Got, Outstanding
        <4> QED  BY <4>1, <4>2
      <3> QED  BY <1>2, <1>3, <1>4, <2>1, <3>2, <3>3
    <2>4. CASE \E e \in BOOLEAN : HandleConnect(e)
      <3>1. ~Outstanding(readOp) /\ ~Outstanding(writeOp) /\ ~failed'
        BY <1>1, <2>4 DEF HandleConnect, IInv, ClientInv, BeforeConnect, Intact
      <3>2. ahead' = ahead /\ Sent = 0 /\ Got = 0
        BY <2>4, <3>1 DEF HandleConnect, Sent, Got, Outstanding
      <3>3. Sent' = 0 /\ Got' = 0
        BY <2>4, <3>1 DEF HandleConnect, StartRead, Pending, Sent, Got
      <3> QED  BY <1>2, <1>3, <1>4, <2>1, <3>2, <3>3
    <2>5. CASE UNCHANGED <<ahead, readOp, writeOp>>
      <3>1. ahead' = ahead /\ Sent' = Sent /\ Got' = Got
        BY <2>5 DEF Sent, Got, Outstanding
      <3> QED  BY <1>3, <2>1, <3>1
    <2> QED  BY <1>5, <2>2, <2>3, <2>4, <2>5
             DEF Silent, ClientHandles, ClientHandler, ClientOpEnds, ConnectCompletes, CloseSocket,
                 StopClient, Stop, ServerHandles, ClientGone, Accept, vars, session
  <1>6. ASSUME NEW n \in 1..BlockSize, ReadCompletes(n), ServerGone
        PROVE  ahead' + Sent' = Carried' + Got'
    <2>1. n \in 0..Len(inbox)
      BY <1>2, <1>6 DEF ReadCompletes
    <2>2. Len(inbox') = Len(inbox) - n
      BY <1>2, <1>6, <2>1, SplitStream DEF ReadCompletes
    <2>3. Carried' = Carried - n
      <3>1. outbox' = outbox /\ buf' = buf
        BY <1>6 DEF ReadCompletes, ServerGone, server
      <3> QED  BY <1>2, <2>1, <2>2, <3>1 DEF Carried
    <2>4. Got = 0 /\ Got' = n
      BY <1>2, <1>6 DEF ReadCompletes, Ops, Got
    <2>5. ahead' = ahead /\ Sent' = Sent
      BY <1>6 DEF ReadCompletes, Sent, Outstanding
    <2> QED  BY <1>2, <1>3, <1>4, <2>3, <2>4, <2>5
  <1>7. ASSUME NEW n \in 1..BlockSize, WriteSome(n), ServerGone
        PROVE  ahead' + Sent' = Carried' + Got'
    <2> DEFINE chunk == SubSeq(mem[writeOp.buf], writeOp.n + 1, writeOp.n + n)
    <2>1. chunk \in Seq(Bytes) /\ Len(chunk) = n
      <3>1. writeOp.buf \in Buffers /\ writeOp.n + n <= BlockSize
        BY <1>2, <1>7 DEF WriteSome, Ops
      <3>2. \A k \in writeOp.n + 1 .. writeOp.n + n : mem[writeOp.buf][k] \in Bytes
        BY <1>2, <3>1 DEF TypeOK
      <3>3. /\ chunk \in Seq(Bytes)
            /\ Len(chunk) = IF writeOp.n + 1 <= writeOp.n + n
                            THEN writeOp.n + n - (writeOp.n + 1) + 1 ELSE 0
        BY <1>2, <3>2, SubSeqProperties
      <3> HIDE DEF chunk
      <3> QED  BY <1>2, <3>3
    <2>2. Len(outbox') = Len(outbox) + n
      BY <1>2, <1>7, <2>1, ConcatProperties DEF WriteSome
    <2>3. Carried' = Carried + n
      BY <1>2, <1>7, <2>2 DEF WriteSome, ServerGone, server, Carried
    <2>4. Sent' = Sent + n
      BY <1>2, <1>7 DEF WriteSome, Ops, Sent, Outstanding
    <2>5. ahead' = ahead /\ Got' = Got
      BY <1>7 DEF WriteSome, Got
    <2> QED  BY <1>2, <1>3, <1>4, <2>3, <2>4, <2>5
  <1>8. ASSUME ClientGone
        PROVE  ahead' = ahead /\ Sent' = Sent /\ Got' = Got
    BY <1>8 DEF ClientGone, session, Sent, Got, Outstanding
  <1>9. ASSUME NEW n \in 1..ServerBufSize, Server!ReadCompletes(n), ClientGone
        PROVE  ahead' + Sent' = Carried' + Got'
    <2>1. n \in 0..Len(outbox)
      BY <1>2, <1>9, ServerBufSizeAssumption DEF Server!ReadCompletes
    <2>2. Len(outbox') = Len(outbox) - n /\ Len(buf') = n
      BY <1>2, <1>9, <2>1, SplitStream DEF Server!ReadCompletes
    <2>3. Len(buf) = 0 /\ inbox' = inbox
      BY <1>1, <1>9 DEF BufferEmptied, Server!ReadCompletes
    <2>4. Carried' = Carried
      BY <1>2, <2>2, <2>3 DEF Carried
    <2> QED  BY <1>3, <1>8, <1>9, <2>4
  <1>10. ASSUME NEW n \in 1..ServerBufSize, Server!WriteSome(n), ClientGone
        PROVE  ahead' + Sent' = Carried' + Got'
    <2>1. n \in 0..Len(buf)
      BY <1>2, <1>10 DEF Server!WriteSome
    <2>2. /\ SubSeq(buf, 1, n) \in Seq(Bytes) /\ Len(SubSeq(buf, 1, n)) = n
          /\ Len(buf') = Len(buf) - n
      BY <1>2, <1>10, <2>1, SplitStream DEF Server!WriteSome
    <2>3. inbox' = inbox \o SubSeq(buf, 1, n) /\ outbox' = outbox
      BY <1>1, <1>10 DEF Intact, Server!WriteSome
    <2>4. Len(inbox') = Len(inbox) + n
      BY <1>2, <2>2, <2>3, ConcatProperties
    <2>5. Carried' = Carried
      BY <1>2, <2>2, <2>3, <2>4 DEF Carried
    <2> QED  BY <1>3, <1>8, <1>10, <2>5
  <1> QED  BY <1>1, <1>5, <1>6, <1>7, <1>9, <1>10, WhatMoves

-----------------------------------------------------------------------------
\* The bytes.

LEMMA BlockIsStream ==
    ASSUME TypeOK, NEW b \in Buffers
    PROVE  /\ mem[b] \in Seq(Bytes) /\ Len(mem[b]) = BlockSize
           /\ \A i \in 1..BlockSize+1, j \in 0..BlockSize : SubSeq(mem[b], i, j) \in Seq(Bytes)
  <1>1. BlockSize \in Nat /\ mem[b] \in [1..BlockSize -> Bytes]
    BY BlockSizeAssumption DEF TypeOK
  <1>2. mem[b] \in Seq(Bytes)
    BY <1>1, SeqDef
  <1>3. Len(mem[b]) = BlockSize
    BY <1>1
  <1>4. ASSUME NEW i \in 1..BlockSize+1, NEW j \in 0..BlockSize
        PROVE  SubSeq(mem[b], i, j) \in Seq(Bytes)
    <2>1. \A k \in i..j : mem[b][k] \in Bytes
      BY <1>1
    <2> QED  BY <2>1, SubSeqProperties
  <1> QED  BY <1>2, <1>3, <1>4

LEMMA NothingLostInit == SystemInit => NothingLost
  <1> SUFFICES ASSUME SystemInit PROVE Cycle \in Rotations
    BY DEF NothingLost
  <1>1. BlockSize \in Nat /\ BlockSize > 0 /\ 0 \in 0..BlockSize-1
    BY BlockSizeAssumption
  <1>2. TypeOK /\ writeData = "B" /\ writeData \in Buffers
    BY SystemInitInv DEF IInv, ClientInv, TypeOK, SystemInit, Init
  <1>3. Unsent = mem["B"] /\ Waiting = <<>>
    BY <1>2 DEF SystemInit, Init, NoOp, Unsent, Waiting
  <1>4. inbox = <<>> /\ outbox = <<>> /\ buf = <<>>
    BY DEF SystemInit, Server!Init
  <1>5. Cycle = mem["B"]
    BY <1>2, <1>3, <1>4, BlockIsStream, ConcatEmptySeq DEF Cycle
  <1>6. mem["B"] = [k \in 1..BlockSize |-> k]
    BY DEF SystemInit, Init, Buffers
  <1>7. [k \in 1..BlockSize |-> k] = Rotated(0)
    BY <1>1 DEF Rotated, Wrap
  <1> QED  BY <1>1, <1>5, <1>6, <1>7, RotationsWrap

\* What the client has to send, and what waits, through a handler of its own.
LEMMA SilentBytes ==
    ASSUME BytesInv, [Next]_vars, Silent, Intact'
    PROVE  \/ Unsent' = Unsent /\ Waiting' = Waiting
           \/ Unsent = <<>> /\ Unsent' = Waiting /\ Waiting' = <<>>
  <1> USE DEF ops, buffers, counters, allocators
  <1>1. Intact /\ IInv
    BY IntactBefore DEF BytesInv
  <1>2. /\ TypeOK /\ BuffersOwned /\ BlockSize \in Nat /\ mem' = mem /\ unwritten \in Nat
    BY <1>1, SilentWire, BlockSizeAssumption DEF IInv, ClientInv, TypeOK
  <1>3. CASE HandleRead
    <2>1. /\ ~readOp.err /\ connectOp = "handled" /\ ~failed /\ readOp.st = "done"
          /\ readOp.buf = readData /\ connectOp' = connectOp /\ readLength' = readOp.n
      BY <1>1, <1>2, <1>3 DEF Intact, HandleRead, IInv, ClientInv, BeforeConnect, Outstanding,
             BuffersOwned
    <2>2. Waiting = FirstBytes(readData, readOp.n)
      BY <2>1 DEF Waiting
    <2>3. CASE unwritten + 1 = 1
      <3>1. writeOp.st = "none"
        BY <1>1, <2>1, <2>3 DEF IInv, ClientInv, UnwrittenMeaning, Outstanding
      <3>2. /\ readOp'.st = "pending" /\ writeOp'.st = "pending" /\ writeOp'.buf = readData
            /\ writeOp'.n = 0 /\ writeOp'.len = readOp.n
        BY <1>3, <2>1, <2>3 DEF HandleRead, SwapAndStart, StartRead, StartWrite, Pending
      <3>3. Unsent = <<>> /\ Waiting' = <<>> /\ Unsent' = SubSeq(mem[readData], 0 + 1, readOp.n)
        BY <1>2, <2>1, <3>1, <3>2 DEF Unsent, Waiting
      <3> QED  BY <2>2, <3>3 DEF FirstBytes
    <2>4. CASE unwritten + 1 # 1
      <3>1. readOp'.st = "none" /\ writeOp' = writeOp /\ readData' = readData
        BY <1>3, <2>1, <2>4 DEF HandleRead, NoOp
      <3> QED  BY <1>2, <2>1, <2>2, <3>1 DEF Unsent, Waiting, FirstBytes
    <2> QED  BY <2>3, <2>4
  <1>4. CASE HandleWrite
    <2>1. /\ ~writeOp.err /\ writeOp.n # 0 /\ connectOp = "handled" /\ ~failed
          /\ writeOp.st = "done" /\ connectOp' = connectOp /\ readLength' = readLength
      BY <1>1, <1>4 DEF Intact, HandleWrite, IInv, ClientInv, BeforeConnect, Outstanding
    <2>2. Unsent = <<>>
      BY <2>1 DEF Unsent
    <2>3. CASE unwritten - 1 = 1
      <3>1. readOp.st = "none"
        BY <1>1, <2>1, <2>3 DEF IInv, ClientInv, UnwrittenMeaning, Outstanding
      <3>2. /\ readOp'.st = "pending" /\ writeOp'.st = "pending" /\ writeOp'.buf = readData
            /\ writeOp'.n = 0 /\ writeOp'.len = readLength
        BY <1>4, <2>1, <2>3 DEF HandleWrite, SwapAndStart, StartRead, StartWrite, Pending
      <3>3. Waiting' = <<>> /\ Unsent' = SubSeq(mem[readData], 0 + 1, readLength)
        BY <1>2, <2>1, <3>1, <3>2 DEF Unsent, Waiting
      <3>4. Waiting = FirstBytes(readData, readLength)
        BY <2>1, <3>1 DEF Waiting
      <3> QED  BY <2>2, <3>3, <3>4 DEF FirstBytes
    <2>4. CASE unwritten - 1 # 1
      <3>1. writeOp'.st = "none" /\ readOp' = readOp /\ readData' = readData
        <4>1. writeOp' = NoOp /\ readOp' = readOp /\ readData' = readData
          BY <1>4, <2>1, <2>4 DEF HandleWrite
        <4> QED  BY <4>1 DEF NoOp
      <3> QED  BY <1>2, <2>1, <2>2, <3>1 DEF Unsent, Waiting, FirstBytes
    <2> QED  BY <2>3, <2>4
  <1>5. CASE \E e \in BOOLEAN : HandleConnect(e)
    <2>1. /\ readOp.st = "none" /\ connectOp # "handled" /\ connectOp' = "handled" /\ ~failed'
          /\ writeData' = writeData /\ writeData \in Buffers
      BY <1>1, <1>2, <1>5 DEF HandleConnect, IInv, ClientInv, BeforeConnect, Intact, Outstanding,
             TypeOK
    <2>2. /\ readOp'.st = "pending" /\ writeOp'.st = "pending" /\ writeOp'.buf = writeData
          /\ writeOp'.n = 0 /\ writeOp'.len = BlockSize
      BY <1>5, <2>1 DEF HandleConnect, StartRead, Pending
    <2>3. Unsent = mem[writeData] /\ Waiting = <<>> /\ Waiting' = <<>>
      BY <2>1, <2>2 DEF Unsent, Waiting
    <2>4. Unsent' = SubSeq(mem[writeData], 0 + 1, BlockSize)
      BY <1>2, <2>1, <2>2 DEF Unsent
    <2>5. Unsent' = mem[writeData]
      BY <1>2, <2>1, <2>4, BlockIsStream, SubSeqFull
    <2> QED  BY <2>3, <2>5
  <1>6. CASE ConnectCompletes(TRUE) \/ ConnectCompletes(FALSE)
    BY <1>2, <1>6 DEF ConnectCompletes, Unsent, Waiting, FirstBytes
  <1>7. CASE UNCHANGED <<connectOp, readOp, writeOp, readData, writeData, readLength>>
    BY <1>2, <1>7 DEF Unsent, Waiting, FirstBytes
  <1> QED  BY <1>3, <1>4, <1>5, <1>6, <1>7
           DEF Silent, ClientHandles, ClientHandler, ClientOpEnds, CloseSocket,
               StopClient, Stop, ServerHandles, ClientGone, Accept, vars, session

\* A read takes the front of the connection over into the buffer.
LEMMA ReadBytes ==
    ASSUME BytesInv, NEW n \in 1..BlockSize, ReadCompletes(n), ServerGone
    PROVE  /\ Unsent' = Unsent /\ Waiting = <<>> /\ Waiting' = SubSeq(inbox, 1, n)
  <1> USE DEF ops, buffers, counters, allocators
  <1>1. /\ TypeOK /\ BuffersOwned /\ readOp \in Ops /\ writeOp \in Ops /\ inbox \in Seq(Bytes)
        /\ BlockSize \in Nat /\ n \in 1..Len(inbox) /\ Len(inbox) \in Nat
    BY BlockSizeAssumption, LenProperties
       DEF BytesInv, IInv, ClientInv, WireOK, TypeOK, ReadCompletes
  <1>2. /\ readOp.st = "pending" /\ readOp.buf = readData /\ connectOp = "handled"
        /\ readOp.buf \in Buffers
    BY <1>1 DEF BytesInv, IInv, ClientInv, BeforeConnect, ReadCompletes, BuffersOwned,
           Outstanding, Ops
  <1>3. readOp'.st = "done" /\ readOp'.n = n /\ readOp'.buf = readOp.buf
    BY <1>1 DEF ReadCompletes, Ops
  <1>4. /\ Waiting = <<>> /\ Waiting' = SubSeq(mem'[readOp.buf], 1, n)
    BY <1>2, <1>3 DEF Waiting, FirstBytes
  <1>5. Unsent' = Unsent
    <2>1. /\ connectOp' = connectOp /\ writeOp' = writeOp
      BY DEF ReadCompletes
    <2>2. CASE writeOp.st = "pending"
      <3>1. writeOp.buf \in Buffers /\ writeOp.buf # readOp.buf
        BY <1>1, <1>2, <2>2 DEF BuffersOwned, Outstanding, Ops
      <3>2. mem'[writeOp.buf] = mem[writeOp.buf]
        BY <1>1, <3>1 DEF ReadCompletes, TypeOK
      <3> QED  BY <1>2, <2>1, <2>2, <3>2 DEF Unsent
    <2>3. CASE writeOp.st # "pending"
      BY <1>2, <2>1, <2>3 DEF Unsent
    <2> QED  BY <2>2, <2>3
  <1>6. SubSeq(mem'[readOp.buf], 1, n) = SubSeq(inbox, 1, n)
    <2> DEFINE m == mem'[readOp.buf]
    <2>1. m = [k \in 1..BlockSize |-> IF k <= n THEN inbox[k] ELSE mem[readOp.buf][k]]
      BY <1>1, <1>2 DEF ReadCompletes, TypeOK
    <2>2. \A k \in 1..n : m[k] = inbox[k] /\ inbox[k] \in Bytes
      BY <1>1, <2>1, ElementOfSeq
    <2> HIDE DEF m
    <2>3. /\ SubSeq(m, 1, n) \in Seq(Bytes) /\ Len(SubSeq(m, 1, n)) = n
          /\ \A k \in 1..n : SubSeq(m, 1, n)[k] = m[k]
      <3>1. /\ SubSeq(m, 1, n) \in Seq(Bytes)
            /\ Len(SubSeq(m, 1, n)) = IF 1 <= n THEN n - 1 + 1 ELSE 0
            /\ \A k \in 1..n - 1 + 1 : SubSeq(m, 1, n)[k] = m[1 + k - 1]
        BY <2>2, SubSeqProperties
      <3> QED  BY <1>1, <3>1
    <2>4. /\ SubSeq(inbox, 1, n) \in Seq(Bytes) /\ Len(SubSeq(inbox, 1, n)) = n
          /\ \A k \in 1..n : SubSeq(inbox, 1, n)[k] = inbox[k]
      <3>1. /\ SubSeq(inbox, 1, n) \in Seq(Bytes)
            /\ Len(SubSeq(inbox, 1, n)) = IF 1 <= n THEN n - 1 + 1 ELSE 0
            /\ \A k \in 1..n - 1 + 1 : SubSeq(inbox, 1, n)[k] = inbox[1 + k - 1]
        BY <2>2, SubSeqProperties
      <3> QED  BY <1>1, <3>1
    <2>5. \A k \in 1..Len(SubSeq(m, 1, n)) : SubSeq(m, 1, n)[k] = SubSeq(inbox, 1, n)[k]
      BY <2>2, <2>3, <2>4
    <2>6. SubSeq(m, 1, n) = SubSeq(inbox, 1, n)
      BY <2>3, <2>4, <2>5, SeqEqual
    <2> QED  BY <2>6 DEF m
  <1> QED  BY <1>4, <1>5, <1>6

\* A piece of a write goes from what is unsent to the end of the connection.
LEMMA WriteBytes ==
    ASSUME BytesInv, NEW n \in 1..BlockSize, WriteSome(n), ServerGone
    PROVE  /\ Waiting' = Waiting /\ Unsent' \in Seq(Bytes)
           /\ \E c \in Seq(Bytes) : outbox' = outbox \o c /\ Unsent = c \o Unsent'
  <1> USE DEF ops, buffers, counters, allocators
  <1>1. TypeOK /\ writeOp \in Ops /\ BlockSize \in Nat
    BY BlockSizeAssumption DEF BytesInv, IInv, ClientInv, TypeOK
  <1> DEFINE m == mem[writeOp.buf]
             sent == writeOp.n
             len == writeOp.len
             c == SubSeq(m, sent + 1, sent + n)
             rest == SubSeq(m, sent + n + 1, len)
  <1>2. /\ writeOp.buf \in Buffers /\ sent \in 0..BlockSize /\ len \in 0..BlockSize
        /\ sent + n <= len /\ n >= 1 /\ n \in Nat
        /\ writeOp.st = "pending" /\ connectOp = "handled"
    <2>1. writeOp.buf \in Buffers /\ sent \in 0..BlockSize /\ len \in 0..BlockSize
      BY <1>1 DEF Ops
    <2>2. n \in 1..(len - sent) /\ writeOp.st = "pending"
      BY DEF WriteSome
    <2>3. connectOp = "handled"
      BY <2>2 DEF BytesInv, IInv, ClientInv, BeforeConnect, Outstanding
    <2> HIDE DEF sent, len
    <2>4. sent + n <= len /\ n >= 1 /\ n \in Nat
      BY <1>1, <2>1, <2>2
    <2> QED  BY <2>1, <2>2, <2>3, <2>4
  <1>3. m \in Seq(Bytes) /\ Len(m) = BlockSize
    BY <1>1, <1>2, BlockIsStream
  <1>4. c \in Seq(Bytes) /\ rest \in Seq(Bytes)
    <2>1. /\ sent + 1 \in 1..BlockSize + 1 /\ sent + n \in 0..BlockSize
          /\ sent + n + 1 \in 1..BlockSize + 1 /\ len \in 0..BlockSize
      BY <1>1, <1>2
    <2> QED  BY <1>1, <1>2, <2>1, BlockIsStream
  <1>5. Unsent = SubSeq(m, sent + 1, len)
    BY <1>2 DEF Unsent
  <1>6. c \o rest = SubSeq(m, sent + 1, len)
    <2>1. /\ sent + 1 \in 1 .. Len(m) + 1 /\ sent + n \in (sent + 1) - 1 .. Len(m)
          /\ len \in sent + n .. Len(m)
      BY <1>1, <1>2, <1>3
    <2> HIDE DEF m, sent, len
    <2> QED  BY <1>3, <2>1, ConcatAdjacentSubSeq
  <1>7. /\ writeOp'.n = sent + n /\ writeOp'.len = len /\ writeOp'.buf = writeOp.buf
        /\ writeOp'.st = IF sent + n = len THEN "done" ELSE "pending"
    BY <1>1 DEF WriteSome, Ops
  <1>8. Unsent' = rest
    <2>1. mem' = mem /\ connectOp' = connectOp
      BY DEF WriteSome
    <2>2. CASE sent + n = len
      <3>1. Unsent' = <<>>
        BY <1>2, <1>7, <2>1, <2>2 DEF Unsent
      <3>2. rest = <<>>
        BY <1>2, <2>2, SubSeqEmpty
      <3> QED  BY <3>1, <3>2
    <2>3. CASE sent + n # len
      BY <1>2, <1>7, <2>1, <2>3 DEF Unsent
    <2> QED  BY <2>2, <2>3
  <1>9. outbox' = outbox \o c /\ Waiting' = Waiting
    BY DEF WriteSome, Waiting, FirstBytes
  <1> HIDE DEF c, rest
  <1> QED  BY <1>4, <1>5, <1>6, <1>8, <1>9

LEMMA StreamTypes ==
    ASSUME IInv
    PROVE  /\ Unsent \in Seq(Bytes) /\ Waiting \in Seq(Bytes) /\ inbox \in Seq(Bytes)
           /\ outbox \in Seq(Bytes) /\ buf \in Seq(Bytes) /\ <<>> \in Seq(Bytes)
  <1>1. /\ TypeOK /\ BlockSize \in Nat /\ readOp \in Ops /\ writeOp \in Ops
        /\ readData \in Buffers /\ writeData \in Buffers /\ readLength \in 0..BlockSize
    BY BlockSizeAssumption DEF IInv, ClientInv, TypeOK
  <1>2. /\ readOp.buf \in Buffers /\ writeOp.buf \in Buffers /\ readOp.n \in 0..BlockSize
        /\ writeOp.n + 1 \in 1..BlockSize+1 /\ writeOp.len \in 0..BlockSize
        /\ 1 \in 1..BlockSize+1
    BY <1>1 DEF Ops
  <1>3. Unsent \in Seq(Bytes)
    BY <1>1, <1>2, BlockIsStream, EmptySeq DEF Unsent
  <1>4. Waiting \in Seq(Bytes)
    BY <1>1, <1>2, BlockIsStream, EmptySeq DEF Waiting, FirstBytes
  <1> QED  BY <1>3, <1>4, EmptySeq DEF IInv, WireOK

StreamsOK ==
    /\ Unsent \in Seq(Bytes) /\ Waiting \in Seq(Bytes) /\ inbox \in Seq(Bytes)
    /\ outbox \in Seq(Bytes) /\ buf \in Seq(Bytes)

LEMMA StreamTypesNext == IInv' => StreamsOK'
  <1>1. IInv => StreamsOK
    BY StreamTypes DEF StreamsOK
  <1> QED  BY <1>1, PTL

\* Concatenation as an operator of which the provers know what is stated here.
Cat(s, t) == s \o t
Parts(o, u, w, i, b) == Cat(Cat(Cat(Cat(o, u), w), i), b)

LEMMA CatProperties ==
    /\ \A s, t \in Seq(Bytes) : Cat(s, t) \in Seq(Bytes)
    /\ \A s, t, u \in Seq(Bytes) : Cat(Cat(s, t), u) = Cat(s, Cat(t, u))
    /\ \A s \in Seq(Bytes) : Cat(s, <<>>) = s /\ Cat(<<>>, s) = s
  <1>1. ASSUME NEW s \in Seq(Bytes), NEW t \in Seq(Bytes)
        PROVE  Cat(s, t) \in Seq(Bytes)
    BY ConcatProperties DEF Cat
  <1>2. ASSUME NEW s \in Seq(Bytes), NEW t \in Seq(Bytes), NEW u \in Seq(Bytes)
        PROVE  Cat(Cat(s, t), u) = Cat(s, Cat(t, u))
    BY ConcatAssociative DEF Cat
  <1>3. ASSUME NEW s \in Seq(Bytes)
        PROVE  Cat(s, <<>>) = s /\ Cat(<<>>, s) = s
    BY ConcatEmptySeq DEF Cat
  <1> QED  BY <1>1, <1>2, <1>3

\* Streams that are moved from one to the next make the same whole.
LEMMA PieceRead ==
    ASSUME NEW x \in Seq(Bytes), NEW c \in Seq(Bytes), NEW i \in Seq(Bytes)
    PROVE  Cat(Cat(x, c), i) = Cat(Cat(x, <<>>), Cat(c, i))
  BY CatProperties

LEMMA PieceEchoed ==
    ASSUME NEW x \in Seq(Bytes), NEW i \in Seq(Bytes), NEW c \in Seq(Bytes), NEW b \in Seq(Bytes)
    PROVE  Cat(Cat(x, Cat(i, c)), b) = Cat(Cat(x, i), Cat(c, b))
  <1>1. Cat(x, Cat(i, c)) = Cat(Cat(x, i), c) /\ Cat(x, i) \in Seq(Bytes)
    BY CatProperties
  <1> QED  BY <1>1, CatProperties

LEMMA FrontMoved ==
    ASSUME NEW o \in Seq(Bytes), NEW u \in Seq(Bytes), NEW w \in Seq(Bytes),
           NEW i \in Seq(Bytes), NEW c \in Seq(Bytes)
    PROVE  /\ Parts(o, u, w, i, <<>>) \in Seq(Bytes)
           /\ Parts(Cat(c, o), u, w, i, <<>>) = Cat(c, Parts(o, u, w, i, <<>>))
           /\ Parts(o, u, w, i, c) = Cat(Parts(o, u, w, i, <<>>), c)
  <1>1. /\ Cat(o, u) \in Seq(Bytes) /\ Cat(Cat(o, u), w) \in Seq(Bytes)
        /\ Cat(Cat(Cat(o, u), w), i) \in Seq(Bytes)
    BY CatProperties
  <1>2. Cat(Cat(Cat(Cat(c, o), u), w), i) = Cat(c, Cat(Cat(Cat(o, u), w), i))
    <2>1. Cat(Cat(c, o), u) = Cat(c, Cat(o, u))
      BY CatProperties
    <2>2. Cat(Cat(c, Cat(o, u)), w) = Cat(c, Cat(Cat(o, u), w))
      BY <1>1, CatProperties
    <2>3. Cat(Cat(c, Cat(Cat(o, u), w)), i) = Cat(c, Cat(Cat(Cat(o, u), w), i))
      BY <1>1, CatProperties
    <2> QED  BY <2>1, <2>2, <2>3
  <1>3. /\ Cat(Cat(c, Cat(Cat(Cat(o, u), w), i)), <<>>) = Cat(c, Cat(Cat(Cat(o, u), w), i))
        /\ Cat(Cat(Cat(Cat(o, u), w), i), <<>>) = Cat(Cat(Cat(o, u), w), i)
    BY <1>1, CatProperties
  <1> QED  BY <1>1, <1>2, <1>3, Zenon DEF Parts

LEMMA CycleParts == Cycle = Parts(outbox, Unsent, Waiting, inbox, buf)
  BY Zenon DEF Cycle, Parts, Cat

LEMMA CyclePartsNext == Cycle' = Parts(outbox', Unsent', Waiting', inbox', buf')
  BY Zenon DEF Cycle, Parts, Cat

LEMMA NothingLostStep ==
    ASSUME BytesInv, [Next]_vars, IInv'
    PROVE  NothingLost'
  <1> SUFFICES ASSUME Intact' PROVE Cycle' \in Rotations
    BY DEF NothingLost, Rotations
  <1>1. Intact /\ IInv /\ BufferEmptied /\ Cycle \in Rotations
    BY IntactBefore DEF BytesInv, NothingLost
  <1>2. /\ Unsent \in Seq(Bytes) /\ Waiting \in Seq(Bytes) /\ inbox \in Seq(Bytes)
        /\ outbox \in Seq(Bytes) /\ buf \in Seq(Bytes) /\ <<>> \in Seq(Bytes)
    BY <1>1, StreamTypes
  <1>3. /\ Unsent' \in Seq(Bytes) /\ Waiting' \in Seq(Bytes) /\ inbox' \in Seq(Bytes)
        /\ outbox' \in Seq(Bytes) /\ buf' \in Seq(Bytes)
    BY StreamTypesNext DEF StreamsOK
  <1>4. CASE Silent
    <2>1. inbox' = inbox /\ outbox' = outbox /\ buf' = buf
      BY <1>4, SilentWire
    <2>2. CASE Unsent' = Unsent /\ Waiting' = Waiting
      BY <1>1, <2>1, <2>2, CycleParts, CyclePartsNext
    <2>3. CASE Unsent = <<>> /\ Unsent' = Waiting /\ Waiting' = <<>>
      <3>1. Parts(outbox, <<>>, Waiting, inbox, buf) = Parts(outbox, Waiting, <<>>, inbox, buf)
        <4>1. Cat(Cat(outbox, <<>>), Waiting) = Cat(Cat(outbox, Waiting), <<>>)
          BY <1>2, CatProperties
        <4> QED  BY <4>1, Zenon DEF Parts
      <3> QED  BY <1>1, <2>1, <2>3, <3>1, CycleParts, CyclePartsNext
    <2> QED  BY <1>4, <2>2, <2>3, SilentBytes
  <1>5. ASSUME NEW n \in 1..BlockSize, ReadCompletes(n), ServerGone
        PROVE  Cycle' \in Rotations
    <2> DEFINE c == SubSeq(inbox, 1, n)
    <2>1. n \in 0..Len(inbox) /\ inbox' = SubSeq(inbox, n + 1, Len(inbox))
      BY <1>2, <1>5, LenProperties DEF ReadCompletes
    <2>2. c \in Seq(Bytes) /\ inbox = Cat(c, inbox')
      BY <1>2, <2>1, SplitStream DEF Cat
    <2>3. Unsent' = Unsent /\ Waiting = <<>> /\ Waiting' = c
      BY <1>5, ReadBytes
    <2>4. outbox' = outbox /\ buf' = buf
      BY <1>5 DEF ReadCompletes, ServerGone, server
    <2> HIDE DEF c
    <2>5. Parts(outbox, Unsent, c, inbox', buf) = Parts(outbox, Unsent, <<>>, Cat(c, inbox'), buf)
      <3>1. Cat(outbox, Unsent) \in Seq(Bytes)
        BY <1>2, CatProperties
      <3>2. Cat(Cat(Cat(outbox, Unsent), c), inbox')
                = Cat(Cat(Cat(outbox, Unsent), <<>>), Cat(c, inbox'))
        BY <1>3, <2>2, <3>1, PieceRead
      <3> QED  BY <3>2, Zenon DEF Parts
    <2> QED  BY <1>1, <2>2, <2>3, <2>4, <2>5, CycleParts, CyclePartsNext
  <1>6. ASSUME NEW n \in 1..BlockSize, WriteSome(n), ServerGone
        PROVE  Cycle' \in Rotations
    <2>1. PICK c \in Seq(Bytes) : outbox' = Cat(outbox, c) /\ Unsent = Cat(c, Unsent')
      BY <1>6, WriteBytes DEF Cat
    <2>2. Waiting' = Waiting /\ inbox' = inbox /\ buf' = buf
      BY <1>6, WriteBytes DEF WriteSome, ServerGone, server
    <2>3. Parts(Cat(outbox, c), Unsent', Waiting, inbox, buf)
              = Parts(outbox, Cat(c, Unsent'), Waiting, inbox, buf)
      <3>1. Cat(Cat(outbox, c), Unsent') = Cat(outbox, Cat(c, Unsent'))
        BY <1>2, <1>3, <2>1, CatProperties
      <3> QED  BY <3>1, Zenon DEF Parts
    <2> QED  BY <1>1, <2>1, <2>2, <2>3, CycleParts, CyclePartsNext
  <1>7. ASSUME ClientGone
        PROVE  Unsent' = Unsent /\ Waiting' = Waiting
    BY <1>7 DEF ClientGone, session, ops, buffers, Unsent, Waiting, FirstBytes
  <1>8. ASSUME NEW n \in 1..ServerBufSize, Server!ReadCompletes(n), ClientGone
        PROVE  Cycle' \in Rotations
    <2> DEFINE c == SubSeq(outbox, 1, n)
               z == Parts(outbox', Unsent, Waiting, inbox, <<>>)
    <2>1. n \in 0..Len(outbox) /\ outbox' = SubSeq(outbox, n + 1, Len(outbox))
      BY <1>2, <1>8, LenProperties, ServerBufSizeAssumption DEF Server!ReadCompletes
    <2>2. c \in Seq(Bytes) /\ outbox = Cat(c, outbox')
      BY <1>2, <2>1, SplitStream DEF Cat
    <2>3. buf = <<>> /\ buf' = c /\ inbox' = inbox
      BY <1>1, <1>8 DEF Server!ReadCompletes, BufferEmptied
    <2> HIDE DEF c
    <2>4. /\ z \in Seq(Bytes)
          /\ Parts(Cat(c, outbox'), Unsent, Waiting, inbox, <<>>) = Cat(c, z)
          /\ Parts(outbox', Unsent, Waiting, inbox, c) = Cat(z, c)
      BY <1>2, <1>3, <2>2, FrontMoved
    <2> HIDE DEF z
    <2>5. Cycle = c \o z /\ Cycle' = z \o c
      BY <1>7, <1>8, <2>2, <2>3, <2>4, CycleParts, CyclePartsNext DEF Cat
    <2> QED  BY <1>1, <2>2, <2>4, <2>5, RotateAgain
  <1>9. ASSUME NEW n \in 1..ServerBufSize, Server!WriteSome(n), ClientGone
        PROVE  Cycle' \in Rotations
    <2> DEFINE c == SubSeq(buf, 1, n)
    <2>1. n \in 0..Len(buf) /\ buf' = SubSeq(buf, n + 1, Len(buf))
      BY <1>2, <1>9, LenProperties DEF Server!WriteSome
    <2>2. c \in Seq(Bytes) /\ buf = Cat(c, buf')
      BY <1>2, <2>1, SplitStream DEF Cat
    <2>3. inbox' = Cat(inbox, c) /\ outbox' = outbox
      BY <1>1, <1>9 DEF Intact, Server!WriteSome, Cat
    <2> HIDE DEF c
    <2>4. Parts(outbox, Unsent, Waiting, Cat(inbox, c), buf')
              = Parts(outbox, Unsent, Waiting, inbox, Cat(c, buf'))
      <3> DEFINE x == Cat(Cat(outbox, Unsent), Waiting)
      <3>1. x \in Seq(Bytes)
        <4>1. Cat(outbox, Unsent) \in Seq(Bytes)
          BY <1>2, CatProperties
        <4> QED  BY <1>2, <4>1, CatProperties
      <3>2. Cat(Cat(x, Cat(inbox, c)), buf') = Cat(Cat(x, inbox), Cat(c, buf'))
        <4> HIDE DEF x
        <4> QED  BY <1>2, <1>3, <2>2, <3>1, PieceEchoed
      <3> QED  BY <3>2, Zenon DEF Parts
    <2> QED  BY <1>1, <1>7, <1>9, <2>2, <2>3, <2>4, CycleParts, CyclePartsNext
  <1> QED  BY <1>1, <1>4, <1>5, <1>6, <1>8, <1>9, WhatMoves

-----------------------------------------------------------------------------
\* Nothing rests before its time.

\* The kernels keep no more than they have room for.
WithinWindow == Len(inbox) <= Window /\ Len(outbox) <= Window

\* A connection and the client's operations are of the kind that the kernel ends.
ClientAttended ==
    /\ connectOp = "pending" => sock # "open"
    /\ connectOp = "ok" \/ (connectOp = "handled" /\ ~failed) => sock # "connecting"
    /\ readOp.st = "pending" => readOp.len = BlockSize
    /\ readOp.st = "done" /\ ~readOp.err => readOp.n > 0
    /\ writeOp.st = "pending" => writeOp.n < writeOp.len
    /\ writeOp.st = "done" /\ ~writeOp.err => writeOp.n > 0
    /\ connectOp = "handled" /\ ~failed /\ ~Outstanding(readOp) => readLength > 0

\* What an operation in progress has failed from, the other one will fail from.
Over == Broken \/ ~peerOpen
FailsForBoth ==
    /\ link \in {"up", "reset"}
    /\ readOp.err \/ writeOp.err \/ (failed /\ (Outstanding(readOp) \/ Outstanding(writeOp)))
          => Over

\* The server's session has something to do until it is deleted.
ServerAttended ==
    /\ life = "started" => op # "none" \/ destroys > 0
    /\ life = "deleted" <=> ~peerOpen
    /\ op = "read" /\ opState = "ok" => buf # <<>>
    /\ op = "write" /\ opState = "pending" => buf # <<>>

\* No byte is under way before the client has sent one, nor ever when it failed
\* before it could.
NothingSent ==
    connectOp # "handled" \/ (failed /\ ~Over) =>
        outbox = <<>> /\ inbox = <<>> /\ op # "write" /\ opState # "ok"

LEMMA AttendedInit ==
    SystemInit => /\ ClientAttended /\ FailsForBoth /\ ServerAttended
                  /\ WithinWindow /\ NothingSent
  BY WindowAssumption DEF SystemInit, Init, Server!Init, NoOp, ClientAttended,
     FailsForBoth, ServerAttended, WithinWindow, NothingSent

\* A step moves bytes in one of four ways, loses them or leaves them.
LEMMA WireMoves ==
    ASSUME [Next]_vars
    PROVE  \/ ServerGone /\ \E n \in 1..BlockSize : ReadCompletes(n)
           \/ ServerGone /\ \E n \in 1..BlockSize : WriteSome(n)
           \/ ClientGone /\ \E n \in 1..ServerBufSize : Server!ReadCompletes(n)
           \/ ClientGone /\ \E n \in 1..ServerBufSize : Server!WriteSome(n)
           \/ Reset
           \/ inbox' = inbox /\ outbox' = outbox
  <1>1. CASE Silent
    BY <1>1, SilentWire
  <1>2. CASE ReadFails \/ WriteFails \/ Server!OpFails \/ ServerDestroy
    BY <1>2 DEF ReadFails, WriteFails, Server!OpFails, ServerDestroy, Server!Destroy
  <1> QED  BY <1>1, <1>2 DEF Next, ClientOpEnds, ClientKernel, ServerOpEnds, ServerKernel, Silent

\* A piece that fits is taken, and a piece that is read makes room.
LEMMA WithinWindowStep ==
    ASSUME IInv, WithinWindow, [Next]_vars
    PROVE  WithinWindow'
  <1> USE WindowAssumption, BlockSizeAssumption, ServerBufSizeAssumption DEF WithinWindow
  <1>1. /\ inbox \in Seq(Bytes) /\ outbox \in Seq(Bytes) /\ buf \in Seq(Bytes)
        /\ TypeOK /\ Len(inbox) \in Nat /\ Len(outbox) \in Nat
    BY LenProperties DEF IInv, WireOK, ClientInv
  <1>2. CASE inbox' = inbox /\ outbox' = outbox
    BY <1>2
  <1>3. ASSUME NEW n \in 1..BlockSize, ReadCompletes(n), ServerGone
        PROVE  WithinWindow'
    <2>1. Len(SubSeq(inbox, n + 1, Len(inbox))) <= Len(inbox)
      BY <1>1, <1>3, SplitStream DEF ReadCompletes
    <2> QED  BY <1>1, <1>3, <2>1 DEF ReadCompletes
  <1>4. ASSUME NEW n \in 1..BlockSize, WriteSome(n), ServerGone
        PROVE  WithinWindow'
    <2> DEFINE c == SubSeq(mem[writeOp.buf], writeOp.n + 1, writeOp.n + n)
    <2>a. /\ writeOp \in Ops /\ n <= writeOp.len - writeOp.n
      BY <1>1, <1>4 DEF WriteSome, TypeOK
    <2>b. /\ writeOp.buf \in Buffers /\ writeOp.n \in 0..BlockSize
          /\ writeOp.len \in 0..BlockSize
      BY <2>a DEF Ops
    <2>1. /\ writeOp.buf \in Buffers /\ writeOp.n \in Nat /\ writeOp.n + n <= BlockSize
      BY <2>a, <2>b
    <2>2. \A k \in writeOp.n + 1 .. writeOp.n + n : mem[writeOp.buf][k] \in Bytes
      BY <1>1, <2>1 DEF TypeOK
    <2>3. c \in Seq(Bytes) /\ Len(c) = n
      BY <2>1, <2>2, SubSeqProperties
    <2> HIDE DEF c
    <2>4. Len(outbox \o c) = Len(outbox) + n
      BY <1>1, <2>3, ConcatProperties
    <2> QED  BY <1>4, <2>4 DEF WriteSome, c
  <1>5. ASSUME NEW n \in 1..ServerBufSize, Server!ReadCompletes(n), ClientGone
        PROVE  WithinWindow'
    <2>1. Len(SubSeq(outbox, n + 1, Len(outbox))) <= Len(outbox)
      BY <1>1, <1>5, SplitStream DEF Server!ReadCompletes
    <2> QED  BY <1>1, <1>5, <2>1 DEF Server!ReadCompletes
  <1>6. ASSUME NEW n \in 1..ServerBufSize, Server!WriteSome(n), ClientGone
        PROVE  WithinWindow'
    <2> DEFINE c == SubSeq(buf, 1, n)
    <2>1. n \in 1..Len(buf) /\ (sock # "closed" => Len(inbox) + n <= Window)
      BY <1>1, <1>6 DEF Server!WriteSome
    <2>2. c \in Seq(Bytes) /\ Len(c) = n
      BY <1>1, <2>1, SplitStream
    <2> HIDE DEF c
    <2>3. Len(inbox \o c) = Len(inbox) + n
      BY <1>1, <2>2, ConcatProperties
    <2> QED  BY <1>1, <1>6, <2>1, <2>3 DEF Server!WriteSome, c
  <1>7. CASE Reset
    BY <1>7 DEF Reset
  <1> QED  BY <1>2, <1>3, <1>4, <1>5, <1>6, <1>7, WireMoves

\* A connection that is over stays over.
LEMMA OverStays ==
    ASSUME [Next]_vars, Over
    PROVE  Over'
  <1> USE DEF ops, buffers, counters, allocators
  <1>1. CASE ClientHandles
    <2>1. UNCHANGED <<link, peerOpen>> /\ (sock' = sock \/ sock' = "closed")
      BY <1>1 DEF ClientHandles, ClientHandler, ServerGone, HandleConnect, HandleRead,
             HandleWrite, CloseSocket
    <2> QED  BY <2>1 DEF Over, Broken
  <1>2. CASE ClientOpEnds
    <2>1. UNCHANGED <<link, peerOpen>> /\ (sock' = sock \/ sock = "connecting")
      BY <1>2 DEF ClientOpEnds, ClientKernel, ServerGone, ConnectCompletes, ReadCompletes,
             WriteSome, ReadFails, WriteFails
    <2> QED  BY <2>1 DEF Over, Broken
  <1>3. CASE ~ClientHandles /\ ~ClientOpEnds
    <2>1. /\ link' = link \/ link' = "reset"
          /\ peerOpen' = peerOpen \/ ~peerOpen'
          /\ sock' = sock
      BY <1>3 DEF Next, vars, wire, session, ServerGone, ClientGone, StopClient, Stop, ServerHandles,
             ServerHandler, Server!Start, Server!HandleRead, Server!HandleWrite, ServerOpEnds,
             ServerKernel, Server!ReadCompletes, Server!WriteSome, Server!OpFails,
             ServerDestroy, Server!Destroy, Accept, Reset
    <2> QED  BY <2>1 DEF Over, Broken
  <1> QED  BY <1>1, <1>2, <1>3

\* Only an operation in progress gets an error from a connection, and then that
\* one is over; what fails before has sent nothing.
LEMMA NothingSentStep ==
    ASSUME IInv, ClientAttended, FailsForBoth, NothingSent, [Next]_vars
    PROVE  NothingSent'
  <1> USE DEF ops, buffers, counters, allocators
  <1> DEFINE Early == connectOp # "handled" \/ (failed /\ ~Over)
  <1>1. BeforeConnect /\ ServerInv
    BY DEF IInv, ClientInv
  <1>2. Early' => Early
    <2>1. ~Over' => ~Over
      BY OverStays
    <2>2. CASE \E e \in BOOLEAN : HandleConnect(e)
      BY <2>2 DEF HandleConnect
    <2>3. CASE HandleRead
      <3>1. connectOp' = connectOp /\ (readOp.err \/ failed' = failed)
        BY <2>3 DEF HandleRead
      <3> QED  BY <2>1, <3>1 DEF FailsForBoth
    <2>4. CASE HandleWrite
      <3>1. /\ connectOp' = connectOp
            /\ writeOp.err \/ (writeOp.n = 0 /\ writeOp.st = "done") \/ failed' = failed
        BY <2>4 DEF HandleWrite
      <3> QED  BY <2>1, <3>1 DEF FailsForBoth, ClientAttended
    <2>5. CASE ~(\/ \E e \in BOOLEAN : HandleConnect(e)
                \/ HandleRead \/ HandleWrite)
      <3>1. failed' = failed /\ (connectOp' = "handled" <=> connectOp = "handled")
        BY <2>5 DEF Next, vars, session, ClientHandles, ClientHandler, CloseSocket, ClientOpEnds,
               ClientKernel, ConnectCompletes, ReadCompletes, WriteSome, ReadFails, WriteFails,
               StopClient, Stop, ServerHandles, ServerOpEnds, ClientGone, ServerDestroy,
               Accept, Reset
      <3> QED  BY <2>1, <3>1
    <2> QED  BY <2>2, <2>3, <2>4, <2>5
  <1>3. ASSUME Early PROVE outbox' = <<>> /\ inbox' = <<>> /\ op' # "write" /\ opState' # "ok"
    <2>1. /\ outbox = <<>> /\ inbox = <<>> /\ op # "write" /\ opState # "ok"
      BY <1>3 DEF NothingSent
    <2>2. ~Outstanding(writeOp)
      BY <1>1, <1>3 DEF BeforeConnect, FailsForBoth
    <2>3. /\ ~\E n \in 1..BlockSize : ReadCompletes(n) \/ WriteSome(n)
          /\ ~\E n \in 1..ServerBufSize : Server!ReadCompletes(n) \/ Server!WriteSome(n)
      <3>1. Len(inbox) = 0 /\ Len(outbox) = 0
        BY <2>1
      <3>2. ASSUME NEW n \in 1..BlockSize PROVE ~ReadCompletes(n) /\ ~WriteSome(n)
        BY <2>2, <3>1, BlockSizeAssumption DEF ReadCompletes, WriteSome, Outstanding
      <3>3. ASSUME NEW n \in 1..ServerBufSize
            PROVE  ~Server!ReadCompletes(n) /\ ~Server!WriteSome(n)
        BY <2>1, <3>1, ServerBufSizeAssumption DEF Server!ReadCompletes, Server!WriteSome
      <3> QED  BY <3>2, <3>3
    <2>4. outbox' = <<>> /\ inbox' = <<>>
      BY <2>1, <2>3, WireMoves DEF Reset
    <2>5. op' # "write" /\ opState' # "ok"
      <3>1. CASE ServerHandles
        BY <2>1, <3>1 DEF ServerHandles, ServerHandler, Server!Start, Server!HandleRead,
               Server!HandleWrite, Server!PostDestroy
      <3>2. CASE ServerOpEnds
        BY <2>1, <2>3, <3>2 DEF ServerOpEnds, ServerKernel, Server!OpFails
      <3>3. CASE UNCHANGED <<op, opState>>
        BY <2>1, <3>3
      <3> QED  BY <3>1, <3>2, <3>3 DEF Next, vars, server, ClientHandles, ClientOpEnds, StopClient,
                   ServerGone, ServerDestroy, Server!Destroy, Accept, Reset
    <2> QED  BY <2>4, <2>5
  <1> QED  BY <1>2, <1>3 DEF NothingSent

\* The block that handle_read or handle_write sends on is not empty.
LEMMA ClientAttendedStep ==
    ASSUME IInv, ErrorsEnd, ClientAttended, [Next]_vars
    PROVE  ClientAttended'
  <1> USE DEF ops, buffers, counters, allocators
  <1>1. /\ TypeOK /\ BlockSize \in Nat /\ BlockSize > 0 /\ readOp \in Ops /\ writeOp \in Ops
        /\ unwritten \in Nat /\ readLength \in Nat /\ UnwrittenMeaning /\ AfterFailure
        /\ BeforeConnect
    BY BlockSizeAssumption DEF IInv, ClientInv, TypeOK
  <1>2. CASE ClientHandles
    <2>1. ASSUME NEW e \in BOOLEAN, HandleConnect(e)
          PROVE  ClientAttended'
      <3>1. ~Outstanding(readOp) /\ ~Outstanding(writeOp)
        BY <1>1, <2>1 DEF HandleConnect, BeforeConnect
      <3>2. CASE connectOp = "error" \/ e
        BY <1>1, <2>1, <3>1, <3>2 DEF HandleConnect, ClientAttended, Outstanding
      <3>3. CASE ~(connectOp = "error" \/ e)
        BY <1>1, <2>1, <3>1, <3>3 DEF HandleConnect, StartRead, ClientAttended, Pending, Outstanding
      <3> QED  BY <3>2, <3>3
    <2>2. CASE HandleRead
      <3>1. Outstanding(readOp) /\ connectOp = "handled" /\ connectOp' = connectOp /\ sock' = sock
        BY <1>1, <2>2 DEF HandleRead, Outstanding, BeforeConnect
      <3>2. CASE readOp.err
        BY <1>1, <2>2, <3>1, <3>2 DEF HandleRead, ClientAttended, NoOp, Outstanding
      <3>3. CASE ~readOp.err /\ unwritten + 1 = 1
        <4>1. /\ readOp.n > 0 /\ failed' = failed
              /\ readOp'.st = "pending" /\ readOp'.len = BlockSize
              /\ writeOp'.st = "pending" /\ writeOp'.n = 0 /\ writeOp'.len = readOp.n
          BY <2>2, <3>3 DEF HandleRead, SwapAndStart, StartRead, StartWrite, Pending, ClientAttended
        <4> QED  BY <3>1, <4>1 DEF ClientAttended, Outstanding
      <3>4. CASE ~readOp.err /\ unwritten + 1 # 1
        <4>1. /\ readOp.n > 0 /\ failed' = failed /\ readLength' = readOp.n
              /\ readOp' = NoOp /\ writeOp' = writeOp
          BY <2>2, <3>4 DEF HandleRead, ClientAttended
        <4> QED  BY <3>1, <4>1 DEF ClientAttended, Outstanding, NoOp
      <3> QED  BY <3>2, <3>3, <3>4
    <2>3. CASE HandleWrite
      <3>1. Outstanding(writeOp) /\ connectOp = "handled" /\ connectOp' = connectOp /\ sock' = sock
        BY <1>1, <2>3 DEF HandleWrite, Outstanding, BeforeConnect
      <3>2. CASE writeOp.err \/ writeOp.n = 0
        BY <1>1, <2>3, <3>1, <3>2 DEF HandleWrite, ClientAttended, NoOp, Outstanding
      <3>3. CASE ~(writeOp.err \/ writeOp.n = 0) /\ unwritten - 1 = 1
        <4>1. ~failed /\ ~Outstanding(readOp)
          BY <1>1, <3>1, <3>3 DEF AfterFailure, UnwrittenMeaning
        <4>2. /\ readLength > 0 /\ failed' = failed
              /\ readOp'.st = "pending" /\ readOp'.len = BlockSize
              /\ writeOp'.st = "pending" /\ writeOp'.n = 0 /\ writeOp'.len = readLength
          BY <2>3, <3>1, <3>3, <4>1 DEF HandleWrite, SwapAndStart, StartRead, StartWrite, Pending, ClientAttended
        <4> QED  BY <3>1, <4>1, <4>2 DEF ClientAttended, Outstanding
      <3>4. CASE ~(writeOp.err \/ writeOp.n = 0) /\ unwritten - 1 # 1
        <4>1. /\ failed' = failed /\ readLength' = readLength
              /\ readOp' = readOp /\ writeOp' = NoOp
          BY <2>3, <3>4 DEF HandleWrite
        <4> QED  BY <3>1, <4>1 DEF ClientAttended, Outstanding, NoOp
      <3> QED  BY <3>2, <3>3, <3>4
    <2>4. CASE CloseSocket
      BY <2>4 DEF CloseSocket, ClientAttended, Outstanding
    <2> QED  BY <1>2, <2>1, <2>2, <2>3, <2>4 DEF ClientHandles, ClientHandler
  <1>3. CASE ClientOpEnds
    <2>1. ASSUME NEW ok \in BOOLEAN, ConnectCompletes(ok)
          PROVE  ClientAttended'
      BY <2>1 DEF ConnectCompletes, ClientAttended, Outstanding
    <2>2. ASSUME NEW n \in 1..BlockSize, ReadCompletes(n)
          PROVE  ClientAttended'
      BY <1>1, <2>2 DEF ReadCompletes, ClientAttended, Outstanding, Ops
    <2>3. ASSUME NEW n \in 1..BlockSize, WriteSome(n)
          PROVE  ClientAttended'
      <3>1. /\ writeOp.n \in Nat /\ writeOp.len \in Nat /\ n \in 1..(writeOp.len - writeOp.n)
            /\ writeOp'.n = writeOp.n + n /\ writeOp'.len = writeOp.len
            /\ writeOp'.st = IF writeOp.n + n = writeOp.len THEN "done" ELSE "pending"
            /\ UNCHANGED <<sock, connectOp, readOp, readLength, failed>>
        BY <1>1, <2>3 DEF WriteSome, Ops
      <3> QED  BY <3>1 DEF ClientAttended, Outstanding
    <2>4. CASE ReadFails
      BY <1>1, <2>4 DEF ReadFails, ClientAttended, Outstanding, Ops
    <2>5. CASE WriteFails
      BY <1>1, <2>5 DEF WriteFails, ClientAttended, Outstanding, Ops
    <2> QED  BY <1>3, <2>1, <2>2, <2>3, <2>4, <2>5 DEF ClientOpEnds, ClientKernel
  <1>4. CASE StopClient
    BY <1>4 DEF StopClient, Stop, ClientAttended, Outstanding
  <1>5. CASE UNCHANGED session
    BY <1>5 DEF session, ClientAttended, Outstanding
  <1> QED  BY <1>2, <1>3, <1>4, <1>5
        DEF Next, vars, ServerHandles, ServerOpEnds, ClientGone, ServerDestroy, Accept, Reset

LEMMA FailsForBothStep ==
    ASSUME IInv, ClientAttended, FailsForBoth, [Next]_vars
    PROVE  FailsForBoth'
  <1> USE DEF ops, buffers, counters, allocators
  <1>1. /\ TypeOK /\ BeforeConnect /\ readOp \in Ops /\ writeOp \in Ops
        /\ unwritten \in Nat /\ link \in {"up", "reset"}
    BY DEF IInv, ClientInv, TypeOK, FailsForBoth
  <1>2. CASE ClientHandles
    <2>1. CASE \E e \in BOOLEAN : HandleConnect(e)
      <3>1. ~Outstanding(readOp) /\ ~Outstanding(writeOp) /\ ~failed
        BY <1>1, <2>1 DEF HandleConnect, BeforeConnect
      <3> QED  BY <1>1, <1>2, <2>1, <3>1 DEF ClientHandles, ServerGone, HandleConnect, StartRead, Pending,
                   FailsForBoth, Over, Broken, Outstanding
    <2>2. CASE HandleRead
      <3>1. /\ Outstanding(readOp)
            /\ sock' = sock /\ link' = link /\ peerOpen' = peerOpen
            /\ readOp.err \/ failed' = failed
        BY <1>2, <2>2 DEF ClientHandles, ServerGone, HandleRead, Outstanding
      <3>2. ~readOp'.err /\ (writeOp' = writeOp \/ ~writeOp'.err)
        <4>1. CASE readOp.err \/ unwritten + 1 # 1
          BY <2>2, <4>1 DEF HandleRead, NoOp
        <4>2. CASE ~readOp.err /\ unwritten + 1 = 1
          BY <2>2, <4>2 DEF HandleRead, SwapAndStart, StartRead, StartWrite, Pending
        <4> QED  BY <4>1, <4>2
      <3> QED  BY <3>1, <3>2 DEF FailsForBoth, Over, Broken
    <2>3. CASE HandleWrite
      <3>1. /\ Outstanding(writeOp) /\ ~(~writeOp.err /\ writeOp.n = 0)
            /\ sock' = sock /\ link' = link /\ peerOpen' = peerOpen
        BY <1>1, <1>2, <2>3 DEF ClientHandles, ServerGone, HandleWrite, Outstanding, ClientAttended
      <3>2. writeOp.err \/ failed' = failed
        BY <2>3, <3>1 DEF HandleWrite
      <3>3. ~writeOp'.err /\ (readOp' = readOp \/ ~readOp'.err)
        <4>1. CASE writeOp.err \/ unwritten - 1 # 1
          <5>1. writeOp' = NoOp /\ readOp' = readOp
            BY <2>3, <3>1, <4>1 DEF HandleWrite
          <5> QED  BY <5>1 DEF NoOp
        <4>2. CASE ~writeOp.err /\ unwritten - 1 = 1
          BY <2>3, <3>1, <4>2 DEF HandleWrite, SwapAndStart, StartRead, StartWrite, Pending
        <4> QED  BY <4>1, <4>2
      <3> QED  BY <3>1, <3>2, <3>3 DEF FailsForBoth, Over, Broken
    <2>4. CASE CloseSocket
      BY <1>1, <2>4 DEF CloseSocket, FailsForBoth, Over, Broken
    <2> QED  BY <1>2, <2>1, <2>2, <2>3, <2>4 DEF ClientHandles, ClientHandler
  <1>3. CASE ClientOpEnds
    <2>1. CASE \E ok \in BOOLEAN : ConnectCompletes(ok)
      <3>1. ~Outstanding(readOp) /\ ~Outstanding(writeOp) /\ ~failed
        BY <1>1, <2>1 DEF ConnectCompletes, BeforeConnect
      <3> QED  BY <1>1, <1>3, <2>1, <3>1 DEF ClientOpEnds, ServerGone, ConnectCompletes,
                   FailsForBoth, Over, Broken, Outstanding
    <2>2. CASE \E n \in 1..BlockSize : ReadCompletes(n)
      BY <1>1, <1>3, <2>2 DEF ClientOpEnds, ServerGone, ReadCompletes, Ops,
         FailsForBoth, Over, Broken, Outstanding
    <2>3. CASE \E n \in 1..BlockSize : WriteSome(n)
      BY <1>1, <1>3, <2>3 DEF ClientOpEnds, ServerGone, WriteSome, Ops,
         FailsForBoth, Over, Broken, Outstanding
    <2>4. CASE ReadFails
      BY <1>1, <1>3, <2>4 DEF ClientOpEnds, ServerGone, ReadFails, FailsForBoth, Over, Broken
    <2>5. CASE WriteFails
      BY <1>1, <1>3, <2>5 DEF ClientOpEnds, ServerGone, WriteFails, FailsForBoth, Over, Broken
    <2> QED  BY <1>3, <2>1, <2>2, <2>3, <2>4, <2>5 DEF ClientOpEnds, ClientKernel
  <1>4. CASE StopClient
    BY <1>4 DEF StopClient, Stop, ServerGone, FailsForBoth, Over, Broken, Outstanding
  <1>5. CASE Reset
    BY <1>5 DEF Reset, session, FailsForBoth, Over, Broken, Outstanding
  <1>6. CASE UNCHANGED session /\ link' = link /\ (peerOpen' = peerOpen \/ ~peerOpen')
    BY <1>6 DEF session, FailsForBoth, Over, Broken, Outstanding
  <1>7. CASE ServerHandles
    BY <1>6, <1>7 DEF ServerHandles, ServerHandler, ClientGone, Server!Start,
           Server!HandleRead, Server!HandleWrite
  <1>8. CASE ServerOpEnds
    BY <1>6, <1>8 DEF ServerOpEnds, ServerKernel, ClientGone, Server!ReadCompletes,
           Server!WriteSome, Server!OpFails
  <1> QED  BY <1>2, <1>3, <1>4, <1>5, <1>6, <1>7, <1>8
        DEF Next, vars, wire, ServerDestroy, Server!Destroy, Accept

LEMMA ServerAttendedStep ==
    ASSUME IInv, ServerAttended, [Next]_vars
    PROVE  ServerAttended'
  <1>1. /\ ServerInv /\ buf \in Seq(Bytes) /\ outbox \in Seq(Bytes)
        /\ ServerBufSize \in Nat /\ destroys \in Nat
    BY ServerBufSizeAssumption DEF IInv, WireOK, ServerInv
  <1>2. CASE UNCHANGED <<server, peerOpen>>
    BY <1>2 DEF server, ServerAttended
  <1>3. CASE ServerHandles
    BY <1>1, <1>3 DEF ServerHandles, ServerHandler, ClientGone, session, Server!Start,
           Server!HandleRead, Server!HandleWrite, Server!PostDestroy, ServerInv, DeletedOnce,
           ServerAttended
  <1>4. CASE ServerOpEnds
    <2>1. ASSUME NEW n \in 1..ServerBufSize, Server!ReadCompletes(n)
          PROVE  buf' # <<>>
      <3>1. Len(SubSeq(outbox, 1, n)) = n
        BY <1>1, <2>1 DEF Server!ReadCompletes
      <3> QED  BY <2>1, <3>1, EmptySeq DEF Server!ReadCompletes
    <2>2. ASSUME NEW n \in 1..ServerBufSize, Server!WriteSome(n), n # Len(buf)
          PROVE  buf' # <<>>
      <3>1. Len(SubSeq(buf, n + 1, Len(buf))) = Len(buf) - n /\ Len(buf) \in Nat /\ n < Len(buf)
        BY <1>1, <2>2 DEF Server!WriteSome
      <3>2. buf' = SubSeq(buf, n + 1, Len(buf))
        BY <2>2 DEF Server!WriteSome
      <3>3. Len(buf') > 0
        BY <3>1, <3>2
      <3> QED  BY <3>3
    <2>3. CASE \E n \in 1..ServerBufSize : Server!ReadCompletes(n)
      BY <1>4, <2>1, <2>3 DEF ServerOpEnds, ClientGone, Server!ReadCompletes, ServerAttended
    <2>4. CASE \E n \in 1..ServerBufSize : Server!WriteSome(n)
      BY <1>4, <2>2, <2>4 DEF ServerOpEnds, ClientGone, Server!WriteSome, ServerAttended
    <2>5. CASE Server!OpFails
      BY <1>4, <2>5 DEF ServerOpEnds, ClientGone, Server!OpFails, ServerAttended
    <2> QED  BY <1>4, <2>3, <2>4, <2>5 DEF ServerOpEnds, ServerKernel
  <1>5. CASE ServerDestroy
    BY <1>1, <1>5 DEF ServerDestroy, Server!Destroy, ServerInv, DeletedOnce, ServerAttended
  <1>6. CASE Accept
    BY <1>1, <1>6 DEF Accept, ServerInv, ServerAttended
  <1> QED  BY <1>2, <1>3, <1>4, <1>5, <1>6
        DEF Next, vars, ClientHandles, ClientOpEnds, StopClient, ServerGone, Reset, ClientHandler,
            ClientKernel, HandleConnect, HandleRead, HandleWrite, CloseSocket

\* The block of an echo that is intact is on its way: in the wire or in a buffer.
LEMMA BytesOnTheirWay ==
    ASSUME IInv, NothingLost, Intact
    PROVE  /\ StreamsOK
           /\ BlockSize = Len(outbox) + Len(Unsent) + Len(Waiting) + Len(inbox) + Len(buf)
  <1>1. StreamsOK
    BY StreamTypes DEF StreamsOK
  <1>2. Cycle \in Rotations /\ BlockSize \in Nat \ {0}
    BY BlockSizeAssumption DEF NothingLost
  <1>3. Len(Cycle) = BlockSize
    BY <1>2 DEF Rotations
  <1>4. Len(Cycle) = Len(outbox) + Len(Unsent) + Len(Waiting) + Len(inbox) + Len(buf)
    <2>1. /\ outbox \o Unsent \in Seq(Bytes)
          /\ Len(outbox \o Unsent) = Len(outbox) + Len(Unsent)
      BY <1>1, ConcatProperties DEF StreamsOK
    <2>2. /\ (outbox \o Unsent) \o Waiting \in Seq(Bytes)
          /\ Len((outbox \o Unsent) \o Waiting) = Len(outbox \o Unsent) + Len(Waiting)
      BY <1>1, <2>1, ConcatProperties DEF StreamsOK
    <2>3. /\ ((outbox \o Unsent) \o Waiting) \o inbox \in Seq(Bytes)
          /\ Len(((outbox \o Unsent) \o Waiting) \o inbox)
                = Len((outbox \o Unsent) \o Waiting) + Len(inbox)
      BY <1>1, <2>2, ConcatProperties DEF StreamsOK
    <2>4. Len((((outbox \o Unsent) \o Waiting) \o inbox) \o buf)
                = Len(((outbox \o Unsent) \o Waiting) \o inbox) + Len(buf)
      BY <1>1, <2>3, ConcatProperties DEF StreamsOK
    <2> QED  BY <2>1, <2>2, <2>3, <2>4 DEF Cycle
  <1> QED  BY <1>1, <1>3, <1>4

\* Nobody is ready: what the client and the server then wait for.
LEMMA RestIsOver ==
    ASSUME IInv, BufferEmptied, ErrorsEnd, NothingLost, ClientAttended, FailsForBoth,
           ServerAttended, WithinWindow, NothingSent
    PROVE  RestsWhenOver
  <1> SUFFICES ASSUME ~ClientReady, ~ServerReady, ~KernelReady, ~Clogged
               PROVE  /\ connectOp = "handled" /\ failed
                      /\ ~Outstanding(readOp) /\ ~Outstanding(writeOp)
                      /\ life \in {"none", "deleted"} \/ (op = "read" /\ ~Broken)
    BY DEF RestsWhenOver
  <1>1. /\ TypeOK /\ ServerInv /\ readOp \in Ops /\ writeOp \in Ops /\ destroys = 0
        /\ opState \in {"none", "pending"} /\ life \in {"none", "started", "deleted"}
        /\ Window \in Nat \ {0} /\ Len(inbox) \in Nat /\ Len(outbox) \in Nat
    BY WindowAssumption, LenProperties
       DEF IInv, ClientInv, WireOK, TypeOK, ServerInv, ClientReady, ServerReady
  <1>2. /\ connectOp = "handled"
        /\ readOp.st \in {"none", "pending"} /\ writeOp.st \in {"none", "pending"}
    BY <1>1 DEF TypeOK, Ops, ClientReady, KernelReady
  <1>3. Outstanding(readOp) => ~Over /\ inbox = <<>>
    BY <1>2 DEF Outstanding, KernelReady, Over
  <1>4. Outstanding(writeOp) => ~Over /\ Len(outbox) = Window
    BY <1>1, <1>2 DEF Outstanding, KernelReady, Over, WithinWindow
  <1>5. ASSUME life = "started"
        PROVE  /\ ~Broken /\ opState = "pending"
               /\ \/ op = "read" /\ outbox = <<>> /\ buf = <<>>
                  \/ op = "write" /\ Len(inbox) = Window /\ buf # <<>>
    <2>1. op \in {"read", "write"} /\ opState = "pending"
      BY <1>1, <1>5 DEF ServerAttended, ServerInv
    <2>2. ~Broken /\ (op = "read" => outbox = <<>>) /\ (op = "write" => ~(Len(inbox) < Window))
      BY <2>1 DEF KernelReady
    <2>3. op = "write" => Len(inbox) = Window
      BY <1>1, <2>2 DEF WithinWindow
    <2> QED  BY <2>1, <2>2, <2>3 DEF BufferEmptied, ServerAttended
  <1>6. ASSUME Outstanding(readOp) \/ Outstanding(writeOp) PROVE FALSE
    <2>1. ~Over /\ ~failed
      BY <1>3, <1>4, <1>6 DEF FailsForBoth
    <2>2. sock = "open" /\ link = "up" /\ peerOpen
      BY <1>1, <1>2, <2>1 DEF TypeOK, ClientAttended, FailsForBoth, Over, Broken
    <2>3. life = "started"
      BY <1>1, <2>2 DEF KernelReady, ServerAttended
    <2>4. ~readOp.err /\ ~writeOp.err
      BY <1>2 DEF ErrorsEnd
    <2>5. Intact
      BY <1>1, <2>1, <2>2, <2>4 DEF Intact
    <2>6. /\ StreamsOK
          /\ BlockSize = Len(outbox) + Len(Unsent) + Len(Waiting) + Len(inbox) + Len(buf)
      BY <2>5, BytesOnTheirWay
    <2>7. BlockSize \in Nat \ {0} /\ Len(<<>>) = 0 /\ Len(Unsent) \in Nat
          /\ Len(Waiting) \in Nat /\ Len(buf) \in Nat
      BY <2>6, BlockSizeAssumption, LenProperties DEF StreamsOK
    <2>8. CASE ~Outstanding(writeOp)
      <3>1. readOp.st = "pending" /\ writeOp.st # "pending" /\ inbox = <<>>
        BY <1>2, <1>3, <1>6, <2>8 DEF Outstanding
      <3>2. op = "read" /\ outbox = <<>> /\ buf = <<>>
        BY <1>1, <1>5, <2>3, <2>7, <3>1
      <3>3. Unsent = <<>> /\ Waiting = <<>>
        BY <1>2, <3>1 DEF Unsent, Waiting
      <3> QED  BY <2>6, <2>7, <3>1, <3>2, <3>3
    <2>9. CASE Outstanding(writeOp)
      <3>1. writeOp.st = "pending" /\ Len(outbox) = Window
        BY <1>2, <1>4, <2>9 DEF Outstanding
      <3>2. op = "write" /\ opState = "pending" /\ Len(inbox) = Window /\ buf # <<>>
        BY <1>1, <1>5, <2>3, <2>7, <3>1
      <3>3. ~Outstanding(readOp) /\ readOp.st = "none"
        BY <1>1, <1>2, <1>3, <2>7, <3>2 DEF Outstanding
      <3>4. Len(Unsent) >= 1
        <4>1. writeOp.buf \in Buffers /\ writeOp.n \in Nat /\ writeOp.len \in 0..BlockSize
              /\ writeOp.n < writeOp.len
          BY <1>1, <3>1 DEF Ops, ClientAttended
        <4>2. \A k \in writeOp.n + 1 .. writeOp.len : mem[writeOp.buf][k] \in Bytes
          BY <1>1, <2>7, <4>1 DEF TypeOK
        <4>3. Len(SubSeq(mem[writeOp.buf], writeOp.n + 1, writeOp.len)) = writeOp.len - writeOp.n
          BY <4>1, <4>2, SubSeqProperties
        <4> QED  BY <1>2, <3>1, <4>1, <4>3 DEF Unsent
      <3>5. Len(Waiting) >= 1
        <4>1. readData \in Buffers /\ readLength \in 0..BlockSize /\ readLength > 0
          BY <1>1, <1>2, <2>1, <3>3 DEF TypeOK, ClientAttended
        <4>2. \A k \in 1 .. readLength : mem[readData][k] \in Bytes
          BY <1>1, <2>7, <4>1 DEF TypeOK
        <4>3. Len(SubSeq(mem[readData], 1, readLength)) = readLength
          BY <4>1, <4>2, SubSeqProperties
        <4> QED  BY <1>2, <3>3, <4>1, <4>3 DEF Waiting, FirstBytes
      <3>6. Len(buf) >= 1
        BY <2>6, <2>7, <3>2, EmptySeq DEF StreamsOK
      <3>7. BlockSize > 2 * Window + 2
        BY <1>1, <2>6, <2>7, <3>1, <3>2, <3>4, <3>5, <3>6
      <3> QED  BY <3>1, <3>2, <3>3, <3>7 DEF Clogged
    <2> QED  BY <2>8, <2>9
  <1>7. failed
    BY <1>2, <1>6 DEF IInv, ClientInv, NeverIdle
  <1>8. ASSUME life = "started" PROVE op = "read" /\ ~Broken
    <2>1. ~Over
      BY <1>5, <1>8 DEF Over, ServerAttended
    <2>2. op # "write"
      BY <1>7, <2>1 DEF NothingSent
    <2> QED  BY <1>5, <1>8, <2>2
  <1> QED  BY <1>1, <1>2, <1>6, <1>7, <1>8

-----------------------------------------------------------------------------
\* The theorems about bytes.

LEMMA BytesInit == SystemInit => BytesInv
  <1> SUFFICES ASSUME SystemInit PROVE BytesInv
    OBVIOUS
  <1>1. IInv /\ NothingLost
    BY SystemInitInv, NothingLostInit
  <1>2. BufferEmptied /\ ErrorsEnd /\ CountersExact
    BY DEF SystemInit, Init, Server!Init, NoOp, Outstanding, BufferEmptied, ErrorsEnd,
           CountersExact
  <1> QED  BY <1>1, <1>2 DEF BytesInv

LEMMA BytesStep == BytesInv /\ [Next]_vars => BytesInv'
  <1> SUFFICES ASSUME BytesInv, [Next]_vars PROVE BytesInv'
    OBVIOUS
  <1>1. IInv'
    BY ClientStep, ServerStep, WireStep DEF BytesInv, IInv
  <1> QED  BY <1>1, BufferEmptiedStep, ErrorsEndStep, NothingLostStep, CountersStep DEF BytesInv

\* The bytes keep their order and the counters their meaning.
THEOREM BytesInvariant == Spec => []BytesInv
  BY BytesInit, BytesStep, PTL DEF Spec

\* Nothing is lost, doubled or reordered on its way through the swapped buffers
\* of the client (myclient.cpp:138-181) and the one of the server
\* (myserver.cpp:42-61), however reads and writes are cut into pieces.
THEOREM EchoNothingLost == Spec => []NothingLost
  <1>1. BytesInv => NothingLost
    BY DEF BytesInv
  <1> QED  BY <1>1, BytesInvariant, PTL

\* The client's counters are what went over the connection (myclient.cpp:142, 164).
THEOREM EchoCounters == Spec => []CountersExact
  <1>1. BytesInv => CountersExact
    BY DEF BytesInv
  <1> QED  BY <1>1, BytesInvariant, PTL

Attended ==
    ClientAttended /\ FailsForBoth /\ ServerAttended /\ WithinWindow /\ NothingSent

LEMMA AttendedStep == BytesInv /\ Attended /\ [Next]_vars => Attended'
  BY ClientAttendedStep, FailsForBothStep, ServerAttendedStep, WithinWindowStep, NothingSentStep
     DEF BytesInv, Attended

\* Client and server never wait for each other with nothing under way, and with
\* bytes under way only if a block is larger than the kernels' buffers both ways
\* and two bytes: otherwise the echo rests only when the client has met an error
\* (myclient.cpp:138-181, myserver.cpp:29-63).
THEOREM EchoRestsWhenOver == Spec => []RestsWhenOver
  <1>1. SystemInit => Attended
    BY AttendedInit DEF Attended
  <1>2. BytesInv /\ Attended => RestsWhenOver
    BY RestIsOver DEF BytesInv, Attended
  <1> QED  BY <1>1, <1>2, BytesInvariant, AttendedStep, PTL DEF Spec

-----------------------------------------------------------------------------
\* The client's process.  A step of it is a step of its session or leaves that
\* alone, so EchoSystem's invariant carries over; what is left is the process
\* itself, and the counters that it prints.
\* The inductive invariant.

\* What was written, is being written or waits to be is the first block and all
\* that was read.  An error loses an operation in progress at most, and with it
\* the count of its block.
Balance ==
    /\ writeOp.st = "done" /\ ~writeOp.err => writeOp.n = writeOp.len
    /\ connectOp # "handled" => ahead = 0
    /\ connectOp = "handled" /\ ~failed =>
          ahead + (IF Outstanding(writeOp) THEN writeOp.len ELSE 0)
                + (IF Outstanding(readOp) THEN 0 ELSE readLength) = BlockSize
    /\ connectOp = "handled" /\ failed =>
          /\ Outstanding(writeOp) => ahead + writeOp.len = BlockSize
          /\ Outstanding(readOp) => ahead \in 0..BlockSize
          /\ ahead \in -BlockSize..BlockSize

\* What the process has printed is what the session had counted.
Summed ==
    /\ main \in {"run", "join"} => total = 0
    /\ main \in {"deleted", "printed"} => total \in -BlockSize..BlockSize

BIInv == IInv /\ Balance /\ BTypeOK /\ NoneLeftBehind /\ Summed

-----------------------------------------------------------------------------
\* The counters.

LEMMA BalanceInit == SystemInit => Balance
  BY DEF SystemInit, Init, Balance, NoOp, Outstanding

LEMMA BalanceRead ==
    ASSUME IInv, Balance, HandleRead
    PROVE  Balance'
  <1> USE DEF ops, buffers, counters, allocators
  <1>1. /\ TypeOK /\ BlockSize \in Nat /\ connectOp = "handled" /\ connectOp' = connectOp
        /\ Outstanding(readOp) /\ ~Outstanding(NoOp)
        /\ readOp.n \in 0..BlockSize /\ writeOp.len \in 0..BlockSize /\ ahead \in Int
        /\ unwritten \in Nat
    BY BlockSizeAssumption DEF IInv, ClientInv, TypeOK, Ops, BeforeConnect, HandleRead,
                               Outstanding, NoOp
  <1>2. CASE readOp.err
    <2>1. readOp' = NoOp /\ writeOp' = writeOp /\ ahead' = ahead /\ failed'
      BY <1>2 DEF HandleRead
    <2> QED  BY <1>1, <2>1 DEF Balance, Outstanding
  <1>3. CASE ~readOp.err /\ unwritten + 1 = 1
    <2>1. ~failed /\ ~Outstanding(writeOp)
      BY <1>1, <1>3 DEF IInv, ClientInv, UnwrittenMeaning, AfterFailure
    <2>2. /\ ahead' = ahead - readOp.n /\ failed' = failed
          /\ Outstanding(readOp)' /\ Outstanding(writeOp)'
          /\ writeOp'.st = "pending" /\ writeOp'.len = readOp.n
      BY <1>3 DEF HandleRead, SwapAndStart, StartRead, StartWrite, Pending, Outstanding
    <2> QED  BY <1>1, <2>1, <2>2 DEF Balance
  <1>4. CASE ~readOp.err /\ unwritten + 1 # 1
    <2>1. /\ ahead' = ahead - readOp.n /\ failed' = failed /\ readLength' = readOp.n
          /\ readOp' = NoOp /\ writeOp' = writeOp
      BY <1>4 DEF HandleRead
    <2>2. ~(failed /\ Outstanding(writeOp))
      BY <1>1 DEF IInv, ClientInv, AfterFailure
    <2> QED  BY <1>1, <2>1, <2>2 DEF Balance, Outstanding
  <1> QED  BY <1>2, <1>3, <1>4

LEMMA BalanceWrite ==
    ASSUME IInv, Balance, HandleWrite
    PROVE  Balance'
  <1> USE DEF ops, buffers, counters, allocators
  <1>1. /\ TypeOK /\ BlockSize \in Nat /\ connectOp = "handled" /\ connectOp' = connectOp
        /\ Outstanding(writeOp) /\ ~Outstanding(NoOp) /\ readLength \in 0..BlockSize
        /\ writeOp.n \in 0..BlockSize /\ writeOp.len \in 0..BlockSize /\ ahead \in Int
        /\ unwritten \in Nat /\ NoOp.st = "none"
    BY BlockSizeAssumption DEF IInv, ClientInv, TypeOK, Ops, BeforeConnect, HandleWrite,
                               Outstanding, NoOp
  <1>2. CASE writeOp.err \/ writeOp.n = 0
    <2>1. readOp' = readOp /\ writeOp' = NoOp /\ ahead' = ahead /\ failed'
      BY <1>2 DEF HandleWrite
    <2>2. ~(failed /\ Outstanding(readOp))
      BY <1>1 DEF IInv, ClientInv, AfterFailure
    <2> QED  BY <1>1, <2>1, <2>2 DEF Balance
  <1>3. CASE ~(writeOp.err \/ writeOp.n = 0) /\ unwritten - 1 = 1
    <2>1. ~failed /\ ~Outstanding(readOp)
      BY <1>1, <1>3 DEF IInv, ClientInv, UnwrittenMeaning, AfterFailure
    <2>2. /\ ahead' = ahead + writeOp.n /\ failed' = failed
          /\ Outstanding(readOp)' /\ Outstanding(writeOp)'
          /\ writeOp'.st = "pending" /\ writeOp'.len = readLength
      BY <1>3 DEF HandleWrite, SwapAndStart, StartRead, StartWrite, Pending, Outstanding
    <2>3. writeOp.n = writeOp.len
      BY <1>3 DEF HandleWrite, Balance
    <2> QED  BY <1>1, <2>1, <2>2, <2>3 DEF Balance
  <1>4. CASE ~(writeOp.err \/ writeOp.n = 0) /\ unwritten - 1 # 1
    <2>1. /\ ahead' = ahead + writeOp.n /\ failed' = failed /\ readLength' = readLength
          /\ readOp' = readOp /\ writeOp' = NoOp
      BY <1>4 DEF HandleWrite
    <2>2. ~(failed /\ Outstanding(readOp)) /\ writeOp.n = writeOp.len
      BY <1>1, <1>4 DEF IInv, ClientInv, AfterFailure, HandleWrite, Balance
    <2> QED  BY <1>1, <2>1, <2>2 DEF Balance
  <1> QED  BY <1>2, <1>3, <1>4

LEMMA BalanceStep ==
    ASSUME IInv, Balance, [Next]_vars
    PROVE  Balance'
  <1> USE DEF ops, buffers, counters, allocators
  <1>1. /\ TypeOK /\ BlockSize \in Nat /\ ahead \in Int
        /\ readOp \in Ops /\ writeOp \in Ops
    BY BlockSizeAssumption DEF IInv, ClientInv, TypeOK
  <1>2. CASE ClientHandles
    <2>1. ASSUME NEW e \in BOOLEAN, HandleConnect(e)
          PROVE  Balance'
      <3>1. /\ ~Outstanding(readOp) /\ ~Outstanding(writeOp) /\ ahead = 0 /\ ahead' = 0
            /\ connectOp' = "handled" /\ ~failed
        BY <2>1 DEF HandleConnect, IInv, ClientInv, BeforeConnect, Balance
      <3>2. CASE connectOp = "error" \/ e
        BY <1>1, <2>1, <3>1, <3>2 DEF HandleConnect, Balance, Outstanding
      <3>3. CASE ~(connectOp = "error" \/ e)
        BY <1>1, <2>1, <3>1, <3>3 DEF HandleConnect, StartRead, Pending, Balance, Outstanding
      <3> QED  BY <3>2, <3>3
    <2>2. CASE CloseSocket
      BY <2>2 DEF CloseSocket, Balance, Outstanding
    <2> QED  BY <1>2, <2>1, <2>2, BalanceRead, BalanceWrite DEF ClientHandles, ClientHandler
  <1>3. CASE ClientOpEnds
    <2>1. ASSUME NEW ok \in BOOLEAN, ConnectCompletes(ok)
          PROVE  Balance'
      BY <2>1 DEF ConnectCompletes, Balance, Outstanding
    <2>2. ASSUME NEW n \in 1..BlockSize, ReadCompletes(n)
          PROVE  Balance'
      BY <1>1, <2>2 DEF ReadCompletes, Balance, Outstanding, Ops
    <2>3. ASSUME NEW n \in 1..BlockSize, WriteSome(n)
          PROVE  Balance'
      <3>1. /\ writeOp'.len = writeOp.len /\ writeOp'.n = writeOp.n + n
            /\ writeOp'.st = IF writeOp.n + n = writeOp.len THEN "done" ELSE "pending"
            /\ Outstanding(writeOp) /\ Outstanding(writeOp)'
        BY <1>1, <2>3 DEF WriteSome, Ops, Outstanding
      <3> QED  BY <1>1, <2>3, <3>1 DEF WriteSome, Balance, Outstanding
    <2>4. CASE ReadFails
      BY <1>1, <2>4 DEF ReadFails, Balance, Outstanding, Ops
    <2>5. CASE WriteFails
      BY <1>1, <2>5 DEF WriteFails, Balance, Outstanding, Ops
    <2> QED  BY <1>3, <2>1, <2>2, <2>3, <2>4, <2>5 DEF ClientOpEnds, ClientKernel
  <1>4. CASE StopClient
    BY <1>4 DEF StopClient, Stop, Balance, Outstanding
  <1>5. CASE UNCHANGED session
    BY <1>5 DEF session, Balance, Outstanding
  <1> QED  BY <1>2, <1>3, <1>4, <1>5
        DEF Next, vars, ServerHandles, ServerOpEnds, ClientGone, ServerDestroy, Accept, Reset

\* Whatever has come to an end, the counters differ by a block at most.
LEMMA BalanceBound ==
    ASSUME IInv, Balance, connectOp = "handled"
    PROVE  ahead \in -BlockSize..BlockSize
  BY BlockSizeAssumption DEF IInv, ClientInv, TypeOK, Ops, Balance

-----------------------------------------------------------------------------
\* The process.

\* A step of the process is a step of the session, or none.
LEMMA StepsMap ==
    ASSUME [BNext]_bvars
    PROVE  [Next]_vars
  BY DEF BNext, bvars, SessionHandler, Environment, Process, TimerExpires, HandleTimeout,
         MainLeaves, DeleteSessions, PrintStats, WorkerLeaves, Next

LEMMA ProcessTypes ==
    ASSUME BTypeOK, TypeOK', [BNext]_bvars
    PROVE  BTypeOK'
  <1>1. CASE \E t \in Workers : WorkerLeaves(t)
    BY <1>1 DEF WorkerLeaves, BTypeOK
  <1>2. CASE DeleteSessions
    BY <1>2 DEF DeleteSessions, BTypeOK, TypeOK
  <1>3. CASE SessionHandler \/ Environment \/ UNCHANGED bvars
    BY <1>3 DEF SessionHandler, Environment, process, bvars, BTypeOK
  <1>4. CASE HandleTimeout \/ MainLeaves \/ PrintStats \/ TimerExpires
    BY <1>4 DEF HandleTimeout, MainLeaves, PrintStats, TimerExpires, BTypeOK
  <1> QED  BY <1>1, <1>2, <1>3, <1>4 DEF BNext, Process

\* Where nothing is left to do nothing comes back.
LEMMA WorkEnds ==
    ASSUME ~HasWork, [BNext]_bvars
    PROVE  ~HasWork'
  <1> USE DEF HasWork, Outstanding
  <1>1. CASE ClientHandles /\ UNCHANGED process
    BY <1>1 DEF ClientHandles, ClientHandler, HandleConnect, HandleRead, HandleWrite, CloseSocket
  <1>2. CASE ClientOpEnds /\ UNCHANGED process
    BY <1>2 DEF ClientOpEnds, ClientKernel, ConnectCompletes, ReadCompletes, WriteSome,
                ReadFails, WriteFails
  <1>3. CASE UNCHANGED <<session, timer>>
    BY <1>3 DEF session, ops
  <1> QED  BY <1>1, <1>2, <1>3 DEF BNext, bvars, vars, SessionHandler, Environment, Process, process,
           ServerHandles, ServerOpEnds, ServerDestroy, Accept, Reset, ClientGone,
           HandleTimeout, TimerExpires, MainLeaves, DeleteSessions, PrintStats, WorkerLeaves

LEMMA LeftBehindStep ==
    ASSUME BTypeOK, NoneLeftBehind, [BNext]_bvars
    PROVE  NoneLeftBehind'
  <1>1. CASE ~HasWork
    BY <1>1, WorkEnds DEF NoneLeftBehind
  <1>2. CASE HasWork
    <2>1. main = "run" /\ \A t \in Workers : worker[t] = "run"
      BY <1>2 DEF NoneLeftBehind, BTypeOK
    <2>2. main' = main /\ worker' = worker
      BY <1>2, <2>1 DEF BNext, bvars, SessionHandler, Environment, Process, process, RunsOut,
         HandleTimeout, TimerExpires, MainLeaves, DeleteSessions, PrintStats, WorkerLeaves
    <2> QED  BY <2>1, <2>2 DEF NoneLeftBehind
  <1> QED  BY <1>1, <1>2

LEMMA SummedStep ==
    ASSUME BIInv, [BNext]_bvars
    PROVE  Summed'
  <1>1. BlockSize \in Nat /\ Summed
    BY BlockSizeAssumption DEF BIInv
  <1>2. CASE DeleteSessions
    <2>1. connectOp = "handled"
      BY <1>2 DEF DeleteSessions, BIInv, NoneLeftBehind, HasWork
    <2>2. ahead \in -BlockSize..BlockSize
      BY <2>1, BalanceBound DEF BIInv
    <2> QED  BY <1>1, <1>2, <2>2 DEF DeleteSessions, Summed
  <1>3. CASE UNCHANGED <<main, total>>
    BY <1>1, <1>3 DEF Summed
  <1>4. CASE MainLeaves \/ PrintStats
    BY <1>1, <1>4 DEF MainLeaves, PrintStats, Summed
  <1> QED  BY <1>2, <1>3, <1>4 DEF BNext, bvars, SessionHandler, Environment, Process, process,
         HandleTimeout, TimerExpires, WorkerLeaves

-----------------------------------------------------------------------------
\* The theorems.

\* The counters, the process and the session keep what they promise each other.
THEOREM BenchInvariant == BSpec => []BIInv
  <1>1. BInit => BIInv
    <2> SUFFICES ASSUME BInit PROVE BIInv
      OBVIOUS
    <2>1. IInv /\ TypeOK /\ Balance
      BY SystemInitInv, BalanceInit DEF BInit, IInv, ClientInv
    <2> QED  BY <2>1 DEF BInit, BIInv, BTypeOK, NoneLeftBehind, Summed
  <1>2. BIInv /\ [BNext]_bvars => BIInv'
    <2> SUFFICES ASSUME BIInv, [BNext]_bvars PROVE BIInv'
      OBVIOUS
    <2>1. [Next]_vars
      BY StepsMap
    <2>2. IInv' /\ TypeOK'
      BY <2>1, ClientStep, ServerStep, WireStep DEF BIInv, IInv, ClientInv
    <2>3. Balance'
      BY <2>1, BalanceStep DEF BIInv
    <2>4. BTypeOK' /\ NoneLeftBehind'
      BY <2>2, ProcessTypes, LeftBehindStep DEF BIInv
    <2> QED  BY <2>2, <2>3, <2>4, SummedStep DEF BIInv
  <1> QED  BY <1>1, <1>2, PTL DEF BSpec

\* Every variable of the process and of its session has its type.
THEOREM BenchTypes == BSpec => []BTypeOK
  <1>1. BIInv => BTypeOK
    BY DEF BIInv
  <1> QED  BY <1>1, BenchInvariant, PTL

\* ~client deletes its sessions when none of them has a handler or an operation
\* left, for every number of threads (myclient.cpp:225-234, 286-291).
THEOREM BenchNoneLeftBehind == BSpec => []NoneLeftBehind
  <1>1. BIInv => NoneLeftBehind
    BY DEF BIInv
  <1> QED  BY <1>1, BenchInvariant, PTL

\* The two rates that are printed differ by a block at most, for every block size
\* and at whatever point the session has failed (myclient.cpp:57-62, 97-104).
THEOREM BenchStats == BSpec => []StatsWithinABlock
  <1>1. BIInv => StatsWithinABlock
    BY DEF BIInv, Summed, StatsWithinABlock
  <1> QED  BY <1>1, BenchInvariant, PTL

\* What EchoSystem proves of a session holds of it within the process.
THEOREM BenchSession == BSpec => [](UnwrittenMeaning /\ NoHeapFallback /\ DeletedOnce)
  <1>1. BIInv => UnwrittenMeaning /\ NoHeapFallback /\ DeletedOnce
    BY DEF BIInv, IInv, ClientInv, ServerInv
  <1> QED  BY <1>1, BenchInvariant, PTL

\* Nor does the process around a session lose any of its bytes, miscount them or
\* let it rest before it is over, but for a block that the kernels cannot hold,
\* whatever its threads and its timer do meanwhile (myclient.cpp:138-187).
THEOREM BenchBytes == BSpec => [](NothingLost /\ CountersExact /\ RestsWhenOver)
  <1>1. BInit => BytesInv /\ Attended
    BY BytesInit, AttendedInit DEF BInit, Attended
  <1>2. BytesInv /\ Attended /\ [BNext]_bvars => BytesInv' /\ Attended'
    BY StepsMap, BytesStep, AttendedStep
  <1>3. BytesInv /\ Attended => NothingLost /\ CountersExact /\ RestsWhenOver
    BY RestIsOver DEF BytesInv, Attended
  <1> QED  BY <1>1, <1>2, <1>3, PTL DEF BSpec
=============================================================================
