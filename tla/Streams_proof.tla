---------------------------- MODULE Streams_proof ----------------------------
(***************************************************************************)
(* Proofs about IocpStreams and TraditionalStreams: for any number of      *)
(* readers, buffers of any size, and every fault, the OVERLAPPED of a      *)
(* reader or writer has one owner, nobody waits for everybody, and with a  *)
(* handler per operation the same holds and the program does what the      *)
(* other one does.                                                         *)
(***************************************************************************)
EXTENDS TraditionalStreams, FiniteSetTheorems, TLAPS

-----------------------------------------------------------------------------
\* The inductive invariant of Improved.cpp.

\* A length that a packet has fits the buffer, and only reads have one for the
\* reader; a reader that waits for nothing more is gone.
Lengths ==
    \A r \in Readers :
        /\ rop[r].n <= ReaderSize
        /\ rop[r].cb = "OnConnect" \/ rop[r].err => rop[r].n = 0
        /\ place[r] # "deleted" => total[r] > 0

\* The WorkTracker counts the readers that have not deleted themselves.
Undeleted == {r \in Readers : place[r] # "deleted"}
Tracked == workCount = Cardinality(Undeleted)

\* Without inline completions no byte is lost.
CountedByPackets == ~sync => ReceivedIsCounted

IInv == TypeOK /\ OneOwner /\ Lengths /\ Tracked /\ CountedByPackets

\* The sizes, and the operations.
LEMMA Sizes ==
    /\ Bytes \in Nat \ {0} /\ ReaderSize \in Nat \ {0} /\ WriterSize \in Nat \ {0}
    /\ Window \in Nat /\ Window >= WriterSize
  BY SizesAssumption

LEMMA OpTypes ==
    /\ NoOp \in Ops /\ NoOp.st = "none" /\ NoOp.n = 0 /\ NoOp.cb = "OnRead" /\ ~NoOp.err
    /\ \A cb \in {"OnConnect", "OnRead", "OnWrite"} :
          Kernel(cb) \in Ops /\ Kernel(cb).st = "kernel" /\ Kernel(cb).n = 0
          /\ Kernel(cb).cb = cb
  BY DEF NoOp, Kernel, Ops

-----------------------------------------------------------------------------
\* The WorkTracker.

LEMMA FinishTracked ==
    ASSUME NEW r \in Readers, TypeOK, place[r] # "deleted",
           Tracked, Finish(r)
    PROVE  Tracked' /\ workCount' \in Nat
  <1>1. IsFiniteSet(Undeleted)
    BY ReadersAssumption, FS_Subset DEF Undeleted
  <1>2. r \in Undeleted /\ Undeleted' = Undeleted \ {r}
    BY DEF Finish, Set, Undeleted, TypeOK
  <1>3. /\ Cardinality(Undeleted') = Cardinality(Undeleted) - 1
        /\ IsFiniteSet(Undeleted')
    BY <1>1, <1>2, FS_RemoveElement
  <1>4. workCount' = Cardinality(Undeleted')
    BY <1>3 DEF Finish, Tracked
  <1>5. Cardinality(Undeleted') \in Nat
    BY <1>3, FS_CardinalityType
  <1> QED  BY <1>4, <1>5 DEF Tracked

LEMMA GoesTracked ==
    ASSUME NEW r \in Readers, NEW where, TypeOK,
           place[r] # "deleted", where # "deleted", Tracked, Goes(r, where)
    PROVE  Tracked' /\ workCount' = workCount
  <1>1. Undeleted' = Undeleted
    BY DEF Goes, Set, Undeleted, TypeOK
  <1> QED  BY <1>1 DEF Goes, Tracked

LEMMA InitInv == Init => IInv
  <1> SUFFICES ASSUME Init PROVE IInv
    OBVIOUS
  <1> USE Sizes, OpTypes
  <1>1. sync \in BOOLEAN
    BY ModesAssumption DEF Init, SyncCompletion
  <1>2. Undeleted = Readers
    BY DEF Init, Undeleted
  <1>3. workCount \in Nat /\ Tracked
    BY <1>2, ReadersAssumption, FS_CardinalityType DEF Init, Tracked
  <1>4. /\ bytesRead \in [Readers -> 0..ReaderSize] /\ total \in [Readers -> 1-ReaderSize..Bytes]
        /\ stream \in [Readers -> 0..Window] /\ received \in [Readers -> Nat]
        /\ rop \in [Readers -> Ops] /\ wop \in [Readers -> Ops]
    <2>1. 0 \in 0..ReaderSize /\ Bytes \in 1-ReaderSize..Bytes /\ 0 \in 0..Window
      OBVIOUS
    <2> QED  BY <2>1 DEF Init
  <1>5. TypeOK
    BY <1>1, <1>3, <1>4 DEF Init, TypeOK
  <1>6. OneOwner /\ Lengths /\ CountedByPackets
    BY DEF Init, OneOwner, Lengths, CountedByPackets, ReceivedIsCounted
  <1> QED  BY <1>3, <1>5, <1>6 DEF IInv

-----------------------------------------------------------------------------
\* A step of Read, with t bytes still to come.
LEMMA ReadInv ==
    ASSUME IInv, NEW r \in Readers, NEW t \in 1..Bytes,
           place[r] \in {"OnConnect", "OnRead"}, Read(r),
           total' = Set(total, r, t),
           ~sync => received[r] = Bytes - t,
           UNCHANGED <<sync, main, server, writer, link>>
    PROVE  IInv'
  <1> USE Sizes DEF server, writer
  <1>1. TypeOK /\ OneOwner /\ Lengths /\ Tracked /\ CountedByPackets
    BY DEF IInv
  <1>2. /\ rop[r].st = "none"
        /\ place[r] # "deleted" /\ misused = FALSE
    BY <1>1 DEF OneOwner, TypeOK
  <1>3. misused' = FALSE
    BY <1>2 DEF Read
  <1>4. total' \in [Readers -> 1-ReaderSize..Bytes] /\ total'[r] = t /\ t > 0
        /\ \A q \in Readers : q # r => total'[q] = total[q]
    <2>1. t \in 1-ReaderSize..Bytes
      OBVIOUS
    <2> QED  BY <1>1, <2>1 DEF TypeOK, Set
  <1>5. ASSUME NEW n \in 1..ReaderSize, ReceiveNow(r, n)
        PROVE  IInv'
    <2>1. stream' \in [Readers -> 0..Window]
      <3>1. stream[r] - n \in 0..Window
        BY <1>1, <1>5 DEF ReceiveNow, TypeOK
      <3> QED  BY <1>1, <1>5, <3>1 DEF ReceiveNow, TypeOK, Set
    <2>2. received' \in [Readers -> Nat]
      BY <1>1, <1>5 DEF ReceiveNow, TypeOK, Set
    <2>3. rop' \in [Readers -> Ops] /\ bytesRead' \in [Readers -> 0..ReaderSize]
          /\ (rop'[r].st = "none" <=> sync) /\ rop'[r].n <= ReaderSize /\ rop'[r].cb = "OnRead" /\ ~rop'[r].err
          /\ (~sync => rop'[r].st = "queued" /\ rop'[r].n = n)
          /\ \A q \in Readers : q # r => rop'[q] = rop[q] /\ bytesRead'[q] = bytesRead[q]
      <3>1. n \in Nat /\ n <= ReaderSize /\ 0 \in 0..ReaderSize /\ ReaderSize \in 0..ReaderSize
        OBVIOUS
      <3> DEFINE o == IF SkipOnSuccess THEN NoOp ELSE Packet("OnRead", n, FALSE)
                 b == IF ReportsInline THEN ReaderSize ELSE 0
      <3>2. o \in Ops /\ (o.st = "none" <=> sync) /\ o.n <= ReaderSize /\ o.cb = "OnRead" /\ ~o.err
            /\ (~sync => o.st = "queued" /\ o.n = n) /\ b \in 0..ReaderSize
        <4>1. sync \in BOOLEAN
          BY <1>1 DEF TypeOK
        <4>2. /\ Packet("OnRead", n, FALSE) \in Ops /\ Packet("OnRead", n, FALSE).st = "queued"
              /\ Packet("OnRead", n, FALSE).n = n /\ Packet("OnRead", n, FALSE).cb = "OnRead"
              /\ ~Packet("OnRead", n, FALSE).err
          BY <3>1 DEF Packet, Ops
        <4>3. NoOp \in Ops /\ NoOp.st = "none" /\ NoOp.n = 0 /\ NoOp.cb = "OnRead" /\ ~NoOp.err
          BY OpTypes
        <4>4. CASE sync
          <5>1. o = NoOp /\ b = ReaderSize
            BY <4>4 DEF SkipOnSuccess, ReportsInline
          <5> HIDE DEF o, b
          <5> QED  BY <3>1, <4>3, <4>4, <5>1
        <4>5. CASE ~sync
          <5>1. o = Packet("OnRead", n, FALSE) /\ b = 0
            BY <4>5 DEF SkipOnSuccess, ReportsInline
          <5> HIDE DEF o, b
          <5> QED  BY <3>1, <4>2, <4>5, <5>1
        <4> QED  BY <4>1, <4>4, <4>5
      <3>3. rop' = [rop EXCEPT ![r] = o] /\ bytesRead' = [bytesRead EXCEPT ![r] = b]
        BY <1>5 DEF ReceiveNow, Set
      <3> QED  BY <1>1, <3>2, <3>3 DEF TypeOK
    <2>4. /\ place' = [place EXCEPT ![r] = IF sync THEN place[r] ELSE "idle"]
          /\ exit' = exit /\ Tracked' /\ workCount' = workCount
      <3>1. Goes(r, IF sync THEN place[r] ELSE "idle")
        BY <1>5 DEF ReceiveNow, ReportsInline
      <3>2. (IF sync THEN place[r] ELSE "idle") # "deleted"
        BY <1>2
      <3> HIDE DEF Goes, Tracked
      <3>3. Tracked' /\ workCount' = workCount
        BY <1>1, <1>2, <3>1, <3>2, GoesTracked
      <3> QED  BY <3>1, <3>3 DEF Goes, Set
    <2>5. TypeOK'
      BY <1>1, <1>2, <1>3, <1>4, <2>1, <2>2, <2>3, <2>4 DEF TypeOK
    <2>6. OneOwner'
      BY <1>1, <1>2, <1>3, <2>3, <2>4 DEF OneOwner, TypeOK
    <2>8. Lengths'
      BY <1>1, <1>4, <2>3, <2>4 DEF Lengths, TypeOK
    <2>7. CountedByPackets'
      <3> SUFFICES ASSUME ~sync, NEW q \in Readers
                   PROVE  received'[q] = Bytes - total'[q]
                            + (IF rop'[q].st = "queued" THEN rop'[q].n ELSE 0)
                            + (IF place'[q] = "OnRead" THEN bytesRead'[q] ELSE 0)
        BY DEF CountedByPackets, ReceivedIsCounted
      <3>1. CASE q = r
        <4>1. received[r] + n <= Bytes + ReaderSize
          OBVIOUS
        <4>2. received'[r] = Bytes - t + n
          BY <1>1, <1>5, <4>1 DEF ReceiveNow, Set, TypeOK
        <4>3. place'[r] = "idle"
          BY <1>1, <2>4 DEF TypeOK
        <4> QED  BY <1>4, <2>3, <3>1, <4>2, <4>3
      <3>2. CASE q # r
        <4>1. received'[q] = received[q] /\ place'[q] = place[q]
          BY <1>1, <1>5, <2>4, <3>2 DEF ReceiveNow, Set, TypeOK
        <4> QED  BY <1>1, <1>4, <2>3, <3>2, <4>1 DEF CountedByPackets, ReceivedIsCounted
      <3> QED  BY <3>1, <3>2
    <2> QED  BY <2>4, <2>5, <2>6, <2>7, <2>8 DEF IInv
  <1>6. CASE ReceiveLater(r) \/ ReceiveError(r)
    <2>1. /\ rop' \in [Readers -> Ops] /\ bytesRead' \in [Readers -> 0..ReaderSize]
          /\ rop'[r].n = 0 /\ rop'[r].cb = "OnRead" /\ rop'[r].st # "queued"
          /\ (rop'[r].st = "none" <=> rop'[r].st # "kernel")
          /\ \A q \in Readers : q # r => rop'[q] = rop[q] /\ bytesRead'[q] = bytesRead[q]
      <3>1. 0 \in 0..ReaderSize
        OBVIOUS
      <3>2. /\ Kernel("OnRead") \in Ops /\ Kernel("OnRead").st = "kernel"
            /\ Kernel("OnRead").n = 0 /\ Kernel("OnRead").cb = "OnRead"
        BY DEF Kernel, Ops
      <3>3. PICK o \in {Kernel("OnRead"), NoOp} :
               rop' = [rop EXCEPT ![r] = o] /\ bytesRead' = [bytesRead EXCEPT ![r] = 0]
        BY <1>6 DEF ReceiveLater, ReceiveError, Set
      <3>4. o \in Ops /\ o.n = 0 /\ o.cb = "OnRead" /\ o.st \in {"none", "kernel"}
        BY <3>2, OpTypes
      <3> QED  BY <1>1, <3>1, <3>3, <3>4 DEF TypeOK
    <2>2. UNCHANGED <<stream, received>>
      BY <1>6 DEF ReceiveLater, ReceiveError
    <2>3. /\ Tracked' /\ workCount' \in Nat /\ exit' \in {"no", "done", "timeout", "panic", "unexpected"}
          /\ \/ place' = [place EXCEPT ![r] = "idle"] /\ rop'[r].st = "kernel"
             \/ place' = [place EXCEPT ![r] = "deleted"] /\ rop'[r].st = "none"
      <3>1. CASE ReceiveLater(r)
        <4>1. Goes(r, "idle") /\ rop'[r].st = "kernel"
          BY <1>1, <3>1, OpTypes DEF ReceiveLater, Set, TypeOK
        <4>2. Tracked' /\ workCount' = workCount
          BY <1>1, <1>2, <4>1, GoesTracked
        <4> QED  BY <1>1, <4>1, <4>2 DEF Goes, Set, TypeOK
      <3>2. CASE ReceiveError(r)
        <4>1. Finish(r) /\ rop'[r].st = "none"
          BY <1>1, <3>2, OpTypes DEF ReceiveError, Set, TypeOK
        <4>2. Tracked' /\ workCount' \in Nat
          BY <1>1, <1>2, <4>1, FinishTracked
        <4> QED  BY <1>1, <4>1, <4>2 DEF Finish, Set, TypeOK
      <3> QED  BY <1>6, <3>1, <3>2
    <2>4. /\ place' \in [Readers -> {"none", "idle", "OnConnect", "OnRead", "deleted"}]
          /\ place'[r] \in {"idle", "deleted"} /\ (place'[r] = "idle" <=> rop'[r].st # "none")
          /\ \A q \in Readers : q # r => place'[q] = place[q]
      BY <1>1, <2>3 DEF TypeOK
    <2>5. TypeOK'
      BY <1>1, <1>3, <1>4, <2>1, <2>2, <2>3, <2>4 DEF TypeOK
    <2>6. OneOwner'
      BY <1>1, <1>3, <2>1, <2>4 DEF OneOwner, TypeOK
    <2>8. Lengths'
      BY <1>1, <1>4, <2>1, <2>4 DEF Lengths, TypeOK
    <2>7. CountedByPackets'
      <3> SUFFICES ASSUME ~sync, NEW q \in Readers
                   PROVE  received'[q] = Bytes - total'[q]
                            + (IF rop'[q].st = "queued" THEN rop'[q].n ELSE 0)
                            + (IF place'[q] = "OnRead" THEN bytesRead'[q] ELSE 0)
        BY DEF CountedByPackets, ReceivedIsCounted
      <3>1. CASE q = r
        BY <1>4, <2>1, <2>2, <2>4, <3>1
      <3>2. CASE q # r
        BY <1>1, <1>4, <2>1, <2>2, <2>4, <3>2 DEF CountedByPackets, ReceivedIsCounted
      <3> QED  BY <3>1, <3>2
    <2> QED  BY <2>3, <2>5, <2>6, <2>7, <2>8 DEF IInv
  <1> QED  BY <1>5, <1>6 DEF Read

-----------------------------------------------------------------------------
\* Steps of one reader, and of one writer.

\* What a step may do to reader r, if it leaves the others alone.
ReaderEffect(r) ==
    /\ rop' \in [Readers -> Ops] /\ bytesRead' \in [Readers -> 0..ReaderSize]
    /\ place' \in [Readers -> {"none", "idle", "OnConnect", "OnRead", "deleted"}]
    /\ total' \in [Readers -> 1-ReaderSize..Bytes] /\ received' \in [Readers -> Nat]
    /\ \A q \in Readers : q # r =>
          /\ rop'[q] = rop[q] /\ bytesRead'[q] = bytesRead[q] /\ place'[q] = place[q]
          /\ total'[q] = total[q] /\ received'[q] = received[q]
    /\ place'[r] = "idle" <=> rop'[r].st # "none"
    /\ rop'[r].n <= ReaderSize /\ (rop'[r].cb = "OnConnect" \/ rop'[r].err => rop'[r].n = 0)
    /\ place'[r] # "deleted" => total'[r] > 0
    /\ ~sync => received'[r] = Bytes - total'[r]
                               + (IF rop'[r].st = "queued" THEN rop'[r].n ELSE 0)
                               + (IF place'[r] = "OnRead" THEN bytesRead'[r] ELSE 0)

LEMMA ReaderInv ==
    ASSUME IInv, NEW r \in Readers, ReaderEffect(r), Tracked', workCount' \in Nat,
           exit' \in {"no", "done", "timeout", "panic", "unexpected"}, misused' = FALSE,
           stream' \in [Readers -> 0..Window], link' \in [Readers -> {"none", "up", "reset"}],
           backlog' \subseteq Readers,
           sync' = sync, main' \in {"starting", "sleeping", "leaving"},
           acceptOp' = acceptOp, wplace' = wplace, wop' = wop
    PROVE  IInv'
  <1>1. TypeOK /\ OneOwner /\ Lengths /\ CountedByPackets
    BY DEF IInv
  <1>2. TypeOK'
    BY <1>1 DEF TypeOK, ReaderEffect
  <1>3. OneOwner'
    BY <1>1 DEF OneOwner, ReaderEffect
  <1>4. Lengths'
    BY <1>1 DEF Lengths, ReaderEffect
  <1>5. CountedByPackets'
    BY <1>1 DEF CountedByPackets, ReceivedIsCounted, ReaderEffect
  <1> QED  BY <1>2, <1>3, <1>4, <1>5 DEF IInv

LEMMA WriterInv ==
    ASSUME IInv, NEW r \in Readers, NEW o \in Ops, NEW w \in {"idle", "OnWrite", "leaked"},
           w = "idle" <=> o.st # "none",
           wop' = Set(wop, r, o), wplace' = Set(wplace, r, w),
           stream' \in [Readers -> 0..Window], misused' = FALSE,
           exit' \in {"no", "done", "timeout", "panic", "unexpected"},
           acceptOp' \in {"none", "kernel", "error"} \cup Readers,
           UNCHANGED <<sync, main, workCount, backlog, reader, link, received>>
    PROVE  IInv'
  <1> USE DEF reader
  <1>1. TypeOK /\ OneOwner /\ Lengths /\ Tracked /\ CountedByPackets
    BY DEF IInv
  <1>2. TypeOK'
    BY <1>1 DEF TypeOK, Set
  <1>3. OneOwner'
    BY <1>1 DEF OneOwner, TypeOK, Set
  <1>4. Lengths' /\ CountedByPackets' /\ Tracked'
    BY <1>1 DEF Lengths, CountedByPackets, ReceivedIsCounted, Tracked, Undeleted
  <1> QED  BY <1>2, <1>3, <1>4 DEF IInv

LEMMA SendRoom ==
    ASSUME TypeOK, NEW r \in Readers, SendNow(r)
    PROVE  stream' \in [Readers -> 0..Window]
  <1>1. stream[r] + WriterSize \in 0..Window
    BY Sizes DEF SendNow, Room, TypeOK
  <1> QED  BY <1>1 DEF SendNow, Set, TypeOK

\* What the loop of OnWrite does, and the constructor of tcp_writer.
LEMMA SendOps ==
    /\ Packet("OnWrite", WriterSize, FALSE) \in Ops
    /\ Packet("OnWrite", WriterSize, FALSE).st = "queued"
    /\ Packet("OnWrite", 0, TRUE) \in Ops /\ Packet("OnWrite", 0, TRUE).st = "queued"
    /\ Kernel("OnWrite") \in Ops /\ Kernel("OnWrite").st = "kernel"
    /\ NoOp \in Ops /\ NoOp.st = "none"
  BY Sizes DEF Packet, Kernel, NoOp, Ops

\* The writers' steps.
LEMMA WriterSteps ==
    ASSUME IInv, NEW r \in Readers, OnWrite(r) \/ WriteLoop(r) \/ WriteDone(r) \/ WriteFails(r)
    PROVE  IInv'
  <1>1. TypeOK /\ OneOwner
    BY DEF IInv
  <1>2. /\ misused = FALSE /\ exit \in {"no", "done", "timeout", "panic", "unexpected"}
        /\ acceptOp \in {"none", "kernel", "error"} \cup Readers
        /\ stream \in [Readers -> 0..Window] /\ sync \in BOOLEAN
        /\ (wplace[r] = "idle" <=> wop[r].st # "none")
        /\ wplace \in [Readers -> {"none", "idle", "OnWrite", "leaked"}]
    BY <1>1 DEF TypeOK, OneOwner
  <1>3. ASSUME NEW o \in Ops, NEW w \in {"idle", "OnWrite", "leaked"},
               w = "idle" <=> o.st # "none",
               wop' = Set(wop, r, o), wplace' = Set(wplace, r, w),
               stream' \in [Readers -> 0..Window], misused' = FALSE,
               UNCHANGED <<process, server, reader, link, received>>
        PROVE  IInv'
    BY <1>2, <1>3, WriterInv DEF process, server
  <1>4. CASE OnWrite(r)
    <2>1. CASE wop[r].err
      BY <1>2, <1>3, <1>4, <2>1, SendOps DEF OnWrite, tcp
    <2>2. CASE ~wop[r].err
      BY <1>2, <1>3, <1>4, <2>2, SendOps DEF OnWrite, tcp
    <2> QED  BY <2>1, <2>2
  <1>5. CASE WriteLoop(r)
    <2>1. wop[r].st = "none" /\ misused' = FALSE
      BY <1>2, <1>5 DEF WriteLoop
    <2>2. CASE SendNow(r)
      <3>1. stream' \in [Readers -> 0..Window]
        BY <1>1, <2>2, SendRoom
      <3>2. CASE wop' = Set(wop, r, NoOp) /\ wplace' = Set(wplace, r, "OnWrite")
        BY <1>2, <1>3, <1>5, <2>1, <3>1, <3>2, SendOps DEF WriteLoop
      <3>3. CASE /\ wop' = Set(wop, r, Packet("OnWrite", WriterSize, FALSE))
                 /\ wplace' = Set(wplace, r, "idle")
        BY <1>2, <1>3, <1>5, <2>1, <3>1, <3>3, SendOps DEF WriteLoop
      <3>4. CASE SendLater(r)
        BY <1>2, <1>3, <1>5, <2>1, <3>4, SendOps DEF WriteLoop, SendLater
      <3>5. CASE SendError(r)
        BY <1>2, <1>3, <1>5, <2>1, <3>5, SendOps DEF WriteLoop, SendError
      <3> QED  BY <1>5, <1>2, <3>2, <3>3, <3>4, <3>5 DEF WriteLoop, SkipOnSuccess, ReportsInline
    <2>3. CASE SendLater(r)
      BY <1>2, <1>3, <1>5, <2>1, <2>3, SendOps DEF WriteLoop, SendLater
    <2>4. CASE SendError(r)
      BY <1>2, <1>3, <1>5, <2>1, <2>4, SendOps DEF WriteLoop, SendError
    <2> QED  BY <1>5, <2>2, <2>3, <2>4 DEF WriteLoop
  <1>6. CASE WriteDone(r) \/ WriteFails(r)
    <2>1. wplace' = Set(wplace, r, "idle") /\ misused' = FALSE
      BY <1>2, <1>6 DEF WriteDone, WriteFails, Set
    <2>2. CASE WriteDone(r)
      <3>1. stream' \in [Readers -> 0..Window]
        BY <1>1, <2>2, SendRoom DEF WriteDone
      <3> QED  BY <1>2, <1>3, <2>1, <2>2, <3>1, SendOps DEF WriteDone
    <2>3. CASE WriteFails(r)
      BY <1>2, <1>3, <2>1, <2>3, SendOps DEF WriteFails, tcp
    <2> QED  BY <1>6, <2>2, <2>3
  <1> QED  BY <1>4, <1>5, <1>6

\* The server's steps.
LEMMA AcceptSteps ==
    ASSUME IInv, OnAccept
    PROVE  IInv'
  <1>1. TypeOK /\ OneOwner
    BY DEF IInv
  <1>2. /\ misused = FALSE /\ exit \in {"no", "done", "timeout", "panic", "unexpected"}
        /\ stream \in [Readers -> 0..Window]
    BY <1>1 DEF TypeOK, OneOwner
  <1> DEFINE r == acceptOp
  <1>3. r \in Readers /\ misused' = FALSE
    BY <1>2 DEF OnAccept, NewWriter, ReportsInline, SkipOnSuccess
  <1>4. /\ acceptOp' \in {"none", "kernel", "error"} \cup Readers
        /\ exit' \in {"no", "done", "timeout", "panic", "unexpected"}
        /\ UNCHANGED <<sync, main, workCount, backlog, reader, link, received>>
    BY <1>2 DEF OnAccept, AcceptAgain, Unexpected
  <1>5. NewWriter(r)
    BY DEF OnAccept
  <1> HIDE DEF r
  <1>6. ASSUME NEW o \in Ops, NEW w \in {"idle", "OnWrite", "leaked"},
               w = "idle" <=> o.st # "none",
               wop' = Set(wop, r, o), wplace' = Set(wplace, r, w),
               stream' \in [Readers -> 0..Window]
        PROVE  IInv'
    BY <1>3, <1>4, <1>6, WriterInv
  <1>7. CASE SendNow(r)
    <2>1. stream' \in [Readers -> 0..Window]
      BY <1>1, <1>3, <1>7, SendRoom
    <2> QED  BY <1>2, <1>5, <1>6, <2>1, SendOps DEF NewWriter, SendLater, SendError
  <1>8. CASE SendLater(r)
    BY <1>2, <1>6, <1>8, SendOps DEF SendLater
  <1>9. CASE SendError(r)
    BY <1>2, <1>6, <1>9, SendOps DEF SendError
  <1> QED  BY <1>5, <1>7, <1>8, <1>9 DEF NewWriter

\* What IInv says of reader r.
Facts(r) ==
    /\ rop[r] \in Ops /\ rop[r].n \in 0..ReaderSize /\ bytesRead[r] \in 0..ReaderSize
    /\ rop[r].cb = "OnConnect" \/ rop[r].err => rop[r].n = 0
    /\ place[r] = "idle" <=> rop[r].st # "none"
    /\ place[r] \in {"none", "idle", "OnConnect", "OnRead", "deleted"}
    /\ place[r] # "deleted" => total[r] > 0
    /\ total[r] \in 1-ReaderSize..Bytes
    /\ received[r] \in Nat /\ stream[r] \in 0..Window
    /\ misused = FALSE /\ workCount \in Nat /\ sync \in BOOLEAN
    /\ exit \in {"no", "done", "timeout", "panic", "unexpected"}
    /\ ~sync => received[r] = Bytes - total[r]
                              + (IF rop[r].st = "queued" THEN rop[r].n ELSE 0)
                              + (IF place[r] = "OnRead" THEN bytesRead[r] ELSE 0)

LEMMA ReaderFacts == ASSUME IInv, NEW r \in Readers PROVE Facts(r)
  <1>1. TypeOK /\ OneOwner /\ Lengths /\ CountedByPackets
    BY DEF IInv
  <1>2. rop[r] \in Ops
    BY <1>1 DEF TypeOK
  <1>3. rop[r].n \in Nat
    BY <1>2 DEF Ops
  <1>4. rop[r].n \in 0..ReaderSize
    BY <1>1, <1>3, Sizes DEF Lengths
  <1> QED
    BY <1>1, <1>2, <1>4
       DEF TypeOK, OneOwner, Lengths, CountedByPackets, ReceivedIsCounted, Facts

\* A reader is started, or the packet of its operation is taken from the queue.
LEMMA TakeSteps ==
    ASSUME IInv, NEW r \in Readers, StartReader(r) \/ OnConnect(r) \/ OnRead(r)
    PROVE  IInv'
  <1> USE Sizes DEF server, writer, tcp, process, Facts
  <1>0. Facts(r)
    BY ReaderFacts
  <1>1. TypeOK /\ Tracked
    BY DEF IInv
  <1>2. CASE StartReader(r)
    <2>1. Kernel("OnConnect") \in Ops /\ Kernel("OnConnect").st = "kernel" /\ Kernel("OnConnect").n = 0
      BY DEF Kernel, Ops
    <2>2. place[r] = "none" /\ UNCHANGED <<sync, main, workCount, server, bytesRead, total, writer, tcp, misused>>
      BY <1>2 DEF StartReader
    <2>3. CASE place' = Set(place, r, "idle") /\ rop' = Set(rop, r, Kernel("OnConnect")) /\ exit' = exit
      <3>1. Tracked'
        <4>1. Goes(r, "idle")
          BY <2>2, <2>3 DEF Goes
        <4> QED  BY <1>1, <2>2, <4>1, GoesTracked
      <3>2. ReaderEffect(r)
        <4>1. /\ place' = [place EXCEPT ![r] = "idle"] /\ rop' = [rop EXCEPT ![r] = Kernel("OnConnect")]
              /\ UNCHANGED <<bytesRead, total, received, sync>>
          BY <2>2, <2>3 DEF Set
        <4> HIDE DEF Kernel
        <4> QED  BY <1>1, <2>1, <2>2, <4>1, <1>0 DEF ReaderEffect, TypeOK
      <3> QED  BY <1>1, <2>2, <2>3, <3>1, <3>2, <1>0, ReaderInv DEF TypeOK
    <2>4. CASE exit' = "unexpected" /\ place' = place /\ rop' = rop
      <3>1. Tracked'
        BY <1>1, <2>2, <2>4 DEF Tracked, Undeleted
      <3>2. ReaderEffect(r)
        BY <1>1, <2>2, <2>4, <1>0 DEF ReaderEffect, TypeOK
      <3> QED  BY <1>1, <2>2, <2>4, <3>1, <3>2, <1>0, ReaderInv DEF TypeOK
    <2> QED  BY <1>2, <2>3, <2>4 DEF StartReader, Unexpected
  <1>3. CASE OnConnect(r) \/ OnRead(r)
    <2> DEFINE w == IF OnConnect(r) THEN "OnConnect" ELSE "OnRead"
    <2>1. /\ rop[r].st = "queued" /\ place[r] = "idle" /\ rop' = [rop EXCEPT ![r] = NoOp]
          /\ misused' = FALSE /\ UNCHANGED <<total, received, sync, main, stream, link, backlog,
                                             acceptOp, wplace, wop>>
      BY <1>3, <1>0 DEF OnConnect, OnRead, Set
    <2>2. IF rop[r].err THEN Finish(r)
          ELSE \/ Goes(r, "OnConnect") /\ rop[r].n = 0
               \/ Goes(r, "OnRead") /\ bytesRead' = [bytesRead EXCEPT ![r] = rop[r].n]
      BY <1>3, <1>0 DEF OnConnect, OnRead, Set
    <2>3. bytesRead' = bytesRead \/ bytesRead' = [bytesRead EXCEPT ![r] = rop[r].n]
      BY <1>3 DEF OnConnect, OnRead, Set
    <2>4. /\ bytesRead' \in [Readers -> 0..ReaderSize]
          /\ \A q \in Readers : q # r => bytesRead'[q] = bytesRead[q]
      BY <1>1, <2>3, <1>0 DEF TypeOK
    <2>5. rop' \in [Readers -> Ops] /\ rop'[r] = NoOp
      BY <1>1, <2>1, OpTypes DEF TypeOK
    <2>6. CASE rop[r].err
      <3>1. /\ Tracked' /\ workCount' \in Nat /\ place' = [place EXCEPT ![r] = "deleted"]
            /\ exit' \in {"no", "done", "timeout", "panic", "unexpected"}
        <4>1. Finish(r) /\ place[r] # "deleted"
          BY <2>1, <2>2, <2>6
        <4>2. Tracked' /\ workCount' \in Nat
          BY <1>1, <4>1, FinishTracked
        <4> QED  BY <4>1, <4>2, <1>0 DEF Finish, Set
      <3>2. ReaderEffect(r)
        <4>1. ~sync => received[r] = Bytes - total[r]
                               + (IF rop[r].st = "queued" THEN rop[r].n ELSE 0)
          BY <2>1, <1>0
        <4>2. /\ place' \in [Readers -> {"none", "idle", "OnConnect", "OnRead", "deleted"}]
              /\ place'[r] = "deleted" /\ \A q \in Readers : q # r => place'[q] = place[q]
          BY <1>1, <3>1 DEF TypeOK
        <4>3. /\ rop'[r].st = "none" /\ rop'[r].n = 0 /\ rop'[r].cb = "OnRead"
              /\ \A q \in Readers : q # r => rop'[q] = rop[q]
          BY <1>1, <2>1, <2>5, OpTypes DEF TypeOK
        <4>4. ~sync => received[r] = Bytes - total[r]
          BY <2>1, <2>6, <4>1, <1>0
        <4> QED  BY <1>1, <2>1, <2>4, <2>5, <4>2, <4>3, <4>4, <1>0 DEF ReaderEffect, TypeOK
      <3> QED  BY <1>1, <2>1, <3>1, <3>2, ReaderInv DEF TypeOK
    <2>7. CASE ~rop[r].err
      <3>1. PICK p \in {"OnConnect", "OnRead"} :
               /\ Goes(r, p)
               /\ p = "OnConnect" => rop[r].n = 0
               /\ p = "OnRead" => bytesRead' = [bytesRead EXCEPT ![r] = rop[r].n]
        BY <2>2, <2>7
      <3>2. /\ Tracked' /\ workCount' \in Nat /\ place' = [place EXCEPT ![r] = p]
            /\ exit' \in {"no", "done", "timeout", "panic", "unexpected"}
        <4>1. Goes(r, p) /\ place[r] # "deleted" /\ p # "deleted"
          BY <2>1, <3>1
        <4>2. Tracked' /\ workCount' = workCount
          BY <1>1, <4>1, GoesTracked
        <4> QED  BY <4>1, <4>2, <1>0 DEF Goes, Set
      <3>3. /\ place' \in [Readers -> {"none", "idle", "OnConnect", "OnRead", "deleted"}]
            /\ place'[r] = p /\ \A q \in Readers : q # r => place'[q] = place[q]
        BY <1>1, <3>2 DEF TypeOK
      <3>4. ~sync => received[r] = Bytes - total[r] + (IF p = "OnRead" THEN bytesRead'[r] ELSE 0)
        BY <1>1, <2>1, <3>1, <1>0 DEF TypeOK
      <3>5. /\ rop'[r].st = "none" /\ rop'[r].n = 0 /\ rop'[r].cb = "OnRead"
            /\ \A q \in Readers : q # r => rop'[q] = rop[q]
        BY <1>1, <2>1, <2>5, OpTypes DEF TypeOK
      <3>6. ReaderEffect(r)
        BY <1>1, <2>1, <2>4, <2>5, <3>3, <3>4, <3>5, <1>0 DEF ReaderEffect, TypeOK
      <3> QED  BY <1>1, <2>1, <3>2, <3>6, ReaderInv DEF TypeOK
    <2> QED  BY <2>6, <2>7
  <1> QED  BY <1>2, <1>3

\* The loops of OnConnect and OnRead.
LEMMA LoopSteps ==
    ASSUME IInv, NEW r \in Readers, ConnectLoop(r) \/ ReadLoop(r)
    PROVE  IInv'
  <1> USE Sizes DEF Facts
  <1>0. Facts(r)
    BY ReaderFacts
  <1>1. TypeOK /\ Tracked
    BY DEF IInv
  <1>2. CASE ConnectLoop(r)
    <2>1. /\ place[r] = "OnConnect" /\ Read(r)
          /\ UNCHANGED <<sync, main, server, writer, link>> /\ total' = total
      BY <1>2 DEF ConnectLoop
    <2>2. total' = Set(total, r, total[r])
      BY <1>1, <2>1 DEF Set, TypeOK
    <2>3. total[r] \in 1..Bytes /\ (~sync => received[r] = Bytes - total[r])
      BY <2>1, <1>0
    <2> QED  BY <2>1, <2>2, <2>3, ReadInv
  <1>3. CASE ReadLoop(r)
    <2> DEFINE t == total[r] - bytesRead[r]
    <2>1. /\ place[r] = "OnRead" /\ total' = Set(total, r, t)
          /\ UNCHANGED <<sync, main, server, writer, link>>
          /\ rop[r].st = "none"
      BY <1>3, <1>0 DEF ReadLoop
    <2>2. /\ t \in 1-ReaderSize..Bytes /\ total'[r] = t
          /\ (~sync => received[r] = Bytes - t)
      BY <1>1, <2>1, <1>0 DEF Set, TypeOK
    <2>3. CASE Enough(r)
      <3>1. /\ Finish(r) /\ bytesRead' = [bytesRead EXCEPT ![r] = 0]
            /\ UNCHANGED <<rop, stream, received, misused>>
        BY <1>3, <2>3 DEF ReadLoop, Set
      <3>2. Tracked' /\ workCount' \in Nat
        BY <1>1, <2>1, <3>1, FinishTracked
      <3>3. /\ place' = [place EXCEPT ![r] = "deleted"]
            /\ exit' \in {"no", "done", "timeout", "panic", "unexpected"}
        BY <3>1, <1>0 DEF Finish, Set
      <3>4. /\ total' \in [Readers -> 1-ReaderSize..Bytes]
            /\ \A q \in Readers : q # r => total'[q] = total[q]
        BY <1>1, <2>1, <2>2 DEF Set, TypeOK
      <3>5. /\ bytesRead' \in [Readers -> 0..ReaderSize]
            /\ \A q \in Readers : q # r => bytesRead'[q] = bytesRead[q]
        <4>1. 0 \in 0..ReaderSize
          OBVIOUS
        <4> QED  BY <1>1, <3>1, <4>1 DEF TypeOK
      <3>6. /\ place' \in [Readers -> {"none", "idle", "OnConnect", "OnRead", "deleted"}]
            /\ place'[r] = "deleted" /\ \A q \in Readers : q # r => place'[q] = place[q]
        BY <1>1, <3>3 DEF TypeOK
      <3> HIDE DEF t
      <3>7. ReaderEffect(r)
        BY <1>1, <2>1, <2>2, <3>1, <3>4, <3>5, <3>6, <1>0 DEF ReaderEffect, TypeOK
      <3> QED  BY <1>1, <2>1, <3>1, <3>2, <3>3, <3>7, <1>0, ReaderInv
                DEF TypeOK, server, writer
    <2>4. CASE ~Enough(r)
      <3>1. Read(r)
        BY <1>3, <2>4 DEF ReadLoop
      <3>2. t \in 1..Bytes
        BY <2>2, <2>4 DEF Enough
      <3> HIDE DEF t
      <3> QED  BY <2>1, <2>2, <3>1, <3>2, ReadInv
    <2> QED  BY <2>3, <2>4
  <1> QED  BY <1>2, <1>3

\* The kernel ends a reader's operation: a packet.
LEMMA PacketSteps ==
    ASSUME IInv, NEW r \in Readers,
           ConnectDone(r) \/ ReadFails(r) \/ \E n \in 1..ReaderSize : ReadDone(r, n)
    PROVE  IInv'
  <1> USE Sizes DEF server, writer, tcp, process, Facts
  <1>0. Facts(r)
    BY ReaderFacts
  <1>1. TypeOK /\ Tracked
    BY DEF IInv
  <1>2. Tracked' /\ workCount' \in Nat /\ exit' = exit /\ misused' = misused
        /\ UNCHANGED <<place, bytesRead, total, sync, main, acceptOp, wplace, wop>>
    <2>1. /\ UNCHANGED <<place, workCount, exit, misused, bytesRead, total, sync, main>>
          /\ UNCHANGED <<acceptOp, wplace, wop>>
      <3>1. CASE ConnectDone(r)
        BY <3>1 DEF ConnectDone
      <3>2. CASE ReadFails(r)
        BY <3>2 DEF ReadFails
      <3>3. CASE \E n \in 1..ReaderSize : ReadDone(r, n)
        BY <3>3 DEF ReadDone
      <3> QED  BY <3>1, <3>2, <3>3
    <2> QED  BY <1>1, <1>0, <2>1 DEF Tracked, Undeleted
  <1>3. rop[r].st = "kernel" /\ place[r] = "idle" /\ (~sync => received[r] = Bytes - total[r])
    <2>1. rop[r].st = "kernel"
      <3>1. rop[r] \in {Kernel("OnConnect"), Kernel("OnRead")}
        BY DEF ConnectDone, ReadFails, ReadDone
      <3> QED  BY <3>1, OpTypes
    <2> QED  BY <1>0, <2>1
  <1>4. CASE ConnectDone(r) \/ ReadFails(r)
    <2>1. PICK o : /\ rop' = [rop EXCEPT ![r] = o]
                   /\ o \in Ops /\ o.st = "queued" /\ o.n = 0
      <3>1. CASE ConnectDone(r)
        <4>1. rop' = [rop EXCEPT ![r] = Packet("OnConnect", 0, main # "sleeping")]
          BY <3>1 DEF ConnectDone, Set
        <4>2. /\ Packet("OnConnect", 0, main # "sleeping") \in Ops
              /\ Packet("OnConnect", 0, main # "sleeping").st = "queued"
              /\ Packet("OnConnect", 0, main # "sleeping").n = 0
          BY DEF Packet, Ops
        <4> QED  BY <4>1, <4>2
      <3>2. CASE ReadFails(r)
        <4>1. rop' = [rop EXCEPT ![r] = Packet("OnRead", 0, TRUE)]
          BY <3>2 DEF ReadFails, Set
        <4>2. /\ Packet("OnRead", 0, TRUE) \in Ops /\ Packet("OnRead", 0, TRUE).st = "queued"
              /\ Packet("OnRead", 0, TRUE).n = 0
          BY DEF Packet, Ops
        <4> QED  BY <4>1, <4>2
      <3> QED  BY <1>4, <3>1, <3>2
    <2>2. /\ received' = received /\ stream' = stream
          /\ link' \in [Readers -> {"none", "up", "reset"}] /\ backlog' \subseteq Readers
      <3>1. CASE ConnectDone(r)
        BY <1>1, <3>1 DEF ConnectDone, Set, TypeOK
      <3>2. CASE ReadFails(r)
        BY <1>1, <3>2 DEF ReadFails, TypeOK
      <3> QED  BY <1>4, <3>1, <3>2
    <2>3. ReaderEffect(r)
      BY <1>1, <1>2, <1>3, <2>1, <2>2, <1>0 DEF ReaderEffect, TypeOK
    <2> QED  BY <1>1, <1>2, <2>2, <2>3, <1>0, ReaderInv DEF TypeOK
  <1>5. ASSUME NEW n \in 1..ReaderSize, ReadDone(r, n)
        PROVE  IInv'
    <2>1. PICK o : /\ rop' = [rop EXCEPT ![r] = o]
                   /\ o \in Ops /\ o.st = "queued" /\ o.n = n /\ o.cb = "OnRead" /\ ~o.err
      <3>1. rop' = [rop EXCEPT ![r] = Packet("OnRead", n, FALSE)]
        BY <1>5 DEF ReadDone, Set
      <3>2. /\ Packet("OnRead", n, FALSE) \in Ops /\ Packet("OnRead", n, FALSE).st = "queued"
            /\ Packet("OnRead", n, FALSE).n = n /\ Packet("OnRead", n, FALSE).cb = "OnRead"
            /\ ~Packet("OnRead", n, FALSE).err
        BY DEF Packet, Ops
      <3> QED  BY <3>1, <3>2
    <2>2. stream' \in [Readers -> 0..Window] /\ link' = link /\ backlog' = backlog
      <3>1. stream[r] - n \in 0..Window
        BY <1>5, <1>0 DEF ReadDone
      <3> QED  BY <1>1, <1>5, <3>1 DEF ReadDone, Set, TypeOK
    <2>3. /\ received' \in [Readers -> Nat]
          /\ \A q \in Readers : q # r => received'[q] = received[q]
          /\ (~sync => received'[r] = Bytes - total[r] + n)
      <3>1. received[r] + n \in Nat /\ Bytes + ReaderSize \in Nat
        BY <1>0
      <3>2. ~sync => received[r] + n <= Bytes + ReaderSize
        BY <1>3, <1>0
      <3> QED  BY <1>1, <1>3, <1>5, <3>1, <3>2, <1>0 DEF ReadDone, Set, TypeOK
    <2>4. ReaderEffect(r)
      <3>1. /\ rop' \in [Readers -> Ops] /\ rop'[r] = o
            /\ \A q \in Readers : q # r => rop'[q] = rop[q]
        BY <1>1, <2>1 DEF TypeOK
      <3>2. n <= ReaderSize /\ place'[r] = "idle" /\ place'[r] # "deleted" /\ total'[r] > 0
        BY <1>2, <1>3, <1>0
      <3> QED  BY <1>1, <1>2, <2>1, <2>3, <3>1, <3>2 DEF ReaderEffect, TypeOK
    <2> QED  BY <1>1, <1>2, <2>2, <2>4, <1>0, ReaderInv DEF TypeOK
  <1> QED  BY <1>4, <1>5

LEMMA StepInv == IInv /\ [Next]_vars => IInv'
  <1> SUFFICES ASSUME IInv, [Next]_vars PROVE IInv'
    OBVIOUS
  <1>1. TypeOK /\ OneOwner /\ Lengths /\ Tracked /\ CountedByPackets
    BY DEF IInv
  <1>2. CASE /\ UNCHANGED <<sync, workCount, reader, writer, received, misused>>
             /\ main' \in {"starting", "sleeping", "leaving"}
             /\ exit' \in {"no", "done", "timeout", "panic", "unexpected"}
             /\ acceptOp' \in {"none", "kernel", "error"} \cup Readers
             /\ backlog' \subseteq Readers
             /\ link' \in [Readers -> {"none", "up", "reset"}]
             /\ stream' \in [Readers -> 0..Window]
    BY <1>1, <1>2 DEF reader, writer, IInv, TypeOK, OneOwner, Lengths, Tracked, Undeleted,
           CountedByPackets, ReceivedIsCounted
  <1>3. CASE StartServer \/ LeaveRun \/ DestroyPool \/ AcceptFailed
    BY <1>1, <1>2, <1>3 DEF StartServer, Unexpected, LeaveRun, DestroyPool, AcceptFailed,
           TypeOK, process, server, tcp
  <1>4. ASSUME NEW r \in Readers, AcceptDone(r)
        PROVE  IInv'
    BY <1>1, <1>2, <1>4 DEF AcceptDone, TypeOK, process, tcp
  <1>5. ASSUME NEW r \in Readers, Reset(r)
        PROVE  IInv'
    <2>1. 0 \in 0..Window
      BY Sizes
    <2> QED  BY <1>1, <1>2, <1>5, <2>1 DEF Reset, Set, TypeOK, process, server
  <1>6. CASE UNCHANGED vars
    BY <1>1, <1>2, <1>6 DEF vars, TypeOK, process, server, tcp
  <1>7. CASE OnAccept
    BY <1>7, AcceptSteps
  <1>8. ASSUME NEW r \in Readers, Handler(r) \/ KernelStep(r) \/ StartReader(r)
        PROVE  IInv'
    BY <1>4, <1>8, TakeSteps, LoopSteps, PacketSteps, WriterSteps DEF Handler, KernelStep
  <1> QED  BY <1>3, <1>4, <1>5, <1>6, <1>7, <1>8 DEF Next, Work

-----------------------------------------------------------------------------
\* Who is gone has been served, and the last one's end is the process's.

\* An error means that there is no connection, a packet of a read brings bytes,
\* and a reader of a standing connection goes only when it has its own.
ServedInv(r) ==
    /\ rop[r].err => link[r] # "up"
    /\ rop[r].st = "queued" /\ rop[r].cb = "OnRead" /\ ~rop[r].err => rop[r].n > 0
    /\ place[r] = "none" \/ (rop[r].st = "kernel" /\ rop[r].cb = "OnConnect") => link[r] = "none"
    /\ ~sync /\ place[r] = "OnRead" => bytesRead[r] > 0
    /\ ~sync /\ place[r] = "deleted" /\ link[r] = "up" => received[r] >= Bytes

EndInv ==
    /\ exit = "done" => \A r \in Readers : place[r] = "deleted"
    /\ (\A r \in Readers : place[r] = "deleted") => exit # "no"

DoneInv == IInv /\ EndInv /\ \A r \in Readers : ServedInv(r)

\* What a step that is not one of reader d leaves alone.
SameReader(d) ==
    /\ rop'[d] = rop[d] /\ place'[d] = place[d] /\ bytesRead'[d] = bytesRead[d]
    /\ received'[d] = received[d] /\ sync' = sync
    /\ link'[d] = link[d] \/ (link[d] = "up" /\ link'[d] = "reset")

LEMMA SameServed == ASSUME NEW d, ServedInv(d), SameReader(d) PROVE ServedInv(d)'
  BY DEF ServedInv, SameReader

LEMMA Fields ==
    /\ NoOp.st = "none" /\ ~NoOp.err
    /\ \A cb : Kernel(cb).st = "kernel" /\ Kernel(cb).cb = cb /\ ~Kernel(cb).err
    /\ \A cb, n : /\ Packet(cb, n, FALSE).st = "queued" /\ Packet(cb, n, FALSE).cb = cb
                  /\ Packet(cb, n, FALSE).n = n /\ ~Packet(cb, n, FALSE).err
                  /\ Packet(cb, n, TRUE).st = "queued" /\ Packet(cb, n, TRUE).err
  BY DEF NoOp, Kernel, Packet

\* The readers' places change, or the process ends otherwise than by the last one.
LEMMA EndStep ==
    ASSUME DoneInv, [Next]_vars, IInv'
    PROVE  EndInv'
  <1>1. TypeOK /\ EndInv /\ Tracked' /\ workCount' \in Nat
    BY DEF DoneInv, IInv, TypeOK
  <1>2. ASSUME NEW r \in Readers, Finish(r), exit = "no"
        PROVE  EndInv'
    <2>1. IsFiniteSet(Undeleted')
      BY ReadersAssumption, FS_Subset DEF Undeleted
    <2>2. workCount' = 0 <=> Undeleted' = {}
      BY <1>1, <2>1, FS_EmptySet DEF Tracked
    <2>3. Undeleted' = {} <=> \A q \in Readers : place'[q] = "deleted"
      BY DEF Undeleted
    <2> QED  BY <1>2, <2>2, <2>3 DEF Finish, EndInv
  <1>3. CASE /\ exit' \in {exit, "panic", "timeout", "unexpected"}
             /\ \A q \in Readers : place'[q] = "deleted" <=> place[q] = "deleted"
    BY <1>1, <1>3 DEF EndInv
  <1>4. ASSUME NEW r \in Readers, NEW w, w # "deleted", place[r] # "deleted", Goes(r, w)
        PROVE  EndInv'
    BY <1>1, <1>3, <1>4 DEF Goes, Set, TypeOK
  <1>5. ASSUME NEW r \in Readers, Read(r), place[r] \in {"OnConnect", "OnRead"}, exit = "no"
        PROVE  EndInv'
    <2>1. CASE ReceiveError(r)
      BY <1>2, <1>5, <2>1 DEF ReceiveError
    <2>2. CASE ReceiveLater(r)
      BY <1>4, <1>5, <2>2 DEF ReceiveLater
    <2>3. CASE \E n \in 1..ReaderSize : ReceiveNow(r, n)
      <3>1. PICK w \in {"OnConnect", "OnRead", "idle"} : Goes(r, w)
        BY <1>5, <2>3 DEF ReceiveNow
      <3> QED  BY <1>4, <1>5, <3>1
    <2> QED  BY <1>5, <2>1, <2>2, <2>3 DEF Read
  <1>6. ASSUME NEW r \in Readers, Handler(r) \/ StartReader(r)
        PROVE  EndInv'
    <2>1. CASE StartReader(r)
      BY <1>1, <1>3, <2>1 DEF StartReader, Unexpected, Set, TypeOK
    <2>2. CASE OnConnect(r) \/ OnRead(r)
      <3>1. rop[r].st = "queued" /\ exit = "no"
        BY <2>2 DEF OnConnect, OnRead, Dequeue
      <3>2. place[r] = "idle"
        BY <3>1 DEF DoneInv, IInv, OneOwner
      <3>3. Finish(r) \/ Goes(r, "OnConnect") \/ Goes(r, "OnRead")
        BY <2>2 DEF OnConnect, OnRead
      <3> QED  BY <1>2, <1>4, <3>1, <3>2, <3>3
    <2>3. CASE ConnectLoop(r)
      BY <1>5, <2>3 DEF ConnectLoop
    <2>4. CASE ReadLoop(r)
      BY <1>2, <1>5, <2>4 DEF ReadLoop
    <2>5. CASE OnWrite(r) \/ WriteLoop(r)
      BY <1>3, <2>5 DEF OnWrite, WriteLoop, process, reader
    <2> QED  BY <1>6, <2>1, <2>2, <2>3, <2>4, <2>5 DEF Handler
  <1>7. ASSUME NEW r \in Readers, KernelStep(r) \/ Reset(r)
        PROVE  EndInv'
    BY <1>3, <1>7 DEF KernelStep, ConnectDone, AcceptDone, ReadFails, WriteDone, WriteFails,
           ReadDone, Reset, process, reader
  <1>8. CASE StartServer \/ OnAccept \/ AcceptFailed \/ DestroyPool \/ LeaveRun \/ UNCHANGED vars
    BY <1>3, <1>8 DEF StartServer, Unexpected, OnAccept, AcceptAgain, AcceptFailed, DestroyPool,
           LeaveRun, vars, process, reader
  <1> QED  BY <1>6, <1>7, <1>8 DEF Next, Work

\* A reader takes what its socket gives it, and leaves with an error.
LEMMA ReadServed ==
    ASSUME NEW r \in Readers, TypeOK, Read(r), UNCHANGED <<sync, link>>, ServedInv(r),
           place[r] \in {"OnConnect", "OnRead"}
    PROVE  ServedInv(r)'
  <1> USE Fields
  <1>1. ASSUME NEW n \in 1..ReaderSize, ReceiveNow(r, n)
        PROVE  ServedInv(r)'
    <2>1. CASE sync
      <3>1. rop' = [rop EXCEPT ![r] = NoOp] /\ place' = [place EXCEPT ![r] = place[r]]
        BY <1>1, <2>1 DEF ReceiveNow, SkipOnSuccess, ReportsInline, Goes, Set
      <3>2. rop'[r] = NoOp /\ place'[r] = place[r]
        BY <3>1 DEF TypeOK
      <3> QED  BY <2>1, <3>2 DEF ServedInv
    <2>2. CASE ~sync
      <3>1. /\ rop' = [rop EXCEPT ![r] = Packet("OnRead", n, FALSE)]
            /\ place' = [place EXCEPT ![r] = "idle"]
        BY <1>1, <2>2 DEF ReceiveNow, SkipOnSuccess, ReportsInline, Goes, Set
      <3>2. rop'[r] = Packet("OnRead", n, FALSE) /\ place'[r] = "idle" /\ n > 0
        BY <3>1, Sizes DEF TypeOK
      <3>3. rop'[r].st = "queued" /\ rop'[r].n = n /\ ~rop'[r].err
        BY <3>2 DEF Packet
      <3> QED  BY <3>2, <3>3 DEF ServedInv
    <2> QED  BY <2>1, <2>2
  <1>2. CASE ReceiveLater(r)
    <2>1. rop'[r] = Kernel("OnRead") /\ place'[r] = "idle"
      BY <1>2 DEF ReceiveLater, Goes, Set, TypeOK
    <2> QED  BY <2>1 DEF ServedInv
  <1>3. CASE ReceiveError(r)
    <2>1. rop'[r] = NoOp /\ place'[r] = "deleted" /\ link'[r] = "reset"
      BY <1>3 DEF ReceiveError, Finish, Set, TypeOK
    <2> QED  BY <2>1 DEF ServedInv
  <1> QED  BY <1>1, <1>2, <1>3 DEF Read

\* What the others see of a step of reader r.
LEMMA OnlyReader ==
    ASSUME NEW r \in Readers, TypeOK, Handler(r) \/ KernelStep(r) \/ StartReader(r) \/ Reset(r)
    PROVE  \A d \in Readers : d # r => SameReader(d)
  <1>1. ASSUME NEW f, NEW S, f \in [Readers -> S], NEW v, NEW g, g = Set(f, r, v)
        PROVE  \A d \in Readers : d # r => g[d] = f[d]
    BY <1>1 DEF Set
  <1>2. /\ rop' = rop \/ \E v : rop' = Set(rop, r, v)
        /\ place' = place \/ \E v : place' = Set(place, r, v)
        /\ bytesRead' = bytesRead \/ \E v : bytesRead' = Set(bytesRead, r, v)
        /\ received' = received \/ \E v : received' = Set(received, r, v)
        /\ link' = link \/ \E v : link' = Set(link, r, v)
        /\ sync' = sync
    <2>1. CASE StartReader(r) \/ Reset(r)
      BY <2>1, Zenon DEF StartReader, Reset, process, tcp, reader
    <2>2. CASE OnConnect(r) \/ OnRead(r)
      BY <2>2, Zenon DEF OnConnect, OnRead, Finish, Goes, tcp
    <2>3. ASSUME Read(r)
          PROVE  /\ \E v : rop' = Set(rop, r, v)
                 /\ \E v : place' = Set(place, r, v)
                 /\ \E v : bytesRead' = Set(bytesRead, r, v)
                 /\ received' = received \/ \E v : received' = Set(received, r, v)
      BY <2>3, Zenon DEF Read, ReceiveNow, ReceiveLater, ReceiveError, Finish, Goes
    <2>4. CASE ConnectLoop(r)
      BY <2>3, <2>4, Zenon DEF ConnectLoop
    <2>5. CASE ReadLoop(r)
      BY <2>3, <2>5, Zenon DEF ReadLoop, Finish
    <2>6. CASE OnWrite(r) \/ WriteLoop(r)
      BY <2>6, Zenon DEF OnWrite, WriteLoop, process, tcp, reader
    <2>7. CASE KernelStep(r)
      BY <2>7, Zenon DEF KernelStep, ConnectDone, AcceptDone, ReadFails, WriteDone, WriteFails,
             ReadDone, process, tcp, reader
    <2> QED  BY <2>1, <2>2, <2>4, <2>5, <2>6, <2>7 DEF Handler
  <1>3. TAKE d \in Readers
  <1>4. HAVE d # r
  <1>5. rop'[d] = rop[d] /\ place'[d] = place[d] /\ bytesRead'[d] = bytesRead[d]
    BY <1>2, <1>4 DEF Set, TypeOK
  <1>6. received'[d] = received[d] /\ link'[d] = link[d]
    BY <1>2, <1>4 DEF Set, TypeOK
  <1> QED  BY <1>2, <1>5, <1>6 DEF SameReader

\* A reader starts its connect, or the process ends in it.
LEMMA StartReaderEither ==
    ASSUME TypeOK, NEW r \in Readers, StartReader(r)
    PROVE  \/ rop'[r] = Kernel("OnConnect") /\ place'[r] = "idle"
           \/ rop' = rop /\ place' = place
  <1> DEFINE k == Kernel("OnConnect")
  <1>1. \/ place' = Set(place, r, "idle") /\ rop' = Set(rop, r, k)
        \/ place' = place /\ rop' = rop
    BY DEF StartReader
  <1> HIDE DEF k
  <1>2. CASE place' = Set(place, r, "idle") /\ rop' = Set(rop, r, k)
    <2>1. place'[r] = "idle" /\ rop'[r] = k
      BY <1>2 DEF Set, TypeOK
    <2> QED  BY <2>1 DEF k
  <1> QED  BY <1>1, <1>2

\* A reader's own step.
LEMMA ReaderServed ==
    ASSUME DoneInv, NEW r \in Readers,
           Handler(r) \/ KernelStep(r) \/ StartReader(r) \/ Reset(r)
    PROVE  ServedInv(r)'
  <1> USE Fields
  <1>1. TypeOK /\ ServedInv(r) /\ Facts(r)
    BY ReaderFacts DEF DoneInv, IInv
  <1>2. CASE StartReader(r)
    <2>1. link'[r] = link[r] /\ place[r] = "none"
      BY <1>2 DEF StartReader, tcp
    <2>2. CASE rop'[r] = Kernel("OnConnect") /\ place'[r] = "idle"
      BY <1>1, <2>1, <2>2 DEF ServedInv
    <2>3. CASE rop' = rop /\ place' = place
      BY <1>1, <1>2, <2>3, SameServed DEF StartReader, tcp, SameReader
    <2> QED  BY <1>1, <1>2, <2>2, <2>3, StartReaderEither
  <1>3. CASE OnConnect(r) \/ OnRead(r)
    <2>1. /\ rop'[r] = NoOp /\ link' = link /\ received' = received /\ sync' = sync
          /\ rop[r].st = "queued"
      BY <1>1, <1>3 DEF OnConnect, OnRead, Set, TypeOK, tcp
    <2>2. CASE rop[r].err
      <3>1. place'[r] = "deleted"
        BY <1>1, <1>3, <2>2 DEF OnConnect, OnRead, Finish, Set, TypeOK
      <3> QED  BY <1>1, <2>1, <2>2, <3>1 DEF ServedInv
    <2>3. CASE ~rop[r].err /\ OnConnect(r)
      <3>1. place'[r] = "OnConnect"
        BY <1>1, <2>3 DEF OnConnect, Goes, Set, TypeOK
      <3> QED  BY <2>1, <3>1 DEF ServedInv
    <2>4. CASE ~rop[r].err /\ OnRead(r)
      <3>1. place'[r] = "OnRead" /\ bytesRead'[r] = rop[r].n /\ rop[r].cb = "OnRead"
        BY <1>1, <2>4 DEF OnRead, Goes, Set, TypeOK
      <3>2. bytesRead'[r] > 0
        BY <1>1, <2>1, <2>4, <3>1 DEF ServedInv
      <3> QED  BY <2>1, <3>1, <3>2 DEF ServedInv
    <2> QED  BY <1>3, <2>2, <2>3, <2>4
  <1>4. CASE ConnectLoop(r)
    BY <1>1, <1>4, ReadServed DEF ConnectLoop
  <1>5. CASE ReadLoop(r)
    <2>1. CASE ~Enough(r)
      BY <1>1, <1>5, <2>1, ReadServed DEF ReadLoop
    <2>2. CASE Enough(r)
      <3>1. /\ place[r] = "OnRead" /\ place'[r] = "deleted" /\ UNCHANGED <<rop, received, sync, link>>
            /\ total'[r] = total[r] - bytesRead[r]
        BY <1>1, <1>5, <2>2 DEF ReadLoop, Finish, Set, TypeOK
      <3>2. ~sync => received[r] >= Bytes
        <4> SUFFICES ASSUME ~sync PROVE received[r] >= Bytes
          OBVIOUS
        <4>1. /\ bytesRead[r] \in Int /\ total[r] \in Int /\ received[r] \in Nat /\ Bytes \in Nat
              /\ received[r] = Bytes - total[r] + bytesRead[r] /\ bytesRead[r] > 0
          BY <1>1, <3>1, Sizes DEF Facts, ServedInv
        <4>2. total[r] - bytesRead[r] <= 0
          BY <2>2, <3>1, <4>1 DEF Enough
        <4> QED  BY <4>1, <4>2
      <3>3. rop'[r].st = "none" /\ rop'[r] = rop[r]
        BY <1>1, <3>1 DEF Facts
      <3> QED  BY <1>1, <3>1, <3>2, <3>3 DEF ServedInv
    <2> QED  BY <2>1, <2>2
  <1>6. CASE ConnectDone(r)
    <2>1. /\ rop[r] = Kernel("OnConnect") /\ link[r] = "none" /\ place[r] = "idle"
          /\ UNCHANGED <<place, bytesRead, received, sync>>
      BY <1>1, <1>6 DEF ConnectDone, ServedInv, Facts, process
    <2>2. CASE main = "sleeping"
      <3>1. rop'[r] = Packet("OnConnect", 0, FALSE)
        BY <1>1, <1>6, <2>2 DEF ConnectDone, Set, TypeOK
      <3>2. rop'[r].st = "queued" /\ rop'[r].cb = "OnConnect" /\ ~rop'[r].err
        BY <3>1 DEF Packet
      <3>3. place'[r] = "idle"
        BY <2>1
      <3> QED  BY <3>2, <3>3 DEF ServedInv
    <2>3. CASE main # "sleeping"
      <3>1. rop'[r] = Packet("OnConnect", 0, TRUE) /\ link' = link
        BY <1>1, <1>6, <2>3 DEF ConnectDone, Set, TypeOK
      <3>2. rop'[r].st = "queued" /\ rop'[r].err
        BY <3>1 DEF Packet
      <3> QED  BY <2>1, <3>1, <3>2 DEF ServedInv
    <2> QED  BY <2>2, <2>3
  <1>7. ASSUME NEW n \in 1..ReaderSize, ReadDone(r, n)
        PROVE  ServedInv(r)'
    <2>1. /\ rop[r] = Kernel("OnRead") /\ place'[r] = "idle"
          /\ rop'[r] = Packet("OnRead", n, FALSE) /\ n > 0
      BY <1>1, <1>7, Sizes DEF ReadDone, Facts, Set, TypeOK
    <2>2. rop'[r].st = "queued" /\ rop'[r].n = n /\ ~rop'[r].err
      BY <2>1 DEF Packet
    <2> QED  BY <2>1, <2>2 DEF ServedInv
  <1>8. CASE ReadFails(r)
    <2>1. /\ place'[r] = "idle" /\ link'[r] = "reset" /\ rop'[r] = Packet("OnRead", 0, TRUE)
      BY <1>1, <1>8 DEF ReadFails, Facts, Set, TypeOK, tcp
    <2>2. rop'[r].st = "queued" /\ rop'[r].err
      BY <2>1 DEF Packet
    <2> QED  BY <2>1, <2>2 DEF ServedInv
  <1>9. CASE OnWrite(r) \/ WriteLoop(r) \/ AcceptDone(r) \/ WriteDone(r) \/ WriteFails(r) \/ Reset(r)
    <2>1. SameReader(r)
      <3>1. /\ UNCHANGED <<reader, received, sync>>
            /\ link' = link \/ Reset(r)
        BY <1>9 DEF OnWrite, WriteLoop, AcceptDone, WriteDone, WriteFails, Reset, process, tcp
      <3>2. link'[r] = link[r] \/ (link[r] = "up" /\ link'[r] = "reset")
        BY <1>1, <3>1 DEF Reset, Set, TypeOK
      <3> QED  BY <3>1, <3>2 DEF SameReader, reader
    <2> QED  BY <1>1, <2>1, SameServed
  <1> QED  BY <1>2, <1>3, <1>4, <1>5, <1>6, <1>7, <1>8, <1>9 DEF Handler, KernelStep

LEMMA DoneInit == Init => DoneInv
  <1> SUFFICES ASSUME Init PROVE DoneInv
    OBVIOUS
  <1>1. \A r \in Readers : ServedInv(r)
    BY Fields, ModesAssumption DEF Init, ServedInv
  <1>2. EndInv
    BY ReadersAssumption DEF Init, EndInv
  <1> QED  BY <1>1, <1>2, InitInv DEF DoneInv

LEMMA DoneStep == DoneInv /\ [Next]_vars => DoneInv'
  <1> SUFFICES ASSUME DoneInv, [Next]_vars PROVE DoneInv'
    OBVIOUS
  <1>1. IInv' /\ EndInv' /\ TypeOK /\ \A r \in Readers : ServedInv(r)
    BY StepInv, EndStep DEF DoneInv, IInv
  <1>2. ASSUME NEW r \in Readers, Handler(r) \/ KernelStep(r) \/ StartReader(r) \/ Reset(r)
        PROVE  \A d \in Readers : ServedInv(d)'
    <2>1. \A d \in Readers : d # r => SameReader(d)
      BY <1>1, <1>2, OnlyReader
    <2> QED  BY <1>1, <1>2, <2>1, ReaderServed, SameServed
  <1>3. CASE StartServer \/ OnAccept \/ AcceptFailed \/ DestroyPool \/ LeaveRun \/ UNCHANGED vars
    <2>1. \A d \in Readers : SameReader(d)
      BY <1>3 DEF StartServer, OnAccept, AcceptFailed, DestroyPool, LeaveRun, vars,
             process, reader, tcp, SameReader
    <2>2. \A d \in Readers : ServedInv(d)'
      BY <1>1, <2>1, SameServed
    <2> QED  BY <1>1, <2>2 DEF DoneInv
  <1> QED  BY <1>1, <1>2, <1>3 DEF Next, Work, DoneInv

-----------------------------------------------------------------------------
\* Nobody waits for everybody.

\* What a reader waits for is of the kind that the kernel ends and a handler
\* takes, and only a reader that connects has no connection yet.
Waits(r) ==
    /\ rop[r].st = "kernel" => rop[r] \in {Kernel("OnConnect"), Kernel("OnRead")}
    /\ rop[r].st = "queued" => rop[r].cb \in {"OnConnect", "OnRead"}
    /\ link[r] = "none" =>
          \/ place[r] \in {"none", "deleted"}
          \/ rop[r] = Kernel("OnConnect")
          \/ rop[r].st = "queued" /\ rop[r].cb = "OnConnect" /\ rop[r].err

LEMMA SameWaits == ASSUME NEW d, Waits(d), SameReader(d) PROVE Waits(d)'
  BY DEF Waits, SameReader

LEMMA ReadWaits ==
    ASSUME NEW r \in Readers, TypeOK, Read(r), link' = link
    PROVE  Waits(r)'
  <1> USE Fields
  <1>1. link'[r] # "none"
    BY DEF Read, ReceiveNow, ReceiveLater, ReceiveError
  <1>2. PICK o : rop' = [rop EXCEPT ![r] = o]
                 /\ \/ o = NoOp \/ o = Kernel("OnRead")
                    \/ \E n \in 1..ReaderSize : o = Packet("OnRead", n, FALSE)
    <2>1. CASE \E n \in 1..ReaderSize : ReceiveNow(r, n)
      <3>1. PICK n \in 1..ReaderSize : ReceiveNow(r, n)
        BY <2>1
      <3>2. CASE sync
        BY <3>1, <3>2 DEF ReceiveNow, SkipOnSuccess, Set
      <3>3. CASE ~sync
        BY <3>1, <3>3 DEF ReceiveNow, SkipOnSuccess, Set
      <3> QED  BY <3>2, <3>3
    <2>2. CASE ReceiveLater(r)
      BY <2>2 DEF ReceiveLater, Set
    <2>3. CASE ReceiveError(r)
      BY <2>3 DEF ReceiveError, Set
    <2> QED  BY <2>1, <2>2, <2>3 DEF Read
  <1>3. rop'[r] = o
    BY <1>2 DEF TypeOK
  <1>4. \/ rop'[r].st = "none"
        \/ rop'[r].st = "kernel" /\ rop'[r] = Kernel("OnRead")
        \/ rop'[r].st = "queued" /\ rop'[r].cb = "OnRead"
    <2>1. CASE o = NoOp
      BY <1>3, <2>1
    <2>2. CASE o = Kernel("OnRead")
      BY <1>3, <2>2
    <2>3. ASSUME NEW n \in 1..ReaderSize, o = Packet("OnRead", n, FALSE)
          PROVE  rop'[r].st = "queued" /\ rop'[r].cb = "OnRead"
      BY <1>3, <2>3 DEF Packet
    <2> QED  BY <1>2, <2>1, <2>2, <2>3
  <1> QED  BY <1>1, <1>4 DEF Waits

LEMMA ReaderWaits ==
    ASSUME IInv, NEW r \in Readers, Waits(r),
           Handler(r) \/ KernelStep(r) \/ StartReader(r) \/ Reset(r)
    PROVE  Waits(r)'
  <1> USE Fields
  <1>1. TypeOK /\ Facts(r)
    BY ReaderFacts DEF IInv
  <1>2. CASE StartReader(r)
    <2>1. CASE rop'[r] = Kernel("OnConnect")
      BY <2>1 DEF Waits
    <2>2. CASE rop' = rop /\ place' = place
      BY <1>2, <2>2, SameWaits DEF StartReader, tcp, SameReader
    <2> QED  BY <1>1, <1>2, <2>1, <2>2, StartReaderEither
  <1>3. CASE OnConnect(r) \/ OnRead(r)
    <2>1. rop'[r] = NoOp /\ link' = link /\ rop[r].st = "queued" /\ place[r] = "idle"
      BY <1>1, <1>3 DEF OnConnect, OnRead, Facts, Set, TypeOK, tcp
    <2>2. CASE rop[r].err
      <3>1. place'[r] = "deleted"
        BY <1>1, <1>3, <2>2 DEF OnConnect, OnRead, Finish, Set, TypeOK
      <3> QED  BY <2>1, <3>1 DEF Waits
    <2>3. CASE ~rop[r].err
      <3>1. link[r] # "none"
        BY <2>1, <2>3 DEF Waits
      <3> QED  BY <2>1, <3>1 DEF Waits
    <2> QED  BY <2>2, <2>3
  <1>4. CASE ConnectLoop(r)
    BY <1>1, <1>4, ReadWaits DEF ConnectLoop
  <1>5. CASE ReadLoop(r)
    <2>1. CASE ~Enough(r)
      BY <1>1, <1>5, <2>1, ReadWaits DEF ReadLoop
    <2>2. CASE Enough(r)
      <3>1. place'[r] = "deleted" /\ rop' = rop /\ link' = link
        BY <1>1, <1>5, <2>2 DEF ReadLoop, Finish, Set, TypeOK
      <3> QED  BY <3>1 DEF Waits
    <2> QED  BY <2>1, <2>2
  <1>6. CASE ConnectDone(r)
    <2>1. rop'[r] = Packet("OnConnect", 0, main # "sleeping")
      BY <1>1, <1>6 DEF ConnectDone, Set, TypeOK
    <2>2. CASE main = "sleeping"
      <3>1. link'[r] = "up"
        BY <1>1, <1>6, <2>2 DEF ConnectDone, Set, TypeOK
      <3>2. rop'[r] = Packet("OnConnect", 0, FALSE)
        BY <2>1, <2>2
      <3>3. rop'[r].st = "queued" /\ rop'[r].cb = "OnConnect"
        BY <3>2 DEF Packet
      <3> QED  BY <3>1, <3>3 DEF Waits
    <2>3. CASE main # "sleeping"
      <3>1. rop'[r] = Packet("OnConnect", 0, TRUE)
        BY <2>1, <2>3
      <3>2. rop'[r].st = "queued" /\ rop'[r].cb = "OnConnect" /\ rop'[r].err
        BY <3>1 DEF Packet
      <3> QED  BY <3>2 DEF Waits
    <2> QED  BY <2>2, <2>3
  <1>7. CASE ReadFails(r) \/ \E n \in 1..ReaderSize : ReadDone(r, n)
    <2>1. rop'[r].st = "queued" /\ rop'[r].cb = "OnRead"
      <3>1. CASE ReadFails(r)
        <4>1. rop'[r] = Packet("OnRead", 0, TRUE)
          BY <1>1, <3>1 DEF ReadFails, Set, TypeOK
        <4> QED  BY <4>1 DEF Packet
      <3>2. ASSUME NEW n \in 1..ReaderSize, ReadDone(r, n)
            PROVE  rop'[r].st = "queued" /\ rop'[r].cb = "OnRead"
        <4>1. rop'[r] = Packet("OnRead", n, FALSE)
          BY <1>1, <3>2 DEF ReadDone, Set, TypeOK
        <4> QED  BY <4>1 DEF Packet
      <3> QED  BY <1>7, <3>1, <3>2
    <2>2. link'[r] # "none"
      BY <1>7 DEF ReadFails, ReadDone, tcp
    <2> QED  BY <2>1, <2>2 DEF Waits
  <1>8. CASE OnWrite(r) \/ WriteLoop(r) \/ AcceptDone(r) \/ WriteDone(r) \/ WriteFails(r) \/ Reset(r)
    <2>1. SameReader(r)
      <3>1. /\ UNCHANGED <<reader, received, sync>>
            /\ link' = link \/ Reset(r)
        BY <1>8 DEF OnWrite, WriteLoop, AcceptDone, WriteDone, WriteFails, Reset, process, tcp
      <3>2. link'[r] = link[r] \/ (link[r] = "up" /\ link'[r] = "reset")
        BY <1>1, <3>1 DEF Reset, Set, TypeOK
      <3> QED  BY <3>1, <3>2 DEF SameReader, reader
    <2> QED  BY <2>1, SameWaits
  <1> QED  BY <1>2, <1>3, <1>4, <1>5, <1>6, <1>7, <1>8 DEF Handler, KernelStep

\* A connection is with somebody from its accept on, and a writer gives up only
\* when its connection is of no use any more.
Attended(d) ==
    /\ wplace[d] = "leaked" => Broken(d)
    /\ wop[d].st = "queued" /\ wop[d].err => Broken(d)
    /\ link[d] = "up" => d \in backlog \/ acceptOp = d \/ wplace[d] # "none"

\* What becomes of connection d in a step goes one way only.
Forward(d) ==
    /\ place[d] = "deleted" => place'[d] = "deleted"
    /\ place[d] # "none" => place'[d] # "none"
    /\ link[d] = "reset" => link'[d] = "reset"
    /\ (wplace'[d] = "leaked" \/ (wop'[d].st = "queued" /\ wop'[d].err)) =>
          wplace[d] = "leaked" \/ (wop[d].st = "queued" /\ wop[d].err) \/ Broken(d)
    /\ wplace[d] # "none" => wplace'[d] # "none"
    /\ d \in backlog => d \in backlog' \/ acceptOp' = d \/ link[d] = "reset"
    /\ acceptOp = d => acceptOp' = d \/ wplace'[d] # "none"
    /\ link'[d] = "up" => link[d] = "up" \/ d \in backlog'

LEMMA ForwardAttended ==
    ASSUME NEW d \in Readers, Attended(d), Forward(d) PROVE Attended(d)'
  BY DEF Attended, Forward, Broken

\* The server has an AcceptEx in progress from its start until run() returns.
Arms ==
    /\ main = "starting" => acceptOp = "none"
    /\ main = "sleeping" /\ exit = "no" => acceptOp \in {"kernel", "error"} \cup Readers

\* ... and it starts that one when all the readers have started.
Started == main = "sleeping" => \A r \in Readers : place[r] # "none"

StuckInv == DoneInv /\ Arms /\ Started /\ \A r \in Readers : Waits(r) /\ Attended(r)

LEMMA ForwardReader ==
    ASSUME DoneInv, NEW r \in Readers, NEW d \in Readers,
           \/ StartReader(r) \/ OnConnect(r) \/ OnRead(r) \/ ConnectLoop(r) \/ ReadLoop(r)
           \/ ReadFails(r) \/ Reset(r) \/ \E n \in 1..ReaderSize : ReadDone(r, n)
    PROVE  Forward(d)
  <1>1. TypeOK /\ Facts(r)
    BY ReaderFacts DEF DoneInv, IInv
  <1>2. UNCHANGED <<wplace, wop, backlog, acceptOp>>
    BY DEF StartReader, OnConnect, OnRead, ConnectLoop, ReadLoop, ReadFails, Reset, ReadDone,
           server, writer
  <1>3. link' = link \/ Reset(r)
    BY DEF StartReader, OnConnect, OnRead, ConnectLoop, ReadLoop, ReadFails, ReadDone, tcp
  <1>4. link'[d] = link[d] \/ (link[d] = "up" /\ link'[d] = "reset")
    BY <1>1, <1>3 DEF Reset, Set, TypeOK
  <1>5. place[d] = "deleted" => place'[d] = "deleted"
    <2>1. CASE d # r
      BY <1>1, <2>1, OnlyReader DEF Handler, KernelStep, SameReader
    <2>2. CASE d = r
      <3>1. place[r] # "deleted" \/ place' = place
        <4>1. CASE StartReader(r) \/ ConnectLoop(r) \/ ReadLoop(r)
          BY <4>1 DEF StartReader, ConnectLoop, ReadLoop
        <4>2. CASE OnConnect(r) \/ OnRead(r)
          BY <1>1, <4>2 DEF OnConnect, OnRead, Facts
        <4>3. CASE ReadFails(r) \/ Reset(r) \/ \E n \in 1..ReaderSize : ReadDone(r, n)
          BY <4>3 DEF ReadFails, Reset, ReadDone, reader
        <4> QED  BY <4>1, <4>2, <4>3
      <3> QED  BY <2>2, <3>1
    <2> QED  BY <2>1, <2>2
  <1>6. place[d] # "none" => place'[d] # "none"
    <2>1. CASE d # r
      BY <1>1, <2>1, OnlyReader DEF Handler, KernelStep, SameReader
    <2>2. CASE d = r
      <3>1. \/ place' = place
            \/ \E p \in {"idle", "OnConnect", "OnRead", "deleted"} : place' = Set(place, r, p)
        <4>1. CASE StartReader(r) \/ OnConnect(r) \/ OnRead(r)
          BY <4>1 DEF StartReader, OnConnect, OnRead, Goes, Finish
        <4>2. ASSUME Read(r), place[r] \in {"OnConnect", "OnRead"}
              PROVE  \E p \in {"idle", "OnConnect", "OnRead", "deleted"} : place' = Set(place, r, p)
          BY <4>2 DEF Read, ReceiveNow, ReceiveLater, ReceiveError, Goes, Finish
        <4>3. CASE ConnectLoop(r) \/ ReadLoop(r)
          BY <4>2, <4>3 DEF ConnectLoop, ReadLoop, Finish
        <4>4. CASE ReadFails(r) \/ Reset(r) \/ \E n \in 1..ReaderSize : ReadDone(r, n)
          BY <4>4 DEF ReadFails, Reset, ReadDone, reader
        <4> QED  BY <4>1, <4>2, <4>3, <4>4
      <3> QED  BY <1>1, <2>2, <3>1 DEF TypeOK, Set
    <2> QED  BY <2>1, <2>2
  <1> QED  BY <1>2, <1>4, <1>5, <1>6 DEF Forward

\* A writer gives up on an error, and there is one only when the connection is broken.
LEMMA ForwardSend ==
    ASSUME TypeOK, NEW r \in Readers, NEW d \in Readers,
           UNCHANGED <<backlog, place, link>>, acceptOp = d => acceptOp' = d \/ d = r,
           NEW o, NEW w, wop' = Set(wop, r, o), wplace' = Set(wplace, r, w), w # "none",
           (w = "leaked" \/ (o.st = "queued" /\ o.err)) =>
              (wop[r].st = "queued" /\ wop[r].err) \/ Broken(r)
    PROVE  Forward(d)
  <1>1. CASE d = r
    BY <1>1 DEF TypeOK, Set, Forward
  <1>2. CASE d # r
    BY <1>2 DEF TypeOK, Set, Forward
  <1> QED  BY <1>1, <1>2

\* SendNow with its packet or without one, SendLater and SendError.
LEMMA Sends ==
    ASSUME NEW r \in Readers, TypeOK,
           \/ /\ wop' = Set(wop, r, NoOp) \/ wop' = Set(wop, r, Packet("OnWrite", WriterSize, FALSE))
              /\ wplace' = Set(wplace, r, "OnWrite") \/ wplace' = Set(wplace, r, "idle")
           \/ SendLater(r) \/ SendError(r)
    PROVE  \E o, w : /\ wop' = Set(wop, r, o) /\ wplace' = Set(wplace, r, w) /\ w # "none"
                     /\ ~(o.st = "queued" /\ o.err) /\ (w = "leaked" => Broken(r))
  <1>1. /\ ~(NoOp.st = "queued" /\ NoOp.err)
        /\ ~(Packet("OnWrite", WriterSize, FALSE).st = "queued"
              /\ Packet("OnWrite", WriterSize, FALSE).err)
        /\ ~(Kernel("OnWrite").st = "queued" /\ Kernel("OnWrite").err)
    BY DEF NoOp, Packet, Kernel
  <1>2. CASE SendLater(r)
    <2>1. wop' = Set(wop, r, Kernel("OnWrite")) /\ wplace' = Set(wplace, r, "idle")
      BY <1>2 DEF SendLater
    <2> QED  BY <1>1, <2>1
  <1>3. CASE SendError(r)
    <2>1. wop' = Set(wop, r, NoOp) /\ wplace' = Set(wplace, r, "leaked") /\ Broken(r)
      BY <1>3 DEF SendError
    <2> QED  BY <1>1, <2>1
  <1>4. CASE /\ wop' = Set(wop, r, NoOp) \/ wop' = Set(wop, r, Packet("OnWrite", WriterSize, FALSE))
             /\ wplace' = Set(wplace, r, "OnWrite") \/ wplace' = Set(wplace, r, "idle")
    <2>1. PICK o \in {NoOp, Packet("OnWrite", WriterSize, FALSE)} : wop' = Set(wop, r, o)
      BY <1>4
    <2>2. PICK w \in {"OnWrite", "idle"} : wplace' = Set(wplace, r, w)
      BY <1>4
    <2> QED  BY <1>1, <2>1, <2>2
  <1> QED  BY <1>2, <1>3, <1>4

LEMMA ForwardWriter ==
    ASSUME TypeOK, NEW r \in Readers, NEW d \in Readers,
           OnWrite(r) \/ WriteLoop(r) \/ WriteDone(r) \/ WriteFails(r)
    PROVE  Forward(d)
  <1> USE DEF process, server, reader, tcp
  <1>1. CASE OnWrite(r)
    <2>1. /\ UNCHANGED <<backlog, place, link, acceptOp>> /\ wop' = Set(wop, r, NoOp)
          /\ wplace' = Set(wplace, r, IF wop[r].err THEN "leaked" ELSE "OnWrite")
          /\ wop[r].st = "queued"
      BY <1>1 DEF OnWrite
    <2>2. NoOp.st = "none"
      BY DEF NoOp
    <2> QED  BY <2>1, <2>2, ForwardSend
  <1>2. CASE WriteLoop(r)
    <2>1. UNCHANGED <<backlog, place, link, acceptOp>>
      BY <1>2 DEF WriteLoop
    <2>2. \/ /\ wop' = Set(wop, r, NoOp) \/ wop' = Set(wop, r, Packet("OnWrite", WriterSize, FALSE))
             /\ wplace' = Set(wplace, r, "OnWrite") \/ wplace' = Set(wplace, r, "idle")
          \/ SendLater(r) \/ SendError(r)
      BY <1>2 DEF WriteLoop
    <2>3. PICK o, w : /\ wop' = Set(wop, r, o) /\ wplace' = Set(wplace, r, w) /\ w # "none"
                      /\ ~(o.st = "queued" /\ o.err) /\ (w = "leaked" => Broken(r))
      BY <2>2, Sends
    <2> QED  BY <2>1, <2>3, ForwardSend
  <1>3. CASE WriteDone(r)
    <2>1. UNCHANGED <<backlog, place, link, acceptOp, wplace>>
      BY <1>3 DEF WriteDone
    <2>2. wop' = [wop EXCEPT ![r] = Packet("OnWrite", WriterSize, FALSE)]
      BY <1>3 DEF WriteDone, Set
    <2>3. ~Packet("OnWrite", WriterSize, FALSE).err
      BY DEF Packet
    <2>4. wop'[d] = wop[d] \/ ~wop'[d].err
      BY <2>2, <2>3 DEF TypeOK
    <2> QED  BY <2>1, <2>4 DEF Forward
  <1>4. CASE WriteFails(r)
    <2>1. UNCHANGED <<backlog, place, link, acceptOp, wplace>> /\ Broken(r)
      BY <1>4 DEF WriteFails
    <2>2. wop'[d] = wop[d] \/ d = r
      BY <1>4 DEF WriteFails, Set, TypeOK
    <2> QED  BY <2>1, <2>2 DEF Forward
  <1> QED  BY <1>1, <1>2, <1>3, <1>4

LEMMA ForwardServer ==
    ASSUME DoneInv, Arms, NEW d \in Readers,
           \/ StartServer \/ LeaveRun \/ DestroyPool \/ AcceptFailed \/ OnAccept \/ UNCHANGED vars
           \/ \E r \in Readers : ConnectDone(r) \/ AcceptDone(r)
    PROVE  Forward(d)
  <1> USE DEF process, server, reader, writer, tcp
  <1>1. TypeOK /\ \A r \in Readers : ServedInv(r)
    BY DEF DoneInv, IInv
  <1>2. CASE LeaveRun \/ DestroyPool \/ AcceptFailed \/ UNCHANGED vars
    BY <1>2, NamesAssumption DEF LeaveRun, DestroyPool, AcceptFailed, vars, Forward
  <1>3. CASE OnAccept
    <2>1. PICK r \in Readers : acceptOp = r /\ NewWriter(r)
      BY <1>3 DEF OnAccept
    <2>2. UNCHANGED <<backlog, place, link>>
      BY <1>3 DEF OnAccept
    <2>3. \/ /\ wop' = Set(wop, r, NoOp) \/ wop' = Set(wop, r, Packet("OnWrite", WriterSize, FALSE))
             /\ wplace' = Set(wplace, r, "OnWrite") \/ wplace' = Set(wplace, r, "idle")
          \/ SendLater(r) \/ SendError(r)
      BY <2>1 DEF NewWriter
    <2>4. PICK o, w : /\ wop' = Set(wop, r, o) /\ wplace' = Set(wplace, r, w) /\ w # "none"
                      /\ ~(o.st = "queued" /\ o.err) /\ (w = "leaked" => Broken(r))
      BY <1>1, <2>3, Sends
    <2> QED  BY <1>1, <2>1, <2>2, <2>4, ForwardSend
  <1>4. CASE StartServer
    <2>1. acceptOp # d
      BY <1>4, NamesAssumption DEF Arms, StartServer
    <2> QED  BY <1>4, <2>1 DEF StartServer, Forward
  <1>5. ASSUME NEW r \in Readers, ConnectDone(r) PROVE Forward(d)
    <2>1. link[r] = "none"
      <3>1. rop[r].st = "kernel" /\ rop[r].cb = "OnConnect"
        BY <1>5 DEF ConnectDone, Kernel
      <3> QED  BY <1>1, <3>1 DEF ServedInv
    <2>2. UNCHANGED <<place, wplace, wop, acceptOp>>
      BY <1>5 DEF ConnectDone
    <2>3. /\ link'[d] = link[d] \/ (d = r /\ r \in backlog')
          /\ d \in backlog => d \in backlog'
      BY <1>1, <1>5 DEF ConnectDone, Set, TypeOK
    <2> QED  BY <2>1, <2>2, <2>3 DEF Forward
  <1>6. ASSUME NEW r \in Readers, AcceptDone(r) PROVE Forward(d)
    BY <1>6, NamesAssumption DEF AcceptDone, Forward
  <1> QED  BY <1>2, <1>3, <1>4, <1>5, <1>6

LEMMA ArmsStep == DoneInv /\ Arms /\ [Next]_vars => Arms'
  <1> SUFFICES ASSUME DoneInv, Arms, [Next]_vars PROVE Arms'
    OBVIOUS
  <1> USE DEF process, server, reader, writer, tcp
  <1>1. CASE acceptOp' = acceptOp /\ main' = main /\ (exit' = exit \/ exit = "no")
    BY <1>1 DEF Arms
  <1>2. CASE StartServer \/ LeaveRun \/ AcceptFailed \/ OnAccept \/ DestroyPool \/ UNCHANGED vars
    BY <1>1, <1>2, NamesAssumption
       DEF StartServer, Unexpected, LeaveRun, AcceptFailed, OnAccept, AcceptAgain, Dequeue,
           DestroyPool, vars, Arms
  <1>3. ASSUME NEW r \in Readers, AcceptDone(r) PROVE Arms'
    BY <1>3 DEF AcceptDone, Arms
  <1>4. ASSUME NEW r \in Readers, KernelStep(r) \/ StartReader(r) \/ Reset(r) PROVE Arms'
    BY <1>1, <1>3, <1>4 DEF KernelStep, ConnectDone, ReadFails, ReadDone, WriteDone, WriteFails,
           StartReader, Reset
  <1>5. ASSUME NEW r \in Readers, Handler(r) PROVE Arms'
    BY <1>1, <1>5 DEF Handler, OnConnect, ConnectLoop, OnRead, ReadLoop, OnWrite, WriteLoop, Dequeue
  <1> QED  BY <1>2, <1>4, <1>5 DEF Next, Work

LEMMA StartedStep ==
    ASSUME Started, [Next]_vars, \A r \in Readers : Forward(r) PROVE Started'
  <1>1. main' = main \/ StartServer \/ main' = "leaving"
    <2>1. ASSUME NEW r \in Readers, Handler(r) PROVE main' = main
      BY <2>1 DEF Handler, OnConnect, ConnectLoop, OnRead, ReadLoop, OnWrite, WriteLoop, process
    <2>2. ASSUME NEW r \in Readers, KernelStep(r) \/ StartReader(r) \/ Reset(r) PROVE main' = main
      BY <2>2 DEF KernelStep, ConnectDone, AcceptDone, ReadFails, ReadDone, WriteDone, WriteFails,
             StartReader, Reset, process
    <2>3. CASE LeaveRun \/ DestroyPool \/ AcceptFailed \/ OnAccept \/ UNCHANGED vars
      BY <2>3 DEF LeaveRun, DestroyPool, AcceptFailed, OnAccept, vars, process
    <2> QED  BY <2>1, <2>2, <2>3 DEF Next, Work
  <1>2. CASE StartServer
    BY <1>2 DEF StartServer, reader, Started
  <1> QED  BY <1>1, <1>2 DEF Started, Forward

LEMMA StuckInit == Init => StuckInv
  <1> SUFFICES ASSUME Init PROVE StuckInv
    OBVIOUS
  <1>1. \A r \in Readers : Waits(r) /\ Attended(r)
    BY Fields DEF Init, Waits, Attended
  <1> QED  BY <1>1, DoneInit DEF StuckInv, Arms, Started, Init

LEMMA StuckStep == StuckInv /\ [Next]_vars => StuckInv'
  <1> SUFFICES ASSUME StuckInv, [Next]_vars PROVE StuckInv'
    OBVIOUS
  <1>1. /\ DoneInv' /\ Arms' /\ DoneInv /\ IInv /\ TypeOK /\ Arms /\ Started
        /\ \A d \in Readers : Waits(d) /\ Attended(d)
    BY DoneStep, ArmsStep DEF StuckInv, DoneInv, IInv
  <1>2. ASSUME NEW d \in Readers PROVE Waits(d)'
    <2>1. ASSUME NEW r \in Readers, Handler(r) \/ KernelStep(r) \/ StartReader(r) \/ Reset(r)
          PROVE  Waits(d)'
      BY <1>1, <2>1, ReaderWaits, OnlyReader, SameWaits
    <2>2. CASE StartServer \/ OnAccept \/ AcceptFailed \/ DestroyPool \/ LeaveRun \/ UNCHANGED vars
      <3>1. SameReader(d)
        BY <2>2 DEF StartServer, OnAccept, AcceptFailed, DestroyPool, LeaveRun, vars,
               process, reader, tcp, SameReader
      <3> QED  BY <1>1, <3>1, SameWaits
    <2> QED  BY <2>1, <2>2 DEF Next, Work
  <1>3. ASSUME NEW d \in Readers PROVE Forward(d)
    <2>1. ASSUME NEW r \in Readers, Handler(r) \/ KernelStep(r) \/ StartReader(r) \/ Reset(r)
          PROVE  Forward(d)
      BY <1>1, <2>1, ForwardReader, ForwardWriter, ForwardServer DEF Handler, KernelStep
    <2>2. CASE StartServer \/ OnAccept \/ AcceptFailed \/ DestroyPool \/ LeaveRun \/ UNCHANGED vars
      BY <1>1, <2>2, ForwardServer
    <2> QED  BY <2>1, <2>2 DEF Next, Work
  <1>4. Started'
    BY <1>1, <1>3, StartedStep
  <1> QED  BY <1>1, <1>2, <1>3, <1>4, ForwardAttended DEF StuckInv

\* There are threads for all: two per reader are busy at most.
LEMMA ThreadFree == Busy < Threads
  <1>1. /\ IsFiniteSet(Readers) /\ Cardinality(Readers) \in Nat
    BY ReadersAssumption, FS_CardinalityType
  <1>2. ASSUME NEW S, S \in SUBSET Readers
        PROVE  Cardinality(S) \in Nat /\ Cardinality(S) <= Cardinality(Readers)
    BY <1>1, <1>2, FS_Subset, FS_CardinalityType
  <1> DEFINE R == {r \in Readers : place[r] \in {"OnConnect", "OnRead"}}
             W == {r \in Readers : wplace[r] = "OnWrite"}
  <1>3. R \in SUBSET Readers /\ W \in SUBSET Readers
    OBVIOUS
  <1>4. Busy = Cardinality(R) + Cardinality(W)
    BY DEF Busy
  <1> HIDE DEF R, W
  <1>5. /\ Cardinality(R) \in Nat /\ Cardinality(R) <= Cardinality(Readers)
        /\ Cardinality(W) \in Nat /\ Cardinality(W) <= Cardinality(Readers)
    BY <1>2, <1>3
  <1> QED  BY <1>1, <1>4, <1>5 DEF Threads

\* Where the server sleeps, a connection that nobody serves is taken up, and the
\* writer of one that is up has room when its reader has read all.
LEMMA StuckWriter ==
    ASSUME StuckInv, exit = "no", main = "sleeping", ~ServerReady, NEW r \in Readers,
           link[r] = "up", place[r] # "deleted", stream[r] = 0
    PROVE  WriterReady(r)
  <1>1. TypeOK /\ OneOwner /\ Attended(r) /\ Arms
    BY DEF StuckInv, DoneInv, IInv
  <1>2. Dequeue
    BY ThreadFree DEF Dequeue
  <1>3. acceptOp = "kernel" /\ backlog = {}
    BY <1>1, <1>2 DEF Arms, ServerReady
  <1>4. ~Broken(r) /\ Room(r)
    BY Sizes DEF Broken, Room
  <1>5. wplace[r] \in {"idle", "OnWrite"}
    BY <1>1, <1>3, <1>4, NamesAssumption DEF Attended, TypeOK
  <1>6. wop[r].st \in {"none", "kernel", "queued"}
    BY <1>1 DEF TypeOK, Ops
  <1> QED  BY <1>1, <1>2, <1>4, <1>5, <1>6 DEF OneOwner, WriterReady

LEMMA StuckNever == StuckInv => NeverStuck
  <1> SUFFICES ASSUME StuckInv, exit = "no", ~RunReady, ~ServerReady
               PROVE  \E r \in Readers : ReaderReady(r) \/ WriterReady(r)
    BY DEF NeverStuck
  <1>1. TypeOK /\ IInv /\ EndInv /\ main = "sleeping" /\ Dequeue
    BY ThreadFree DEF StuckInv, DoneInv, IInv, TypeOK, RunReady, Dequeue
  <1>2. PICK r \in Readers : place[r] # "deleted"
    BY <1>1 DEF EndInv
  <1>3. Facts(r) /\ Waits(r)
    BY <1>1, ReaderFacts DEF StuckInv
  <1>4. place[r] # "none"
    BY <1>1 DEF StuckInv, Started
  <1>5. rop[r].st \in {"none", "kernel", "queued"} /\ link[r] \in {"none", "up", "reset"}
        /\ stream[r] \in Nat
    BY <1>1, Sizes DEF TypeOK, Ops
  <1>6. CASE place[r] \in {"OnConnect", "OnRead"} \/ rop[r].st = "queued"
    BY <1>1, <1>3, <1>6 DEF Waits, ReaderReady
  <1>7. CASE rop[r] = Kernel("OnConnect")
    BY <1>7 DEF ReaderReady
  <1>8. CASE rop[r] = Kernel("OnRead")
    <2>1. rop[r].st = "kernel" /\ rop[r].cb = "OnRead"
      BY <1>8 DEF Kernel
    <2>2. link[r] # "none"
      BY <1>2, <1>3, <1>4, <1>8, <2>1, Fields DEF Waits
    <2>3. CASE link[r] = "reset" \/ stream[r] > 0
      BY <1>5, <1>8, <2>2, <2>3 DEF ReaderReady
    <2>4. CASE link[r] = "up" /\ stream[r] = 0
      BY <1>1, <1>2, <2>4, StuckWriter
    <2> QED  BY <1>5, <2>2, <2>3, <2>4
  <1> QED  BY <1>2, <1>3, <1>4, <1>5, <1>6, <1>7, <1>8 DEF Facts, Waits

-----------------------------------------------------------------------------
\* The theorems about Improved.cpp.

\* Operations, places of the code, the WorkTracker and the counts agree after
\* every step (Improved.cpp:100-302, PAL.h:114-127).
THEOREM StreamsInvariant == Spec => []IInv
  BY InitInv, StepInv, PTL DEF Spec

\* Every variable has its type; workCount does not go below 0.
THEOREM StreamsTypes == Spec => []TypeOK
  BY StreamsInvariant, PTL DEF IInv

\* A reader, a writer and its OVERLAPPED have one owner at a time, for every
\* number of readers and size of buffers (Improved.cpp:187-282).
THEOREM StreamsOneOwner == Spec => []OneOwner
  BY StreamsInvariant, PTL DEF IInv

\* As long as every completion comes as a packet, each byte that a reader was
\* given is counted (Improved.cpp:225-239); with inline completions it is not.
THEOREM StreamsCounted == Spec => [](~sync => ReceivedIsCounted)
  BY StreamsInvariant, PTL DEF IInv, CountedByPackets

\* The process ends with the last reader and not before, and who is gone without
\* an error has its bytes, for every number of readers, size of the buffers and
\* mode of the port that brings a packet for each operation (PAL.h:114-127).
THEOREM StreamsDone == Spec => []DoneMeansServed
  <1>1. Spec => []DoneInv
    BY DoneInit, DoneStep, PTL DEF Spec
  <1>2. DoneInv => DoneMeansServed
    BY DEF DoneInv, EndInv, ServedInv, DoneMeansServed
  <1> QED  BY <1>1, <1>2, PTL

\* Until the process ends there is a packet that a free thread takes, a handler
\* that goes on or an operation that the kernel can end: no number of readers,
\* no size of the buffers, fault or mode leaves everybody waiting
\* (Improved.cpp:100-302, PAL.cpp:78-105).
THEOREM StreamsNeverStuck == Spec => []NeverStuck
  BY StuckInit, StuckStep, StuckNever, PTL DEF Spec

-----------------------------------------------------------------------------
\* Traditional.cpp: its steps are steps of Improved.cpp, and the handlers.

LEMMA TReadMaps == ASSUME NEW r, TRead(r) PROVE Read(r)
  BY DEF TRead, Read

LEMMA StepsMap == [TNext]_tvars => [Next]_vars
  <1> SUFFICES ASSUME [TNext]_tvars PROVE [Next]_vars
    OBVIOUS
  <1>1. CASE UNCHANGED tvars
    BY <1>1 DEF tvars
  <1>2. ASSUME NEW r \in Readers, TStartReader(r) PROVE Next
    BY <1>2 DEF TStartReader, Next, Work
  <1>3. ASSUME NEW r \in Readers, THandler(r) PROVE Next
    <2>1. CASE TOnConnect(r) \/ TOnRead(r) \/ TOnWrite(r)
      BY <2>1 DEF TOnConnect, TOnRead, TOnWrite, Next, Work, Handler
    <2>2. CASE TConnectLoop(r)
      <3>1. ConnectLoop(r)
        BY <2>2, TReadMaps DEF TConnectLoop, ConnectLoop
      <3> QED  BY <3>1 DEF Next, Work, Handler
    <2>3. CASE TReadLoop(r)
      <3>1. CASE Enough(r)
        <4>1. ReadLoop(r)
          BY <2>3, <3>1 DEF TReadLoop, ReadLoop
        <4> QED  BY <4>1 DEF Next, Work, Handler
      <3>2. CASE ~Enough(r)
        <4>1. TRead(r)
          BY <2>3, <3>2 DEF TReadLoop
        <4>2. ReadLoop(r)
          BY <2>3, <3>2, <4>1, TReadMaps DEF TReadLoop, ReadLoop
        <4> QED  BY <4>2 DEF Next, Work, Handler
      <3> QED  BY <3>1, <3>2
    <2>4. CASE TWriteLoop(r)
      <3>1. WriteLoop(r)
        BY <2>4 DEF TWriteLoop, WriteLoop
      <3> QED  BY <3>1 DEF Next, Work, Handler
    <2> QED  BY <1>3, <2>1, <2>2, <2>3, <2>4 DEF THandler
  <1>4. CASE TOnAccept
    <2>1. OnAccept
      BY <1>4 DEF TOnAccept, OnAccept, TNewWriter
    <2> QED  BY <2>1 DEF Next, Work
  <1>5. CASE Elsewhere
    BY <1>5 DEF Elsewhere, Next, Work
  <1>6. CASE LeaveRun \/ \E r \in Readers : Reset(r)
    BY <1>6 DEF Next
  <1> QED  BY <1>1, <1>2, <1>3, <1>4, <1>5, <1>6 DEF TNext, TWork

\* The inductive invariant of the handlers: as in HandlersLive, and an object
\* that is not idle and not new has a handler that is done with.
HandlerStates == {"none", "launched", "invoked", "freed"}
HandlersOf(r) ==
    /\ handler[r] = "launched" <=> rop[r].st # "none"
    /\ whandler[r] = "launched" <=> wop[r].st # "none"
    /\ place[r] \notin {"none", "idle"} => handler[r] \in {"invoked", "freed"}
HandlersInv ==
    /\ handler \in [Readers -> HandlerStates] /\ whandler \in [Readers -> HandlerStates]
    /\ \A r \in Readers : HandlersOf(r)
TInv == IInv /\ HandlersInv

LEMMA TInitInv == TInit => TInv
  <1> SUFFICES ASSUME TInit PROVE TInv
    OBVIOUS
  <1>1. IInv
    BY InitInv DEF TInit
  <1>2. HandlersInv
    BY OpTypes DEF TInit, Init, HandlersInv, HandlersOf, HandlerStates
  <1> QED  BY <1>1, <1>2 DEF TInv

\* A step that changes the handler of one reader, or of one writer.
LEMMA ReaderHandler ==
    ASSUME TypeOK, HandlersInv, NEW r \in Readers, NEW h \in HandlerStates,
           handler' = Set(handler, r, h), whandler' = whandler, wop' = wop,
           \A q \in Readers : q # r => rop'[q] = rop[q] /\ place'[q] = place[q],
           h = "launched" <=> rop'[r].st # "none",
           place'[r] \notin {"none", "idle"} => h \in {"invoked", "freed"}
    PROVE  HandlersInv'
  <1>1. handler' \in [Readers -> HandlerStates] /\ handler'[r] = h
        /\ \A q \in Readers : q # r => handler'[q] = handler[q]
    BY DEF HandlersInv, Set
  <1>2. \A q \in Readers : HandlersOf(q)'
    BY <1>1 DEF HandlersInv, HandlersOf
  <1> QED  BY <1>1, <1>2 DEF HandlersInv

LEMMA WriterHandler ==
    ASSUME TypeOK, HandlersInv, NEW r \in Readers, NEW h \in HandlerStates,
           whandler' = Set(whandler, r, h), handler' = handler, rop' = rop, place' = place,
           \A q \in Readers : q # r => wop'[q] = wop[q],
           h = "launched" <=> wop'[r].st # "none"
    PROVE  HandlersInv'
  <1>1. whandler' \in [Readers -> HandlerStates] /\ whandler'[r] = h
        /\ \A q \in Readers : q # r => whandler'[q] = whandler[q]
    BY DEF HandlersInv, Set
  <1>2. \A q \in Readers : HandlersOf(q)'
    BY <1>1 DEF HandlersInv, HandlersOf
  <1> QED  BY <1>1, <1>2 DEF HandlersInv

\* Connection::Read, with the handler.
LEMMA TReadHandlers ==
    ASSUME TypeOK, HandlersInv, NEW r \in Readers, place[r] \in {"OnConnect", "OnRead"},
           TRead(r), whandler' = whandler, wop' = wop
    PROVE  HandlersInv'
  <1>1. /\ sync \in BOOLEAN /\ rop \in [Readers -> Ops]
        /\ place \in [Readers -> {"none", "idle", "OnConnect", "OnRead", "deleted"}]
    BY DEF TypeOK
  <1>2. ASSUME NEW n \in 1..ReaderSize, ReceiveNow(r, n),
               handler' = Set(handler, r, AfterReturn(ReportsInline))
        PROVE  HandlersInv'
    <2>1. n \in Nat
      BY Sizes
    <2>2. Packet("OnRead", n, FALSE).st = "queued" /\ NoOp.st = "none"
      BY DEF Packet, NoOp
    <2>3. /\ rop'[r].st = "none" <=> sync
          /\ \A q \in Readers : q # r => rop'[q] = rop[q] /\ place'[q] = place[q]
      <3>1. rop' = [rop EXCEPT ![r] = IF sync THEN NoOp ELSE Packet("OnRead", n, FALSE)]
        BY <1>2 DEF ReceiveNow, SkipOnSuccess, Set
      <3>2. \A q \in Readers : q # r => place'[q] = place[q]
        BY <1>1, <1>2 DEF ReceiveNow, Goes, Set
      <3> QED  BY <1>1, <2>2, <3>1, <3>2
    <2>4. AfterReturn(ReportsInline) \in {"freed", "launched"}
          /\ (AfterReturn(ReportsInline) = "launched" <=> ~sync)
      BY <1>1 DEF AfterReturn, ReportsInline
    <2>5. place'[r] \notin {"none", "idle"} => sync
      BY <1>1, <1>2 DEF ReceiveNow, Goes, Set, ReportsInline
    <2>6. AfterReturn(ReportsInline) \in HandlerStates
      BY <2>4 DEF HandlerStates
    <2> HIDE DEF HandlerStates
    <2> QED  BY <1>2, <2>3, <2>4, <2>5, <2>6, ReaderHandler
  <1>3. CASE ReceiveLater(r) /\ handler' = Set(handler, r, AfterReturn(FALSE))
    <2>1. /\ handler' = Set(handler, r, "launched") /\ rop'[r].st = "kernel" /\ place'[r] = "idle"
          /\ \A q \in Readers : q # r => rop'[q] = rop[q] /\ place'[q] = place[q]
      BY <1>1, <1>3, OpTypes DEF AfterReturn, ReceiveLater, Goes, Set
    <2> QED  BY <2>1, ReaderHandler DEF HandlerStates
  <1>4. CASE ReceiveError(r) /\ handler' = Set(handler, r, "invoked")
    <2>1. /\ handler' = Set(handler, r, "invoked") /\ rop'[r].st = "none"
          /\ \A q \in Readers : q # r => rop'[q] = rop[q] /\ place'[q] = place[q]
      BY <1>1, <1>4, OpTypes DEF ReceiveError, Finish, Set
    <2> QED  BY <2>1, ReaderHandler DEF HandlerStates
  <1> QED  BY <1>2, <1>3, <1>4 DEF TRead

\* The constructor of tcp_writer and the loop of OnWrite, with the handler.
LEMMA TSendHandlers ==
    ASSUME TypeOK, HandlersInv, NEW r \in Readers, NEW h \in HandlerStates, NEW o,
           wop' = Set(wop, r, o), h = "launched" <=> o.st # "none",
           whandler' = Set(whandler, r, h), handler' = handler, rop' = rop, place' = place
    PROVE  HandlersInv'
  <1>1. wop'[r] = o /\ \A q \in Readers : q # r => wop'[q] = wop[q]
    BY DEF TypeOK, Set
  <1> QED  BY <1>1, WriterHandler

LEMMA TStepInv == TInv /\ [TNext]_tvars => TInv'
  <1> SUFFICES ASSUME TInv, [TNext]_tvars PROVE TInv'
    OBVIOUS
  <1>1. IInv'
    BY StepsMap, StepInv DEF TInv
  <1> SUFFICES HandlersInv'
    BY <1>1 DEF TInv
  <1>2. TypeOK /\ OneOwner /\ HandlersInv
    BY DEF TInv, IInv
  <1>3. /\ sync \in BOOLEAN /\ rop \in [Readers -> Ops] /\ wop \in [Readers -> Ops]
        /\ place \in [Readers -> {"none", "idle", "OnConnect", "OnRead", "deleted"}]
        /\ handler \in [Readers -> HandlerStates] /\ whandler \in [Readers -> HandlerStates]
    BY <1>2 DEF TypeOK, HandlersInv
  <1>4. ASSUME UNCHANGED handlers, UNCHANGED place,
               \A r \in Readers : (rop'[r].st = "none") = (rop[r].st = "none"),
               \A r \in Readers : (wop'[r].st = "none") = (wop[r].st = "none")
        PROVE  HandlersInv'
    <2>1. handler' = handler /\ whandler' = whandler /\ place' = place
      BY <1>4 DEF handlers
    <2>2. ASSUME NEW r \in Readers PROVE HandlersOf(r)'
      <3>1. HandlersOf(r)
        BY <1>2 DEF HandlersInv
      <3>2. /\ (rop'[r].st = "none") = (rop[r].st = "none")
            /\ (wop'[r].st = "none") = (wop[r].st = "none")
        BY <1>4
      <3> QED  BY <2>1, <3>1, <3>2 DEF HandlersOf
    <2> QED  BY <1>2, <2>1, <2>2 DEF HandlersInv
  <1>5. CASE UNCHANGED tvars
    <2>1. UNCHANGED <<handler, whandler, place, rop, wop>>
      BY <1>5 DEF tvars, vars, reader, writer, handlers
    <2> QED  BY <1>4, <2>1 DEF handlers
  <1>6. ASSUME NEW r \in Readers, TStartReader(r)
        PROVE  HandlersInv'
    <2>1. whandler' = whandler /\ wop' = wop
      BY <1>6 DEF TStartReader, StartReader, writer
    <2>2. CASE exit' = "no"
      <3>1. place' = Set(place, r, "idle") /\ rop' = Set(rop, r, Kernel("OnConnect"))
        BY <1>6, <2>2 DEF TStartReader, StartReader, Unexpected
      <3>2. /\ handler' = Set(handler, r, "launched") /\ rop'[r].st = "kernel" /\ place'[r] = "idle"
            /\ \A q \in Readers : q # r => rop'[q] = rop[q] /\ place'[q] = place[q]
        BY <1>3, <1>6, <2>2, <3>1, OpTypes DEF TStartReader, Set
      <3> QED  BY <1>2, <2>1, <3>2, ReaderHandler DEF HandlerStates
    <2>3. CASE exit' # "no"
      <3>1. UNCHANGED <<handler, place, rop>>
        BY <1>6, <2>3 DEF TStartReader, StartReader
      <3> QED  BY <1>4, <2>1, <3>1 DEF handlers
    <2> QED  BY <2>2, <2>3
  <1>7. ASSUME NEW r \in Readers, TOnConnect(r) \/ TOnRead(r)
        PROVE  HandlersInv'
    <2>1. /\ handler' = Set(handler, r, "invoked") /\ rop'[r].st = "none"
          /\ \A q \in Readers : q # r => rop'[q] = rop[q] /\ place'[q] = place[q]
          /\ whandler' = whandler /\ wop' = wop
      BY <1>3, <1>7, OpTypes DEF TOnConnect, TOnRead, OnConnect, OnRead, Finish, Goes, Set, writer
    <2> QED  BY <1>2, <2>1, ReaderHandler DEF HandlerStates
  <1>8. ASSUME NEW r \in Readers, TConnectLoop(r) \/ TReadLoop(r)
        PROVE  HandlersInv'
    <2>1. place[r] \in {"OnConnect", "OnRead"} /\ whandler' = whandler /\ wop' = wop
      BY <1>8 DEF TConnectLoop, TReadLoop, writer
    <2>2. CASE TRead(r)
      BY <1>2, <2>1, <2>2, TReadHandlers
    <2>3. CASE Finish(r) /\ UNCHANGED <<rop, handler>>
      <3>1. handler[r] \in {"invoked", "freed"} /\ (handler[r] = "launched" <=> rop[r].st # "none")
        BY <1>2, <2>1 DEF HandlersInv, HandlersOf
      <3>2. /\ handler' = Set(handler, r, handler[r])
            /\ \A q \in Readers : q # r => rop'[q] = rop[q] /\ place'[q] = place[q]
        BY <1>3, <2>3 DEF Finish, Set
      <3> QED  BY <1>2, <1>3, <2>1, <2>3, <3>1, <3>2, ReaderHandler
    <2> QED  BY <1>8, <2>2, <2>3 DEF TConnectLoop, TReadLoop
  <1>9. ASSUME NEW r \in Readers, TOnWrite(r)
        PROVE  HandlersInv'
    <2>1. /\ wop' = Set(wop, r, NoOp) /\ whandler' = Set(whandler, r, "invoked")
          /\ handler' = handler /\ rop' = rop /\ place' = place
      BY <1>9 DEF TOnWrite, OnWrite, reader
    <2> QED  BY <1>2, <2>1, TSendHandlers, OpTypes DEF HandlerStates
  <1>10. ASSUME NEW r \in Readers, TWriteLoop(r)
         PROVE  HandlersInv'
    <2>1. handler' = handler /\ rop' = rop /\ place' = place
      BY <1>10 DEF TWriteLoop, reader
    <2>2. CASE /\ wop' = Set(wop, r, IF SkipOnSuccess THEN NoOp
                                      ELSE Packet("OnWrite", WriterSize, FALSE))
               /\ whandler' = Set(whandler, r, AfterReturn(ReportsInline))
      <3>1. CASE sync
        <4>1. wop' = Set(wop, r, NoOp) /\ whandler' = Set(whandler, r, "freed")
          BY <2>2, <3>1 DEF SkipOnSuccess, ReportsInline, AfterReturn
        <4> QED  BY <1>2, <2>1, <4>1, TSendHandlers, SendOps DEF HandlerStates
      <3>2. CASE ~sync
        <4>1. /\ wop' = Set(wop, r, Packet("OnWrite", WriterSize, FALSE))
              /\ whandler' = Set(whandler, r, "launched")
          BY <2>2, <3>2 DEF SkipOnSuccess, ReportsInline, AfterReturn
        <4> QED  BY <1>2, <2>1, <4>1, TSendHandlers, SendOps DEF HandlerStates
      <3> QED  BY <3>1, <3>2
    <2>3. CASE SendLater(r) /\ whandler' = Set(whandler, r, AfterReturn(FALSE))
      <3>1. wop' = Set(wop, r, Kernel("OnWrite")) /\ whandler' = Set(whandler, r, "launched")
        BY <2>3 DEF SendLater, AfterReturn
      <3> QED  BY <1>2, <2>1, <3>1, TSendHandlers, SendOps DEF HandlerStates
    <2>4. CASE SendError(r) /\ whandler' = Set(whandler, r, "invoked")
      <3>1. wop' = Set(wop, r, NoOp)
        BY <2>4 DEF SendError
      <3> QED  BY <1>2, <2>1, <2>4, <3>1, TSendHandlers, SendOps DEF HandlerStates
    <2> QED  BY <1>10, <2>2, <2>3, <2>4 DEF TWriteLoop
  <1>11. CASE TOnAccept
    <2> DEFINE r == acceptOp
    <2>1. /\ r \in Readers /\ NewWriter(r)
          /\ whandler' = Set(whandler, r, IF wop'[r].st = "none" THEN "invoked"
                                          ELSE AfterReturn(FALSE))
          /\ handler' = handler /\ rop' = rop /\ place' = place
      BY <1>11 DEF TOnAccept, TNewWriter, reader
    <2> HIDE DEF r
    <2>2. PICK o : wop' = Set(wop, r, o)
      BY <2>1 DEF NewWriter, SendLater, SendError
    <2>3. wop'[r] = o
      BY <1>3, <2>1, <2>2 DEF Set
    <2>4. PICK h \in HandlerStates : whandler' = Set(whandler, r, h) /\ (h = "launched" <=> o.st # "none")
      <3>1. CASE o.st = "none"
        BY <2>1, <2>3, <3>1 DEF HandlerStates
      <3>2. CASE o.st # "none"
        <4>1. whandler' = Set(whandler, r, "launched")
          BY <2>1, <2>3, <3>2 DEF AfterReturn
        <4> QED  BY <3>2, <4>1 DEF HandlerStates
      <3> QED  BY <3>1, <3>2
    <2> QED  BY <1>2, <2>1, <2>2, <2>4, TSendHandlers
  <1>12. CASE /\ Elsewhere \/ LeaveRun \/ \E r \in Readers : Reset(r)
              /\ UNCHANGED handlers
    <2>1. ASSUME NEW r \in Readers, ConnectDone(r) \/ ReadFails(r)
                                   \/ \E n \in 1..ReaderSize : ReadDone(r, n)
          PROVE  HandlersInv'
      <3>1. UNCHANGED <<place, wop>>
        <4>1. CASE ConnectDone(r)
          BY <4>1 DEF ConnectDone, writer
        <4>2. CASE ReadFails(r)
          BY <4>2 DEF ReadFails, writer
        <4>3. CASE \E n \in 1..ReaderSize : ReadDone(r, n)
          BY <4>3 DEF ReadDone, writer
        <4> QED  BY <2>1, <4>1, <4>2, <4>3
      <3>2. PICK o : rop' = Set(rop, r, o) /\ o.st = "queued"
        <4>1. CASE ConnectDone(r)
          BY <4>1 DEF ConnectDone, Packet
        <4>2. CASE ReadFails(r)
          BY <4>2 DEF ReadFails, Packet
        <4>3. CASE \E n \in 1..ReaderSize : ReadDone(r, n)
          BY <4>3 DEF ReadDone, Packet
        <4> QED  BY <2>1, <4>1, <4>2, <4>3
      <3>3. rop[r].st = "kernel"
        <4>1. rop[r] \in {Kernel("OnConnect"), Kernel("OnRead")}
          BY <2>1 DEF ConnectDone, ReadFails, ReadDone
        <4> QED  BY <4>1, OpTypes
      <3> QED  BY <1>3, <1>4, <1>12, <3>1, <3>2, <3>3 DEF Set
    <2>2. ASSUME NEW r \in Readers, WriteDone(r) \/ WriteFails(r)
          PROVE  HandlersInv'
      <3>1. UNCHANGED <<place, rop>> /\ wop[r].st = "kernel"
        BY <2>2 DEF WriteDone, WriteFails, reader
      <3>2. PICK o : wop' = Set(wop, r, o) /\ o.st = "queued"
        BY <2>2 DEF WriteDone, WriteFails, Packet
      <3> QED  BY <1>3, <1>4, <1>12, <3>1, <3>2 DEF Set
    <2>3. CASE \/ StartServer \/ AcceptFailed \/ DestroyPool \/ LeaveRun
               \/ \E r \in Readers : AcceptDone(r) \/ Reset(r)
      <3>1. UNCHANGED <<place, rop, wop>>
        <4>1. ASSUME NEW r \in Readers, AcceptDone(r) \/ Reset(r)
              PROVE  UNCHANGED <<place, rop, wop>>
          BY <4>1 DEF AcceptDone, Reset, reader, writer
        <4>2. CASE StartServer \/ AcceptFailed \/ DestroyPool \/ LeaveRun
          BY <4>2 DEF StartServer, AcceptFailed, DestroyPool, LeaveRun, reader, writer
        <4> QED  BY <2>3, <4>1, <4>2
      <3> QED  BY <1>4, <1>12, <3>1
    <2>4. ASSUME NEW r \in Readers, KernelStep(r) PROVE HandlersInv'
      BY <2>1, <2>2, <2>3, <2>4 DEF KernelStep
    <2> QED  BY <1>12, <2>3, <2>4 DEF Elsewhere
  <1> QED
    BY <1>5, <1>6, <1>7, <1>8, <1>9, <1>10, <1>11, <1>12 DEF TNext, TWork, THandler

-----------------------------------------------------------------------------
\* The theorems about Traditional.cpp.

\* The same with a handler per operation, and each handler is where its object
\* says (Traditional.cpp:103-127, 183-283).
THEOREM TraditionalInvariant == TSpec => []TInv
  BY TInitInv, TStepInv, PTL DEF TSpec

\* Each step of Traditional.cpp is one of Improved.cpp, or nothing that this one
\* knows of: a handler per operation makes no other difference.
THEOREM TraditionalRefines == TSpec => ImplementsImproved
  <1>1. TInit => Init
    BY DEF TInit
  <1> QED  BY <1>1, StepsMap, PTL DEF TSpec, ImplementsImproved

\* A handler that was released is called once and never used when it is gone
\* (Traditional.cpp:15-19, 103-127), and an operation has one owner.
THEOREM TraditionalHandlers == TSpec => [](HandlersLive /\ OneOwner)
  <1>1. TInv => HandlersLive /\ OneOwner
    BY DEF TInv, IInv, HandlersInv, HandlersOf, HandlersLive
  <1> QED  BY <1>1, TraditionalInvariant, PTL

\* So Traditional.cpp, too, ends with the last reader, and serves it.
THEOREM TraditionalDone == TSpec => []DoneMeansServed
  <1>1. TInit => DoneInv
    BY DoneInit DEF TInit
  <1>2. DoneInv /\ [TNext]_tvars => DoneInv'
    BY DoneStep, StepsMap
  <1>3. DoneInv => DoneMeansServed
    BY DEF DoneInv, EndInv, ServedInv, DoneMeansServed
  <1> QED  BY <1>1, <1>2, <1>3, PTL DEF TSpec
=============================================================================
