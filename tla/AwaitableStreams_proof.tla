------------------------ MODULE AwaitableStreams_proof ------------------------
(***************************************************************************)
(* Proofs about AwaitableStreams, for any number of readers, buffers of    *)
(* any size, both modes and every fault.                                   *)
(***************************************************************************)
EXTENDS AwaitableStreams, TLAPS

-----------------------------------------------------------------------------
\* The inductive invariant.

\* A reader awaits connects and reads, a writer writes, and what is awaited says
\* how far a connection is; a reader that awaits anything waits for bytes.
Awaits(r) ==
    /\ rop[r] \in {"none", "connecting", "connected", "reading", "read", "read failed"}
    /\ wop[r] \in {"none", "writing", "written", "write failed"}
    /\ rop[r] # "none" \/ reader[r] = "none" => total[r] > 0
    /\ reader[r] = "none" \/ rop[r] = "connecting" <=> link[r] = "none"
    /\ rop[r] = "read failed" => link[r] = "reset"

\* A connection goes from the backlog to the server's AcceptEx to its ServeClient.
Served(r) ==
    /\ link[r] = "none" => writer[r] = "none" /\ r \notin backlog /\ acceptOp # r
    /\ r \in backlog => writer[r] = "none" /\ acceptOp # r
    /\ acceptOp = r => writer[r] = "none"

\* Nothing happens before Server() has been called.
Before ==
    main = "server" =>
        /\ acceptOp = "none" /\ serving = NoReader
        /\ \A r \in Readers : reader[r] = "none"

IInv ==
    /\ TypeOK /\ OneOwner /\ CountsReads /\ Before
    /\ \A r \in Readers : Awaits(r) /\ Served(r)

LEMMA Sizes ==
    /\ Bytes \in Nat \ {0} /\ ReaderSize \in Nat \ {0} /\ WriterSize \in Nat \ {0}
    /\ Window \in Nat
    /\ NoReader \notin Readers /\ "none" \notin Readers /\ "kernel" \notin Readers
  BY SizesAssumption, ChoicesAssumption

LEMMA InitInv == Init => IInv
  <1> SUFFICES ASSUME Init PROVE IInv
    OBVIOUS
  <1>1. Bytes \in 1-ReaderSize..Bytes /\ 0 \in 0..Window
    BY Sizes
  <1>2. TypeOK
    BY <1>1 DEF Init, TypeOK, Ops
  <1>3. CountsReads
    <2> SUFFICES ASSUME NEW r \in Readers
                 PROVE  received[r] <= Counted(r) /\ Counted(r) <= ReaderSize * received[r]
      BY DEF CountsReads
    <2>1. received[r] = 0 /\ Counted(r) = 0
      BY Sizes DEF Init, Counted
    <2> QED  BY Sizes, <2>1
  <1>4. \A r \in Readers : Awaits(r) /\ Served(r)
    <2> SUFFICES ASSUME NEW r \in Readers PROVE Awaits(r) /\ Served(r)
      OBVIOUS
    <2>1. /\ rop[r] = "none" /\ wop[r] = "none" /\ total[r] = Bytes /\ reader[r] = "none"
          /\ link[r] = "none" /\ writer[r] = "none" /\ backlog = {} /\ acceptOp = "none"
      BY DEF Init
    <2> QED  BY Sizes, <2>1 DEF Awaits, Served
  <1>5. OneOwner /\ Before
    BY DEF Init, OneOwner, Before
  <1> QED  BY <1>2, <1>3, <1>4, <1>5 DEF IInv

-----------------------------------------------------------------------------
\* The invariant for one reader or connection, and for the process.

Counts(r) ==
    /\ received[r] <= Counted(r)
    /\ link[r] # "reset" => Counted(r) <= ReaderSize * received[r]
Owner(r) ==
    /\ reader[r] = "suspended" <=> rop[r] # "none"
    /\ writer[r] = "suspended" <=> wop[r] # "none"
Types(r) ==
    /\ reader[r] \in {"none", "running", "suspended", "freed"}
    /\ total[r] \in 1-ReaderSize..Bytes
    /\ writer[r] \in {"none", "running", "suspended", "freed"}
    /\ link[r] \in {"none", "up", "reset"}
    /\ stream[r] \in 0..Window /\ received[r] \in Nat

Each(r) == Types(r) /\ Owner(r) /\ Counts(r) /\ Awaits(r) /\ Served(r)

\* The shape of the state: which variables are functions of the readers.
Shape ==
    /\ reader = [r \in Readers |-> reader[r]] /\ rop = [r \in Readers |-> rop[r]]
    /\ total = [r \in Readers |-> total[r]]
    /\ writer = [r \in Readers |-> writer[r]] /\ wop = [r \in Readers |-> wop[r]]
    /\ link = [r \in Readers |-> link[r]] /\ stream = [r \in Readers |-> stream[r]]
    /\ received = [r \in Readers |-> received[r]]

Common ==
    /\ sync \in Modes /\ main \in {"server", "readers", "sleeping"}
    /\ exit \in {"no", "timeout", "panic"}
    /\ acceptOp \in {"none", "kernel"} \cup Readers
    /\ serving \in Readers \cup {NoReader} /\ backlog \subseteq Readers
    /\ exit = "no" /\ main # "server" => (acceptOp = "none" <=> serving # NoReader)
    /\ exit = "no" /\ serving # NoReader => writer[serving] = "running"
    /\ Before

EachIInv == Common /\ Shape /\ \A r \in Readers : Each(r)

LEMMA Parts == IInv <=> EachIInv
  <1>1. IInv => Common /\ Shape
    BY DEF IInv, TypeOK, OneOwner, Common, Shape
  <1>2. IInv => \A r \in Readers : Each(r)
    BY DEF IInv, TypeOK, OneOwner, CountsReads, Each, Types, Owner, Counts
  <1>3. ASSUME Common, Shape, \A r \in Readers : Each(r) PROVE IInv
    <2>1. \A r \in Readers : rop[r] \in Ops /\ wop[r] \in Ops
      BY <1>3 DEF Each, Awaits, Ops, Packets
    <2>2. TypeOK
      <3>1. reader \in [Readers -> {"none", "running", "suspended", "freed"}]
        BY <1>3 DEF Shape, Each, Types
      <3>2. rop \in [Readers -> Ops] /\ wop \in [Readers -> Ops]
        BY <1>3, <2>1 DEF Shape
      <3>3. total \in [Readers -> 1-ReaderSize..Bytes] /\ received \in [Readers -> Nat]
        BY <1>3 DEF Shape, Each, Types
      <3>4. writer \in [Readers -> {"none", "running", "suspended", "freed"}]
        BY <1>3 DEF Shape, Each, Types
      <3>5. link \in [Readers -> {"none", "up", "reset"}] /\ stream \in [Readers -> 0..Window]
        BY <1>3 DEF Shape, Each, Types
      <3> QED  BY <1>3, <3>1, <3>2, <3>3, <3>4, <3>5 DEF TypeOK, Common
    <2>3. OneOwner /\ CountsReads
      BY <1>3 DEF Common, Each, Owner, Counts, OneOwner, CountsReads
    <2> QED  BY <1>3, <2>2, <2>3 DEF IInv, Common, Each
  <1> QED  BY <1>1, <1>2, <1>3 DEF EachIInv

\* What a step leaves alone of reader or connection q.
Same(q) ==
    /\ reader'[q] = reader[q] /\ rop'[q] = rop[q] /\ total'[q] = total[q]
    /\ writer'[q] = writer[q] /\ wop'[q] = wop[q]
    /\ link'[q] = link[q] /\ stream'[q] = stream[q] /\ received'[q] = received[q]

LEMMA SameEach ==
    ASSUME NEW q \in Readers, Each(q), Same(q),
           q \in backlog' => q \in backlog, acceptOp' = q => acceptOp = q \/ q \in backlog,
           acceptOp' = q => q \notin backlog'
    PROVE  Each(q)'
  <1>1. Types(q)' /\ Owner(q)' /\ Counts(q)' /\ Awaits(q)'
    BY DEF Each, Same, Types, Owner, Counts, Counted, Awaits
  <1>2. Served(q)'
    BY DEF Each, Same, Served
  <1> QED  BY <1>1, <1>2 DEF Each

\* A step of reader r or of its connection.
LEMMA OneReader ==
    ASSUME IInv, NEW r \in Readers, Each(r)', Shape', Common',
           \A q \in Readers : q # r => Same(q),
           backlog' \subseteq backlog \cup {r},
           acceptOp' \in {acceptOp, "none", "kernel", r}
    PROVE  IInv'
  <1>1. Common /\ Shape /\ \A q \in Readers : Each(q)
    BY Parts DEF EachIInv
  <1>2. ASSUME NEW q \in Readers, q # r PROVE Each(q)'
    <2>1. acceptOp' = q => acceptOp = q
      BY <1>2, Sizes
    <2>2. acceptOp' = q => q \notin backlog'
      BY <1>1, <1>2, <2>1 DEF Each, Served
    <2> QED  BY <1>1, <1>2, <2>1, <2>2, SameEach
  <1>3. EachIInv'
    BY <1>2 DEF EachIInv
  <1>4. IInv' <=> EachIInv'
    BY Parts, PTL
  <1> QED  BY <1>3, <1>4

-----------------------------------------------------------------------------
\* The steps.

LEMMA StartReaderStep == ASSUME IInv, NEW r \in Readers, StartReader(r) PROVE IInv'
  <1> USE DEF readers, writers, tcp, process, server
  <1>1. Common /\ Shape /\ Each(r) /\ \A q \in Readers : Each(q)
    BY Parts DEF EachIInv
  <1>2. Shape' /\ \A q \in Readers : q # r => Same(q)
    BY <1>1 DEF StartReader, Unexpected, Shape, Set, Same
  <1>3. Each(r)'
    <2>1. Types(r)'
      BY <1>1, Sizes DEF StartReader, Unexpected, Shape, Set, Each, Types, Awaits, Owner, Counts, Counted
    <2>2. Owner(r)'
      BY <1>1 DEF StartReader, Unexpected, Shape, Set, Each, Owner
    <2>3. Awaits(r)'
      BY <1>1, Sizes DEF StartReader, Unexpected, Shape, Set, Each, Owner, Types, Awaits
    <2>4. Served(r)'
      BY <1>1, Sizes DEF StartReader, Unexpected, Shape, Set, Each, Served, Awaits, Owner
    <2>5. Counts(r)'
      BY <1>1, Sizes
         DEF StartReader, Unexpected, Shape, Set, Each, Types, Counts, Counted, Awaits, Owner
    <2> QED  BY <2>1, <2>2, <2>3, <2>4, <2>5 DEF Each
  <1>4. Common'
    BY <1>1, Sizes
       DEF StartReader, Unexpected, Shape, Set, Common, Before, Each, Owner, Awaits, Served
  <1> QED  BY <1>1, <1>2, <1>3, <1>4, OneReader DEF StartReader, Unexpected, Common

LEMMA ReaderResumesStep == ASSUME IInv, NEW r \in Readers, ReaderResumes(r) PROVE IInv'
  <1> USE DEF readers, writers, tcp, process, server
  <1>1. Common /\ Shape /\ Each(r) /\ \A q \in Readers : Each(q)
    BY Parts DEF EachIInv
  <1>2. Shape' /\ \A q \in Readers : q # r => Same(q)
    BY <1>1 DEF ReaderResumes, Shape, Set, Same
  <1>3. /\ rop[r] # "none" /\ total[r] > 0 /\ rop'[r] = "none"
        /\ total'[r] \in {total[r], total[r] - ReaderSize}
        /\ rop[r] = "read" => total'[r] = total[r] - ReaderSize
        /\ reader'[r] = "running"
        /\ writer'[r] = writer[r] /\ link'[r] = link[r]
        /\ stream'[r] = stream[r] /\ received'[r] = received[r]
    BY <1>1 DEF ReaderResumes, Shape, Set, Each, Awaits, Owner, AwaitResume
  <1>4. Each(r)'
    <2>1. Types(r)'
      BY <1>1, <1>3, Sizes DEF Each, Types
    <2>2. Owner(r)'
      BY <1>1 DEF ReaderResumes, Shape, Set, Each, Owner, Packets
    <2>3. Awaits(r)'
      BY <1>1, Sizes DEF ReaderResumes, Shape, Set, Each, Owner, Types, Awaits, Packets
    <2>4. Served(r)'
      BY <1>1, Sizes DEF ReaderResumes, Shape, Set, Each, Served, Awaits, Owner
    <2>5. Counts(r)'
      <3>1. CASE rop[r] = "read"
        <4>1. Counted(r)' = Counted(r)
          BY <1>1, <1>3, <3>1, Sizes DEF Each, Types, Counted
        <4> QED  BY <1>1, <1>3, <4>1 DEF Each, Counts
      <3>2. CASE rop[r] # "read" /\ total'[r] = total[r]
        <4>1. Counted(r)' = Counted(r)
          BY <1>1, <1>3, <3>2, Sizes DEF Each, Types, Counted
        <4> QED  BY <1>1, <1>3, <4>1 DEF Each, Counts
      <3>3. CASE rop[r] # "read" /\ rop[r] = "read failed"
        <4>1. Counted(r)' >= Counted(r) /\ Counted(r) \in Int /\ Counted(r)' \in Int
          <5>1. total[r] \in Int /\ total'[r] \in Int /\ total'[r] <= total[r]
            BY <1>1, <1>3, Sizes DEF Each, Types
          <5>2. Counted(r) = Bytes - total[r]
            <6>1. rop[r] # "read"
              BY <3>3
            <6> QED  BY <5>1, <6>1, Sizes DEF Counted
          <5>3. Counted(r)' = Bytes - total'[r]
            BY <1>3, <5>1, Sizes DEF Counted
          <5> QED  BY <5>1, <5>2, <5>3, Sizes
        <4>2. link'[r] = "reset" /\ received'[r] = received[r] /\ received[r] <= Counted(r)
          BY <1>1, <1>3, <3>3 DEF Each, Counts, Awaits
        <4>3. received[r] \in Nat
          BY <1>1 DEF Each, Types
        <4> QED  BY <4>1, <4>2, <4>3 DEF Counts
      <3>4. rop[r] = "read failed" \/ rop[r] = "read" \/ total'[r] = total[r]
        BY <1>1 DEF ReaderResumes, Shape
      <3> QED  BY <3>1, <3>2, <3>3, <3>4
    <2> QED  BY <2>1, <2>2, <2>3, <2>4, <2>5 DEF Each
  <1>5. Common'
    BY <1>1, Sizes
       DEF ReaderResumes, Shape, Set, Common, Before, Each, Owner, Awaits, Served, Packets
  <1> QED  BY <1>1, <1>2, <1>4, <1>5, OneReader DEF ReaderResumes, Common

LEMMA ReaderEndsStep == ASSUME IInv, NEW r \in Readers, ReaderEnds(r) PROVE IInv'
  <1> USE DEF readers, writers, tcp, process, server
  <1>1. Common /\ Shape /\ Each(r) /\ \A q \in Readers : Each(q)
    BY Parts DEF EachIInv
  <1>2. Shape' /\ \A q \in Readers : q # r => Same(q)
    BY <1>1 DEF ReaderEnds, Shape, Set, Same
  <1>3. Each(r)'
    BY <1>1, Sizes
       DEF ReaderEnds, Shape, Set, Each, Types, Owner, Counts, Counted, Awaits, Served
  <1>4. Common'
    BY <1>1, Sizes
       DEF ReaderEnds, Shape, Set, Common, Before, Each, Owner, Awaits, Served
  <1> QED  BY <1>1, <1>2, <1>3, <1>4, OneReader DEF ReaderEnds, Common

LEMMA ReadLaterStep == ASSUME IInv, NEW r \in Readers, ReadLater(r) PROVE IInv'
  <1> USE DEF readers, writers, tcp, process, server
  <1>1. Common /\ Shape /\ Each(r) /\ \A q \in Readers : Each(q)
    BY Parts DEF EachIInv
  <1>2. Shape' /\ \A q \in Readers : q # r => Same(q)
    BY <1>1 DEF ReadLater, Shape, Set, Same
  <1>3. /\ link' = link /\ UNCHANGED <<sync, main, acceptOp, serving, backlog, writer>>
        /\ reader[r] = "running" /\ main # "server" /\ link[r] # "none"
        /\ (exit' = exit /\ link[r] = "up") \/ (exit' = "panic" /\ link[r] # "up")
        /\ exit = "no"
    BY <1>1 DEF ReadLater, Each, Owner, Awaits, Common, Before
  <1>4. Each(r)'
    <2>1. Types(r)'
      BY <1>1, Sizes DEF ReadLater, Shape, Set, Each, Types, Awaits, Owner, Counts, Counted
    <2>2. Owner(r)'
      BY <1>1 DEF ReadLater, Shape, Set, Each, Owner
    <2>3. Awaits(r)'
      BY <1>1, Sizes DEF ReadLater, Shape, Set, Each, Owner, Types, Awaits, Unfinished
    <2>4. Served(r)'
      BY <1>1, Sizes DEF ReadLater, Shape, Set, Each, Served, Awaits, Owner
    <2>5. Counts(r)'
      BY <1>1, Sizes DEF ReadLater, Shape, Set, Each, Types, Counts, Counted, Awaits, Owner
    <2> QED  BY <2>1, <2>2, <2>3, <2>4, <2>5 DEF Each
  <1>5. Common'
    BY <1>1, <1>3 DEF Common, Before, Each, Types
  <1> QED  BY <1>1, <1>2, <1>4, <1>5, OneReader DEF ReadLater, Common

LEMMA WriterResumesStep == ASSUME IInv, NEW r \in Readers, WriterResumes(r) PROVE IInv'
  <1> USE DEF readers, writers, tcp, process, server
  <1>1. Common /\ Shape /\ Each(r) /\ \A q \in Readers : Each(q)
    BY Parts DEF EachIInv
  <1>2. Shape' /\ \A q \in Readers : q # r => Same(q)
    BY <1>1 DEF WriterResumes, Shape, Set, Same
  <1>3. Each(r)'
    BY <1>1, Sizes
       DEF WriterResumes, Shape, Set, Each, Types, Owner, Counts, Counted, Awaits, Served, Packets
  <1>4. Common'
    BY <1>1, Sizes
       DEF WriterResumes, Shape, Set, Common, Before, Each, Owner, Awaits, Served, Packets
  <1> QED  BY <1>1, <1>2, <1>3, <1>4, OneReader DEF WriterResumes, Common

LEMMA WriteNowStep == ASSUME IInv, NEW r \in Readers, WriteNow(r) PROVE IInv'
  <1> USE DEF readers, writers, tcp, process, server
  <1>1. Common /\ Shape /\ Each(r) /\ \A q \in Readers : Each(q)
    BY Parts DEF EachIInv
  <1>2. Shape' /\ \A q \in Readers : q # r => Same(q)
    BY <1>1 DEF WriteNow, Shape, Set, Same
  <1>3. /\ stream'[r] = stream[r] + WriterSize /\ stream[r] + WriterSize <= Window
        /\ writer'[r] \in {"running", "suspended"}
        /\ reader'[r] = reader[r] /\ total'[r] = total[r] /\ link'[r] = link[r]
        /\ received'[r] = received[r]
    BY <1>1 DEF WriteNow, Room, Shape, Set
  <1>4. /\ acceptOp' \in {acceptOp, "kernel"} /\ acceptOp' # r /\ writer[r] = "running"
        /\ backlog' = backlog /\ r \notin backlog /\ link'[r] = link[r] /\ link[r] # "none"
        /\ UNCHANGED <<sync, main, reader, link>> /\ exit = "no" /\ exit' \in {"no", "panic"}
    BY <1>1, Sizes DEF WriteNow, Yield, Unexpected, Shape, Set, Each, Served
  <1>5. /\ main # "server" /\ (exit' = "no" => (acceptOp' = "none" <=> serving' # NoReader))
        /\ serving' \in {serving, NoReader}
        /\ serving' # NoReader => writer'[serving'] = "running"
    <2>1. main # "server" /\ (acceptOp = "none" <=> serving # NoReader)
      BY <1>1, <1>4 DEF Common, Before, Each, Awaits
    <2>2. /\ \A q \in Readers : q # r => writer'[q] = writer[q]
          /\ serving \in Readers => writer[serving] = "running"
          /\ serving \in Readers \cup {NoReader}
      BY <1>1, <1>2, <1>4, Sizes DEF Same, Common
    <2>3. CASE serving' = NoReader /\ (acceptOp' = "kernel" \/ exit' = "panic")
      BY <2>1, <2>3
    <2>4. CASE UNCHANGED <<serving, acceptOp>> /\ (serving = r => writer' = writer)
      BY <2>1, <2>2, <2>4
    <2> QED  BY <2>3, <2>4 DEF WriteNow, Yield, Unexpected
  <1>6. Each(r)'
    <2>1. Types(r)'
      BY <1>1, <1>3, Sizes DEF Each, Types
    <2>2. Owner(r)'
      BY <1>1 DEF WriteNow, Shape, Set, Each, Owner
    <2>3. Awaits(r)'
      BY <1>1, Sizes DEF WriteNow, Shape, Set, Each, Owner, Types, Awaits
    <2>4. Served(r)'
      BY <1>1, <1>4 DEF Each, Served
    <2>5. Counts(r)'
      BY <1>1, Sizes DEF WriteNow, Shape, Set, Each, Types, Counts, Counted, Awaits, Owner
    <2> QED  BY <2>1, <2>2, <2>3, <2>4, <2>5 DEF Each
  <1>7. Common'
    BY <1>1, <1>4, <1>5 DEF Common, Before
  <1> QED  BY <1>1, <1>2, <1>6, <1>7, OneReader DEF WriteNow, Common, Yield, Unexpected

LEMMA WriteLaterStep == ASSUME IInv, NEW r \in Readers, WriteLater(r) PROVE IInv'
  <1> USE DEF readers, writers, tcp, process, server
  <1>1. Common /\ Shape /\ Each(r) /\ \A q \in Readers : Each(q)
    BY Parts DEF EachIInv
  <1>2. Shape' /\ \A q \in Readers : q # r => Same(q)
    BY <1>1 DEF WriteLater, Shape, Set, Same
  <1>3. /\ acceptOp' \in {acceptOp, "kernel"} /\ acceptOp' # r /\ writer[r] = "running"
        /\ backlog' = backlog /\ r \notin backlog /\ link'[r] = link[r] /\ link[r] # "none"
        /\ UNCHANGED <<sync, main, reader, link>> /\ exit = "no" /\ exit' \in {"no", "panic"}
    BY <1>1, Sizes DEF WriteLater, Yield, Unexpected, Shape, Set, Each, Served
  <1>4. /\ main # "server" /\ (exit' = "no" => (acceptOp' = "none" <=> serving' # NoReader))
        /\ serving' \in {serving, NoReader}
        /\ serving' # NoReader => writer'[serving'] = "running"
    <2>1. main # "server" /\ (acceptOp = "none" <=> serving # NoReader)
      BY <1>1, <1>3 DEF Common, Before, Each, Awaits
    <2>2. /\ \A q \in Readers : q # r => writer'[q] = writer[q]
          /\ serving \in Readers => writer[serving] = "running"
          /\ serving \in Readers \cup {NoReader}
      BY <1>1, <1>2, <1>3, Sizes DEF Same, Common
    <2>3. CASE serving' = NoReader /\ (acceptOp' = "kernel" \/ exit' = "panic")
      BY <2>1, <2>3
    <2>4. CASE UNCHANGED <<serving, acceptOp>> /\ (serving = r => writer' = writer)
      BY <2>1, <2>2, <2>4
    <2> QED  BY <2>3, <2>4 DEF WriteLater, Yield, Unexpected
  <1>5. Each(r)'
    <2>1. Types(r)'
      BY <1>1, Sizes DEF WriteLater, Shape, Set, Each, Types, Awaits, Owner, Counts, Counted
    <2>2. Owner(r)'
      BY <1>1 DEF WriteLater, Shape, Set, Each, Owner
    <2>3. Awaits(r)'
      BY <1>1, Sizes DEF WriteLater, Shape, Set, Each, Owner, Types, Awaits
    <2>4. Served(r)'
      BY <1>1, <1>3 DEF Each, Served
    <2>5. Counts(r)'
      BY <1>1, Sizes DEF WriteLater, Shape, Set, Each, Types, Counts, Counted, Awaits, Owner
    <2> QED  BY <2>1, <2>2, <2>3, <2>4, <2>5 DEF Each
  <1>6. Common'
    BY <1>1, <1>3, <1>4 DEF Common, Before
  <1> QED  BY <1>1, <1>2, <1>5, <1>6, OneReader DEF WriteLater, Common, Yield, Unexpected

LEMMA ConnectDoneStep == ASSUME IInv, NEW r \in Readers, ConnectDone(r) PROVE IInv'
  <1> USE DEF readers, writers, tcp, process, server
  <1>1. Common /\ Shape /\ Each(r) /\ \A q \in Readers : Each(q)
    BY Parts DEF EachIInv
  <1>2. Shape' /\ \A q \in Readers : q # r => Same(q)
    BY <1>1 DEF ConnectDone, Shape, Set, Same
  <1>3. /\ reader[r] = "suspended" /\ main # "server" /\ link[r] = "none" /\ total[r] > 0
        /\ rop' = Set(rop, r, "connected") /\ link' = Set(link, r, "up")
        /\ backlog' = backlog \cup {r} /\ link'[r] = "up" /\ rop'[r] = "connected"
        /\ \A q \in Readers : (link'[q] = "reset" <=> link[q] = "reset")
        /\ UNCHANGED <<sync, main, exit, acceptOp, serving, writer, reader>>
    BY <1>1 DEF ConnectDone, Shape, Set, Each, Awaits, Owner, Common, Before
  <1>4. Each(r)'
    <2>1. Types(r)'
      BY <1>1, Sizes DEF ConnectDone, Shape, Set, Each, Types, Awaits, Owner, Counts, Counted
    <2>2. Owner(r)'
      BY <1>1 DEF ConnectDone, Shape, Set, Each, Owner
    <2>3. Awaits(r)'
      BY <1>1, <1>3 DEF ConnectDone, Each, Awaits
    <2>4. Served(r)'
      BY <1>1, Sizes DEF ConnectDone, Shape, Set, Each, Served, Awaits, Owner
    <2>5. Counts(r)'
      BY <1>1, Sizes
         DEF ConnectDone, Shape, Set, Each, Types, Counts, Counted, Awaits, Owner
    <2> QED  BY <2>1, <2>2, <2>3, <2>4, <2>5 DEF Each
  <1>5. Common'
    BY <1>1, <1>3 DEF Common, Before
  <1> QED  BY <1>1, <1>2, <1>4, <1>5, OneReader DEF ConnectDone, Common

LEMMA AcceptDoneStep == ASSUME IInv, NEW r \in Readers, AcceptDone(r) PROVE IInv'
  <1> USE DEF readers, writers, tcp, process, server
  <1>1. Common /\ Shape /\ Each(r) /\ \A q \in Readers : Each(q)
    BY Parts DEF EachIInv
  <1>2. Shape' /\ \A q \in Readers : q # r => Same(q)
    BY <1>1 DEF AcceptDone, Shape, Set, Same
  <1>3. Each(r)'
    BY <1>1, Sizes
       DEF AcceptDone, Shape, Set, Each, Types, Owner, Counts, Counted, Awaits, Served
  <1>4. Common'
    BY <1>1, Sizes
       DEF AcceptDone, Shape, Set, Common, Before, Each, Owner, Awaits, Served
  <1> QED  BY <1>1, <1>2, <1>3, <1>4, OneReader DEF AcceptDone, Common

LEMMA ReadFailsStep == ASSUME IInv, NEW r \in Readers, ReadFails(r) PROVE IInv'
  <1> USE DEF readers, writers, tcp, process, server
  <1>1. Common /\ Shape /\ Each(r) /\ \A q \in Readers : Each(q)
    BY Parts DEF EachIInv
  <1>2. Shape' /\ \A q \in Readers : q # r => Same(q)
    BY <1>1 DEF ReadFails, Shape, Set, Same
  <1>3. Each(r)'
    BY <1>1, Sizes
       DEF ReadFails, Shape, Set, Each, Types, Owner, Counts, Counted, Awaits, Served
  <1>4. Common'
    BY <1>1, Sizes
       DEF ReadFails, Shape, Set, Common, Before, Each, Owner, Awaits, Served
  <1> QED  BY <1>1, <1>2, <1>3, <1>4, OneReader DEF ReadFails, Common

LEMMA WriteDoneStep == ASSUME IInv, NEW r \in Readers, WriteDone(r) PROVE IInv'
  <1> USE DEF readers, writers, tcp, process, server
  <1>1. Common /\ Shape /\ Each(r) /\ \A q \in Readers : Each(q)
    BY Parts DEF EachIInv
  <1>2. Shape' /\ \A q \in Readers : q # r => Same(q)
    BY <1>1 DEF WriteDone, Shape, Set, Same
  <1>3. /\ stream'[r] = stream[r] + WriterSize /\ stream[r] + WriterSize <= Window
        /\ writer'[r] = writer[r] /\ reader'[r] = reader[r] /\ total'[r] = total[r]
        /\ link'[r] = link[r] /\ received'[r] = received[r]
    BY <1>1 DEF WriteDone, Room, Shape, Set
  <1>4. Each(r)'
    <2>1. Types(r)'
      BY <1>1, <1>3, Sizes DEF Each, Types
    <2>2. Owner(r)'
      BY <1>1 DEF WriteDone, Shape, Set, Each, Owner
    <2>3. Awaits(r)'
      BY <1>1, Sizes DEF WriteDone, Shape, Set, Each, Owner, Types, Awaits
    <2>4. Served(r)'
      BY <1>1, Sizes DEF WriteDone, Shape, Set, Each, Served, Awaits, Owner
    <2>5. Counts(r)'
      BY <1>1, Sizes DEF WriteDone, Shape, Set, Each, Types, Counts, Counted, Awaits, Owner
    <2> QED  BY <2>1, <2>2, <2>3, <2>4, <2>5 DEF Each
  <1>5. Common'
    BY <1>1, Sizes
       DEF WriteDone, Shape, Set, Common, Before, Each, Owner, Awaits, Served
  <1> QED  BY <1>1, <1>2, <1>4, <1>5, OneReader DEF WriteDone, Common

LEMMA WriteFailsStep == ASSUME IInv, NEW r \in Readers, WriteFails(r) PROVE IInv'
  <1> USE DEF readers, writers, tcp, process, server
  <1>1. Common /\ Shape /\ Each(r) /\ \A q \in Readers : Each(q)
    BY Parts DEF EachIInv
  <1>2. Shape' /\ \A q \in Readers : q # r => Same(q)
    BY <1>1 DEF WriteFails, Shape, Set, Same
  <1>3. Each(r)'
    BY <1>1, Sizes
       DEF WriteFails, Shape, Set, Each, Types, Owner, Counts, Counted, Awaits, Served
  <1>4. Common'
    BY <1>1, Sizes
       DEF WriteFails, Shape, Set, Common, Before, Each, Owner, Awaits, Served
  <1> QED  BY <1>1, <1>2, <1>3, <1>4, OneReader DEF WriteFails, Common

LEMMA ResetStep == ASSUME IInv, NEW r \in Readers, Reset(r) PROVE IInv'
  <1> USE DEF readers, writers, tcp, process, server
  <1>1. Common /\ Shape /\ Each(r) /\ \A q \in Readers : Each(q)
    BY Parts DEF EachIInv
  <1>2. Shape' /\ \A q \in Readers : q # r => Same(q)
    BY <1>1 DEF Reset, Shape, Set, Same
  <1>3. /\ stream'[r] = 0 /\ link'[r] = "reset"
        /\ writer'[r] = writer[r] /\ reader'[r] = reader[r] /\ total'[r] = total[r]
        /\ received'[r] = received[r]
    BY <1>1 DEF Reset, Shape, Set
  <1>4. Each(r)'
    <2>1. Types(r)'
      BY <1>1, <1>3, Sizes DEF Each, Types
    <2>2. Owner(r)'
      BY <1>1 DEF Reset, Shape, Set, Each, Owner
    <2>3. Awaits(r)'
      BY <1>1, Sizes DEF Reset, Shape, Set, Each, Owner, Types, Awaits
    <2>4. Served(r)'
      BY <1>1, Sizes DEF Reset, Shape, Set, Each, Served, Awaits, Owner
    <2>5. Counts(r)'
      BY <1>1, Sizes DEF Reset, Shape, Set, Each, Types, Counts, Counted, Awaits, Owner
    <2> QED  BY <2>1, <2>2, <2>3, <2>4, <2>5 DEF Each
  <1>5. Common'
    BY <1>1, Sizes
       DEF Reset, Shape, Set, Common, Before, Each, Owner, Awaits, Served
  <1> QED  BY <1>1, <1>2, <1>4, <1>5, OneReader DEF Reset, Common

LEMMA ReadNowStep ==
    ASSUME IInv, NEW r \in Readers, NEW n \in 1..ReaderSize, ReadNow(r, n)
    PROVE  IInv'
  <1> USE DEF readers, writers, tcp, process, server
  <1>1. Common /\ Shape /\ Each(r) /\ \A q \in Readers : Each(q)
    BY Parts DEF EachIInv
  <1>2. Shape' /\ \A q \in Readers : q # r => Same(q)
    BY <1>1 DEF ReadNow, Shape, Set, Same
  <1>3. /\ stream'[r] = stream[r] - n /\ received'[r] = received[r] + n /\ n <= stream[r]
        /\ writer'[r] = writer[r] /\ link'[r] = link[r] /\ total[r] > 0
        /\ reader'[r] \in {"running", "suspended"} /\ rop[r] = "none"
        /\ \/ total'[r] = total[r] - ReaderSize /\ rop'[r] = "none"
           \/ total'[r] = total[r] /\ rop'[r] = "read"
    BY <1>1 DEF ReadNow, Unfinished, AwaitResume, Shape, Set, Each, Owner
  <1>4. Each(r)'
    <2>1. Types(r)'
      BY <1>1, <1>3, Sizes DEF Each, Types
    <2>2. Owner(r)'
      BY <1>1 DEF ReadNow, Shape, Set, Each, Owner
    <2>3. Awaits(r)'
      BY <1>1, Sizes DEF ReadNow, Shape, Set, Each, Owner, Types, Awaits, Unfinished
    <2>4. Served(r)'
      BY <1>1, Sizes DEF ReadNow, Shape, Set, Each, Served, Awaits, Owner
    <2>5. Counts(r)'
      BY <1>1, <1>3, Sizes DEF Each, Types, Counts, Counted
    <2> QED  BY <2>1, <2>2, <2>3, <2>4, <2>5 DEF Each
  <1>5. Common'
    BY <1>1, Sizes
       DEF ReadNow, Shape, Set, Common, Before, Each, Owner, Awaits, Served
  <1> QED  BY <1>1, <1>2, <1>4, <1>5, OneReader DEF ReadNow, Common

LEMMA ReadDoneStep ==
    ASSUME IInv, NEW r \in Readers, NEW n \in 1..ReaderSize, ReadDone(r, n)
    PROVE  IInv'
  <1> USE DEF readers, writers, tcp, process, server
  <1>1. Common /\ Shape /\ Each(r) /\ \A q \in Readers : Each(q)
    BY Parts DEF EachIInv
  <1>2. Shape' /\ \A q \in Readers : q # r => Same(q)
    BY <1>1 DEF ReadDone, Shape, Set, Same
  <1>3. /\ stream'[r] = stream[r] - n /\ received'[r] = received[r] + n /\ n <= stream[r]
        /\ writer'[r] = writer[r] /\ link'[r] = link[r] /\ total'[r] = total[r]
        /\ reader'[r] = reader[r] /\ rop[r] = "reading" /\ rop'[r] = "read"
    BY <1>1 DEF ReadDone, Shape, Set
  <1>4. Each(r)'
    <2>1. Types(r)'
      BY <1>1, <1>3, Sizes DEF Each, Types
    <2>2. Owner(r)'
      BY <1>1 DEF ReadDone, Shape, Set, Each, Owner
    <2>3. Awaits(r)'
      BY <1>1, Sizes DEF ReadDone, Shape, Set, Each, Owner, Types, Awaits
    <2>4. Served(r)'
      BY <1>1, Sizes DEF ReadDone, Shape, Set, Each, Served, Awaits, Owner
    <2>5. Counts(r)'
      BY <1>1, <1>3, Sizes DEF Each, Types, Counts, Counted
    <2> QED  BY <2>1, <2>2, <2>3, <2>4, <2>5 DEF Each
  <1>5. Common'
    BY <1>1, Sizes
       DEF ReadDone, Shape, Set, Common, Before, Each, Owner, Awaits, Served
  <1> QED  BY <1>1, <1>2, <1>4, <1>5, OneReader DEF ReadDone, Common

\* Server's thread calls ServeClient for the connection that its AcceptEx got.
LEMMA ServerResumesStep == ASSUME IInv, ServerResumes PROVE IInv'
  <1> USE DEF readers, writers, tcp, process, server
  <1>1. Common /\ Shape /\ \A q \in Readers : Each(q)
    BY Parts DEF EachIInv
  <1>2. PICK r \in Readers : r = acceptOp
    BY DEF ServerResumes
  <1>3. /\ writer' = Set(writer, r, "running") /\ serving' = r /\ acceptOp' = "none"
        /\ UNCHANGED <<process, backlog, readers, wop, tcp>>
    BY <1>2 DEF ServerResumes
  <1>4. Shape' /\ \A q \in Readers : q # r => Same(q)
    BY <1>1, <1>3 DEF Shape, Set, Same
  <1>5. writer[r] = "none" /\ writer'[r] = "running" /\ link[r] # "none" /\ r \notin backlog
    BY <1>1, <1>2, <1>3 DEF Each, Served, Shape, Set
  <1>6. Each(r)'
    BY <1>1, <1>3, <1>5, Sizes DEF Each, Types, Owner, Counts, Counted, Awaits, Served
  <1>7. Common'
    BY <1>1, <1>2, <1>3, <1>5, Sizes DEF Common, Before
  <1> QED  BY <1>3, <1>4, <1>6, <1>7, OneReader

\* What run() does, and nothing at all, leave the readers and connections alone.
LEMMA Elsewhere ==
    ASSUME IInv, UNCHANGED <<readers, writers, tcp, backlog>>, acceptOp' \in {acceptOp, "kernel"},
           Common'
    PROVE  IInv'
  <1> USE DEF readers, writers, tcp
  <1>1. Common /\ Shape /\ \A q \in Readers : Each(q)
    BY Parts DEF EachIInv
  <1>2. Shape'
    BY <1>1 DEF Shape
  <1>3. ASSUME NEW q \in Readers PROVE Each(q)'
    <2>1. acceptOp' = q => acceptOp = q
      BY Sizes
    <2>2. Same(q) /\ (acceptOp' = q => q \notin backlog')
      BY <1>1, <2>1 DEF Each, Served, Same
    <2> QED  BY <1>1, <2>1, <2>2, SameEach
  <1>4. EachIInv'
    BY <1>2, <1>3 DEF EachIInv
  <1>5. IInv' <=> EachIInv'
    BY Parts, PTL
  <1> QED  BY <1>4, <1>5

LEMMA RunSteps == ASSUME IInv, StartServer \/ LeaveRun \/ UNCHANGED vars PROVE IInv'
  <1> USE DEF readers, writers, tcp, process, server
  <1>1. Common
    BY Parts DEF EachIInv
  <1>2. CASE StartServer
    <2>1. Common'
      BY <1>1, <1>2, Sizes DEF StartServer, Unexpected, Common, Before
    <2> QED  BY <1>2, <2>1, Elsewhere DEF StartServer
  <1>3. CASE LeaveRun
    <2>1. Common'
      BY <1>1, <1>3 DEF LeaveRun, Common, Before
    <2> QED  BY <1>3, <2>1, Elsewhere DEF LeaveRun
  <1>4. CASE UNCHANGED vars
    <2>1. Common'
      BY <1>1, <1>4 DEF vars, Common, Before
    <2> QED  BY <1>4, <2>1, Elsewhere DEF vars
  <1> QED  BY <1>2, <1>3, <1>4

LEMMA Steps == IInv /\ [Next]_vars => IInv'
  <1> SUFFICES ASSUME IInv, [Next]_vars PROVE IInv'
    OBVIOUS
  <1>1. ASSUME NEW r \in Readers, Coroutine(r) PROVE IInv'
    BY <1>1, ReaderResumesStep, ReaderEndsStep, ReadLaterStep, ReadNowStep,
       WriterResumesStep, WriteNowStep, WriteLaterStep DEF Coroutine
  <1>2. ASSUME NEW r \in Readers, KernelStep(r) PROVE IInv'
    BY <1>2, ConnectDoneStep, AcceptDoneStep, ReadFailsStep, WriteDoneStep, WriteFailsStep,
       ReadDoneStep DEF KernelStep
  <1> QED  BY <1>1, <1>2, StartReaderStep, ServerResumesStep, ResetStep, RunSteps DEF Next, Work

-----------------------------------------------------------------------------
\* Nothing is left behind when nothing can go on.

\* A connection is with somebody from its accept on, and a writer is freed only
\* when its connection is of no use any more.
Attended(q) ==
    /\ writer[q] = "freed" => Broken(q)
    /\ link[q] # "none" => q \in backlog \/ acceptOp = q \/ writer[q] # "none"

\* What becomes of reader and connection q in a step goes one way only.
Forward(q) ==
    /\ reader[q] = "freed" => reader'[q] = "freed"
    /\ link[q] = "reset" => link'[q] = "reset"
    /\ writer'[q] = "freed" => writer[q] = "freed" \/ Broken(q)
    /\ writer[q] # "none" => writer'[q] # "none"
    /\ q \in backlog => q \in backlog' \/ acceptOp' = q
    /\ acceptOp = q => acceptOp' = q \/ writer'[q] # "none"
    /\ link'[q] # "none" => link[q] # "none" \/ q \in backlog'

LEMMA ForwardAttended ==
    ASSUME NEW q \in Readers, Attended(q), Forward(q) PROVE Attended(q)'
  BY DEF Attended, Forward, Broken

LEMMA StillForward ==
    ASSUME NEW q \in Readers, Same(q), q \in backlog => q \in backlog',
           acceptOp = q => acceptOp' = q
    PROVE  Forward(q)
  BY DEF Same, Forward

LEMMA ForwardReader ==
    ASSUME IInv, NEW r \in Readers, NEW q \in Readers,
           \/ StartReader(r) \/ ReaderResumes(r) \/ ReaderEnds(r) \/ ReadLater(r)
           \/ \E n \in 1..ReaderSize : ReadNow(r, n) \/ ReadDone(r, n)
           \/ ReadFails(r) \/ Reset(r)
    PROVE  Forward(q)
  <1> USE DEF readers, writers, tcp, process, server
  <1>1. Shape
    BY Parts DEF EachIInv
  <1>2. /\ writer' = writer /\ backlog' = backlog /\ acceptOp' = acceptOp
        /\ link'[q] = link[q] \/ (link[q] = "up" /\ link'[q] = "reset")
        /\ reader[q] = "freed" => reader'[q] = "freed"
    <2>1. CASE StartReader(r)
      BY <1>1, <2>1 DEF StartReader, Unexpected, Set, Shape
    <2>2. CASE ReaderResumes(r)
      BY <1>1, <2>2 DEF ReaderResumes, Set, Shape
    <2>3. CASE ReaderEnds(r)
      BY <1>1, <2>3 DEF ReaderEnds, Set, Shape
    <2>4. CASE ReadLater(r)
      BY <1>1, <2>4 DEF ReadLater, Set, Shape
    <2>5. CASE \E n \in 1..ReaderSize : ReadNow(r, n)
      BY <1>1, <2>5 DEF ReadNow, Set, Shape
    <2>6. CASE \E n \in 1..ReaderSize : ReadDone(r, n)
      BY <1>1, <2>6 DEF ReadDone, Set, Shape
    <2>7. CASE ReadFails(r)
      BY <1>1, <2>7 DEF ReadFails, Set, Shape
    <2>8. CASE Reset(r)
      BY <1>1, <2>8 DEF Reset, Set, Shape
    <2> QED  BY <2>1, <2>2, <2>3, <2>4, <2>5, <2>6, <2>7, <2>8
  <1> QED  BY <1>2 DEF Forward

\* The server's AcceptEx holds no connection while its thread is in ServeClient.
LEMMA YieldKeeps ==
    ASSUME IInv, exit = "no", NEW r \in Readers, Yield(r), NEW q \in Readers, acceptOp = q
    PROVE  acceptOp' = q
  BY Sizes DEF IInv, OneOwner, Before, Yield, Unexpected

LEMMA ForwardWriter ==
    ASSUME IInv, NEW r \in Readers, NEW q \in Readers,
           WriterResumes(r) \/ WriteNow(r) \/ WriteLater(r) \/ WriteDone(r) \/ WriteFails(r)
    PROVE  Forward(q)
  <1> USE DEF readers, writers, tcp, process, server
  <1>1. Shape
    BY Parts DEF EachIInv
  <1>2. /\ reader' = reader /\ backlog' = backlog /\ link' = link
        /\ writer[q] # "none" => writer'[q] # "none"
        /\ writer'[q] = "freed" => writer[q] = "freed" \/ Broken(q)
    <2>1. CASE WriterResumes(r)
      BY <1>1, <2>1 DEF WriterResumes, Set, Shape
    <2>2. CASE WriteNow(r)
      BY <1>1, <2>2 DEF WriteNow, Set, Shape
    <2>3. CASE WriteLater(r)
      BY <1>1, <2>3 DEF WriteLater, Set, Shape
    <2>4. CASE WriteDone(r) \/ WriteFails(r)
      BY <1>1, <2>4 DEF WriteDone, WriteFails
    <2> QED  BY <2>1, <2>2, <2>3, <2>4
  <1>3. exit = "no" /\ (Yield(r) \/ acceptOp' = acceptOp)
    BY DEF WriterResumes, WriteNow, WriteLater, WriteDone, WriteFails
  <1>4. acceptOp = q => acceptOp' = q
    BY <1>3, YieldKeeps
  <1> QED  BY <1>2, <1>4 DEF Forward

LEMMA ForwardServer ==
    ASSUME IInv, NEW q \in Readers,
           \/ StartServer \/ LeaveRun \/ UNCHANGED vars \/ ServerResumes
           \/ \E r \in Readers : ConnectDone(r) \/ AcceptDone(r)
    PROVE  Forward(q)
  <1> USE DEF readers, writers, tcp, process, server
  <1>1. Shape /\ Before
    BY Parts DEF EachIInv, Common
  <1>2. CASE StartServer
    BY <1>1, <1>2, Sizes DEF StartServer, Unexpected, Forward, Before
  <1>3. CASE LeaveRun \/ UNCHANGED vars
    BY <1>3 DEF LeaveRun, vars, Forward
  <1>4. CASE ServerResumes
    BY <1>1, <1>4 DEF ServerResumes, Forward, Set, Shape
  <1>5. ASSUME NEW r \in Readers, ConnectDone(r) PROVE Forward(q)
    <2>1. Each(r)
      BY Parts DEF EachIInv
    <2>2. link[r] = "none"
      BY <1>5, <2>1 DEF ConnectDone, Each, Awaits
    <2> QED  BY <1>1, <1>5, <2>2 DEF ConnectDone, Forward, Set, Shape
  <1>6. ASSUME NEW r \in Readers, AcceptDone(r) PROVE Forward(q)
    BY <1>6, Sizes DEF AcceptDone, Forward
  <1> QED  BY <1>2, <1>3, <1>4, <1>5, <1>6

RestInv == IInv /\ \A q \in Readers : Attended(q)

LEMMA RestSteps == RestInv /\ [Next]_vars => RestInv'
  <1> SUFFICES ASSUME RestInv, [Next]_vars PROVE RestInv'
    OBVIOUS
  <1>1. IInv'
    BY Steps DEF RestInv
  <1>2. ASSUME NEW q \in Readers PROVE Forward(q)
    <2>1. IInv
      BY DEF RestInv
    <2>2. \/ \E r \in Readers : StartReader(r) \/ Coroutine(r) \/ KernelStep(r) \/ Reset(r)
          \/ StartServer \/ ServerResumes \/ LeaveRun \/ UNCHANGED vars
      BY DEF Next, Work
    <2>3. ASSUME NEW r \in Readers, StartReader(r) \/ Coroutine(r) \/ KernelStep(r) \/ Reset(r)
          PROVE  Forward(q)
      BY <2>1, <2>3, ForwardReader, ForwardWriter, ForwardServer DEF Coroutine, KernelStep
    <2> QED  BY <2>1, <2>2, <2>3, ForwardServer
  <1> QED  BY <1>1, <1>2, ForwardAttended DEF RestInv

\* A connection that nobody has accepted yet is taken up.
LEMMA ServedAtRest ==
    ASSUME RestInv, exit = "no", ~Ready, NEW r \in Readers
    PROVE  link[r] # "none" /\ writer[r] \in {"suspended", "freed"}
  <1>1. Each(r) /\ Attended(r) /\ Common
    BY Parts DEF RestInv, EachIInv
  <1>2. reader[r] # "none" /\ rop[r] # "connecting" /\ writer[r] # "running"
    BY DEF Ready, ReaderReady, WriterReady, KernelReady
  <1>3. link[r] # "none"
    BY <1>1, <1>2 DEF Each, Awaits
  <1>4. main # "server" /\ acceptOp \notin Readers
    BY DEF Ready, ServerReady
  <1>5. acceptOp # "none"
    <2> SUFFICES ASSUME acceptOp = "none" PROVE FALSE
      OBVIOUS
    <2>1. serving \in Readers /\ writer[serving] = "running"
      BY <1>1, <1>4 DEF Common
    <2> QED  BY <2>1 DEF Ready, WriterReady
  <1>6. r \notin backlog
    BY <1>1, <1>4, <1>5 DEF Common, Ready, KernelReady
  <1>7. writer[r] # "none"
    BY <1>1, <1>3, <1>4, <1>6 DEF Attended
  <1> QED  BY <1>1, <1>2, <1>3, <1>7 DEF Each, Types

LEMMA RestFreed == RestInv => RestsWhenFreed
  <1> SUFFICES ASSUME RestInv, exit = "no", ~Ready, NEW r \in Readers
               PROVE  reader[r] = "freed" /\ writer[r] = "freed"
    BY DEF RestsWhenFreed
  <1>1. Each(r) /\ Attended(r)
    BY Parts DEF RestInv, EachIInv
  <1>2. link[r] # "none" /\ writer[r] \in {"suspended", "freed"}
    BY ServedAtRest
  <1>3. ~ReaderReady(r) /\ ~WriterReady(r) /\ ~KernelReady(r)
    BY DEF Ready
  <1>4. writer[r] = "suspended" => wop[r] = "writing"
    BY <1>1, <1>3 DEF Each, Awaits, Owner, WriterReady, Packets
  <1>5. reader[r] = "freed"
    <2> SUFFICES ASSUME reader[r] # "freed" PROVE FALSE
      OBVIOUS
    <2>1. reader[r] = "suspended" /\ rop[r] = "reading"
      BY <1>1, <1>3 DEF Each, Types, Owner, Awaits, ReaderReady, KernelReady, Packets
    <2>2. link[r] = "up" /\ stream[r] = 0
      BY <1>1, <1>2, <1>3, <2>1 DEF Each, Types, KernelReady
    <2>3. ~Broken(r) /\ Room(r)
      BY <2>1, <2>2, SizesAssumption DEF Broken, Room
    <2> QED  BY <1>1, <1>2, <1>3, <1>4, <2>3 DEF Attended, KernelReady
  <1>6. writer[r] = "freed"
    BY <1>2, <1>3, <1>4, <1>5 DEF Broken, KernelReady
  <1> QED  BY <1>5, <1>6

-----------------------------------------------------------------------------
\* The theorems.

\* A frame waits for one operation exactly while it is suspended, and a
\* connection is served once, after its accept (Awaitable.cpp:20-179).
THEOREM AwaitableInvariant == Spec => []IInv
  BY InitInv, Steps, PTL DEF Spec

\* Every variable has its type; total misses 0 by less than a buffer.
THEOREM AwaitableTypes == Spec => []TypeOK
  BY AwaitableInvariant, PTL DEF IInv

\* No frame is resumed twice or after its end, although other threads may resume
\* it before await_suspend has returned (Awaitable.cpp:58-68, 85-95).
THEOREM AwaitableOneOwner == Spec => []OneOwner
  BY AwaitableInvariant, PTL DEF IInv

\* await_resume counts every read in full (Awaitable.cpp:56): never less than
\* came, and on a connection that holds at most ReaderSize for each byte of it.
THEOREM AwaitableCounted == Spec => []CountsReads
  BY AwaitableInvariant, PTL DEF IInv

\* The coroutines come to rest only when every frame has been freed: a Server
\* that accepts one connection at a time leaves none of them behind, and no
\* ServeClient survives its reader (Awaitable.cpp:58-97, 161-185).
THEOREM AwaitableRestsFreed == Spec => []RestsWhenFreed
  <1>1. Init => RestInv
    <2> SUFFICES ASSUME Init PROVE RestInv
      OBVIOUS
    <2>1. \A q \in Readers : link[q] = "none" /\ writer[q] = "none"
      BY DEF Init
    <2> QED  BY <2>1, InitInv DEF RestInv, Attended
  <1> QED  BY <1>1, RestSteps, RestFreed, PTL DEF Spec
=============================================================================
