--------------------------- MODULE EchoServers_proof ---------------------------
(***************************************************************************)
(* Proofs about EchoServers: for any number of connections and of threads  *)
(* and every server, a session keeps the protocol of the hand-written one, *)
(* and the acceptor starts each connection's session once.                 *)
(***************************************************************************)
EXTENDS EchoServers, SequenceTheorems, FiniteSetTheorems, TLAPS

-----------------------------------------------------------------------------
\* The inductive invariant.

\* A session has an operation while it runs its loop, and the awaiter has an
\* outcome only if that is the operation's.
SessionInv(c) ==
    /\ at[c] \in {"none", "begin", "unwinding", "freed"} =>
          op[c] = "none" /\ res[c] = "none" /\ stored[c] = "none"
    /\ at[c] \in {"await", "then", "suspended", "resumed"} => op[c] # "none" /\ res[c] # "none"
    /\ at[c] = "suspended" => stored[c] = "none"
    /\ at[c] = "resumed" => stored[c] # "none"
    /\ stored[c] # "none" => stored[c] = res[c]

\* A connection is in the backlog, or accepted and not yet served, or served.
AcceptInv ==
    /\ acceptor = "done" => conn \in Conns /\ at[conn] = "none" /\ link[conn] # "none"
    /\ \A c \in backlog : /\ at[c] = "none" /\ link[c] # "none"
                          /\ acceptor = "done" => c # conn
    /\ \A c \in Conns : link[c] = "none" => at[c] = "none"

IInv == TypeOK /\ AcceptInv /\ \A c \in Conns : SessionInv(c)

\* What a step that is not one of session d leaves alone.
SameSession(d) ==
    at'[d] = at[d] /\ op'[d] = op[d] /\ res'[d] = res[d] /\ stored'[d] = stored[d]
    /\ buf'[d] = buf[d]

LEMMA InitInv == Init => IInv
  <1> SUFFICES ASSUME Init PROVE IInv
    OBVIOUS
  <1>1. TypeOK
    <2>1. {buf, inbox, outbox} \subseteq [Conns -> Seq(Nat \ {0})]
      BY DEF Init
    <2>2. sent \in [Conns -> Nat] /\ \A c \in Conns : sent[c] <= Bytes[c]
      BY EchoServersAssumption DEF Init
    <2>3. acceptErrors \in 0..MaxAcceptErrors
      BY EchoServersAssumption DEF Init
    <2> QED  BY <2>1, <2>2, <2>3 DEF Init, TypeOK, Places
  <1> QED  BY <1>1 DEF Init, IInv, AcceptInv, SessionInv

LEMMA SameOk == ASSUME NEW d, SessionInv(d), SameSession(d) PROVE SessionInv(d)'
  BY DEF SessionInv, SameSession

LEMMA SameMaps == ASSUME NEW d, SameSession(d) PROVE UNCHANGED Myserver(d)!server
  BY DEF SameSession, Myserver!server, Life

LEMMA CutTypes ==
    ASSUME NEW S, NEW s \in Seq(S), NEW n \in Nat, n <= Len(s)
    PROVE  SubSeq(s, 1, n) \in Seq(S) /\ SubSeq(s, n + 1, Len(s)) \in Seq(S)
  <1>1. /\ \A k \in 1..n : s[k] \in S
        /\ \A k \in n+1..Len(s) : s[k] \in S
    OBVIOUS
  <1>2. SubSeq(s, 1, n) \in Seq(S)
    BY <1>1, SubSeqProperties
  <1>3. n + 1 \in Int /\ Len(s) \in Int
    OBVIOUS
  <1>4. SubSeq(s, n + 1, Len(s)) \in Seq(S)
    BY <1>1, <1>3, SubSeqProperties
  <1> QED  BY <1>2, <1>4

-----------------------------------------------------------------------------
\* The steps of a session that is under way.

\* What they may do to the acceptor, and how they leave it.
LEMMA UnderWay ==
    ASSUME IInv, NEW c \in Conns, at[c] # "none",
           \A d \in Conns : d # c => SameSession(d),
           TypeOK', SessionInv(c)',
           acceptor' \in {acceptor, "rearm"}, UNCHANGED <<conn, backlog>>,
           \A d \in Conns : link'[d] = "none" => link[d] = "none",
           \A d \in Conns : link[d] = "none" => link'[d] = "none"
    PROVE  IInv'
  <1>1. TypeOK /\ AcceptInv /\ \A d \in Conns : SessionInv(d)
    BY DEF IInv
  <1>2. \A d \in Conns : SessionInv(d)'
    BY <1>1, SameOk
  <1>3. \A d \in Conns : at[d] = "none" => at'[d] = "none"
    BY DEF SameSession
  <1>4. AcceptInv'
    <2>1. acceptor' = "done" => acceptor = "done"
      OBVIOUS
    <2>2. acceptor' = "done" => conn' \in Conns /\ at'[conn'] = "none" /\ link'[conn'] # "none"
      BY <1>1, <1>3, <2>1 DEF AcceptInv
    <2>3. \A d \in backlog' : at'[d] = "none" /\ link'[d] # "none" /\ (acceptor' = "done" => d # conn')
      BY <1>1, <1>3, <2>1 DEF AcceptInv, TypeOK
    <2>4. \A d \in Conns : link'[d] = "none" => at'[d] = "none"
      BY <1>1, <1>3 DEF AcceptInv
    <2> QED  BY <2>2, <2>3, <2>4 DEF AcceptInv
  <1> QED  BY <1>2, <1>4 DEF IInv

\* They start an operation, or throw, or go on.
LEMMA GoesTypes ==
    ASSUME TypeOK, NEW c \in Conns, NEW where \in Places, Goes(c, where)
    PROVE  /\ at' \in [Conns -> Places] /\ at'[c] = where
           /\ \A d \in Conns : d # c => at'[d] = at[d]
           /\ acceptor' \in {acceptor, "rearm"}
           /\ acceptor' \in {"armed", "done", "error", "serving", "rearm", "closed"}
  BY DEF Goes, Set, TypeOK

LEMMA StartOpInv ==
    ASSUME IInv, NEW c \in Conns, at[c] # "none",
           NEW kind \in {"read", "write"}, StartOp(c, kind),
           UNCHANGED <<server, threads, conn, acceptErrors, backlog, buf, wire, sent>>
    PROVE  /\ IInv' /\ (\A d \in Conns : d # c => SameSession(d))
           /\ at'[c] \in {"await", "suspended"} /\ op'[c] = kind /\ res'[c] = "pending"
  <1>1. TypeOK
    BY DEF IInv
  <1>2. PICK w \in {"await", "suspended"} : Goes(c, w)
    BY DEF StartOp
  <1>3. w \in Places
    BY DEF Places
  <1>4. /\ at' \in [Conns -> Places] /\ at'[c] = w
        /\ \A d \in Conns : d # c => at'[d] = at[d]
        /\ acceptor' \in {acceptor, "rearm"}
        /\ acceptor' \in {"armed", "done", "error", "serving", "rearm", "closed"}
    BY <1>1, <1>2, <1>3, GoesTypes
  <1>5. /\ op' = [op EXCEPT ![c] = kind] /\ res' = [res EXCEPT ![c] = "pending"]
        /\ stored' = [stored EXCEPT ![c] = "none"]
    BY DEF StartOp, Set
  <1>6. /\ op'[c] = kind /\ res'[c] = "pending" /\ stored'[c] = "none"
        /\ \A d \in Conns : d # c => op'[d] = op[d] /\ res'[d] = res[d] /\ stored'[d] = stored[d]
    BY <1>1, <1>5 DEF TypeOK
  <1>7. \A d \in Conns : d # c => SameSession(d)
    BY <1>4, <1>6 DEF SameSession
  <1>8. TypeOK'
    BY <1>1, <1>4, <1>5 DEF TypeOK, wire
  <1>9. SessionInv(c)'
    BY <1>4, <1>6 DEF SessionInv
  <1>10. IInv'
    BY <1>4, <1>7, <1>8, <1>9, UnderWay DEF wire
  <1> QED  BY <1>4, <1>6, <1>7, <1>10

LEMMA ThrowsInv ==
    ASSUME IInv, NEW c \in Conns, at[c] # "none", Throws(c),
           UNCHANGED <<server, threads, conn, acceptErrors, backlog, buf, wire, sent>>
    PROVE  /\ IInv' /\ (\A d \in Conns : d # c => SameSession(d))
           /\ at'[c] = "unwinding" /\ op'[c] = "none" /\ res'[c] = "none"
  <1>1. TypeOK
    BY DEF IInv
  <1>3. "unwinding" \in Places /\ Goes(c, "unwinding")
    BY DEF Places, Throws
  <1>4. /\ at' \in [Conns -> Places] /\ at'[c] = "unwinding"
        /\ \A d \in Conns : d # c => at'[d] = at[d]
        /\ acceptor' \in {acceptor, "rearm"}
        /\ acceptor' \in {"armed", "done", "error", "serving", "rearm", "closed"}
    BY <1>1, <1>3, GoesTypes
  <1>5. /\ op' = [op EXCEPT ![c] = "none"] /\ res' = [res EXCEPT ![c] = "none"]
        /\ stored' = [stored EXCEPT ![c] = "none"]
    BY DEF Throws, Set
  <1>6. /\ op'[c] = "none" /\ res'[c] = "none" /\ stored'[c] = "none"
        /\ \A d \in Conns : d # c => op'[d] = op[d] /\ res'[d] = res[d] /\ stored'[d] = stored[d]
    BY <1>1, <1>5 DEF TypeOK
  <1>7. \A d \in Conns : d # c => SameSession(d)
    BY <1>4, <1>6 DEF SameSession
  <1>8. TypeOK'
    BY <1>1, <1>4, <1>5 DEF TypeOK, wire
  <1>9. SessionInv(c)'
    BY <1>4, <1>6 DEF SessionInv
  <1>10. IInv'
    BY <1>4, <1>7, <1>8, <1>9, UnderWay DEF wire
  <1> QED  BY <1>4, <1>6, <1>7, <1>10

\* A move of the code that starts nothing.
LEMMA MovesInv ==
    ASSUME IInv, NEW c \in Conns, at[c] # "none", NEW where \in Places, Goes(c, where),
           SessionInv(c)',
           UNCHANGED <<server, threads, conn, acceptErrors, backlog, op, res, stored, buf,
                       wire, sent>>
    PROVE  IInv' /\ (\A d \in Conns : d # c => SameSession(d)) /\ at'[c] = where
  <1>1. TypeOK
    BY DEF IInv
  <1>2. /\ at' \in [Conns -> Places] /\ at'[c] = where
        /\ \A d \in Conns : d # c => at'[d] = at[d]
        /\ acceptor' \in {acceptor, "rearm"}
        /\ acceptor' \in {"armed", "done", "error", "serving", "rearm", "closed"}
    BY <1>1, GoesTypes
  <1>3. TypeOK'
    BY <1>1, <1>2 DEF TypeOK, wire
  <1>4. \A d \in Conns : d # c => SameSession(d)
    BY <1>2 DEF SameSession
  <1>5. IInv'
    BY <1>2, <1>3, <1>4, UnderWay DEF wire
  <1> QED  BY <1>2, <1>4, <1>5

\* What of myserver.cpp's session the step of session c is.
StepMaps(c) == [MyserverStep(c)]_(Myserver(c)!server)

LEMMA SessionSteps ==
    ASSUME IInv, NEW c \in Conns, Session(c)
    PROVE  IInv' /\ (\A d \in Conns : d # c => SameSession(d)) /\ StepMaps(c)
  <1>1. TypeOK /\ SessionInv(c) /\ EchoServersAssumption
    BY EchoServersAssumption DEF IInv
  <1>2. ASSUME NEW e \in BOOLEAN, Begin(c, e)
        PROVE  IInv' /\ (\A d \in Conns : d # c => SameSession(d)) /\ StepMaps(c)
    <2>1. at[c] = "begin" /\ UNCHANGED <<buf, wire>>
      BY <1>2 DEF Begin
    <2>2. CASE e
      <3>1. /\ IInv' /\ (\A d \in Conns : d # c => SameSession(d))
            /\ at'[c] = "unwinding" /\ op'[c] = "none" /\ res'[c] = "none"
        BY <1>2, <2>1, <2>2, ThrowsInv DEF Begin
      <3>2. Myserver(c)!Start(TRUE)
        BY <2>1, <3>1 DEF Myserver!Start, Myserver!PostDestroy, Life, wire
      <3> QED  BY <3>1, <3>2 DEF StepMaps, MyserverStep
    <2>3. CASE ~e
      <3>1. /\ IInv' /\ (\A d \in Conns : d # c => SameSession(d))
            /\ at'[c] \in {"await", "suspended"} /\ op'[c] = "read" /\ res'[c] = "pending"
        BY <1>2, <2>1, <2>3, StartOpInv DEF Begin
      <3>2. Myserver(c)!Start(FALSE)
        BY <2>1, <3>1 DEF Myserver!Start, Life, wire
      <3> QED  BY <3>1, <3>2 DEF StepMaps, MyserverStep
    <2> QED  BY <2>2, <2>3
  <1>3. CASE AwaitReady(c) \/ Then(c)
    <2>1. PICK w \in {"resumed", "then", "suspended"} :
             /\ Goes(c, w) /\ (w = "resumed" <=> stored[c] # "none")
             /\ at[c] \in {"await", "then"}
      BY <1>3 DEF AwaitReady, Then
    <2>2. /\ w \in Places
          /\ UNCHANGED <<server, threads, conn, acceptErrors, backlog, op, res, stored, buf,
                         wire, sent>>
      BY <1>3 DEF AwaitReady, Then, Places
    <2>3. at'[c] = w
      BY <1>1, <2>1, <2>2, GoesTypes
    <2>4. SessionInv(c)'
      BY <1>1, <2>1, <2>2, <2>3 DEF SessionInv
    <2>5. IInv' /\ (\A d \in Conns : d # c => SameSession(d))
      BY <2>1, <2>2, <2>4, MovesInv
    <2>6. UNCHANGED Myserver(c)!server
      BY <2>1, <2>2, <2>3 DEF Myserver!server, Life
    <2> QED  BY <2>5, <2>6 DEF StepMaps
  <1>4. CASE Handler(c)
    <2>1. /\ res[c] \in {"ok", "error"} /\ stored[c] = "none"
          /\ stored' = [stored EXCEPT ![c] = res[c]]
          /\ at' = IF at[c] = "suspended" THEN [at EXCEPT ![c] = "resumed"] ELSE at
          /\ UNCHANGED <<server, threads, accepting, op, res, buf, wire, sent>>
      BY <1>4 DEF Handler, Set
    <2>2. /\ at[c] \in {"await", "then", "suspended"}
          /\ at'[c] \in {"await", "then", "resumed"} /\ stored'[c] = res[c]
          /\ at' \in [Conns -> Places]
      BY <1>1, <2>1 DEF SessionInv, TypeOK, Places
    <2>3. \A d \in Conns : d # c => SameSession(d)
      BY <1>1, <2>1 DEF SameSession, TypeOK
    <2>4. TypeOK'
      BY <1>1, <2>1, <2>2 DEF TypeOK, accepting, wire
    <2>5. SessionInv(c)'
      BY <1>1, <2>1, <2>2 DEF SessionInv
    <2>6. IInv'
      BY <2>1, <2>2, <2>3, <2>4, <2>5, UnderWay DEF accepting, wire
    <2>7. UNCHANGED Myserver(c)!server
      BY <2>1, <2>2 DEF Myserver!server, Life
    <2> QED  BY <2>3, <2>6, <2>7 DEF StepMaps
  <1>5. CASE Continue(c)
    <2>1. /\ at[c] = "resumed" /\ UNCHANGED <<buf, wire>>
          /\ op[c] \in {"read", "write"} /\ res[c] = stored[c] /\ stored[c] \in {"ok", "error"}
      BY <1>1, <1>5 DEF Continue, SessionInv, TypeOK
    <2>2. CASE stored[c] = "error"
      <3>1. /\ IInv' /\ (\A d \in Conns : d # c => SameSession(d))
            /\ at'[c] = "unwinding" /\ op'[c] = "none" /\ res'[c] = "none"
        BY <1>5, <2>1, <2>2, ThrowsInv DEF Continue
      <3>2. Myserver(c)!HandleRead \/ Myserver(c)!HandleWrite
        BY <2>1, <2>2, <3>1 DEF Myserver!HandleRead, Myserver!HandleWrite,
               Myserver!PostDestroy, Life, wire
      <3> QED  BY <3>1, <3>2 DEF StepMaps, MyserverStep
    <2>3. CASE stored[c] # "error"
      <3> DEFINE kind == IF op[c] = "read" THEN "write" ELSE "read"
      <3>1. /\ IInv' /\ (\A d \in Conns : d # c => SameSession(d))
            /\ at'[c] \in {"await", "suspended"} /\ op'[c] = kind /\ res'[c] = "pending"
        <4>1. kind \in {"read", "write"} /\ StartOp(c, kind)
          BY <1>5, <2>3 DEF Continue
        <4> HIDE DEF kind
        <4> QED  BY <1>5, <2>1, <4>1, StartOpInv DEF Continue
      <3>2. Myserver(c)!HandleRead \/ Myserver(c)!HandleWrite
        BY <2>1, <2>3, <3>1 DEF Myserver!HandleRead, Myserver!HandleWrite, Life, wire
      <3> QED  BY <3>1, <3>2 DEF StepMaps, MyserverStep
    <2> QED  BY <2>2, <2>3
  <1>6. CASE Destroy(c)
    <2>1. /\ at[c] = "unwinding" /\ Goes(c, "freed") /\ "freed" \in Places
          /\ UNCHANGED <<server, threads, conn, acceptErrors, backlog, op, res, stored, buf,
                         wire, sent>>
      BY <1>6 DEF Destroy, Places
    <2>2. at'[c] = "freed"
      BY <1>1, <2>1, GoesTypes
    <2>3. SessionInv(c)'
      BY <1>1, <2>1, <2>2 DEF SessionInv
    <2>4. IInv' /\ (\A d \in Conns : d # c => SameSession(d))
      BY <2>1, <2>3, MovesInv
    <2>5. Myserver(c)!Destroy
      BY <2>1, <2>2 DEF Myserver!Destroy, Life, wire
    <2> QED  BY <2>4, <2>5 DEF StepMaps, MyserverStep
  <1> QED  BY <1>2, <1>3, <1>4, <1>5, <1>6 DEF Session

-----------------------------------------------------------------------------
\* The operating system ends an operation of session c, or a part of it.
LEMMA KernelSteps ==
    ASSUME IInv, NEW c \in Conns, Kernel(c)
    PROVE  IInv' /\ (\A d \in Conns : d # c => SameSession(d)) /\ StepMaps(c)
  <1>1. TypeOK /\ SessionInv(c) /\ BufSize \in Nat
    BY EchoServersAssumption DEF IInv
  <1>2. /\ buf \in [Conns -> Seq(Nat \ {0})] /\ inbox \in [Conns -> Seq(Nat \ {0})]
        /\ outbox \in [Conns -> Seq(Nat \ {0})]
    BY <1>1 DEF TypeOK
  <1>3. /\ res[c] = "pending" /\ stored[c] = "none" /\ at[c] \in {"await", "then", "suspended"}
        /\ UNCHANGED <<server, threads, accepting, at, op, stored, link, sent>>
    <2>1. res[c] = "pending" /\ UNCHANGED <<server, threads, accepting, at, op, stored, link, sent>>
      BY DEF Kernel, ReadCompletes, WriteSome, OpFails, wire
    <2> QED  BY <1>1, <2>1 DEF SessionInv, TypeOK, Places
  <1>4. ASSUME NEW v \in {"pending", "ok", "error"}, res' = [res EXCEPT ![c] = v],
               buf' \in [Conns -> Seq(Nat \ {0})], inbox' \in [Conns -> Seq(Nat \ {0})],
               outbox' \in [Conns -> Seq(Nat \ {0})],
               \A d \in Conns : d # c => buf'[d] = buf[d]
        PROVE  IInv' /\ \A d \in Conns : d # c => SameSession(d)
    <2>1. /\ res'[c] = v /\ \A d \in Conns : d # c => res'[d] = res[d]
          /\ res' \in [Conns -> {"none", "pending", "ok", "error"}]
      BY <1>1, <1>4 DEF TypeOK
    <2>2. \A d \in Conns : d # c => SameSession(d)
      BY <1>3, <1>4, <2>1 DEF SameSession
    <2>3. TypeOK'
      <3>1. {buf', inbox', outbox'} \subseteq [Conns -> Seq(Nat \ {0})]
        BY <1>4
      <3> QED  BY <1>1, <1>3, <2>1, <3>1 DEF TypeOK, accepting
    <2>4. SessionInv(c)'
      BY <1>1, <1>3, <2>1 DEF SessionInv
    <2>5. IInv'
      BY <1>3, <2>2, <2>3, <2>4, UnderWay DEF accepting
    <2> QED  BY <2>2, <2>5
  <1>5. ASSUME NEW n \in 1..BufSize, ReadCompletes(c, n)
        PROVE  IInv' /\ (\A d \in Conns : d # c => SameSession(d)) /\ StepMaps(c)
    <2> DEFINE got == SubSeq(inbox[c], 1, n)
               rest == SubSeq(inbox[c], n + 1, Len(inbox[c]))
    <2>1. got \in Seq(Nat \ {0}) /\ rest \in Seq(Nat \ {0})
      <3>1. inbox[c] \in Seq(Nat \ {0}) /\ n \in Nat /\ n <= Len(inbox[c])
        BY <1>1, <1>2, <1>5 DEF ReadCompletes
      <3> QED  BY <3>1, CutTypes
    <2>2. /\ buf' = [buf EXCEPT ![c] = got] /\ inbox' = [inbox EXCEPT ![c] = rest]
          /\ outbox' = outbox /\ res' = [res EXCEPT ![c] = "ok"]
      BY <1>5 DEF ReadCompletes, Set
    <2>3. Myserver(c)!ReadCompletes(n)
      <3>1. /\ buf'[c] = got /\ inbox'[c] = rest /\ res'[c] = "ok"
            /\ op[c] = "read" /\ link[c] = "up" /\ n <= Len(inbox[c])
        BY <1>1, <1>2, <1>5, <2>2 DEF ReadCompletes, TypeOK
      <3> QED  BY <1>3, <2>2, <3>1 DEF Myserver!ReadCompletes, Life
    <2> HIDE DEF got, rest
    <2>4. IInv' /\ \A d \in Conns : d # c => SameSession(d)
      BY <1>2, <1>4, <2>1, <2>2
    <2> QED  BY <1>5, <2>3, <2>4 DEF StepMaps, MyserverStep
  <1>6. ASSUME NEW n \in 1..BufSize, WriteSome(c, n)
        PROVE  IInv' /\ (\A d \in Conns : d # c => SameSession(d)) /\ StepMaps(c)
    <2> DEFINE part == SubSeq(buf[c], 1, n)
               rest == SubSeq(buf[c], n + 1, Len(buf[c]))
               out == outbox[c] \o part
               v == IF n = Len(buf[c]) THEN "ok" ELSE "pending"
    <2>1. out \in Seq(Nat \ {0}) /\ rest \in Seq(Nat \ {0})
      <3>1. buf[c] \in Seq(Nat \ {0}) /\ n \in Nat /\ n <= Len(buf[c])
        BY <1>1, <1>2, <1>6 DEF WriteSome
      <3>2. part \in Seq(Nat \ {0}) /\ rest \in Seq(Nat \ {0}) /\ outbox[c] \in Seq(Nat \ {0})
        BY <1>2, <3>1, CutTypes
      <3> HIDE DEF part
      <3> QED  BY <3>2, ConcatProperties
    <2>2. /\ buf' = [buf EXCEPT ![c] = rest] /\ outbox' = [outbox EXCEPT ![c] = out]
          /\ inbox' = inbox /\ res' = [res EXCEPT ![c] = v]
      BY <1>6 DEF WriteSome, Set
    <2>3. Myserver(c)!WriteSome(n)
      <3>1. /\ buf'[c] = rest /\ outbox'[c] = out /\ res'[c] = v
            /\ op[c] = "write" /\ link[c] = "up"
        BY <1>1, <1>2, <1>6, <2>2 DEF WriteSome, TypeOK
      <3>2. n \in 1..Len(buf[c]) /\ n <= BufSize
        <4>1. Len(buf[c]) \in Nat /\ n <= Len(buf[c])
          BY <1>2, <1>6 DEF WriteSome
        <4> QED  BY <1>1, <4>1, EchoServersAssumption
      <3> QED  BY <1>3, <2>2, <3>1, <3>2 DEF Myserver!WriteSome, Life
    <2>4. v \in {"pending", "ok", "error"}
      OBVIOUS
    <2> HIDE DEF out, rest, v
    <2>5. IInv' /\ \A d \in Conns : d # c => SameSession(d)
      BY <1>2, <1>4, <2>1, <2>2, <2>4
    <2> QED  BY <1>6, <2>3, <2>5 DEF StepMaps, MyserverStep
  <1>7. CASE OpFails(c)
    <2>1. link[c] = "reset" /\ res' = [res EXCEPT ![c] = "error"] /\ UNCHANGED <<buf, inbox, outbox>>
      BY <1>7 DEF OpFails, Set, wire
    <2>2. IInv' /\ \A d \in Conns : d # c => SameSession(d)
      BY <1>2, <1>4, <2>1
    <2>3. Myserver(c)!OpFails
      <3>1. res'[c] = "error"
        BY <1>1, <2>1 DEF TypeOK
      <3> QED  BY <1>3, <2>1, <3>1 DEF Myserver!OpFails, Life
    <2> QED  BY <2>2, <2>3 DEF StepMaps, MyserverStep
  <1> QED  BY <1>5, <1>6, <1>7 DEF Kernel

-----------------------------------------------------------------------------
\* The acceptor, and the clients.

LEMMA AcceptSteps ==
    ASSUME IInv, Accepting \/ AcceptFails
    PROVE  IInv' /\ \A d \in Conns : StepMaps(d)
  <1>1. TypeOK /\ AcceptInv /\ \A d \in Conns : SessionInv(d)
    BY DEF IInv
  <1>2. CASE HandleAccept
    <2>1. /\ acceptor = "done" /\ conn \in Conns /\ at[conn] = "none" /\ acceptor' = "serving"
          /\ at' = [at EXCEPT ![conn] = "begin"] /\ link[conn] # "none"
          /\ UNCHANGED <<server, threads, conn, acceptErrors, backlog, op, res, stored, buf,
                         wire, sent>>
      BY <1>1, <1>2 DEF HandleAccept, Set, AcceptInv
    <2>2. PICK c \in Conns : c = conn
      BY <2>1
    <2>3. /\ at' \in [Conns -> Places] /\ at[c] = "none" /\ at'[c] = "begin"
          /\ \A d \in Conns : d # c => at'[d] = at[d]
      BY <1>1, <2>1, <2>2 DEF TypeOK, Places
    <2>4. \A d \in Conns : d # c => SameSession(d)
      BY <2>1, <2>3 DEF SameSession
    <2>5. TypeOK'
      BY <1>1, <2>1, <2>3 DEF TypeOK, wire
    <2>6. AcceptInv'
      BY <1>1, <2>1, <2>2, <2>3 DEF AcceptInv, TypeOK, wire
    <2>7. \A d \in Conns : SessionInv(d)'
      <3>1. SessionInv(c)'
        <4>1. SessionInv(c)
          BY <1>1
        <4> QED  BY <2>1, <2>3, <4>1 DEF SessionInv
      <3> QED  BY <1>1, <2>4, <3>1, SameOk
    <2>8. StepMaps(c)
      BY <2>1, <2>3 DEF StepMaps, MyserverStep, Life
    <2>9. \A d \in Conns : StepMaps(d)
      BY <2>4, <2>8, SameMaps DEF StepMaps
    <2> QED  BY <2>5, <2>6, <2>7, <2>9 DEF IInv
  <1>3. CASE UNCHANGED <<frames, server, threads, inbox, outbox, sent>> /\ TypeOK' /\ AcceptInv'
    <2>1. \A d \in Conns : SameSession(d)
      BY <1>3 DEF SameSession, frames
    <2> QED  BY <1>1, <1>3, <2>1, SameOk, SameMaps DEF IInv, StepMaps
  <1>4. CASE HandleAcceptError
    <2>1. /\ UNCHANGED <<server, threads, conn, acceptErrors, frames, inbox, outbox, sent>>
          /\ acceptor' \in {"closed", "rearm"} /\ backlog' \subseteq backlog
          /\ link' = [d \in Conns |-> IF d \in backlog THEN "reset" ELSE link[d]] \/ link' = link
      BY <1>1, <1>4 DEF HandleAcceptError, TypeOK
    <2>2. \A d \in Conns : link'[d] = link[d] \/ (link'[d] = "reset" /\ d \in backlog)
      BY <2>1
    <2>3. TypeOK'
      BY <1>1, <2>1 DEF TypeOK, frames
    <2>4. AcceptInv'
      BY <1>1, <2>1, <2>2 DEF AcceptInv, TypeOK, frames
    <2> QED  BY <1>3, <2>1, <2>3, <2>4
  <1>5. CASE StartAccept \/ AcceptFails
    <2>1. TypeOK' /\ AcceptInv'
      <3>1. CASE StartAccept
        BY <1>1, <3>1 DEF StartAccept, TypeOK, AcceptInv, frames, wire
      <3>2. CASE AcceptFails
        <4>1. acceptErrors + 1 \in 0..MaxAcceptErrors
          BY <1>1, <3>2, EchoServersAssumption DEF AcceptFails, TypeOK
        <4> QED  BY <1>1, <3>2, <4>1 DEF AcceptFails, TypeOK, AcceptInv, frames, wire
      <3> QED  BY <1>5, <3>1, <3>2
    <2> QED  BY <1>3, <1>5, <2>1 DEF StartAccept, AcceptFails, wire
  <1>6. ASSUME NEW c \in Conns, AcceptDone(c)
        PROVE  IInv' /\ \A d \in Conns : StepMaps(d)
    <2>1. TypeOK' /\ AcceptInv'
      BY <1>1, <1>6 DEF AcceptDone, TypeOK, AcceptInv, frames, wire
    <2> QED  BY <1>3, <1>6, <2>1 DEF AcceptDone, wire
  <1> QED  BY <1>2, <1>4, <1>5, <1>6 DEF Accepting

LEMMA ClientSteps ==
    ASSUME IInv, NEW c \in Conns, Client(c)
    PROVE  IInv' /\ \A d \in Conns : StepMaps(d)
  <1>1. TypeOK /\ AcceptInv /\ \A d \in Conns : SessionInv(d)
    BY DEF IInv
  <1>2. UNCHANGED <<server, threads, acceptor, conn, acceptErrors, frames, outbox>>
    BY DEF Client, Connect, Send, Reset, accepting
  <1>3. \A d \in Conns : SameSession(d)
    BY <1>2 DEF SameSession, frames
  <1>4. CASE TypeOK' /\ AcceptInv'
    BY <1>1, <1>3, <1>4, SameOk, SameMaps DEF IInv, StepMaps
  <1>5. CASE Connect(c)
    <2>1. /\ link[c] = "none" /\ link' = [link EXCEPT ![c] = "up"] /\ backlog' = backlog \cup {c}
          /\ UNCHANGED <<inbox, outbox, sent>> /\ at[c] = "none" /\ at' = at
      BY <1>1, <1>2, <1>5 DEF Connect, Set, AcceptInv, frames
    <2>2. TypeOK'
      BY <1>1, <1>2, <2>1 DEF TypeOK, frames
    <2>3. AcceptInv'
      BY <1>1, <1>2, <2>1 DEF AcceptInv, TypeOK
    <2> QED  BY <1>4, <2>2, <2>3
  <1>6. CASE Send(c)
    <2>1. /\ sent[c] < Bytes[c] /\ sent' = [sent EXCEPT ![c] = sent[c] + 1]
          /\ inbox' = [inbox EXCEPT ![c] = Append(inbox[c], sent[c] + 1)]
          /\ UNCHANGED <<outbox, link, backlog>> /\ at' = at
      BY <1>2, <1>6 DEF Send, Set, frames, accepting
    <2>2. /\ sent[c] \in Nat /\ Bytes[c] \in Nat /\ sent[c] + 1 \in Nat \ {0}
          /\ sent[c] + 1 <= Bytes[c] /\ inbox[c] \in Seq(Nat \ {0})
          /\ inbox \in [Conns -> Seq(Nat \ {0})]
      <3>1. sent[c] \in Nat /\ Bytes[c] \in Nat
        BY <1>1, EchoServersAssumption DEF TypeOK
      <3>2. inbox \in [Conns -> Seq(Nat \ {0})]
        BY <1>1 DEF TypeOK
      <3> QED  BY <2>1, <3>1, <3>2
    <2>3. inbox' \in [Conns -> Seq(Nat \ {0})]
      <3>1. Append(inbox[c], sent[c] + 1) \in Seq(Nat \ {0})
        BY <2>2, AppendProperties
      <3> QED  BY <2>1, <2>2, <3>1
    <2>4. sent' \in [Conns -> Nat] /\ \A d \in Conns : sent'[d] <= Bytes[d]
      BY <1>1, <2>1, <2>2 DEF TypeOK
    <2>5. {buf', inbox', outbox'} \subseteq [Conns -> Seq(Nat \ {0})]
      BY <1>1, <1>2, <2>3 DEF TypeOK, frames
    <2>6. TypeOK'
      BY <1>1, <1>2, <2>1, <2>4, <2>5 DEF TypeOK, frames
    <2>7. AcceptInv'
      BY <1>1, <1>2, <2>1 DEF AcceptInv
    <2> QED  BY <1>4, <2>6, <2>7
  <1>7. CASE Reset(c)
    <2>1. /\ link[c] = "up" /\ link' = [link EXCEPT ![c] = "reset"]
          /\ inbox' = [inbox EXCEPT ![c] = <<>>] /\ UNCHANGED <<outbox, sent, backlog>>
          /\ at' = at
      BY <1>2, <1>7 DEF Reset, Set, frames, accepting
    <2>2. {buf', inbox', outbox'} \subseteq [Conns -> Seq(Nat \ {0})]
      <3>1. <<>> \in Seq(Nat \ {0}) /\ inbox \in [Conns -> Seq(Nat \ {0})]
        BY <1>1 DEF TypeOK
      <3>2. inbox' \in [Conns -> Seq(Nat \ {0})]
        BY <2>1, <3>1
      <3> QED  BY <1>1, <1>2, <2>1, <3>2 DEF TypeOK, frames
    <2>3. TypeOK'
      BY <1>1, <1>2, <2>1, <2>2 DEF TypeOK, frames
    <2>4. AcceptInv'
      BY <1>1, <1>2, <2>1 DEF AcceptInv, TypeOK
    <2> QED  BY <1>4, <2>3, <2>4
  <1> QED  BY <1>5, <1>6, <1>7 DEF Client

LEMMA Steps == IInv /\ [Next]_vars => IInv' /\ \A d \in Conns : StepMaps(d)
  <1> SUFFICES ASSUME IInv, [Next]_vars PROVE IInv' /\ \A d \in Conns : StepMaps(d)
    OBVIOUS
  <1>1. CASE UNCHANGED vars
    <2>1. \A d \in Conns : SameSession(d)
      BY <1>1 DEF vars, SameSession, frames
    <2>2. TypeOK' /\ AcceptInv'
      BY <1>1 DEF vars, IInv, TypeOK, AcceptInv, frames, accepting, wire
    <2> QED  BY <2>1, <2>2, SameOk, SameMaps DEF IInv, StepMaps
  <1>2. ASSUME NEW c \in Conns, Session(c) \/ Kernel(c)
        PROVE  IInv' /\ \A d \in Conns : StepMaps(d)
    <2>1. IInv' /\ (\A d \in Conns : d # c => SameSession(d)) /\ StepMaps(c)
      BY <1>2, SessionSteps, KernelSteps
    <2>2. \A d \in Conns : StepMaps(d)
      BY <2>1, SameMaps DEF StepMaps
    <2> QED  BY <2>1, <2>2
  <1> QED  BY <1>1, <1>2, AcceptSteps, ClientSteps DEF Next

LEMMA InitMaps == Init => \A c \in Conns : Myserver(c)!Init
  BY DEF Init, Myserver!Init, Life

-----------------------------------------------------------------------------
\* The bytes of a session come back in order.

\* buf is free when a session begins, for a read, and after a whole write.
BufFree(c) ==
    (\/ at[c] \in {"none", "begin"}
     \/ op[c] = "read" /\ res[c] = "pending"
     \/ op[c] = "write" /\ res[c] = "ok") => buf[c] = <<>>

InOrder(c) ==
    /\ Len(Round(c)) <= sent[c]
    /\ link[c] # "reset" => Len(Round(c)) = sent[c]
    /\ \A k \in 1..Len(Round(c)) : Round(c)[k] = k

OrderInv == IInv /\ \A c \in Conns : BufFree(c) /\ InOrder(c)

\* What a step leaves of the bytes of a session, though it may lose the link.
BytesStay(d) ==
    /\ Round(d)' = Round(d) /\ sent'[d] = sent[d]
    /\ link'[d] # "reset" => link[d] # "reset"

LEMMA StayInOrder == ASSUME NEW d, InOrder(d), BytesStay(d) PROVE InOrder(d)'
  BY DEF InOrder, BytesStay

LEMMA SameBufFree == ASSUME NEW d, BufFree(d), SameSession(d) PROVE BufFree(d)'
  BY DEF BufFree, SameSession

\* Cutting a sequence in two and putting it together again.
LEMMA CutJoins ==
    ASSUME NEW S, NEW s \in Seq(S), NEW n \in Nat, n <= Len(s)
    PROVE  SubSeq(s, 1, n) \o SubSeq(s, n + 1, Len(s)) = s
  <1>1. /\ 1 \in 1 .. Len(s) + 1 /\ n \in 1 - 1 .. Len(s) /\ Len(s) \in n .. Len(s)
    BY LenProperties
  <1>2. SubSeq(s, 1, n) \o SubSeq(s, n + 1, Len(s)) = SubSeq(s, 1, Len(s))
    BY <1>1, ConcatAdjacentSubSeq
  <1> QED  BY <1>2, SubSeqFull

LEMMA Regroup ==
    ASSUME NEW S, NEW o \in Seq(S), NEW a \in Seq(S), NEW b \in Seq(S)
    PROVE  o \o a \o b = o \o (a \o b)
  BY ConcatAssociative

LEMMA WriteRound ==
    ASSUME NEW S, NEW o \in Seq(S), NEW w \in Seq(S), NEW n \in Nat, n <= Len(w)
    PROVE  o \o SubSeq(w, 1, n) \o SubSeq(w, n + 1, Len(w)) = o \o w
  <1> DEFINE a == SubSeq(w, 1, n)
             b == SubSeq(w, n + 1, Len(w))
  <1>1. a \in Seq(S) /\ b \in Seq(S)
    BY CutTypes
  <1>2. a \o b = w
    BY CutJoins
  <1> HIDE DEF a, b
  <1>3. ASSUME NEW x \in Seq(S), NEW y \in Seq(S)
        PROVE  o \o x \o y = o \o (x \o y)
    BY Regroup, SMTT(40)
  <1>4. o \o a \o b = o \o (a \o b)
    BY <1>1, <1>3, Zenon
  <1>5. o \o a \o b = o \o w
    BY <1>2, <1>4
  <1> QED  BY <1>5 DEF a, b

LEMMA ReadRound ==
    ASSUME NEW S, NEW o \in Seq(S), NEW i \in Seq(S), NEW n \in Nat, n <= Len(i)
    PROVE  o \o SubSeq(i, 1, n) \o SubSeq(i, n + 1, Len(i)) = o \o <<>> \o i
  <1>1. o \o <<>> = o
    BY ConcatEmptySeq
  <1>2. o \o SubSeq(i, 1, n) \o SubSeq(i, n + 1, Len(i)) = o \o i
    BY WriteRound, Zenon
  <1> QED  BY <1>1, <1>2, Zenon

\* The client sends the next byte, and the network loses what it carries.
LEMMA GrownRound ==
    ASSUME NEW S, NEW x \in Seq(S), NEW i \in Seq(S), NEW e \in S
    PROVE  /\ Len(x \o Append(i, e)) = Len(x \o i) + 1
           /\ (x \o Append(i, e))[Len(x \o i) + 1] = e
           /\ \A k \in 1..Len(x \o i) : (x \o Append(i, e))[k] = (x \o i)[k]
  <1>1. /\ Append(i, e) \in Seq(S) /\ Len(Append(i, e)) = Len(i) + 1
        /\ Append(i, e)[Len(i) + 1] = e
        /\ \A k \in 1..Len(i) : Append(i, e)[k] = i[k]
    BY AppendProperties
  <1>2. Len(x) \in Nat /\ Len(i) \in Nat
    BY LenProperties
  <1>3. /\ Len(x \o i) = Len(x) + Len(i) /\ Len(x \o Append(i, e)) = Len(x) + Len(i) + 1
        /\ \A k \in 1..Len(x) + Len(i) : (x \o i)[k] = IF k <= Len(x) THEN x[k] ELSE i[k - Len(x)]
        /\ \A k \in 1..Len(x) + Len(i) + 1 :
              (x \o Append(i, e))[k] = IF k <= Len(x) THEN x[k] ELSE Append(i, e)[k - Len(x)]
    BY <1>1, <1>2, ConcatProperties
  <1>4. (x \o Append(i, e))[Len(x) + Len(i) + 1] = e
    BY <1>1, <1>2, <1>3
  <1>5. ASSUME NEW k \in 1..Len(x) + Len(i)
        PROVE  (x \o Append(i, e))[k] = (x \o i)[k]
    BY <1>1, <1>2, <1>3
  <1> QED  BY <1>3, <1>4, <1>5

LEMMA CutRound ==
    ASSUME NEW S, NEW x \in Seq(S), NEW i \in Seq(S)
    PROVE  /\ Len(x \o <<>>) <= Len(x \o i)
           /\ \A k \in 1..Len(x \o <<>>) : (x \o <<>>)[k] = (x \o i)[k]
  <1>1. Len(x) \in Nat /\ Len(i) \in Nat /\ x \o <<>> = x
    BY LenProperties, ConcatEmptySeq
  <1> QED  BY <1>1, ConcatProperties

\* Where a session's own steps leave buf, it is free if the next operation reads.
LEMMA SessionBytes ==
    ASSUME OrderInv, NEW c \in Conns, Session(c)
    PROVE  BufFree(c)' /\ UNCHANGED <<buf, wire, sent>>
  <1>1. TypeOK /\ SessionInv(c) /\ BufFree(c)
    BY DEF OrderInv, IInv
  <1>2. UNCHANGED <<buf, wire, sent>>
    BY DEF Session, Begin, AwaitReady, Then, Handler, Continue, Destroy
  <1>3. CASE \E e \in BOOLEAN : Begin(c, e)
    BY <1>1, <1>2, <1>3 DEF Begin, BufFree
  <1>4. CASE AwaitReady(c) \/ Then(c) \/ Handler(c) \/ Destroy(c)
    <2>1. op' = op /\ res' = res /\ at[c] \notin {"none", "begin"}
      BY <1>1, <1>4 DEF AwaitReady, Then, Handler, Destroy, SessionInv
    <2>2. at'[c] \notin {"none", "begin"}
      BY <1>1, <1>4, <2>1 DEF AwaitReady, Then, Handler, Destroy, Goes, Set, TypeOK
    <2> QED  BY <1>1, <1>2, <2>1, <2>2 DEF BufFree
  <1>5. CASE Continue(c)
    <2>1. at[c] = "resumed" /\ stored[c] = res[c] /\ stored[c] # "none" /\ op[c] \in {"read", "write"}
      BY <1>1, <1>5 DEF Continue, SessionInv, TypeOK
    <2>2. CASE stored[c] = "error"
      <3>1. op' = [op EXCEPT ![c] = "none"] /\ Goes(c, "unwinding") /\ "unwinding" \in Places
        BY <1>5, <2>2 DEF Continue, Throws, Set, Places
      <3>2. at'[c] = "unwinding"
        BY <1>1, <3>1, GoesTypes
      <3>3. op'[c] = "none"
        BY <1>1, <3>1 DEF TypeOK
      <3> QED  BY <1>2, <3>2, <3>3 DEF BufFree
    <2>3. CASE stored[c] # "error"
      <3>1. stored[c] = "ok"
        BY <1>1, <2>1, <2>3 DEF TypeOK
      <3>2. StartOp(c, IF op[c] = "read" THEN "write" ELSE "read")
        BY <1>5, <2>3 DEF Continue
      <3>3. /\ at'[c] \in {"await", "suspended"} /\ res'[c] = "pending"
            /\ op'[c] = IF op[c] = "read" THEN "write" ELSE "read"
        BY <1>1, <3>2 DEF StartOp, Goes, Set, TypeOK
      <3> QED  BY <1>1, <1>2, <2>1, <3>1, <3>3 DEF BufFree
    <2> QED  BY <2>2, <2>3
  <1> QED  BY <1>2, <1>3, <1>4, <1>5 DEF Session

\* A part of an operation moves bytes along the round.
LEMMA KernelBytes ==
    ASSUME OrderInv, NEW c \in Conns, Kernel(c)
    PROVE  BufFree(c)' /\ BytesStay(c) /\ \A d \in Conns : d # c => BytesStay(d)
  <1>1. TypeOK /\ SessionInv(c) /\ BufFree(c) /\ BufSize \in Nat
    BY EchoServersAssumption DEF OrderInv, IInv
  <1>2. /\ buf \in [Conns -> Seq(Nat \ {0})] /\ inbox \in [Conns -> Seq(Nat \ {0})]
        /\ outbox \in [Conns -> Seq(Nat \ {0})]
    BY <1>1 DEF TypeOK
  <1>3. /\ res[c] = "pending" /\ UNCHANGED <<at, op, link, sent>>
        /\ at[c] \in {"await", "then", "suspended"}
    <2>1. res[c] = "pending" /\ UNCHANGED <<at, op, link, sent>>
      BY DEF Kernel, ReadCompletes, WriteSome, OpFails, wire
    <2> QED  BY <1>1, <2>1 DEF SessionInv, TypeOK, Places
  <1>4. ASSUME NEW n \in 1..BufSize, ReadCompletes(c, n)
        PROVE  BufFree(c)' /\ BytesStay(c) /\ \A d \in Conns : d # c => BytesStay(d)
    <2> DEFINE got == SubSeq(inbox[c], 1, n)
               rest == SubSeq(inbox[c], n + 1, Len(inbox[c]))
    <2>1. op[c] = "read" /\ buf[c] = <<>>
      BY <1>1, <1>4 DEF ReadCompletes, BufFree
    <2>2. outbox[c] \o got \o rest = outbox[c] \o <<>> \o inbox[c]
      <3>1. n \in Nat /\ n <= Len(inbox[c])
        BY <1>1, <1>4 DEF ReadCompletes
      <3>2. outbox[c] \in Seq(Nat \ {0}) /\ inbox[c] \in Seq(Nat \ {0})
        BY <1>2
      <3> QED  BY <3>1, <3>2, ReadRound, Zenon
    <2>3. /\ buf' = [buf EXCEPT ![c] = got] /\ inbox' = [inbox EXCEPT ![c] = rest]
          /\ outbox' = outbox /\ res' = [res EXCEPT ![c] = "ok"]
      BY <1>4 DEF ReadCompletes, Set
    <2> HIDE DEF got, rest
    <2>4. /\ buf'[c] = got /\ inbox'[c] = rest /\ res'[c] = "ok"
          /\ \A d \in Conns : d # c => buf'[d] = buf[d] /\ inbox'[d] = inbox[d]
      BY <1>1, <1>2, <2>3 DEF TypeOK
    <2>5. Round(c)' = Round(c)
      BY <2>1, <2>2, <2>3, <2>4 DEF Round
    <2>6. \A d \in Conns : d # c => Round(d)' = Round(d)
      BY <2>3, <2>4 DEF Round
    <2> QED  BY <1>3, <2>1, <2>4, <2>5, <2>6 DEF BufFree, BytesStay
  <1>5. ASSUME NEW n \in 1..BufSize, WriteSome(c, n)
        PROVE  BufFree(c)' /\ BytesStay(c) /\ \A d \in Conns : d # c => BytesStay(d)
    <2> DEFINE part == SubSeq(buf[c], 1, n)
               rest == SubSeq(buf[c], n + 1, Len(buf[c]))
               out == outbox[c] \o part
               v == IF n = Len(buf[c]) THEN "ok" ELSE "pending"
    <2>1. op[c] = "write" /\ n \in Nat /\ n <= Len(buf[c])
      BY <1>1, <1>5 DEF WriteSome
    <2>2. out \o rest = outbox[c] \o buf[c]
      <3>1. outbox[c] \in Seq(Nat \ {0}) /\ buf[c] \in Seq(Nat \ {0})
        BY <1>2
      <3> QED  BY <2>1, <3>1, WriteRound, Zenon
    <2>3. v = "ok" => rest = <<>>
      BY <1>2, <2>1, SubSeqEmpty, LenProperties
    <2>4. /\ buf' = [buf EXCEPT ![c] = rest] /\ outbox' = [outbox EXCEPT ![c] = out]
          /\ inbox' = inbox /\ res' = [res EXCEPT ![c] = v]
      BY <1>5 DEF WriteSome, Set
    <2> HIDE DEF part, rest, out, v
    <2>5. /\ buf'[c] = rest /\ outbox'[c] = out /\ res'[c] = v
          /\ \A d \in Conns : d # c => buf'[d] = buf[d] /\ outbox'[d] = outbox[d]
      BY <1>1, <1>2, <2>4 DEF TypeOK
    <2>6. Round(c)' = Round(c)
      BY <2>2, <2>4, <2>5 DEF Round
    <2>7. \A d \in Conns : d # c => Round(d)' = Round(d)
      BY <2>4, <2>5 DEF Round
    <2> QED  BY <1>3, <2>1, <2>3, <2>5, <2>6, <2>7 DEF BufFree, BytesStay
  <1>6. CASE OpFails(c)
    <2>1. UNCHANGED <<buf, inbox, outbox>> /\ res' = [res EXCEPT ![c] = "error"]
      BY <1>6 DEF OpFails, Set, wire
    <2>2. res'[c] = "error"
      BY <1>1, <2>1 DEF TypeOK
    <2> QED  BY <1>3, <2>1, <2>2 DEF BufFree, BytesStay, Round
  <1> QED  BY <1>4, <1>5, <1>6 DEF Kernel

\* The acceptor starts a session that has no bytes yet, and moves none.
LEMMA AcceptBytes ==
    ASSUME OrderInv, Accepting \/ AcceptFails
    PROVE  \A d \in Conns : BufFree(d)' /\ BytesStay(d)
  <1>1. TypeOK /\ AcceptInv /\ \A d \in Conns : BufFree(d)
    BY DEF OrderInv, IInv
  <1>2. /\ UNCHANGED <<op, res, buf, inbox, outbox, sent>>
        /\ \A d \in Conns : link'[d] # "reset" => link[d] # "reset"
        /\ \A d \in Conns : at'[d] \in {"none", "begin"} => at[d] \in {"none", "begin"}
    <2>1. CASE HandleAccept
      BY <1>1, <2>1 DEF HandleAccept, Set, AcceptInv, TypeOK, wire
    <2>2. CASE HandleAcceptError
      BY <1>1, <2>2 DEF HandleAcceptError, TypeOK, frames
    <2>3. CASE StartAccept \/ AcceptFails \/ \E c \in Conns : AcceptDone(c)
      BY <2>3 DEF StartAccept, AcceptFails, AcceptDone, frames, wire
    <2> QED  BY <2>1, <2>2, <2>3 DEF Accepting
  <1> QED  BY <1>1, <1>2 DEF BufFree, BytesStay, Round

\* A client adds a byte at the end of its round, or cuts off what is on its way.
LEMMA ClientBytes ==
    ASSUME OrderInv, NEW c \in Conns, Client(c)
    PROVE  \A d \in Conns : BufFree(d)' /\ InOrder(d)'
  <1>1. TypeOK /\ \A d \in Conns : BufFree(d) /\ InOrder(d)
    BY DEF OrderInv, IInv
  <1>2. UNCHANGED <<frames, outbox>>
    BY DEF Client, Connect, Send, Reset
  <1>3. \A d \in Conns : SameSession(d)
    BY <1>2 DEF SameSession, frames
  <1>4. /\ inbox \in [Conns -> Seq(Nat \ {0})] /\ sent \in [Conns -> Nat]
        /\ link \in [Conns -> {"none", "up", "reset"}]
    BY <1>1 DEF TypeOK
  <1> DEFINE x == outbox[c] \o buf[c]
  <1>5. x \in Seq(Nat \ {0}) /\ inbox[c] \in Seq(Nat \ {0})
    <2>1. outbox[c] \in Seq(Nat \ {0}) /\ buf[c] \in Seq(Nat \ {0})
      BY <1>1 DEF TypeOK
    <2> QED  BY <1>4, <2>1, ConcatProperties
  <1>6. Round(c) = x \o inbox[c] /\ Round(c)' = x \o inbox'[c]
    BY <1>2 DEF Round, frames
  <1> HIDE DEF x
  <1>7. Len(Round(c)) \in Nat
    BY <1>5, <1>6, ConcatProperties, LenProperties
  <1>8. CASE Connect(c)
    <2>1. link[c] = "none" /\ link' = [link EXCEPT ![c] = "up"] /\ UNCHANGED <<inbox, sent>>
      BY <1>8 DEF Connect, Set
    <2>2. \A d \in Conns : link'[d] # "reset" => link[d] # "reset"
      BY <1>4, <2>1
    <2>3. \A d \in Conns : BytesStay(d)
      BY <1>2, <2>1, <2>2 DEF BytesStay, Round, frames
    <2> QED  BY <1>1, <1>3, <2>3, SameBufFree, StayInOrder
  <1>9. CASE Send(c)
    <2> DEFINE e == sent[c] + 1
    <2>1. /\ link[c] = "up" /\ sent' = [sent EXCEPT ![c] = e]
          /\ inbox' = [inbox EXCEPT ![c] = Append(inbox[c], e)] /\ link' = link
      BY <1>9 DEF Send, Set
    <2>2. e \in Nat \ {0} /\ sent[c] \in Nat
      BY <1>4
    <2>3. inbox'[c] = Append(inbox[c], e) /\ sent'[c] = sent[c] + 1
      BY <1>4, <2>1
    <2>4. Len(Round(c)) = sent[c] /\ \A k \in 1..Len(Round(c)) : Round(c)[k] = k
      BY <1>1, <2>1 DEF InOrder
    <2> HIDE DEF e
    <2>5. /\ Len(Round(c)') = Len(Round(c)) + 1 /\ Round(c)'[Len(Round(c)) + 1] = e
          /\ \A k \in 1..Len(Round(c)) : Round(c)'[k] = Round(c)[k]
      <3>1. /\ Len(x \o Append(inbox[c], e)) = Len(x \o inbox[c]) + 1
            /\ (x \o Append(inbox[c], e))[Len(x \o inbox[c]) + 1] = e
            /\ \A k \in 1..Len(x \o inbox[c]) :
                  (x \o Append(inbox[c], e))[k] = (x \o inbox[c])[k]
        BY <1>5, <2>2, GrownRound
      <3>2. Round(c)' = x \o Append(inbox[c], e) /\ Round(c) = x \o inbox[c]
        BY <1>6, <2>3
      <3> QED  BY <3>1, <3>2, Zenon
    <2>6. Len(Round(c)') = sent'[c]
      BY <2>3, <2>4, <2>5
    <2>7. \A k \in 1..Len(Round(c)') : Round(c)'[k] = k
      BY <1>7, <2>4, <2>5 DEF e
    <2>8. InOrder(c)'
      BY <1>7, <2>5, <2>6, <2>7 DEF InOrder
    <2>9. \A d \in Conns : d # c => BytesStay(d)
      BY <1>2, <1>4, <2>1 DEF BytesStay, Round, frames
    <2> QED  BY <1>1, <1>3, <2>8, <2>9, SameBufFree, StayInOrder
  <1>10. CASE Reset(c)
    <2>1. /\ link' = [link EXCEPT ![c] = "reset"] /\ sent' = sent
          /\ inbox' = [inbox EXCEPT ![c] = <<>>]
      BY <1>10 DEF Reset, Set
    <2>2. inbox'[c] = <<>> /\ link'[c] = "reset"
      BY <1>4, <2>1
    <2>3. /\ Len(Round(c)') <= Len(Round(c)) /\ Len(Round(c)') \in Nat
          /\ \A k \in 1..Len(Round(c)') : Round(c)'[k] = Round(c)[k]
      <3>1. Round(c)' = x \o <<>>
        BY <1>6, <2>2
      <3>2. x \o <<>> = x /\ Len(x) \in Nat
        BY <1>5, ConcatEmptySeq, LenProperties
      <3> QED  BY <1>5, <1>6, <3>1, <3>2, CutRound
    <2>4. InOrder(c)'
      <3>1. Len(Round(c)) <= sent[c] /\ sent[c] \in Nat /\ \A k \in 1..Len(Round(c)) : Round(c)[k] = k
        BY <1>1, <1>4 DEF InOrder
      <3>2. \A k \in 1..Len(Round(c)') : Round(c)'[k] = k
        BY <1>7, <2>3, <3>1
      <3> QED  BY <1>7, <2>1, <2>2, <2>3, <3>1, <3>2 DEF InOrder
    <2>5. \A d \in Conns : d # c => BytesStay(d)
      BY <1>2, <1>4, <2>1 DEF BytesStay, Round, frames
    <2> QED  BY <1>1, <1>3, <2>4, <2>5, SameBufFree, StayInOrder
  <1> QED  BY <1>8, <1>9, <1>10 DEF Client

LEMMA OrderInit == Init => OrderInv
  <1> SUFFICES ASSUME Init PROVE OrderInv
    OBVIOUS
  <1>1. IInv
    BY InitInv
  <1>2. ASSUME NEW c \in Conns PROVE BufFree(c) /\ InOrder(c)
    <2>1. buf[c] = <<>> /\ Round(c) = <<>> \o <<>> \o <<>> /\ sent[c] = 0
      BY DEF Init, Round
    <2>2. <<>> \o <<>> \o <<>> = <<>> /\ Len(<<>>) = 0
      OBVIOUS
    <2> QED  BY <2>1, <2>2 DEF BufFree, InOrder
  <1> QED  BY <1>1, <1>2 DEF OrderInv

LEMMA OrderStep == OrderInv /\ [Next]_vars => OrderInv'
  <1> SUFFICES ASSUME OrderInv, [Next]_vars PROVE OrderInv'
    OBVIOUS
  <1>1. IInv /\ IInv' /\ \A d \in Conns : BufFree(d) /\ InOrder(d)
    BY Steps DEF OrderInv
  <1>2. CASE UNCHANGED vars
    <2>1. \A d \in Conns : SameSession(d) /\ BytesStay(d)
      BY <1>2 DEF vars, SameSession, BytesStay, Round, frames, wire
    <2> QED  BY <1>1, <2>1, SameBufFree, StayInOrder DEF OrderInv
  <1>3. ASSUME NEW c \in Conns, Session(c)
        PROVE  OrderInv'
    <2>1. BufFree(c)' /\ UNCHANGED <<buf, wire, sent>>
      BY <1>3, SessionBytes
    <2>2. \A d \in Conns : d # c => SameSession(d)
      BY <1>1, <1>3, SessionSteps
    <2>3. \A d \in Conns : BytesStay(d)
      BY <2>1 DEF BytesStay, Round, wire
    <2> QED  BY <1>1, <2>1, <2>2, <2>3, SameBufFree, StayInOrder DEF OrderInv
  <1>4. ASSUME NEW c \in Conns, Kernel(c)
        PROVE  OrderInv'
    <2>1. BufFree(c)' /\ BytesStay(c) /\ \A d \in Conns : d # c => BytesStay(d)
      BY <1>4, KernelBytes
    <2>2. \A d \in Conns : d # c => SameSession(d)
      BY <1>1, <1>4, KernelSteps
    <2> QED  BY <1>1, <2>1, <2>2, SameBufFree, StayInOrder DEF OrderInv
  <1>5. CASE Accepting \/ AcceptFails
    BY <1>1, <1>5, AcceptBytes, StayInOrder DEF OrderInv
  <1>6. ASSUME NEW c \in Conns, Client(c)
        PROVE  OrderInv'
    BY <1>1, <1>6, ClientBytes DEF OrderInv
  <1> QED  BY <1>2, <1>3, <1>4, <1>5, <1>6 DEF Next

-----------------------------------------------------------------------------
\* The server is idle only when it owes nobody anything.

\* The acceptor waits for a session that holds its thread, a connection that has
\* no session yet is on its way to one, and there is something to write.
ServingInv ==
    acceptor = "serving" =>
        /\ conn \in Conns
        /\ \/ at[conn] \in {"begin", "await", "then", "resumed"}
           \/ at[conn] = "unwinding" /\ server # "myserver"
Coming(c) ==
    \/ c \in backlog
    \/ acceptor = "done" /\ conn = c
    \/ acceptor = "closed" /\ link[c] = "reset"
WaitingInv ==
    /\ acceptor = "closed" => backlog = {}
    /\ \A c \in Conns : at[c] = "none" /\ link[c] # "none" => Coming(c)
BufFull(c) ==
    (\/ op[c] = "read" /\ res[c] = "ok"
     \/ op[c] = "write" /\ res[c] = "pending") => buf[c] # <<>>

IdleInv == OrderInv /\ ServingInv /\ WaitingInv /\ \A c \in Conns : BufFull(c)

LEMMA SameBufFull == ASSUME NEW d, BufFull(d), SameSession(d) PROVE BufFull(d)'
  BY DEF BufFull, SameSession

\* A session's step is its handler's, or moves its code.
LEMMA SessionMoves ==
    ASSUME NEW c \in Conns, Session(c)
    PROVE  /\ at[c] # "none" \/ Handler(c)
           /\ UNCHANGED <<server, conn, backlog, buf, link>>
           /\ \/ Handler(c)
              \/ \E where \in {"await", "then", "suspended", "resumed", "unwinding", "freed"} :
                    Goes(c, where)
  <1>1. CASE Handler(c)
    BY <1>1 DEF Handler, accepting, wire
  <1>2. ASSUME NEW e \in BOOLEAN, Begin(c, e) PROVE \/ Throws(c) \/ StartOp(c, "read")
    BY <1>2 DEF Begin
  <1>3. CASE (\E e \in BOOLEAN : Begin(c, e)) \/ Continue(c)
    <2>1. Throws(c) \/ StartOp(c, "read") \/ StartOp(c, "write")
      BY <1>2, <1>3 DEF Continue
    <2>2. at[c] # "none" /\ UNCHANGED <<server, conn, backlog, buf, link>>
      BY <1>3 DEF Begin, Continue, wire
    <2> QED  BY <2>1, <2>2 DEF Throws, StartOp
  <1>4. CASE AwaitReady(c) \/ Then(c) \/ Destroy(c)
    BY <1>4 DEF AwaitReady, Then, Destroy, wire
  <1> QED  BY <1>1, <1>3, <1>4 DEF Session

LEMMA SessionIdle ==
    ASSUME IdleInv, NEW c \in Conns, Session(c)
    PROVE  ServingInv' /\ WaitingInv' /\ BufFull(c)'
  <1>1. TypeOK /\ SessionInv(c) /\ ServingInv /\ WaitingInv /\ BufFull(c)
    BY DEF IdleInv, OrderInv, IInv
  <1>2. UNCHANGED <<server, conn, backlog, buf, link>>
    BY SessionMoves
  <1>3. CASE Handler(c)
    <2>1. /\ at' = IF at[c] = "suspended" THEN [at EXCEPT ![c] = "resumed"] ELSE at
          /\ acceptor' = acceptor /\ op' = op /\ res' = res
      BY <1>3 DEF Handler, Set, accepting
    <2>2. \A d \in Conns : at'[d] = at[d] \/ (at[d] = "suspended" /\ at'[d] = "resumed")
      BY <1>1, <2>1 DEF TypeOK
    <2> QED  BY <1>1, <1>2, <2>1, <2>2 DEF ServingInv, WaitingInv, Coming, BufFull
  <1>4. CASE ~Handler(c)
    <2>1. PICK where \in {"await", "then", "suspended", "resumed", "unwinding", "freed"} :
             Goes(c, where)
      BY <1>4, SessionMoves
    <2>2. at[c] # "none"
      BY <1>4, SessionMoves
    <2>3. at'[c] = where /\ \A d \in Conns : d # c => at'[d] = at[d]
      BY <1>1, <2>1 DEF Goes, Set, TypeOK
    <2>4. \/ acceptor' = acceptor /\ ~Returns(c, where)
          \/ acceptor = "serving" /\ acceptor' = "rearm"
      BY <2>1 DEF Goes, Returns
    <2>5. ServingInv'
      BY <1>1, <1>2, <2>3, <2>4 DEF ServingInv, Returns
    <2>6. WaitingInv'
      BY <1>1, <1>2, <2>2, <2>3, <2>4 DEF WaitingInv, Coming
    <2>7. BufFull(c)'
      <3>1. CASE op' = op /\ res' = res
        BY <1>1, <1>2, <3>1 DEF BufFull
      <3>2. ASSUME NEW k \in {"read", "write"}, StartOp(c, k), k = "write" => buf[c] # <<>>
            PROVE  BufFull(c)'
        <4>1. op'[c] = k /\ res'[c] = "pending"
          BY <1>1, <3>2 DEF StartOp, Set, TypeOK
        <4> QED  BY <1>2, <3>2, <4>1 DEF BufFull
      <3>3. CASE Throws(c)
        <4>1. op'[c] = "none"
          BY <1>1, <3>3 DEF Throws, Set, TypeOK
        <4> QED  BY <4>1 DEF BufFull
      <3>4. CASE \E e \in BOOLEAN : Begin(c, e)
        BY <3>2, <3>3, <3>4 DEF Begin
      <3>5. CASE Continue(c) /\ ~Throws(c)
        <4>1. /\ stored[c] # "error" /\ stored[c] = res[c] /\ stored[c] # "none"
              /\ op[c] \in {"read", "write"}
          BY <1>1, <3>5 DEF Continue, SessionInv, TypeOK
        <4>2. res[c] = "ok"
          BY <1>1, <4>1 DEF TypeOK
        <4>3. CASE op[c] = "read"
          BY <1>1, <3>2, <3>5, <4>1, <4>2, <4>3 DEF Continue, BufFull
        <4>4. CASE op[c] = "write"
          BY <3>2, <3>5, <4>1, <4>4 DEF Continue
        <4> QED  BY <4>1, <4>3, <4>4
      <3>6. CASE AwaitReady(c) \/ Then(c) \/ Destroy(c)
        BY <3>1, <3>6 DEF AwaitReady, Then, Destroy
      <3> QED  BY <1>4, <3>3, <3>4, <3>5, <3>6 DEF Session
    <2> QED  BY <2>5, <2>6, <2>7
  <1> QED  BY <1>3, <1>4

LEMMA KernelIdle ==
    ASSUME IdleInv, NEW c \in Conns, Kernel(c)
    PROVE  ServingInv' /\ WaitingInv' /\ BufFull(c)'
  <1>1. TypeOK /\ ServingInv /\ WaitingInv /\ BufFull(c) /\ BufSize \in Nat
    BY EchoServersAssumption DEF IdleInv, OrderInv, IInv
  <1>2. UNCHANGED <<server, conn, acceptor, backlog, at, op, link>>
    BY DEF Kernel, ReadCompletes, WriteSome, OpFails, accepting, wire
  <1>3. ServingInv' /\ WaitingInv'
    BY <1>1, <1>2 DEF ServingInv, WaitingInv, Coming
  <1>4. buf \in [Conns -> Seq(Nat \ {0})] /\ inbox \in [Conns -> Seq(Nat \ {0})]
    BY <1>1 DEF TypeOK
  <1>5. ASSUME NEW n \in 1..BufSize, ReadCompletes(c, n)
        PROVE  BufFull(c)'
    <2>1. n \in Nat /\ n > 0 /\ n <= Len(inbox[c]) /\ inbox[c] \in Seq(Nat \ {0})
      BY <1>1, <1>4, <1>5 DEF ReadCompletes
    <2>2. Len(SubSeq(inbox[c], 1, n)) = n
      BY <2>1
    <2>3. SubSeq(inbox[c], 1, n) # <<>>
      BY <2>1, <2>2
    <2>4. buf'[c] = SubSeq(inbox[c], 1, n)
      BY <1>4, <1>5 DEF ReadCompletes, Set
    <2> QED  BY <2>3, <2>4 DEF BufFull
  <1>6. ASSUME NEW n \in 1..BufSize, WriteSome(c, n)
        PROVE  BufFull(c)'
    <2>1. /\ n \in Nat /\ n > 0 /\ n <= Len(buf[c]) /\ buf[c] \in Seq(Nat \ {0})
          /\ op[c] = "write"
      BY <1>1, <1>4, <1>6 DEF WriteSome
    <2>2. CASE n = Len(buf[c])
      <3>1. res'[c] = "ok" /\ op'[c] = "write"
        BY <1>1, <1>2, <1>6, <2>1, <2>2 DEF WriteSome, Set, TypeOK
      <3> QED  BY <3>1 DEF BufFull
    <2>3. CASE n # Len(buf[c])
      <3>1. n < Len(buf[c]) /\ Len(buf[c]) \in Nat
        BY <2>1, <2>3
      <3>2. Len(SubSeq(buf[c], n + 1, Len(buf[c]))) = Len(buf[c]) - n
        BY <2>1, <3>1
      <3>3. SubSeq(buf[c], n + 1, Len(buf[c])) # <<>>
        <4> DEFINE rest == SubSeq(buf[c], n + 1, Len(buf[c]))
        <4>1. Len(rest) > 0
          BY <2>1, <3>1, <3>2
        <4>2. Len(<<>>) = 0
          OBVIOUS
        <4> HIDE DEF rest
        <4>3. rest # <<>>
          BY <4>1, <4>2
        <4> QED  BY <4>3 DEF rest
      <3>4. buf'[c] = SubSeq(buf[c], n + 1, Len(buf[c]))
        BY <1>4, <1>6 DEF WriteSome, Set
      <3> QED  BY <3>3, <3>4 DEF BufFull
    <2> QED  BY <2>2, <2>3
  <1>7. CASE OpFails(c)
    <2>1. res'[c] = "error"
      BY <1>1, <1>7 DEF OpFails, Set, TypeOK
    <2> QED  BY <1>3, <2>1 DEF BufFull
  <1> QED  BY <1>3, <1>5, <1>6, <1>7 DEF Kernel

LEMMA AcceptIdle ==
    ASSUME IdleInv, Accepting \/ AcceptFails
    PROVE  ServingInv' /\ WaitingInv' /\ \A d \in Conns : BufFull(d)'
  <1>1. TypeOK /\ AcceptInv /\ ServingInv /\ WaitingInv /\ \A d \in Conns : BufFull(d)
    BY DEF IdleInv, OrderInv, IInv
  <1>2. UNCHANGED <<server, op, res, buf>>
    BY DEF Accepting, HandleAccept, HandleAcceptError, StartAccept, AcceptDone, AcceptFails, frames
  <1>3. \A d \in Conns : BufFull(d)'
    BY <1>1, <1>2 DEF BufFull
  <1>4. CASE HandleAccept
    <2>1. /\ acceptor = "done" /\ conn \in Conns /\ acceptor' = "serving" /\ at'[conn] = "begin"
          /\ \A d \in Conns : d # conn => at'[d] = at[d]
          /\ UNCHANGED <<conn, backlog, link>>
      BY <1>1, <1>4 DEF HandleAccept, Set, AcceptInv, TypeOK, wire
    <2> QED  BY <1>1, <1>3, <2>1 DEF ServingInv, WaitingInv, Coming
  <1>5. CASE HandleAcceptError
    <2>1. CASE server = "hard2"
      <3>1. /\ acceptor = "error" /\ acceptor' = "closed" /\ backlog' = {} /\ at' = at
            /\ link' = [c \in Conns |-> IF c \in backlog THEN "reset" ELSE link[c]]
        BY <1>5, <2>1 DEF HandleAcceptError, frames
      <3>2. \A d \in Conns : link'[d] = IF d \in backlog THEN "reset" ELSE link[d]
        BY <3>1
      <3> QED  BY <1>1, <1>3, <3>1, <3>2 DEF ServingInv, WaitingInv, Coming
    <2>2. CASE server # "hard2"
      BY <1>1, <1>3, <1>5, <2>2 DEF HandleAcceptError, frames, ServingInv, WaitingInv, Coming
    <2> QED  BY <2>1, <2>2
  <1>6. CASE StartAccept \/ AcceptFails
    BY <1>1, <1>3, <1>6 DEF StartAccept, AcceptFails, frames, wire, ServingInv, WaitingInv, Coming
  <1>7. ASSUME NEW c \in Conns, AcceptDone(c)
        PROVE  ServingInv' /\ WaitingInv'
    BY <1>1, <1>7 DEF AcceptDone, frames, wire, ServingInv, WaitingInv, Coming
  <1> QED  BY <1>3, <1>4, <1>5, <1>6, <1>7 DEF Accepting

LEMMA ClientIdle ==
    ASSUME IdleInv, NEW c \in Conns, Client(c)
    PROVE  ServingInv' /\ WaitingInv' /\ \A d \in Conns : BufFull(d)'
  <1>1. TypeOK /\ ServingInv /\ WaitingInv /\ \A d \in Conns : BufFull(d)
    BY DEF IdleInv, OrderInv, IInv
  <1>2. UNCHANGED <<server, acceptor, conn, at, op, res, buf>>
    BY DEF Client, Connect, Send, Reset, frames, accepting
  <1>3. ServingInv' /\ \A d \in Conns : BufFull(d)'
    BY <1>1, <1>2 DEF ServingInv, BufFull
  <1>4. CASE Connect(c)
    <2>1. /\ acceptor # "closed" /\ backlog' = backlog \cup {c}
          /\ \A d \in Conns : d # c => link'[d] = link[d]
      BY <1>1, <1>4 DEF Connect, Set, TypeOK
    <2> QED  BY <1>1, <1>2, <1>3, <2>1 DEF WaitingInv, Coming
  <1>5. CASE Send(c)
    BY <1>1, <1>2, <1>3, <1>5 DEF Send, accepting, WaitingInv, Coming
  <1>6. CASE Reset(c)
    <2>1. /\ backlog' = backlog /\ link[c] = "up"
          /\ link'[c] = "reset" /\ \A d \in Conns : d # c => link'[d] = link[d]
      BY <1>1, <1>6 DEF Reset, Set, TypeOK, accepting
    <2> QED  BY <1>1, <1>2, <1>3, <2>1 DEF WaitingInv, Coming
  <1> QED  BY <1>4, <1>5, <1>6 DEF Client

LEMMA IdleInit == Init => IdleInv
  BY OrderInit DEF Init, IdleInv, ServingInv, WaitingInv, BufFull

LEMMA IdleStep == IdleInv /\ [Next]_vars => IdleInv'
  <1> SUFFICES ASSUME IdleInv, [Next]_vars PROVE IdleInv'
    OBVIOUS
  <1>1. OrderInv' /\ IInv /\ \A d \in Conns : BufFull(d)
    BY OrderStep DEF IdleInv, OrderInv
  <1>2. CASE UNCHANGED vars
    BY <1>1, <1>2 DEF vars, frames, wire, accepting, IdleInv, ServingInv, WaitingInv, Coming, BufFull
  <1>3. ASSUME NEW c \in Conns, Session(c) \/ Kernel(c)
        PROVE  IdleInv'
    <2>1. ServingInv' /\ WaitingInv' /\ BufFull(c)'
      BY <1>3, SessionIdle, KernelIdle
    <2>2. \A d \in Conns : d # c => SameSession(d)
      BY <1>1, <1>3, SessionSteps, KernelSteps
    <2> QED  BY <1>1, <2>1, <2>2, SameBufFull DEF IdleInv
  <1>4. CASE Accepting \/ AcceptFails
    BY <1>1, <1>4, AcceptIdle DEF IdleInv
  <1>5. ASSUME NEW c \in Conns, Client(c)
        PROVE  IdleInv'
    BY <1>1, <1>5, ClientIdle DEF IdleInv
  <1> QED  BY <1>2, <1>3, <1>4, <1>5 DEF Next

\* An idle server has its threads in the queue.
LEMMA IdleThreads ==
    ASSUME TypeOK, ~AcceptorReady, \A c \in Conns : ~SessionReady(c)
    PROVE  Dequeue \/ \E c \in Conns : at[c] = "unwinding" /\ server # "myserver"
  <1> SUFFICES ASSUME ~\E c \in Conns : at[c] = "unwinding" /\ server # "myserver"
               PROVE  Dequeue
    OBVIOUS
  <1>1. {c \in Conns : \/ at[c] \in {"begin", "await", "then", "resumed"}
                       \/ at[c] = "unwinding" /\ server # "myserver"} = {}
    BY DEF SessionReady
  <1>2. acceptor # "rearm"
    BY DEF AcceptorReady
  <1>3. Busy = 0
    BY <1>1, <1>2, FS_EmptySet DEF Busy
  <1>4. threads \in Nat \ {0}
    BY EchoServersAssumption DEF TypeOK
  <1> QED  BY <1>3, <1>4 DEF Dequeue

LEMMA IdleIsServed == IdleInv => IdleWhenServed
  <1> SUFFICES ASSUME IdleInv, ~AcceptorReady, \A c \in Conns : ~SessionReady(c) /\ ~KernelReady(c)
               PROVE  /\ acceptor \in {"armed", "closed"}
                      /\ \A c \in Conns :
                            /\ link[c] = "up" => at[c] = "freed" \/ Len(outbox[c]) = sent[c]
                            /\ at[c] \in {"none", "suspended", "freed"}
                            /\ link[c] = "reset" => at[c] = "freed" \/ acceptor = "closed"
    BY DEF IdleWhenServed
  <1>1. TypeOK /\ AcceptInv /\ ServingInv /\ WaitingInv
    BY DEF IdleInv, OrderInv, IInv
  <1>2. Dequeue
    BY <1>1, IdleThreads DEF SessionReady
  <1>3. ASSUME NEW c \in Conns PROVE at[c] \in {"none", "suspended", "freed"}
    <2>1. at[c] \in Places
      BY <1>1 DEF TypeOK
    <2> QED  BY <1>2, <2>1 DEF SessionReady, Places
  <1>4. acceptor \in {"armed", "closed"} /\ (acceptor = "armed" => backlog = {})
    <2>1. acceptor # "serving"
      BY <1>1, <1>3 DEF ServingInv
    <2> QED  BY <1>1, <1>2, <2>1 DEF TypeOK, AcceptorReady
  <1>5. ASSUME NEW c \in Conns, at[c] = "none", link[c] # "none"
        PROVE  acceptor = "closed" /\ link[c] = "reset"
    BY <1>1, <1>4, <1>5 DEF WaitingInv, Coming
  <1>6. ASSUME NEW c \in Conns, at[c] = "suspended"
        PROVE  link[c] = "up" /\ Len(outbox[c]) = sent[c]
    <2>1. SessionInv(c) /\ BufFree(c) /\ InOrder(c) /\ BufFull(c)
      BY DEF IdleInv, OrderInv, IInv
    <2>2. res[c] = "pending" /\ op[c] \in {"read", "write"}
      BY <1>1, <1>2, <1>6, <2>1 DEF SessionReady, SessionInv, TypeOK
    <2>3. link[c] = "up"
      BY <1>1, <1>6, <2>2 DEF KernelReady, AcceptInv, TypeOK
    <2>4. inbox[c] = <<>> /\ buf[c] = <<>>
      BY <2>1, <2>2, <2>3 DEF KernelReady, BufFree, BufFull
    <2>5. outbox[c] \in Seq(Nat \ {0})
      BY <1>1 DEF TypeOK
    <2>6. Round(c) = outbox[c]
      BY <2>4, <2>5, ConcatEmptySeq DEF Round
    <2> QED  BY <2>1, <2>3, <2>6 DEF InOrder
  <1> QED  BY <1>3, <1>4, <1>5, <1>6

-----------------------------------------------------------------------------
\* The theorems.

\* A session has the one operation of its loop outstanding while it is in that
\* loop, and no connection is in two places: the backlog, the hands of the
\* acceptor and a session (hard1.cpp:55-86, easy.cpp:24-56).
THEOREM ServersInvariant == Spec => []IInv
  BY InitInv, Steps, PTL DEF Spec

\* Every variable has its type.
THEOREM ServersTypes == Spec => []TypeOK
  BY ServersInvariant, PTL DEF IInv

\* Each session of each server does what myserver.cpp's does, one operation at a
\* time and an end at the first error (hard1.cpp:26, 48, boost_coro.h:51-63).
THEOREM ServersRefine == Spec => ImplementsMyserver
  <1>1. Init => \A c \in Conns : Myserver(c)!Init
    BY InitMaps
  <1>2. IInv /\ [Next]_vars => [\A c \in Conns : [MyserverStep(c)]_(Myserver(c)!server)]_vars
    BY Steps DEF StepMaps
  <1> QED  BY <1>1, <1>2, ServersInvariant, PTL DEF Spec, ImplementsMyserver

\* The bytes of every connection come back in the order in which they were sent,
\* for any number of connections and threads, and of every buf (hard1.cpp:55-64).
THEOREM ServersInOrder == Spec => []EchoesInOrder
  <1>1. Spec => []OrderInv
    BY OrderInit, OrderStep, PTL DEF Spec
  <1>2. OrderInv => EchoesInOrder
    BY DEF OrderInv, EchoesInOrder, InOrder
  <1> QED  BY <1>1, <1>2, PTL

\* The server is idle only when every connection that it still has is served: no
\* step order loses a wakeup or keeps the acceptor (boost_coro.h:51-63).
THEOREM ServersIdleServed == Spec => []IdleWhenServed
  BY IdleInit, IdleStep, IdleIsServed, PTL DEF Spec
================================================================================
