-------------------------- MODULE EventLoop_proofs --------------------------
(***************************************************************************)
(* Proofs about EventLoop for every value of its constants: any number of  *)
(* contexts, descriptors and connections, any buffer sizes, every mode and *)
(* every fault.                                                            *)
(***************************************************************************)
EXTENDS EventLoop, SequenceTheorems, TLAPS

-----------------------------------------------------------------------------
(* Sequences. *)

\* A part of a sequence is a sequence over the same set, of the length asked for.
LEMMA SubSeqType ==
  ASSUME NEW S, NEW s \in Seq(S), NEW m \in Nat \ {0}, NEW n \in Int, n <= Len(s)
  PROVE  /\ SubSeq(s, m, n) \in Seq(S)
         /\ Len(SubSeq(s, m, n)) = IF m <= n THEN n - m + 1 ELSE 0
<1>1. \A i \in m..n : s[i] \in S
  BY LenProperties, ElementOfSeq
<1> QED
  BY <1>1, SubSeqProperties

\* Overwriting the start of a buffer never makes it shorter.
LEMMA OverwriteType ==
  ASSUME NEW b \in Seq(Byte), NEW d \in Seq(Byte)
  PROVE  /\ Overwrite(b, d) \in Seq(Byte)
         /\ Len(b) <= Len(Overwrite(b, d))
<1> DEFINE r == SubSeq(b, Len(d) + 1, Len(b))
<1>1. Len(b) \in Nat /\ Len(d) \in Nat
  BY LenProperties
<1>2. r \in Seq(Byte) /\ Len(r) = IF Len(d) + 1 <= Len(b) THEN Len(b) - Len(d) ELSE 0
  BY <1>1, SubSeqType
<1>3. d \o r \in Seq(Byte) /\ Len(d \o r) = Len(d) + Len(r)
  BY <1>2, ConcatProperties
<1> QED
  BY <1>1, <1>2, <1>3 DEF Overwrite

-----------------------------------------------------------------------------
(* Types. *)

TypeInv == TypeOK /\ QueueInBuffer

LEMMA NewSocketType ==
  /\ \A s \in {"client", "upstream"} : NewSocket(s) \in Socket
  /\ ClosedSocket \in Socket
<1>1. 0 \in 0..SndCap /\ 0 \in 0..MaxSend /\ <<>> \in Seq(Byte)
  BY KernelAssumption, EmptySeq
<1>2. \A s \in {"client", "upstream"} : NewSocket(s) \in Socket
  BY <1>1, Zenon DEF NewSocket, Socket
<1>3. ClosedSocket \in Socket
  BY <1>2, Zenon DEF ClosedSocket, Socket
<1> QED
  BY <1>2, <1>3

LEMMA SocketFields ==
  ASSUME NEW s \in Socket
  PROVE  /\ s.open \in BOOLEAN
         /\ s.rcv \in Seq(Byte)
         /\ s.fin \in BOOLEAN
         /\ s.used \in 0..SndCap
         /\ s.shut \in BOOLEAN
         /\ s.sent \in 0..MaxSend
BY Zenon DEF Socket

LEMMA SocketUpdates ==
  ASSUME NEW s \in Socket
  PROVE  /\ \A n \in 0..SndCap : [s EXCEPT !.used = n] \in Socket
         /\ \A r \in Seq(Byte) : [s EXCEPT !.rcv = r] \in Socket
         /\ \A n \in 0..MaxSend, r \in Seq(Byte) :
              [s EXCEPT !.sent = n, !.rcv = r] \in Socket
         /\ \A e \in {"none", "reset", "pipe"} : [s EXCEPT !.err = e] \in Socket
         /\ [s EXCEPT !.fin = TRUE] \in Socket
         /\ [s EXCEPT !.shut = TRUE] \in Socket
<1>1. \A n \in 0..SndCap : [s EXCEPT !.used = n] \in Socket
  BY Zenon DEF Socket
<1>2. \A r \in Seq(Byte) : [s EXCEPT !.rcv = r] \in Socket
  BY Zenon DEF Socket
<1>3. \A n \in 0..MaxSend, r \in Seq(Byte) : [s EXCEPT !.sent = n, !.rcv = r] \in Socket
  BY Zenon DEF Socket
<1>4. \A e \in {"none", "reset", "pipe"} : [s EXCEPT !.err = e] \in Socket
  BY Zenon DEF Socket
<1>5. [s EXCEPT !.fin = TRUE] \in Socket
  BY Zenon DEF Socket
<1>6. [s EXCEPT !.shut = TRUE] \in Socket
  BY Zenon DEF Socket
<1> QED
  BY <1>1, <1>2, <1>3, <1>4, <1>5, <1>6

LEMMA TypeInit == Init => TypeInv
<1> SUFFICES ASSUME Init PROVE TypeInv
  OBVIOUS
<1>1. KernelTypeOK
  BY NewSocketType, KernelAssumption, EmptySeq
  DEF Init, KernelInit, KernelTypeOK, NotPolled, Event
<1>2. TypeOK
  BY <1>1, EmptySeq DEF Init, TypeOK
<1>3. QueueInBuffer
  BY EmptySeq, LoopAssumption DEF Init, QueueInBuffer
<1> QED
  BY <1>2, <1>3 DEF TypeInv

\* The remote programs keep the kernel's types and leave the proxy alone.
LEMMA TypeRemote ==
  TypeInv /\ Remote /\ UNCHANGED <<loopVars, ctxVars>> => TypeInv'
<1> SUFFICES ASSUME TypeInv, Remote, UNCHANGED <<loopVars, ctxVars>>
             PROVE  TypeInv'
  OBVIOUS
<1> USE DEF TypeInv, TypeOK, KernelTypeOK
<1>1. KernelTypeOK'
  <2>1. CASE Arrive
    BY <2>1, KernelAssumption DEF Arrive
  <2>2. ASSUME NEW f \in Fd, RemoteSend(f) PROVE KernelTypeOK'
    <3>1. sock[f].sent + 1 \in 0..MaxSend
      BY <2>2, KernelAssumption, SocketFields DEF RemoteSend
    <3>2. <<f, sock[f].sent + 1>> \in Byte
      BY <3>1, KernelAssumption DEF Byte
    <3>3. Append(sock[f].rcv, <<f, sock[f].sent + 1>>) \in Seq(Byte)
      BY <3>2, AppendProperties, SocketFields
    <3>4. sock' \in [Fd -> Socket]
      BY <2>2, <3>1, <3>3, SocketUpdates, Zenon DEF RemoteSend
    <3> QED
      BY <2>2, <3>4 DEF RemoteSend
  <2>3. ASSUME NEW f \in Fd, RemoteRead(f) PROVE KernelTypeOK'
    <3>1. sock[f].used - 1 \in 0..SndCap
      BY <2>3, KernelAssumption, SocketFields DEF RemoteRead
    <3>2. sock' \in [Fd -> Socket]
      BY <2>3, <3>1, SocketUpdates, Zenon DEF RemoteRead
    <3> QED
      BY <2>3, <3>2 DEF RemoteRead
  <2>4. ASSUME NEW f \in Fd, RemoteFin(f) PROVE KernelTypeOK'
    <3>1. sock' \in [Fd -> Socket]
      BY <2>4, SocketUpdates, Zenon DEF RemoteFin
    <3> QED
      BY <2>4, <3>1 DEF RemoteFin
  <2>5. ASSUME NEW f \in Fd, RemoteReset(f) PROVE KernelTypeOK'
    <3>1. sock' \in [Fd -> Socket]
      BY <2>5, SocketUpdates, Zenon DEF RemoteReset
    <3> QED
      BY <2>5, <3>1 DEF RemoteReset
  <2> QED
    BY <2>1, <2>2, <2>3, <2>4, <2>5 DEF Remote
<1>2. QueueInBuffer'
  BY DEF QueueInBuffer, ctxVars
<1> QED
  BY <1>1, <1>2 DEF loopVars, ctxVars

-----------------------------------------------------------------------------
(* Types: the loop and the accept path. *)

PollTable == [Fd -> [ev : SUBSET Event, ptr : Ctx \cup {NULL}]]

LEMMA PollOpsType ==
  ASSUME NEW pl \in PollTable, NEW f, NEW evs \in SUBSET Event, NEW c \in Ctx
  PROVE  /\ Append_poll(pl, f, evs, c) \in PollTable
         /\ Modify_poll(pl, f, evs, c) \in PollTable
         /\ Remove_poll(pl, f) \in PollTable
<1>1. [ev |-> evs, ptr |-> c] \in [ev : SUBSET Event, ptr : Ctx \cup {NULL}]
  OBVIOUS
<1>2. NotPolled \in [ev : SUBSET Event, ptr : Ctx \cup {NULL}]
  BY DEF NotPolled
<1>3. Append_poll(pl, f, evs, c) \in PollTable
  BY <1>1, Zenon DEF PollTable, Append_poll
<1>4. Modify_poll(pl, f, evs, c) \in PollTable
  BY <1>1, Zenon DEF PollTable, Modify_poll
<1>5. Remove_poll(pl, f) \in PollTable
  BY <1>2, Zenon DEF PollTable, Remove_poll
<1> QED
  BY <1>3, <1>4, <1>5

LEMMA CloseType ==
  ASSUME KernelTypeOK, NEW F
  PROVE  /\ CloseSocks(F) \in [Fd -> Socket]
         /\ ClosePolls(F) \in PollTable
         /\ CloseOuts(F) \in [Fd -> Seq(Byte)]
<1>1. CloseSocks(F) \in [Fd -> Socket]
  BY NewSocketType DEF KernelTypeOK, CloseSocks
<1>2. NotPolled \in [ev : SUBSET Event, ptr : Ctx \cup {NULL}]
  BY DEF NotPolled
<1>3. ClosePolls(F) \in PollTable
  BY <1>2, Zenon DEF KernelTypeOK, ClosePolls, PollTable
<1>4. CloseOuts(F) \in [Fd -> Seq(Byte)]
  BY EmptySeq DEF KernelTypeOK, CloseOuts
<1> QED
  BY <1>1, <1>3, <1>4

\* A stray close takes registrations away and changes none.
LEMMA StrayPoll ==
  ASSUME AcceptNoUpstream, NEW h \in Fd
  PROVE  poll'[h] = NotPolled \/ poll'[h] = poll[h]
<1>1. ASSUME NEW F, poll' = ClosePolls(F) PROVE poll'[h] = NotPolled \/ poll'[h] = poll[h]
  BY <1>1 DEF ClosePolls
<1>2. CASE StrayClose
  BY <1>1, <1>2 DEF StrayClose
<1>3. CASE StrayCloseListener
  BY <1>3 DEF StrayCloseListener
<1>4. CASE StrayCloseEpoll
  BY <1>1, <1>4 DEF StrayCloseEpoll
<1> QED
  BY <1>2, <1>3, <1>4 DEF AcceptNoUpstream

LEMMA EventSets ==
  /\ ReadEvents \in SUBSET Event
  /\ PauseEvents \in SUBSET Event
  /\ WriteEvents \in SUBSET Event
BY DEF ReadEvents, PauseEvents, WriteEvents, Event

LEMMA TypeEpoll_wait == TypeInv /\ Epoll_wait => TypeInv'
<1> SUFFICES ASSUME TypeInv, Epoll_wait PROVE TypeInv'
  OBVIOUS
<1>1. \A f \in Fd : Ev(poll[f].ptr, Ready(f)) \in [ptr : Ctx \cup {NULL}, ev : SUBSET Event]
  BY DEF TypeInv, TypeOK, KernelTypeOK, Ev, Ready
<1>2. ListenEv \in [ptr : Ctx \cup {NULL}, ev : SUBSET Event]
  BY DEF ListenEv, Ev, Event
<1>3. ReadyEvs \subseteq [ptr : Ctx \cup {NULL}, ev : SUBSET Event]
  BY <1>1, <1>2 DEF ReadyEvs, ReadyFds
<1>4. batch' \subseteq [ptr : Ctx \cup {NULL}, ev : SUBSET Event]
  BY <1>3 DEF Epoll_wait
<1>5. KernelTypeOK' /\ QueueInBuffer'
  BY DEF Epoll_wait, TypeInv, TypeOK, KernelTypeOK, QueueInBuffer, kernelVars, ctxVars
<1> QED
  BY <1>4, <1>5 DEF Epoll_wait, TypeInv, TypeOK, ctxVars

LEMMA TypeEpoll_fail == TypeInv /\ Epoll_fail => TypeInv'
BY DEF Epoll_fail, TypeInv, TypeOK, KernelTypeOK, QueueInBuffer, kernelVars, ctxVars

LEMMA TypeSweep == TypeInv /\ Sweep => TypeInv'
<1> SUFFICES ASSUME TypeInv, Sweep PROVE TypeInv'
  OBVIOUS
<1> USE DEF TypeInv, TypeOK
<1>1. KernelTypeOK'
  BY CloseType DEF Sweep, KernelTypeOK, PollTable
<1>2. dead' \in Seq(Ctx)
  BY EmptySeq DEF Sweep, ClearDead
<1>3. /\ cfd' \in [Ctx -> Fd \cup {NoFd}]
      /\ wstart' \in [Ctx -> Nat]
      /\ wlen' \in [Ctx -> Nat]
  BY DEF Sweep, Freed
<1>4. wpartial' \in [Ctx -> BOOLEAN]
  BY Zenon DEF Sweep, Freed
<1>5. /\ buffer' \in [Ctx -> Seq(Byte)]
      /\ owed' \in [Ctx -> Seq(Byte)]
  BY EmptySeq DEF Sweep, Freed
<1>6. QueueInBuffer'
  BY EmptySeq, LoopAssumption DEF Sweep, Freed, QueueInBuffer
<1> QED
  BY <1>1, <1>2, <1>3, <1>4, <1>5, <1>6 DEF Sweep

LEMMA TypeAccept == TypeInv /\ Accept => TypeInv'
<1> SUFFICES ASSUME TypeInv, Accept PROVE TypeInv'
  OBVIOUS
<1> USE DEF TypeInv, TypeOK, KernelTypeOK, Accepting
<1>1. CASE AcceptNoMemory
  BY <1>1 DEF AcceptNoMemory, QueueInBuffer, kernelVars, ctxVars
<1>2. CASE AcceptFails
  BY <1>2 DEF AcceptFails, QueueInBuffer, queueVars, Free
<1>3. CASE AcceptRefused
  BY <1>3 DEF AcceptRefused, QueueInBuffer, ctxVars
<1>4. CASE AcceptNoUpstream
  <2>1. /\ sock' \in [Fd -> Socket]
        /\ poll' \in PollTable
        /\ out' \in [Fd -> Seq(Byte)]
    <3>1. CASE StrayClose
      BY <3>1, CloseType DEF StrayClose
    <3>2. CASE StrayCloseListener
      BY <3>2 DEF StrayCloseListener, PollTable
    <3>3. CASE StrayCloseEpoll
      BY <3>3, CloseType DEF StrayCloseEpoll
    <3> QED
      BY <1>4, <3>1, <3>2, <3>3 DEF AcceptNoUpstream
  <2>2. QueueInBuffer'
    BY <1>4 DEF AcceptNoUpstream, QueueInBuffer, ctxVars
  <2>3. UNCHANGED <<ctxVars, loop, dead>> /\ proc' \in {proc, "no_epoll"}
    BY <1>4 DEF AcceptNoUpstream, StrayClose, StrayCloseListener, StrayCloseEpoll
  <2>4. batch' \subseteq batch /\ arrived' \in 0..MaxConn /\ backlog' \in 0..arrived'
    BY <1>4, KernelAssumption DEF AcceptNoUpstream, StrayClose, StrayCloseListener, StrayCloseEpoll
  <2> QED
    BY <2>1, <2>2, <2>3, <2>4 DEF ctxVars, PollTable
<1>5. CASE AcceptConnectFails
  BY <1>5 DEF AcceptConnectFails, Connectable, QueueInBuffer, ctxVars
<1>6. CASE AcceptConnected
  <2>1. PICK c \in Free, u \in Free, f \in Fd, g \in Fd,
             wc \in DirtyFlag, wu \in DirtyFlag, okC \in Registered, okU \in Registered :
          Connect(c, u, f, g, wc, wu, okC, okU)
    BY <1>6 DEF AcceptConnected
  <2>2. c \in Ctx /\ u \in Ctx
    BY DEF Free
  <2>3. sock' \in [Fd -> Socket]
    BY <2>1, NewSocketType DEF Connect
  <2>4. poll' \in PollTable
    BY <2>1, <2>2, PollOpsType, EventSets DEF PollTable, Connect
  <2>5. wpartial' \in [Ctx -> BOOLEAN]
    BY <2>1, LoopAssumption DEF Connect
  <2>6. /\ alloc' \subseteq Ctx
        /\ cfd' \in [Ctx -> Fd \cup {NoFd}]
        /\ peer' \in [Ctx -> Ctx \cup {NULL}]
    BY <2>1, <2>2 DEF Link, Connect
  <2>7. UNCHANGED <<wstart, wlen, buffer, owed, out, arrived, proc, loop, dead>>
    BY <1>6 DEF AcceptConnected, Connectable
  <2>8. batch' \subseteq batch /\ backlog' \in 0..arrived
    BY <1>6 DEF AcceptConnected, Connectable
  <2>9. QueueInBuffer'
    BY <2>7 DEF QueueInBuffer
  <2> QED
    BY <2>3, <2>4, <2>5, <2>6, <2>7, <2>8, <2>9 DEF PollTable
<1> QED
  BY <1>1, <1>2, <1>3, <1>4, <1>5, <1>6 DEF Accept

-----------------------------------------------------------------------------
(* Types: the handler. *)

\* A context whose event is handled is allocated, has a descriptor, is not
\* dead, and so is its peer.
LEMMA HandledContext ==
  ASSUME TypeInv, LifetimeInv, NEW e \in batch, e.ptr # NULL
  PROVE  /\ e.ptr \in alloc /\ e.ptr \in Ctx
         /\ cfd[e.ptr] \in Fd
         /\ e.ptr \notin Range(dead)
         /\ peer[e.ptr] # NULL =>
              /\ peer[e.ptr] \in Ctx /\ peer[e.ptr] \in alloc
              /\ peer[e.ptr] # e.ptr
              /\ peer[peer[e.ptr]] = e.ptr
              /\ cfd[peer[e.ptr]] \in Fd
<1>1. e.ptr \in alloc /\ cfd[e.ptr] \in Fd /\ e.ptr \notin Range(dead)
  BY DEF LifetimeInv, BatchOK
<1>2. alloc \subseteq Ctx
  BY DEF TypeInv, TypeOK
<1>3. \A c \in Ctx : peer[c] # NULL =>
        peer[c] \in alloc /\ peer[c] # c /\ peer[peer[c]] = c /\ cfd[c] \in Fd
  BY DEF LifetimeInv, PeerOK
<1>4. ASSUME peer[e.ptr] # NULL
      PROVE  /\ peer[e.ptr] \in Ctx /\ peer[e.ptr] \in alloc
             /\ peer[e.ptr] # e.ptr
             /\ peer[peer[e.ptr]] = e.ptr
             /\ cfd[peer[e.ptr]] \in Fd
  <2> DEFINE p == peer[e.ptr]
  <2>1. p \in Ctx /\ p \in alloc /\ p # e.ptr /\ peer[p] = e.ptr
    BY <1>1, <1>2, <1>3, <1>4
  <2>2. cfd[p] \in Fd
    BY <1>3, <2>1
  <2> QED
    BY <2>1, <2>2
<1> QED
  BY <1>1, <1>2, <1>4

\* The context dies; what happens to the socket is the caller's to show.
LEMMA TypeDrop ==
  ASSUME TypeInv, NEW c \in Ctx, peer[c] # NULL, Drop(c),
         batch' \subseteq batch, loop' = loop, sock' \in [Fd -> Socket]
  PROVE  TypeInv'
<1> USE DEF TypeInv, TypeOK, KernelTypeOK
<1>1. poll' \in PollTable
  BY EventSets, PollOpsType DEF Drop, ReturnFalse, PollTable
<1>2. dead' \in Seq(Ctx)
  BY AppendProperties DEF Drop, ReturnFalse
<1>3. peer' \in [Ctx -> Ctx \cup {NULL}]
  BY DEF Drop, Unlink
<1>4. UNCHANGED <<proc, alloc, cfd, queueVars, owed, out, backlog, arrived>>
  BY DEF Drop
<1>5. QueueInBuffer'
  BY <1>4 DEF QueueInBuffer, queueVars
<1> QED
  BY <1>1, <1>2, <1>3, <1>4, <1>5 DEF queueVars, PollTable

LEMMA TypeIdle ==
  ASSUME TypeInv, batch' \subseteq batch, loop' = loop,
         Idle \/ (\E how \in {"segv", "sigpipe"} : Dies(how))
  PROVE  TypeInv'
<1>1. UNCHANGED <<dead, ctxVars, kernelVars>>
  BY DEF Idle, Dies
<1>2. proc' \in {"run", "no_epoll", "segv", "sigpipe", "oom", "exit"}
  BY DEF Idle, Dies, TypeInv, TypeOK
<1> QED
  BY <1>1, <1>2 DEF TypeInv, TypeOK, KernelTypeOK, QueueInBuffer, ctxVars, kernelVars

\* shutdown() and the reading of a socket's received bytes.
LEMMA SockStep ==
  ASSUME NEW S \in [Fd -> Socket], NEW f \in Fd
  PROVE  /\ [S EXCEPT ![f].shut = TRUE] \in [Fd -> Socket]
         /\ \A r \in Seq(Byte) : [S EXCEPT ![f].rcv = r] \in [Fd -> Socket]
         /\ \A n \in 0..SndCap : [S EXCEPT ![f].used = n] \in [Fd -> Socket]
<1>1. S[f] \in Socket
  OBVIOUS
<1>2. [S EXCEPT ![f].shut = TRUE] \in [Fd -> Socket]
  BY <1>1, SocketUpdates, Zenon
<1>3. \A r \in Seq(Byte) : [S EXCEPT ![f].rcv = r] \in [Fd -> Socket]
  BY <1>1, SocketUpdates, Zenon
<1>4. \A n \in 0..SndCap : [S EXCEPT ![f].used = n] \in [Fd -> Socket]
  BY <1>1, SocketUpdates, Zenon
<1> QED
  BY <1>2, <1>3, <1>4

\* What recv() returns and what it leaves.
LEMMA RecvType ==
  ASSUME TypeInv, NEW c \in Ctx, cfd[c] \in Fd
  PROVE  /\ Received(c) \in Seq(Byte) /\ Len(Received(c)) <= BufferSize
         /\ Unread(c) \in Seq(Byte)
<1> DEFINE s == sock[cfd[c]].rcv
<1>1. s \in Seq(Byte) /\ Len(s) \in Nat
  BY SocketFields, LenProperties DEF TypeInv, TypeOK, KernelTypeOK
<1>2. Take(c) \in Nat /\ Take(c) <= Len(s) /\ Take(c) <= BufferSize
  BY <1>1, LoopAssumption DEF Take
<1>3. /\ SubSeq(s, 1, Take(c)) \in Seq(Byte)
      /\ Len(SubSeq(s, 1, Take(c))) = IF 1 <= Take(c) THEN Take(c) - 1 + 1 ELSE 0
  BY <1>1, <1>2, SubSeqType
<1>4. SubSeq(s, Take(c) + 1, Len(s)) \in Seq(Byte)
  BY <1>1, <1>2, SubSeqType
<1> QED
  BY <1>2, <1>3, <1>4, LoopAssumption DEF Received, Unread

LEMMA ReleasedType ==
  ASSUME TypeInv, NEW c \in Ctx, cfd[c] \in Fd, NEW d \in Released(c)
  PROVE  d \in Seq(Byte) /\ Len(d) \in Nat /\ Len(d) <= BufferSize
<1>1. d \in Seq(Byte) /\ Len(d) <= BufferSize
  BY RecvType, LoopAssumption DEF Released
<1> QED
  BY <1>1, LenProperties

\* Whatever is written over a buffer, what was queued in it stays inside it.
LEMMA ClobberedType ==
  ASSUME TypeInv, NEW c \in Ctx, cfd[c] \in Fd, NEW d \in Released(c),
         NEW b \in Clobbered(c, d)
  PROVE  b \in Seq(Byte) /\ Len(b) \in Nat /\ Len(buffer[c]) <= Len(b)
<1>1. buffer[c] \in Seq(Byte) /\ Len(buffer[c]) \in Nat
  BY LenProperties DEF TypeInv, TypeOK
<1>2. CASE wlen[c] = 0
  BY <1>1, <1>2 DEF Clobbered
<1>3. CASE wlen[c] # 0
  <2>1. PICK w \in {d, Append(d, Nul)} :
          b = Overwrite(Overwrite(buffer[c], Received(c)), w)
    BY <1>3 DEF Clobbered
  <2>2. Nul \in Byte
    BY DEF Nul, Byte
  <2>3. w \in Seq(Byte)
    BY <2>2, ReleasedType, AppendProperties
  <2> DEFINE r == Overwrite(buffer[c], Received(c))
  <2>4. r \in Seq(Byte) /\ Len(buffer[c]) <= Len(r)
    BY <1>1, RecvType, OverwriteType
  <2>5. Overwrite(r, w) \in Seq(Byte) /\ Len(r) <= Len(Overwrite(r, w))
    BY <2>3, <2>4, OverwriteType
  <2>6. Len(r) \in Nat /\ Len(b) \in Nat
    BY <2>1, <2>4, <2>5, LenProperties
  <2> QED
    BY <1>1, <2>1, <2>4, <2>5, <2>6
<1> QED
  BY <1>2, <1>3

\* A flush sends bytes that are in the buffer.
LEMMA QueuedType ==
  ASSUME TypeInv, NEW c \in Ctx
  PROVE  Queued(c) \in Seq(Byte) /\ Len(Queued(c)) = wlen[c]
<1>1. /\ buffer[c] \in Seq(Byte) /\ Len(buffer[c]) \in Nat
      /\ wstart[c] \in Nat /\ wlen[c] \in Nat
      /\ wstart[c] + wlen[c] <= Len(buffer[c])
  BY LenProperties DEF TypeInv, TypeOK, QueueInBuffer
<1>2. /\ SubSeq(buffer[c], wstart[c] + 1, wstart[c] + wlen[c]) \in Seq(Byte)
      /\ Len(SubSeq(buffer[c], wstart[c] + 1, wstart[c] + wlen[c])) =
           IF wstart[c] + 1 <= wstart[c] + wlen[c]
           THEN (wstart[c] + wlen[c]) - (wstart[c] + 1) + 1 ELSE 0
  BY <1>1, SubSeqType
<1> QED
  BY <1>1, <1>2 DEF Queued

LEMMA TypeOrphan ==
  ASSUME TypeInv, LifetimeInv, NEW e \in batch,
         HandleOrphan(e) \/ HandleNullPeer(e)
  PROVE  TypeInv'
<1> USE DEF Handling
<1>1. CASE HandleNullPeer(e)
  BY <1>1, TypeIdle DEF HandleNullPeer
<1>2. CASE HandleOrphan(e)
  <2>1. e.ptr \in Ctx
    BY <1>2, HandledContext DEF HandleOrphan
  <2>2. poll' \in PollTable
    BY <1>2, <2>1, EventSets, PollOpsType
    DEF HandleOrphan, ReturnFalse, PollTable, TypeInv, TypeOK, KernelTypeOK
  <2>3. dead' \in Seq(Ctx)
    BY <1>2, <2>1, AppendProperties DEF HandleOrphan, ReturnFalse, TypeInv, TypeOK
  <2>4. UNCHANGED <<proc, loop, ctxVars, sock, out, backlog, arrived>> /\ batch' \subseteq batch
    BY <1>2 DEF HandleOrphan
  <2> QED
    BY <2>2, <2>3, <2>4
    DEF TypeInv, TypeOK, KernelTypeOK, QueueInBuffer, ctxVars, PollTable
<1> QED
  BY <1>1, <1>2

LEMMA TypeFlush ==
  ASSUME TypeInv, LifetimeInv, NEW e \in batch, Flush(e)
  PROVE  TypeInv'
<1> DEFINE c == e.ptr
           f == cfd[c]
<1>1. Flushing(e)
  BY DEF Flush, FlushBlocked, FlushFails, FlushKilled, FlushSome, FlushAll
<1>2. /\ batch' \subseteq batch /\ loop' = loop
      /\ c # NULL /\ peer[c] # NULL
  BY <1>1 DEF Flushing, Handling
<1>3. c \in Ctx /\ f \in Fd /\ peer[c] \in Ctx
  BY <1>2, HandledContext
<1>4. /\ sock \in [Fd -> Socket] /\ poll \in PollTable /\ out \in [Fd -> Seq(Byte)]
      /\ sock[f].used \in 0..SndCap /\ Space(f) \in 0..SndCap
      /\ wlen[c] \in Nat /\ wstart[c] \in Nat
  <2>1. /\ sock \in [Fd -> Socket] /\ poll \in PollTable /\ out \in [Fd -> Seq(Byte)]
        /\ wlen[c] \in Nat /\ wstart[c] \in Nat
    BY <1>3 DEF TypeInv, TypeOK, KernelTypeOK, PollTable
  <2>2. sock[f] \in Socket
    BY <1>3, <2>1
  <2>3. sock[f].used \in 0..SndCap
    BY <2>2, SocketFields
  <2> QED
    BY <2>1, <2>3, KernelAssumption DEF Space
<1>5. CASE FlushBlocked(e) \/ FlushKilled(e)
  BY <1>2, <1>5, TypeIdle DEF FlushBlocked, FlushKilled
<1>6. CASE FlushFails(e)
  BY <1>2, <1>3, <1>4, <1>6, TypeDrop DEF FlushFails
<1>7. CASE FlushSome(e)
  <2> DEFINE n == Space(f)
  <2>0. n < wlen[c]
    BY <1>7 DEF FlushSome
  <2>1. n \in Nat /\ n < wlen[c] /\ sock[f].used + n \in 0..SndCap
    BY <1>4, <2>0, KernelAssumption DEF Space
  <2>2. SubSeq(Queued(c), 1, n) \in Seq(Byte)
    BY <1>3, <2>1, QueuedType, SubSeqType, <1>4
  <2>3. out' \in [Fd -> Seq(Byte)]
    BY <1>3, <1>4, <1>7, <2>2, ConcatProperties DEF FlushSome
  <2>4. sock' \in [Fd -> Socket]
    BY <1>3, <1>4, <1>7, <2>1, SockStep DEF FlushSome
  <2>5. /\ wstart' = [wstart EXCEPT ![c] = @ + n]
        /\ wlen' = [wlen EXCEPT ![c] = @ - n]
        /\ UNCHANGED <<proc, dead, alloc, cfd, peer, wpartial, buffer, owed,
                       poll, backlog, arrived>>
    BY <1>3, <1>7 DEF FlushSome, Advance
  <2>6. wstart \in [Ctx -> Nat] /\ wlen \in [Ctx -> Nat] /\ buffer' = buffer
    BY <2>5 DEF TypeInv, TypeOK
  <2>7. wstart[c] + n \in Nat /\ wlen[c] - n \in Nat
    BY <1>4, <2>1
  <2>8. wstart' \in [Ctx -> Nat] /\ wlen' \in [Ctx -> Nat]
    BY <1>3, <2>5, <2>6, <2>7
  <2>9. QueueInBuffer'
    <3> SUFFICES ASSUME NEW d \in Ctx
                 PROVE  /\ wstart'[d] + wlen'[d] <= Len(buffer[d])
                        /\ wstart'[d] + wlen'[d] <= BufferSize
      BY <2>6 DEF QueueInBuffer
    <3>1. wstart'[d] + wlen'[d] = wstart[d] + wlen[d]
      <4>1. CASE d = c
        BY <1>3, <1>4, <2>1, <2>5, <2>6, <4>1
      <4>2. CASE d # c
        BY <2>5, <2>6, <4>2
      <4> QED
        BY <4>1, <4>2
    <3> QED
      BY <3>1 DEF TypeInv, QueueInBuffer
  <2> QED
    BY <1>2, <2>3, <2>4, <2>5, <2>8, <2>9 DEF TypeInv, TypeOK, KernelTypeOK
<1>8. CASE FlushAll(e)
  <2>1. sock[f].used + wlen[c] \in 0..SndCap
    BY <1>4, <1>8, KernelAssumption DEF FlushAll, Space
  <2>2. out' \in [Fd -> Seq(Byte)]
    BY <1>3, <1>4, <1>8, QueuedType, ConcatProperties DEF FlushAll
  <2>3. sock' \in [Fd -> Socket]
    BY <1>3, <1>4, <1>8, <2>1, SockStep DEF FlushAll
  <2>4. poll' \in PollTable
    BY <1>3, <1>4, <1>8, PollOpsType, EventSets DEF FlushAll, Resume
  <2>5. /\ wstart' = [wstart EXCEPT ![c] = 0]
        /\ wlen' = [wlen EXCEPT ![c] = 0]
        /\ buffer' = [buffer EXCEPT ![c] = <<>>]
        /\ UNCHANGED <<proc, dead, alloc, cfd, peer, owed, backlog, arrived>>
    BY <1>8 DEF FlushAll
  <2>6. wpartial' \in [Ctx -> BOOLEAN]
    BY <1>8, Zenon DEF FlushAll, TypeInv, TypeOK
  <2>7. /\ wstart' \in [Ctx -> Nat] /\ wlen' \in [Ctx -> Nat]
        /\ buffer' \in [Ctx -> Seq(Byte)]
    BY <2>5, EmptySeq DEF TypeInv, TypeOK
  <2>8. QueueInBuffer'
    BY <1>3, <2>5, EmptySeq, LoopAssumption DEF TypeInv, TypeOK, QueueInBuffer
  <2> QED
    BY <1>2, <2>2, <2>3, <2>4, <2>5, <2>6, <2>7, <2>8
    DEF TypeInv, TypeOK, KernelTypeOK, PollTable
<1> QED
  BY <1>5, <1>6, <1>7, <1>8 DEF Flush

\* One socket is read from, another (or the same) is sent to or shut down.
LEMMA SockRelay ==
  ASSUME NEW S \in [Fd -> Socket], NEW f \in Fd, NEW g \in Fd, NEW r \in Seq(Byte)
  PROVE  /\ \A n \in Nat : S[g].used + n <= SndCap =>
              [S EXCEPT ![f].rcv = r, ![g].used = @ + n] \in [Fd -> Socket]
         /\ [S EXCEPT ![f].rcv = r, ![g].shut = TRUE] \in [Fd -> Socket]
<1> DEFINE T == [S EXCEPT ![f].rcv = r]
<1>1. T \in [Fd -> Socket]
  BY SockStep
<1>2. T[g].used = S[g].used
  <2>1. S[f] \in Socket /\ S[g] \in Socket
    OBVIOUS
  <2>2. CASE f = g
    BY <2>1, <2>2, Zenon DEF Socket
  <2>3. CASE f # g
    BY <2>3
  <2> QED
    BY <2>2, <2>3
<1>3. S[g].used \in 0..SndCap
  BY SocketFields
<1>4. ASSUME NEW n \in Nat, S[g].used + n <= SndCap
      PROVE  [S EXCEPT ![f].rcv = r, ![g].used = @ + n] \in [Fd -> Socket]
  <2>1. T[g].used + n \in 0..SndCap
    BY <1>2, <1>3, <1>4, KernelAssumption
  <2>2. [T EXCEPT ![g].used = T[g].used + n] \in [Fd -> Socket]
    BY <1>1, <2>1, SockStep
  <2> QED
    BY <2>2, Zenon
<1>5. [T EXCEPT ![g].shut = TRUE] \in [Fd -> Socket]
  BY <1>1, SockStep
<1> QED
  BY <1>4, <1>5, Zenon

LEMMA TypeRead ==
  ASSUME TypeInv, LifetimeInv, NEW e \in batch,
         Read(e) \/ HangUp(e) \/ NothingToDo(e)
  PROVE  TypeInv'
<1> DEFINE c == e.ptr
           p == peer[c]
           f == cfd[c]
           g == cfd[p]
<1>1. Linked(e)
  BY DEF Read, ReadFails, ReadEof, ReadDropped, ReadKilled, ReadSentZero,
         RelayAll, RelayQueue, Reading, HangUp, NothingToDo, NotRead
<1>2. batch' \subseteq batch /\ loop' = loop /\ c # NULL /\ p # NULL
  BY <1>1 DEF Linked, Handling
<1>3. c \in Ctx /\ f \in Fd /\ p \in Ctx /\ g \in Fd
  BY <1>2, HandledContext
<1>4. /\ sock \in [Fd -> Socket] /\ poll \in PollTable /\ out \in [Fd -> Seq(Byte)]
      /\ buffer \in [Ctx -> Seq(Byte)] /\ owed \in [Ctx -> Seq(Byte)]
      /\ wstart \in [Ctx -> Nat] /\ wlen \in [Ctx -> Nat]
  BY DEF TypeInv, TypeOK, KernelTypeOK, PollTable
<1>5. Unread(c) \in Seq(Byte)
  BY <1>3, RecvType
<1>6. sock[g].used \in 0..SndCap /\ Space(g) \in 0..SndCap
  <2>1. sock[g] \in Socket
    BY <1>3, <1>4
  <2>2. sock[g].used \in 0..SndCap
    BY <2>1, SocketFields
  <2> QED
    BY <2>2, KernelAssumption DEF Space
<1>7. ShutPeer(c) \in [Fd -> Socket]
  BY <1>3, <1>4, SockStep DEF ShutPeer, Shutdown
<1>8. CASE ReadKilled(e) \/ NothingToDo(e)
  BY <1>2, <1>8, TypeIdle DEF ReadKilled, NothingToDo
<1>9. CASE ReadFails(e)
  BY <1>2, <1>3, <1>4, <1>9, TypeDrop DEF ReadFails
<1>10. CASE ReadEof(e) \/ HangUp(e)
  BY <1>2, <1>3, <1>7, <1>10, TypeDrop DEF ReadEof, HangUp
<1>11. CASE ReadDropped(e)
  <2>1. sock' \in [Fd -> Socket]
    BY <1>3, <1>4, <1>5, <1>11, SockStep DEF ReadDropped
  <2> QED
    BY <1>2, <1>3, <1>11, <2>1, TypeDrop DEF ReadDropped
<1>12. CASE ReadSentZero(e)
  <2>1. sock' \in [Fd -> Socket]
    BY <1>3, <1>4, <1>5, <1>12, SockRelay DEF ReadSentZero
  <2> QED
    BY <1>2, <1>3, <1>12, <2>1, TypeDrop DEF ReadSentZero
<1>13. CASE RelayAll(e)
  <2>1. PICK d \in Released(c) :
          /\ Len(d) <= Space(g)
          /\ sock' = [sock EXCEPT ![f].rcv = Unread(c), ![g].used = @ + Len(d)]
          /\ out' = [out EXCEPT ![g] = @ \o d]
          /\ owed' = [owed EXCEPT ![p] = @ \o d]
          /\ \E b \in Clobbered(c, d) : buffer' = [buffer EXCEPT ![c] = b]
    BY <1>13 DEF RelayAll
  <2>2. d \in Seq(Byte) /\ Len(d) \in Nat
    BY <1>3, ReleasedType
  <2>3. PICK b \in Clobbered(c, d) : buffer' = [buffer EXCEPT ![c] = b]
    BY <2>1
  <2>4. b \in Seq(Byte) /\ Len(b) \in Nat /\ Len(buffer[c]) <= Len(b)
    BY <1>3, ClobberedType
  <2>5. UNCHANGED <<proc, dead, alloc, cfd, peer, wpartial, wstart, wlen,
                    poll, backlog, arrived>>
    BY <1>13 DEF RelayAll
  <2>6. sock[g].used + Len(d) <= SndCap
    BY <1>6, <2>1, <2>2, KernelAssumption DEF Space
  <2>7. sock' \in [Fd -> Socket]
    BY <1>3, <1>4, <1>5, <2>1, <2>2, <2>6, SockRelay
  <2>8. out' \in [Fd -> Seq(Byte)] /\ owed' \in [Ctx -> Seq(Byte)]
    BY <1>3, <1>4, <2>1, <2>2, ConcatProperties
  <2>9. buffer' \in [Ctx -> Seq(Byte)]
    BY <1>3, <1>4, <2>3, <2>4
  <2>10. QueueInBuffer'
    <3> SUFFICES ASSUME NEW x \in Ctx
                 PROVE  /\ wstart[x] + wlen[x] <= Len(buffer'[x])
                        /\ wstart[x] + wlen[x] <= BufferSize
      BY <2>5 DEF QueueInBuffer
    <3>1. /\ wstart[x] + wlen[x] <= Len(buffer[x])
          /\ wstart[x] + wlen[x] <= BufferSize
      BY DEF TypeInv, QueueInBuffer
    <3>2. Len(buffer[x]) \in Nat /\ wstart[x] \in Nat /\ wlen[x] \in Nat
      BY <1>4, LenProperties
    <3>3. CASE x = c
      BY <1>3, <1>4, <2>3, <2>4, <3>1, <3>2, <3>3
    <3>4. CASE x # c
      BY <1>4, <2>3, <3>1, <3>4
    <3> QED
      BY <3>3, <3>4
  <2> QED
    BY <1>2, <2>5, <2>7, <2>8, <2>9, <2>10 DEF TypeInv, TypeOK, KernelTypeOK
<1>14. CASE RelayQueue(e)
  <2>1. PICK d \in Released(c), n \in Taken(g) :
          /\ n < Len(d)
          /\ sock' = [sock EXCEPT ![f].rcv = Unread(c), ![g].used = @ + n]
          /\ out' = [out EXCEPT ![g] = @ \o SubSeq(d, 1, n)]
          /\ owed' = [owed EXCEPT ![p] = @ \o d]
          /\ \E b \in Clobbered(c, d) :
               buffer' = [buffer EXCEPT ![c] = b, ![p] = Leftover(d, n)]
          /\ wlen' = [wlen EXCEPT ![p] = Len(Leftover(d, n))]
    BY <1>14 DEF RelayQueue
  <2>2. d \in Seq(Byte) /\ Len(d) \in Nat /\ Len(d) <= BufferSize
    BY <1>3, ReleasedType
  <2>3. n \in Nat /\ n < Len(d) /\ sock[g].used + n <= SndCap
    <3>1. n = Space(g) \/ n = 0
      BY DEF Taken
    <3>2. n < Len(d)
      BY <2>1
    <3> QED
      BY <1>6, <3>1, <3>2, KernelAssumption DEF Space
  <2>4. PICK b \in Clobbered(c, d) :
          buffer' = [buffer EXCEPT ![c] = b, ![p] = Leftover(d, n)]
    BY <2>1
  <2>5. b \in Seq(Byte) /\ Len(b) \in Nat /\ Len(buffer[c]) <= Len(b)
    BY <1>3, ClobberedType
  <2>6. SubSeq(d, 1, n) \in Seq(Byte)
    BY <2>2, <2>3, SubSeqType
  <2>7. /\ Leftover(d, n) \in Seq(Byte)
        /\ Len(Leftover(d, n)) \in Nat
        /\ Len(Leftover(d, n)) <= BufferSize
    <3>1. /\ SubSeq(d, n + 1, Len(d)) \in Seq(Byte)
          /\ Len(SubSeq(d, n + 1, Len(d))) = IF n + 1 <= Len(d) THEN Len(d) - (n + 1) + 1 ELSE 0
      BY <2>2, <2>3, SubSeqType
    <3> QED
      BY <2>2, <2>3, <3>1, LoopAssumption DEF Leftover
  <2>8. /\ wstart' = [wstart EXCEPT ![p] = 0]
        /\ UNCHANGED <<proc, dead, alloc, cfd, peer, backlog, arrived>>
    BY <1>14 DEF RelayQueue
  <2>9. sock' \in [Fd -> Socket]
    BY <1>3, <1>4, <1>5, <2>1, <2>3, SockRelay
  <2>10. out' \in [Fd -> Seq(Byte)] /\ owed' \in [Ctx -> Seq(Byte)]
    BY <1>3, <1>4, <2>1, <2>2, <2>6, ConcatProperties
  <2>11. /\ buffer' \in [Ctx -> Seq(Byte)]
         /\ wlen' \in [Ctx -> Nat]
         /\ wstart' \in [Ctx -> Nat]
    BY <1>3, <1>4, <2>1, <2>4, <2>5, <2>7, <2>8
  <2>12. poll' \in PollTable
    <3>1. poll' = Pause(c, p)
      BY <1>14 DEF RelayQueue
    <3>2. Modify_poll(poll, f, PauseEvents, c) \in PollTable
      BY <1>3, <1>4, PollOpsType, EventSets
    <3> QED
      BY <1>3, <3>1, <3>2, PollOpsType, EventSets DEF Pause
  <2>13. wpartial' \in [Ctx -> BOOLEAN]
    BY <1>14, Zenon DEF RelayQueue, TypeInv, TypeOK
  <2>14. QueueInBuffer'
    <3> SUFFICES ASSUME NEW x \in Ctx
                 PROVE  /\ wstart'[x] + wlen'[x] <= Len(buffer'[x])
                        /\ wstart'[x] + wlen'[x] <= BufferSize
      BY DEF QueueInBuffer
    <3>1. /\ wstart[x] + wlen[x] <= Len(buffer[x])
          /\ wstart[x] + wlen[x] <= BufferSize
      BY DEF TypeInv, QueueInBuffer
    <3>2. Len(buffer[x]) \in Nat /\ wstart[x] \in Nat /\ wlen[x] \in Nat
      BY <1>4, LenProperties
    <3>3. CASE x = p
      <4>1. /\ buffer'[x] = Leftover(d, n) /\ wlen'[x] = Len(Leftover(d, n))
            /\ wstart'[x] = 0
        BY <1>3, <1>4, <2>1, <2>4, <2>8, <3>3
      <4> QED
        BY <2>7, <4>1
    <3>4. CASE x # p /\ x = c
      <4>1. buffer'[x] = b /\ wlen'[x] = wlen[x] /\ wstart'[x] = wstart[x]
        BY <1>3, <1>4, <2>1, <2>4, <2>8, <3>4
      <4> QED
        BY <2>5, <3>1, <3>2, <3>4, <4>1
    <3>5. CASE x # p /\ x # c
      BY <1>4, <2>1, <2>4, <2>8, <3>1, <3>5
    <3> QED
      BY <3>3, <3>4, <3>5
  <2> QED
    BY <1>2, <2>8, <2>9, <2>10, <2>11, <2>12, <2>13, <2>14
    DEF TypeInv, TypeOK, KernelTypeOK, PollTable
<1> QED
  BY <1>8, <1>9, <1>10, <1>11, <1>12, <1>13, <1>14 DEF Read

-----------------------------------------------------------------------------
(* The lifetime of contexts. *)

LEMMA DeadAppend ==
  ASSUME NEW s \in Seq(Ctx), NEW c \in Ctx
  PROVE  /\ Range(Append(s, c)) = Range(s) \cup {c}
         /\ IsInjective(s) /\ c \notin Range(s) => IsInjective(Append(s, c))
<1>1. Len(s) \in Nat /\ DOMAIN s = 1..Len(s)
  BY LenProperties
<1>2. /\ DOMAIN Append(s, c) = 1..(Len(s) + 1)
      /\ \A i \in 1..Len(s) : Append(s, c)[i] = s[i]
      /\ Append(s, c)[Len(s) + 1] = c
  BY <1>1, AppendProperties, LenProperties
<1> QED
  BY <1>1, <1>2 DEF Range, IsInjective

LEMMA DeadEmpty == Range(<<>>) = {} /\ IsInjective(<<>>)
BY DEF Range, IsInjective

LEMMA LifetimeInit == Init => LifetimeInv
BY DeadEmpty
DEF Init, KernelInit, NotPolled, LifetimeInv, BatchOK, PollOK, DeadOK, PeerOK, WaitOK

\* A step that neither allocates, links, kills nor frees a context, and that
\* registers a context at its own descriptor only.
LEMMA LifetimeFrame ==
  ASSUME LifetimeInv, batch' \subseteq batch, UNCHANGED <<loop, dead, alloc, cfd, peer>>,
         \A f \in Fd : poll'[f].ptr # NULL =>
            \/ poll'[f].ptr = poll[f].ptr
            \/ /\ poll'[f].ptr \in alloc
               /\ cfd[poll'[f].ptr] = f
               /\ poll'[f].ptr \notin Range(dead)
  PROVE  LifetimeInv'
<1> USE DEF LifetimeInv
<1>1. BatchOK'
  BY DEF BatchOK
<1>2. PollOK'
  BY DEF PollOK
<1>3. DeadOK' /\ PeerOK' /\ WaitOK'
  BY DEF DeadOK, PeerOK, WaitOK
<1> QED
  BY <1>1, <1>2, <1>3

LEMMA LifetimeRemote ==
  LifetimeInv /\ Remote /\ UNCHANGED <<loopVars, ctxVars>> => LifetimeInv'
<1> SUFFICES ASSUME LifetimeInv, Remote, UNCHANGED <<loopVars, ctxVars>>
             PROVE  LifetimeInv'
  OBVIOUS
<1>1. poll' = poll
  BY DEF Remote, Arrive, RemoteSend, RemoteRead, RemoteFin, RemoteReset
<1> QED
  BY <1>1, LifetimeFrame DEF loopVars, ctxVars

\* A registration leads to the context whose descriptor it is, so no two
\* events of a batch are for the same context.
LEMMA LifetimeEpoll_wait ==
  TypeInv /\ LifetimeInv /\ Epoll_wait => LifetimeInv'
<1> SUFFICES ASSUME TypeInv, LifetimeInv, Epoll_wait PROVE LifetimeInv'
  OBVIOUS
<1>1. dead = <<>> /\ UNCHANGED <<dead, alloc, cfd, peer, poll>> /\ loop' = "batch"
  BY DEF LifetimeInv, WaitOK, Epoll_wait, ctxVars, kernelVars
<1>2. \A e \in batch' : e = ListenEv \/ \E f \in Fd : poll[f].ptr # NULL /\ e = Ev(poll[f].ptr, Ready(f))
  BY DEF Epoll_wait, ReadyEvs, ReadyFds
<1>3. \A f \in Fd : poll[f].ptr # NULL => poll[f].ptr \in alloc /\ cfd[poll[f].ptr] = f
  BY DEF LifetimeInv, PollOK
<1>4. ListenEv.ptr = NULL /\ \A c, v : Ev(c, v).ptr = c
  BY DEF ListenEv, Ev
<1>5. BatchOK'
  <2>1. \A e \in batch' : e.ptr # NULL => e.ptr \in alloc /\ cfd[e.ptr] \in Fd
    BY <1>2, <1>3, <1>4
  <2>2. \A e1, e2 \in batch' : e1.ptr = e2.ptr => e1 = e2
    BY <1>2, <1>3, <1>4
  <2> QED
    BY <1>1, <2>1, <2>2, DeadEmpty DEF BatchOK
<1>6. PollOK' /\ DeadOK' /\ PeerOK' /\ WaitOK'
  BY <1>1 DEF LifetimeInv, PollOK, DeadOK, PeerOK, WaitOK
<1> QED
  BY <1>5, <1>6 DEF LifetimeInv

\* The sweep frees contexts that nothing refers to any more.
LEMMA LifetimeSweep ==
  TypeInv /\ LifetimeInv /\ Sweep => LifetimeInv'
<1> SUFFICES ASSUME TypeInv, LifetimeInv, Sweep PROVE LifetimeInv'
  OBVIOUS
<1> DEFINE D == Range(dead)
<1>1. /\ batch' = {} /\ dead' = <<>> /\ peer' = peer
      /\ alloc' = alloc \ D
      /\ \A c \in Ctx \ D : cfd'[c] = cfd[c]
  BY DEF Sweep, ClearDead, Freed
<1>2. \A f \in Fd : poll'[f].ptr # NULL => poll'[f] = poll[f]
  BY DEF Sweep, ClosePolls, NotPolled
<1>3. alloc \subseteq Ctx /\ NULL \notin Ctx
  BY KernelAssumption DEF TypeInv, TypeOK
<1>4. BatchOK' /\ WaitOK'
  BY <1>1 DEF BatchOK, WaitOK
<1>5. PollOK'
  BY <1>1, <1>2, <1>3, DeadEmpty DEF LifetimeInv, PollOK
<1>6. DeadOK'
  BY <1>1, DeadEmpty DEF DeadOK
<1>7. PeerOK'
  <2>1. \A c \in D : peer[c] = NULL
    BY DEF LifetimeInv, DeadOK
  <2>2. SUFFICES ASSUME NEW c \in Ctx, peer[c] # NULL
                 PROVE  /\ c \in alloc' /\ peer[c] \in alloc'
                        /\ cfd'[c] \in Fd
                        /\ peer[c] # c
                        /\ peer[peer[c]] = c
    BY <1>1 DEF PeerOK
  <2>3. /\ c \in alloc /\ peer[c] \in alloc /\ cfd[c] \in Fd
        /\ peer[c] # c /\ peer[peer[c]] = c
    BY <2>2 DEF LifetimeInv, PeerOK
  <2>4. c \notin D /\ peer[c] \notin D
    BY <1>3, <2>1, <2>2, <2>3
  <2> QED
    BY <1>1, <2>3, <2>4
<1> QED
  BY <1>4, <1>5, <1>6, <1>7 DEF LifetimeInv

\* A new pair is linked both ways; a refused client leaves no trace.
LEMMA LifetimeAccept ==
  TypeInv /\ LifetimeInv /\ Accept => LifetimeInv'
<1> SUFFICES ASSUME TypeInv, LifetimeInv, Accept PROVE LifetimeInv'
  OBVIOUS
<1> USE DEF Accepting
<1>1. alloc \subseteq Ctx /\ NULL \notin Ctx
  BY KernelAssumption DEF TypeInv, TypeOK
<1>2. CASE AcceptNoMemory \/ AcceptRefused \/ AcceptConnectFails
  BY <1>2, LifetimeFrame
  DEF AcceptNoMemory, AcceptRefused, AcceptConnectFails, Connectable, ctxVars, kernelVars
<1>3. CASE AcceptNoUpstream
  <2>1. \A f \in Fd : poll'[f].ptr # NULL => poll'[f] = poll[f]
    BY <1>3, StrayPoll DEF NotPolled
  <2> QED
    BY <1>3, <2>1, LifetimeFrame DEF AcceptNoUpstream, ctxVars
<1>4. CASE AcceptFails
  <2>1. /\ batch' \subseteq batch /\ UNCHANGED <<loop, dead, cfd, peer, poll>>
        /\ alloc \subseteq alloc'
    BY <1>4 DEF AcceptFails
  <2> QED
    BY <2>1 DEF LifetimeInv, BatchOK, PollOK, DeadOK, PeerOK, WaitOK
<1>5. CASE AcceptConnected
  <2>1. PICK c \in Free, u \in Free, f \in Fd, g \in Fd,
             wc \in DirtyFlag, wu \in DirtyFlag, okC \in Registered, okU \in Registered :
          Connect(c, u, f, g, wc, wu, okC, okU)
    BY <1>5 DEF AcceptConnected
  <2>2. /\ c \in Ctx /\ u \in Ctx /\ c # u /\ c \notin alloc /\ u \notin alloc
        /\ f # g
    BY <2>1 DEF Free, Connect, IsLowest
  <2>3. batch' \subseteq batch /\ UNCHANGED <<loop, dead>>
    BY <1>5 DEF AcceptConnected, Connectable
  <2>4. /\ alloc' = alloc \cup {c, u}
        /\ cfd'[c] = f /\ cfd'[u] = g /\ \A x \in Ctx \ {c, u} : cfd'[x] = cfd[x]
        /\ peer'[c] = u /\ peer'[u] = c /\ \A x \in Ctx \ {c, u} : peer'[x] = peer[x]
    BY <2>1, <2>2 DEF Connect, Link, TypeInv, TypeOK
  <2>5. \A h \in Fd : poll'[h].ptr # NULL =>
          \/ poll'[h].ptr = poll[h].ptr
          \/ h = f /\ poll'[h].ptr = c
          \/ h = g /\ poll'[h].ptr = u
    BY <2>1, <2>2 DEF Connect, Append_poll, TypeInv, TypeOK, KernelTypeOK
  <2>6. \A x \in Range(dead) : x \in alloc /\ peer[x] = NULL
    BY DEF LifetimeInv, DeadOK
  <2>7. BatchOK'
    BY <1>1, <2>2, <2>3, <2>4 DEF LifetimeInv, BatchOK
  <2>8. PollOK'
    BY <1>1, <2>2, <2>3, <2>4, <2>5, <2>6 DEF LifetimeInv, PollOK
  <2>9. DeadOK'
    BY <1>1, <2>2, <2>3, <2>4, <2>6 DEF LifetimeInv, DeadOK
  <2>10. PeerOK'
    BY <1>1, <2>2, <2>4 DEF LifetimeInv, PeerOK
  <2>11. WaitOK'
    BY <2>3 DEF LifetimeInv, WaitOK
  <2> QED
    BY <2>7, <2>8, <2>9, <2>10, <2>11 DEF LifetimeInv
<1> QED
  BY <1>2, <1>3, <1>4, <1>5 DEF Accept

\* The context of the event that is handled dies: it has no further event, no
\* registration and no peer.
LEMMA LifetimeDeath ==
  ASSUME TypeInv, LifetimeInv, NEW e \in batch, Handling(e), ReturnFalse(e.ptr),
         UNCHANGED <<alloc, cfd>>,
         \/ peer[e.ptr] = NULL /\ peer' = peer
         \/ peer[e.ptr] # NULL /\ peer' = Unlink(e.ptr)
  PROVE  LifetimeInv'
<1> DEFINE c == e.ptr
<1>1. /\ c # NULL /\ loop' = loop /\ loop = "batch" /\ batch' = batch \ {e}
      /\ poll' = Remove_poll(poll, cfd[c]) /\ dead' = Append(dead, c)
  BY DEF Handling, ReturnFalse
<1>2. /\ c \in alloc /\ c \in Ctx /\ cfd[c] \in Fd /\ c \notin Range(dead)
      /\ peer[c] # NULL => peer[c] \in Ctx /\ peer[c] # c /\ peer[peer[c]] = c
  BY <1>1, HandledContext
<1>3. Range(dead') = Range(dead) \cup {c}
  BY <1>1, <1>2, DeadAppend DEF TypeInv, TypeOK
<1>4. BatchOK'
  BY <1>1, <1>3 DEF LifetimeInv, BatchOK
<1>5. PollOK'
  <2>1. \A f \in Fd : poll'[f].ptr # NULL => f # cfd[c] /\ poll'[f] = poll[f]
    BY <1>1, <1>2 DEF Remove_poll, NotPolled, TypeInv, TypeOK, KernelTypeOK
  <2> QED
    BY <1>3, <2>1 DEF LifetimeInv, PollOK
<1>6. /\ peer'[c] = NULL
      /\ \A x \in Ctx : peer'[x] = NULL \/ (peer'[x] = peer[x] /\ x # c /\ x # peer[c])
      /\ \A x \in Ctx \ {c} : x # peer[c] => peer'[x] = peer[x]
  <2>1. peer \in [Ctx -> Ctx \cup {NULL}] /\ NULL \notin Ctx
    BY KernelAssumption DEF TypeInv, TypeOK
  <2>2. CASE peer[c] = NULL /\ peer' = peer
    BY <1>2, <2>1, <2>2
  <2>3. CASE peer[c] # NULL /\ peer' = Unlink(c)
    BY <1>2, <2>1, <2>3 DEF Unlink
  <2> QED
    BY <2>2, <2>3
<1>7. DeadOK'
  <2>1. \A x \in Range(dead) : x \in alloc /\ peer[x] = NULL
    BY DEF LifetimeInv, DeadOK
  <2>2. alloc \subseteq Ctx
    BY DEF TypeInv, TypeOK
  <2>3. \A x \in Range(dead') : x \in alloc /\ peer'[x] = NULL
    BY <1>2, <1>3, <1>6, <2>1, <2>2
  <2>4. IsInjective(dead')
    BY <1>1, <1>2, DeadAppend DEF LifetimeInv, DeadOK, TypeInv, TypeOK
  <2> QED
    BY <2>3, <2>4 DEF DeadOK
<1>8. PeerOK'
  <2> SUFFICES ASSUME NEW x \in Ctx, peer'[x] # NULL
               PROVE  /\ x \in alloc /\ peer'[x] \in alloc
                      /\ cfd[x] \in Fd
                      /\ peer'[x] # x
                      /\ peer'[peer'[x]] = x
    BY DEF PeerOK
  <2>1. peer'[x] = peer[x] /\ x # c /\ x # peer[c]
    BY <1>6
  <2>2. /\ x \in alloc /\ peer[x] \in alloc /\ cfd[x] \in Fd
        /\ peer[x] # x /\ peer[peer[x]] = x
    BY <2>1 DEF LifetimeInv, PeerOK
  <2>3. peer[x] \in Ctx
    BY <2>2 DEF TypeInv, TypeOK
  <2>4. peer[x] # c
    BY <2>1, <2>2
  <2>5. peer[x] # peer[c]
    BY <1>2, <2>1, <2>2, <2>3, KernelAssumption
  <2> QED
    BY <1>6, <2>1, <2>2, <2>3, <2>4, <2>5
<1>9. WaitOK'
  BY <1>1 DEF WaitOK
<1> QED
  BY <1>4, <1>5, <1>7, <1>8, <1>9 DEF LifetimeInv

\* Changing what a context waits for keeps its registration its own.
LEMMA ModifyOwn ==
  ASSUME NEW pl \in PollTable, NEW f \in Fd, NEW evs \in SUBSET Event, NEW c \in Ctx,
         NEW h \in Fd
  PROVE  \/ Modify_poll(pl, f, evs, c)[h].ptr = pl[h].ptr
         \/ h = f /\ Modify_poll(pl, f, evs, c)[h].ptr = c
BY DEF Modify_poll, PollTable

LEMMA LifetimeRearm ==
  ASSUME TypeInv, LifetimeInv, NEW e \in batch, Handling(e), peer[e.ptr] # NULL,
         UNCHANGED <<dead, alloc, cfd, peer>>,
         NEW a \in SUBSET Event, NEW b \in SUBSET Event,
         poll' = Modify_poll(Modify_poll(poll, cfd[e.ptr], a, e.ptr),
                             cfd[peer[e.ptr]], b, peer[e.ptr])
  PROVE  LifetimeInv'
<1> DEFINE c == e.ptr
           p == peer[c]
           pl == Modify_poll(poll, cfd[c], a, c)
<1>1. /\ c \in alloc /\ c \in Ctx /\ cfd[c] \in Fd /\ c \notin Range(dead)
      /\ p \in alloc /\ p \in Ctx /\ cfd[p] \in Fd /\ peer[p] = c
  BY HandledContext DEF Handling
<1>2. p \notin Range(dead)
  BY <1>1, KernelAssumption DEF LifetimeInv, DeadOK
<1>3. poll \in PollTable /\ pl \in PollTable
  BY <1>1, PollOpsType DEF TypeInv, TypeOK, KernelTypeOK, PollTable
<1>4. \A h \in Fd : \/ poll'[h].ptr = pl[h].ptr
                    \/ h = cfd[p] /\ poll'[h].ptr = p
  BY <1>1, <1>3, ModifyOwn
<1>5. \A h \in Fd : \/ pl[h].ptr = poll[h].ptr
                    \/ h = cfd[c] /\ pl[h].ptr = c
  BY <1>1, <1>3, ModifyOwn
<1>6. batch' \subseteq batch /\ loop' = loop
  BY DEF Handling
<1> HIDE DEF pl
<1> QED
  BY <1>1, <1>2, <1>4, <1>5, <1>6, LifetimeFrame

LEMMA LifetimeHandle ==
  TypeInv /\ LifetimeInv /\ Handle => LifetimeInv'
<1> SUFFICES ASSUME TypeInv, LifetimeInv, NEW e \in batch,
                    \/ HandleOrphan(e) \/ HandleNullPeer(e)
                    \/ Flush(e) \/ Read(e)
                    \/ HangUp(e) \/ NothingToDo(e)
             PROVE  LifetimeInv'
  BY DEF Handle
<1>1. Handling(e)
  BY DEF HandleOrphan, HandleNullPeer, Flush, FlushBlocked, FlushFails, FlushKilled,
         FlushSome, FlushAll, Flushing, Read, ReadFails, ReadEof, ReadDropped,
         ReadKilled, ReadSentZero, RelayAll, RelayQueue, Reading, Linked, HangUp,
         NothingToDo, NotRead
<1>2. batch' \subseteq batch /\ loop' = loop
  BY <1>1 DEF Handling
<1>3. CASE HandleOrphan(e)
  BY <1>1, <1>3, LifetimeDeath DEF HandleOrphan, ctxVars
<1>4. CASE \/ FlushFails(e) \/ ReadFails(e) \/ ReadEof(e) \/ ReadDropped(e)
           \/ ReadSentZero(e) \/ HangUp(e)
  <2>1. peer[e.ptr] # NULL /\ Drop(e.ptr)
    BY <1>4 DEF FlushFails, Flushing, ReadFails, ReadEof, ReadDropped, ReadSentZero,
                HangUp, NotRead, Reading, Linked
  <2> QED
    BY <1>1, <2>1, LifetimeDeath DEF Drop
<1>5. CASE \/ HandleNullPeer(e) \/ FlushBlocked(e) \/ FlushKilled(e)
           \/ ReadKilled(e) \/ NothingToDo(e)
  <2>1. UNCHANGED <<dead, ctxVars, kernelVars>>
    BY <1>5 DEF HandleNullPeer, FlushBlocked, FlushKilled, ReadKilled, NothingToDo,
                Idle, Dies
  <2> QED
    BY <1>2, <2>1, LifetimeFrame DEF ctxVars, kernelVars
<1>6. CASE FlushSome(e) \/ RelayAll(e)
  <2>1. UNCHANGED <<dead, alloc, cfd, peer, poll>>
    BY <1>6 DEF FlushSome, RelayAll
  <2> QED
    BY <1>2, <2>1, LifetimeFrame
<1>7. CASE FlushAll(e)
  <2>1. /\ peer[e.ptr] # NULL /\ UNCHANGED <<dead, alloc, cfd, peer>>
        /\ poll' = Resume(e.ptr, peer[e.ptr])
    BY <1>7 DEF FlushAll, Flushing
  <2> QED
    BY <1>1, <2>1, EventSets, LifetimeRearm DEF Resume
<1>8. CASE RelayQueue(e)
  <2>1. /\ peer[e.ptr] # NULL /\ UNCHANGED <<dead, alloc, cfd, peer>>
        /\ poll' = Pause(e.ptr, peer[e.ptr])
    BY <1>8 DEF RelayQueue, Reading, Linked
  <2> QED
    BY <1>1, <2>1, EventSets, LifetimeRearm DEF Pause
<1> QED
  BY <1>3, <1>4, <1>5, <1>6, <1>7, <1>8 DEF Flush, Read

-----------------------------------------------------------------------------
(* EPOLLOUT and the queues. *)

LEMMA OutFrame ==
  ASSUME TypeInv, OutOnlyQueued, batch' \subseteq batch,
         \A f \in Fd : "OUT" \in poll'[f].ev => poll'[f] = poll[f],
         \A c \in Ctx : wlen[c] > 0 => wlen'[c] > 0
  PROVE  OutOnlyQueued'
<1>1. \A f \in Fd : poll[f].ptr \in Ctx \cup {NULL}
  BY DEF TypeInv, TypeOK, KernelTypeOK
<1>2. \A e \in batch : e.ptr \in Ctx \cup {NULL}
  BY DEF TypeInv, TypeOK
<1> QED
  BY <1>1, <1>2 DEF OutOnlyQueued

LEMMA OutEpoll_wait ==
  ASSUME TypeInv, OutOnlyQueued, Epoll_wait
  PROVE  OutOnlyQueued'
<1>1. UNCHANGED <<poll, wlen>> /\ batch' \subseteq ReadyEvs
  BY DEF Epoll_wait, ctxVars, kernelVars
<1>2. ASSUME NEW e \in ReadyEvs, "OUT" \in e.ev PROVE e.ptr # NULL /\ wlen[e.ptr] > 0
  <2>1. "OUT" \notin ListenEv.ev
    BY DEF ListenEv, Ev
  <2>2. PICK f \in ReadyFds : e = Ev(poll[f].ptr, Ready(f))
    BY <1>2, <2>1 DEF ReadyEvs
  <2>3. f \in Fd /\ "OUT" \in poll[f].ev /\ e.ptr = poll[f].ptr
    BY <1>2, <2>2 DEF ReadyFds, Ev, Ready
  <2> QED
    BY <2>3 DEF OutOnlyQueued
<1> QED
  BY <1>1, <1>2 DEF OutOnlyQueued

LEMMA OutAccept ==
  ASSUME TypeInv, OutOnlyQueued, Accept
  PROVE  OutOnlyQueued'
<1>1. batch' \subseteq batch /\ wlen' = wlen
  BY DEF Accept, AcceptNoMemory, AcceptFails, AcceptRefused, AcceptNoUpstream,
         AcceptConnectFails, AcceptConnected, Connectable, Accepting, ctxVars, queueVars
<1>2. \A f \in Fd : "OUT" \in poll'[f].ev => poll'[f] = poll[f]
  <2>1. CASE AcceptNoMemory \/ AcceptFails \/ AcceptRefused \/ AcceptConnectFails
    BY <2>1 DEF AcceptNoMemory, AcceptFails, AcceptRefused, AcceptConnectFails, kernelVars
  <2>2. CASE AcceptNoUpstream
    BY <2>2, StrayPoll DEF NotPolled
  <2>3. CASE AcceptConnected
    <3>1. PICK c \in Free, u \in Free, f \in Fd, g \in Fd,
               wc \in DirtyFlag, wu \in DirtyFlag, okC \in Registered, okU \in Registered :
            Connect(c, u, f, g, wc, wu, okC, okU)
      BY <2>3 DEF AcceptConnected
    <3>2. \A h \in Fd : poll'[h] = poll[h] \/ poll'[h].ev = ReadEvents
      BY <3>1 DEF Connect, Append_poll, TypeInv, TypeOK, KernelTypeOK
    <3> QED
      BY <3>2 DEF ReadEvents
  <2> QED
    BY <2>1, <2>2, <2>3 DEF Accept
<1> QED
  BY <1>1, <1>2, OutFrame

\* Two registrations that change: those that ask for EPOLLOUT afterwards did
\* so before, or are the second and ask for it now.
LEMMA OutRearm ==
  ASSUME TypeInv, OutOnlyQueued, NEW c \in Ctx, NEW p \in Ctx,
         cfd[c] \in Fd, cfd[p] \in Fd, NEW a \in SUBSET Event, NEW b \in SUBSET Event,
         "OUT" \notin a,
         poll' = Modify_poll(Modify_poll(poll, cfd[c], a, c), cfd[p], b, p),
         NEW f \in Fd, "OUT" \in poll'[f].ev
  PROVE  \/ poll'[f] = poll[f] /\ f # cfd[c] /\ f # cfd[p]
         \/ "OUT" \in b /\ f = cfd[p] /\ poll'[f].ptr = p
<1> DEFINE pl == Modify_poll(poll, cfd[c], a, c)
<1>1. poll \in PollTable /\ pl \in PollTable
  BY PollOpsType DEF TypeInv, TypeOK, KernelTypeOK, PollTable
<1>2. \A h \in Fd : poll[h].ptr = NULL => "OUT" \notin poll[h].ev
  BY DEF OutOnlyQueued
<1>3. \A h \in Fd : IF h = cfd[c] THEN "OUT" \notin pl[h].ev ELSE pl[h] = poll[h]
  BY <1>1, <1>2 DEF Modify_poll, PollTable
<1>4. \A h \in Fd : pl[h].ptr = NULL => "OUT" \notin pl[h].ev
  BY <1>2, <1>3
<1>5. \/ f # cfd[p] /\ poll'[f] = pl[f]
      \/ f = cfd[p] /\ pl[f].ptr = NULL /\ poll'[f] = pl[f]
      \/ f = cfd[p] /\ poll'[f] = [ev |-> b, ptr |-> p]
  <2> HIDE DEF pl
  <2>1. poll' = Modify_poll(pl, cfd[p], b, p)
    BY DEF pl
  <2> QED
    BY <1>1, <2>1 DEF Modify_poll, PollTable
<1> QED
  BY <1>3, <1>4, <1>5

LEMMA OutFlushAll ==
  ASSUME TypeInv, LifetimeInv, OutOnlyQueued, NEW e \in batch, FlushAll(e)
  PROVE  OutOnlyQueued'
<1> DEFINE c == e.ptr
           p == peer[c]
<1>1. Handling(e) /\ c # NULL /\ p # NULL /\ poll' = Resume(c, p) /\ batch' = batch \ {e}
  BY DEF FlushAll, Flushing, Handling
<1>2. c \in Ctx /\ cfd[c] \in Fd /\ p \in Ctx /\ cfd[p] \in Fd
  BY <1>1, HandledContext
<1>3. \A x \in Ctx \ {c} : wlen'[x] = wlen[x]
  BY <1>2 DEF FlushAll, TypeInv, TypeOK
<1>4. ASSUME NEW f \in Fd, "OUT" \in poll'[f].ev PROVE poll'[f] = poll[f] /\ f # cfd[c]
  <2>1. "OUT" \notin ReadEvents
    BY DEF ReadEvents
  <2>2. poll' = Modify_poll(Modify_poll(poll, cfd[c], ReadEvents, c), cfd[p], ReadEvents, p)
    BY <1>1 DEF Resume
  <2> QED
    BY <1>2, <1>4, <2>1, <2>2, OutRearm, EventSets
<1>5. \A f \in Fd : poll[f].ptr # NULL => poll[f].ptr \in Ctx /\ cfd[poll[f].ptr] = f
  BY DEF TypeInv, TypeOK, KernelTypeOK, LifetimeInv, PollOK
<1>6. ASSUME NEW f \in Fd, "OUT" \in poll'[f].ev
      PROVE  poll'[f].ptr # NULL /\ wlen'[poll'[f].ptr] > 0
  <2>1. poll[f].ptr # NULL /\ wlen[poll[f].ptr] > 0 /\ poll'[f].ptr = poll[f].ptr
    BY <1>4, <1>6 DEF OutOnlyQueued
  <2> QED
    BY <1>3, <1>4, <1>5, <1>6, <2>1
<1>7. ASSUME NEW x \in batch', "OUT" \in x.ev PROVE x.ptr # NULL /\ wlen'[x.ptr] > 0
  <2>1. x \in batch /\ x # e
    BY <1>1
  <2>2. x.ptr # c
    BY <2>1 DEF LifetimeInv, BatchOK
  <2>3. x.ptr # NULL /\ wlen[x.ptr] > 0 /\ x.ptr \in Ctx \cup {NULL}
    BY <1>7, <2>1 DEF OutOnlyQueued, TypeInv, TypeOK
  <2> QED
    BY <1>3, <2>2, <2>3
<1> QED
  BY <1>6, <1>7 DEF OutOnlyQueued

LEMMA OutRelayQueue ==
  ASSUME TypeInv, LifetimeInv, OutOnlyQueued, NEW e \in batch, RelayQueue(e)
  PROVE  OutOnlyQueued'
<1> DEFINE c == e.ptr
           p == peer[c]
<1>1. Handling(e) /\ c # NULL /\ p # NULL /\ poll' = Pause(c, p) /\ batch' \subseteq batch
  BY DEF RelayQueue, Reading, Linked, Handling
<1>2. c \in Ctx /\ cfd[c] \in Fd /\ p \in Ctx /\ cfd[p] \in Fd
  BY <1>1, HandledContext
<1>3. wlen'[p] > 0 /\ \A x \in Ctx \ {p} : wlen'[x] = wlen[x]
  <2>1. PICK d \in Released(c), n \in Taken(cfd[p]) :
          n < Len(d) /\ wlen' = [wlen EXCEPT ![p] = Len(Leftover(d, n))]
    BY DEF RelayQueue
  <2>2. d \in Seq(Byte) /\ n \in Nat
    <3>1. RecvData(cfd[c])
      BY DEF RelayQueue
    <3>2. d \in Seq(Byte)
      BY <1>2, <3>1, ReleasedType
    <3>3. Space(cfd[p]) \in Nat
      <4>1. sock[cfd[p]] \in Socket
        BY <1>2 DEF TypeInv, TypeOK, KernelTypeOK
      <4>2. sock[cfd[p]].used \in 0..SndCap
        BY <4>1, SocketFields
      <4> QED
        BY <4>2, KernelAssumption DEF Space
    <3> QED
      BY <3>2, <3>3 DEF Taken
  <2>3. Len(Leftover(d, n)) = Len(d) - n /\ Len(d) \in Nat
    BY <2>1, <2>2 DEF Leftover
  <2> QED
    BY <1>2, <2>1, <2>2, <2>3 DEF TypeInv, TypeOK
<1>4. \A x \in Ctx : wlen[x] > 0 => wlen'[x] > 0
  BY <1>3
<1>5. ASSUME NEW f \in Fd, "OUT" \in poll'[f].ev
      PROVE  poll'[f].ptr # NULL /\ wlen'[poll'[f].ptr] > 0
  <2>1. poll'[f] = poll[f] \/ poll'[f].ptr = p
    <3>1. "OUT" \notin PauseEvents
      BY DEF PauseEvents
    <3>2. poll' = Modify_poll(Modify_poll(poll, cfd[c], PauseEvents, c), cfd[p], WriteEvents, p)
      BY <1>1 DEF Pause
    <3>3. PauseEvents \in SUBSET Event /\ WriteEvents \in SUBSET Event
      BY EventSets
    <3>4. \/ poll'[f] = poll[f] /\ f # cfd[c] /\ f # cfd[p]
          \/ "OUT" \in WriteEvents /\ f = cfd[p] /\ poll'[f].ptr = p
      BY <1>2, <1>5, <3>1, <3>2, <3>3, OutRearm
    <3> QED
      BY <3>4
  <2>2. CASE poll'[f] = poll[f]
    BY <1>4, <1>5, <2>2 DEF OutOnlyQueued, TypeInv, TypeOK, KernelTypeOK
  <2> QED
    BY <1>1, <1>3, <2>1, <2>2
<1>6. ASSUME NEW x \in batch', "OUT" \in x.ev PROVE x.ptr # NULL /\ wlen'[x.ptr] > 0
  BY <1>1, <1>4, <1>6 DEF OutOnlyQueued, TypeInv, TypeOK
<1> QED
  BY <1>5, <1>6 DEF OutOnlyQueued

LEMMA OutHandle ==
  ASSUME TypeInv, LifetimeInv, OutOnlyQueued, Handle
  PROVE  OutOnlyQueued'
<1>1. PICK e \in batch : \/ HandleOrphan(e) \/ HandleNullPeer(e)
                         \/ Flush(e) \/ Read(e)
                         \/ HangUp(e) \/ NothingToDo(e)
  BY DEF Handle
<1>2. Handling(e) /\ batch' \subseteq batch
  BY <1>1
  DEF HandleOrphan, HandleNullPeer, Flush, FlushBlocked, FlushFails, FlushKilled,
      FlushSome, FlushAll, Flushing, Read, ReadFails, ReadEof, ReadDropped,
      ReadKilled, ReadSentZero, RelayAll, RelayQueue, Reading, Linked, HangUp,
      NothingToDo, NotRead, Handling
<1>3. e.ptr \in Ctx /\ cfd[e.ptr] \in Fd
  BY <1>2, HandledContext DEF Handling
<1>4. CASE \/ HandleOrphan(e) \/ FlushFails(e) \/ ReadFails(e) \/ ReadEof(e)
           \/ ReadDropped(e) \/ ReadSentZero(e) \/ HangUp(e)
  <2>1. ReturnFalse(e.ptr) /\ wlen' = wlen
    BY <1>4 DEF HandleOrphan, FlushFails, ReadFails, ReadEof, ReadDropped, ReadSentZero,
                HangUp, Drop, ctxVars, queueVars
  <2>2. \A f \in Fd : "OUT" \in poll'[f].ev => poll'[f] = poll[f]
    BY <1>3, <2>1 DEF ReturnFalse, Remove_poll, NotPolled, TypeInv, TypeOK, KernelTypeOK
  <2> QED
    BY <1>2, <2>1, <2>2, OutFrame
<1>5. CASE \/ HandleNullPeer(e) \/ FlushBlocked(e) \/ FlushKilled(e)
           \/ ReadKilled(e) \/ NothingToDo(e) \/ RelayAll(e)
  <2>1. UNCHANGED <<poll, wlen>>
    BY <1>5 DEF HandleNullPeer, FlushBlocked, FlushKilled, ReadKilled, NothingToDo, RelayAll,
                Idle, Dies, ctxVars, kernelVars
  <2> QED
    BY <1>2, <2>1, OutFrame
<1>6. CASE FlushSome(e)
  <2>1. poll' = poll
    BY <1>6 DEF FlushSome
  <2>2. PICK n : n = Space(cfd[e.ptr])
    OBVIOUS
  <2>3. 0 < n /\ n < wlen[e.ptr] /\ wlen' = [wlen EXCEPT ![e.ptr] = @ - n]
    BY <1>6, <2>2 DEF FlushSome
  <2>4. n \in Int
    BY <1>3, <2>2, SocketFields, KernelAssumption DEF Space, TypeInv, TypeOK, KernelTypeOK
  <2>5. \A c \in Ctx : wlen[c] > 0 => wlen'[c] > 0
    BY <1>3, <2>3, <2>4 DEF TypeInv, TypeOK
  <2> QED
    BY <1>2, <2>1, <2>5, OutFrame
<1> QED
  BY <1>1, <1>4, <1>5, <1>6, OutFlushAll, OutRelayQueue DEF Flush, Read

LEMMA OutSweep ==
  ASSUME TypeInv, LifetimeInv, OutOnlyQueued, Sweep
  PROVE  OutOnlyQueued'
<1>1. batch' = {}
  BY DEF Sweep
<1>2. \A c \in Ctx \ Range(dead) : wlen'[c] = wlen[c]
  BY DEF Sweep, Freed
<1>3. \A f \in Fd : "OUT" \in poll'[f].ev => poll'[f] = poll[f]
  BY DEF Sweep, ClosePolls, NotPolled
<1>4. \A f \in Fd : poll[f].ptr # NULL => poll[f].ptr \in Ctx \ Range(dead)
  BY DEF TypeInv, TypeOK, KernelTypeOK, LifetimeInv, PollOK
<1> QED
  BY <1>1, <1>2, <1>3, <1>4 DEF OutOnlyQueued

-----------------------------------------------------------------------------
(* The theorems. *)

Inv == TypeInv /\ LifetimeInv

LEMMA InvNext == Inv /\ [Next]_vars => Inv'
<1> SUFFICES ASSUME Inv, [Next]_vars PROVE Inv'
  OBVIOUS
<1> USE DEF Inv
<1>1. CASE Epoll_wait
  BY <1>1, TypeEpoll_wait, LifetimeEpoll_wait
<1>2. CASE Accept
  BY <1>2, TypeAccept, LifetimeAccept
<1>3. CASE Handle
  <2>1. TypeInv'
    BY <1>3, TypeOrphan, TypeFlush, TypeRead DEF Handle
  <2> QED
    BY <1>3, <2>1, LifetimeHandle
<1>4. CASE Sweep
  BY <1>4, TypeSweep, LifetimeSweep
<1>5. CASE Epoll_fail
  <2>1. LifetimeInv'
    BY <1>5, LifetimeFrame DEF Epoll_fail, ctxVars, kernelVars
  <2> QED
    BY <1>5, <2>1, TypeEpoll_fail
<1>6. CASE Remote /\ UNCHANGED <<loopVars, ctxVars>>
  BY <1>6, TypeRemote, LifetimeRemote
<1>7. CASE UNCHANGED vars
  BY <1>7 DEF vars, loopVars, ctxVars, kernelVars, TypeInv, TypeOK, KernelTypeOK,
              QueueInBuffer, LifetimeInv, BatchOK, PollOK, DeadOK, PeerOK, WaitOK
<1> QED
  BY <1>1, <1>2, <1>3, <1>4, <1>5, <1>6, <1>7 DEF Next, LoopStep

LEMMA Invariance == Spec => []Inv
<1>1. Init => Inv
  BY TypeInit, LifetimeInit DEF Inv
<1> QED
  BY <1>1, InvNext, PTL DEF Spec

\* Every variable keeps its type: in particular the send buffer's fill never
\* exceeds its capacity, and a flush never asks for bytes it does not have.
THEOREM TypeCorrectness == Spec => []TypeOK
<1>1. Inv => TypeOK
  BY DEF Inv, TypeInv
<1> QED
  BY <1>1, Invariance, PTL

\* The bytes queued in a context always lie within ctx->buffer, whatever the
\* sizes, the partial sends and what on_data puts in their place.
THEOREM QueueStaysInBuffer == Spec => []QueueInBuffer
<1>1. Inv => QueueInBuffer
  BY DEF Inv, TypeInv
<1> QED
  BY <1>1, Invariance, PTL

\* EPOLLOUT is asked for and reported only for a context with bytes queued, in
\* every mode, with every fault and whatever flags malloc leaves.
THEOREM OnlyQueuesWait == Spec => []OutOnlyQueued
<1>1. Init => OutOnlyQueued
  BY DEF Init, KernelInit, NotPolled, OutOnlyQueued
<1>2. ASSUME Inv, OutOnlyQueued, [Next]_vars PROVE OutOnlyQueued'
  <2> USE <1>2 DEF Inv
  <2>1. CASE Epoll_wait
    BY <2>1, OutEpoll_wait
  <2>2. CASE Accept
    BY <2>2, OutAccept
  <2>3. CASE Handle
    BY <2>3, OutHandle
  <2>4. CASE Sweep
    BY <2>4, OutSweep
  <2>5. CASE \/ Epoll_fail \/ UNCHANGED vars
             \/ Remote /\ UNCHANGED <<loopVars, ctxVars>>
    <3>1. UNCHANGED <<poll, wlen, batch>>
      BY <2>5 DEF Epoll_fail, vars, loopVars, ctxVars, kernelVars, Remote, Arrive,
                  RemoteSend, RemoteRead, RemoteFin, RemoteReset
    <3> QED
      BY <3>1 DEF OutOnlyQueued
  <2> QED
    BY <2>1, <2>2, <2>3, <2>4, <2>5 DEF Next, LoopStep
<1> QED
  BY <1>1, <1>2, Invariance, PTL DEF Spec

\* The inductive invariant on the lifetime of contexts.
THEOREM Lifetime == Spec => []LifetimeInv
<1>1. Inv => LifetimeInv
  BY DEF Inv
<1> QED
  BY <1>1, Invariance, PTL

\* The loop, the epoll set, the peers and the dead list never lead to a freed
\* context and no context is freed twice, in every mode and with every fault.
THEOREM ContextsNeverDangle == Spec => []NoDanglingContext
<1>1. Inv => NoDanglingContext
  BY DEF Inv, TypeInv, TypeOK, LifetimeInv, BatchOK, PollOK, DeadOK, PeerOK, NoDanglingContext
<1> QED
  BY <1>1, Invariance, PTL

\* The two contexts of a connection name each other as long as either names one.
THEOREM PeersStayMutual == Spec => []PeersMutual
<1>1. Inv => PeersMutual
  BY DEF Inv, TypeInv, TypeOK, LifetimeInv, DeadOK, PeerOK, PeersMutual
<1> QED
  BY <1>1, Invariance, PTL
=============================================================================
