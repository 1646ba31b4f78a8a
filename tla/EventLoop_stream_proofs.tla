----------------------- MODULE EventLoop_stream_proofs -----------------------
(***************************************************************************)
(* The bytes of a connection, its back-pressure and its end, for every     *)
(* value of the constants of EventLoop.  A context has one buffer, for     *)
(* what it receives and for what is queued for it.  Without restriction on *)
(* the traffic, a stream is spoiled only by a read over its own queue.     *)
(* Then that does not happen if only one end of a connection sends, nor,   *)
(* in the last sections, if both do and every send is whole.               *)
(***************************************************************************)
EXTENDS EventLoop_fd_proofs

\* Either no client or no upstream ever sends.
OneWay == \E s \in {"client", "upstream"} : Senders \subseteq {s}

\* The two contexts of a connection are at its two ends; data is received, and
\* queued for the peer, only from an end that sends.
SideInv ==
  /\ \A c \in Ctx : peer[c] # NULL => sock[cfd[c]].side # sock[cfd[peer[c]]].side
  /\ \A f \in Fd : sock[f].rcv # <<>> => sock[f].side \in Senders
  /\ \A c \in Ctx : wlen[c] > 0 /\ peer[c] # NULL => sock[cfd[peer[c]]].side \in Senders

\* A context that malloc may return has nothing queued and is owed nothing.
FreshInv ==
  \A c \in Ctx \ alloc : wlen[c] = 0 /\ wstart[c] = 0 /\ owed[c] = <<>>

StreamInv == SideInv /\ FreshInv /\ StreamIntegrity

-----------------------------------------------------------------------------
(* Sequences. *)

LEMMA ConcatBytes == \A s, t, u \in Seq(Byte) : (s \o t) \o u = s \o (t \o u)
<1> SUFFICES ASSUME NEW s \in Seq(Byte), NEW t \in Seq(Byte), NEW u \in Seq(Byte)
             PROVE  (s \o t) \o u = s \o (t \o u)
  OBVIOUS
<1> QED
  BY ConcatAssociative

\* A sequence is any beginning of it and the rest.
LEMMA SplitAt ==
  ASSUME NEW S, NEW s \in Seq(S), NEW n \in 0..Len(s)
  PROVE  SubSeq(s, 1, n) \o SubSeq(s, n + 1, Len(s)) = s
<1>1. Len(s) \in Nat
  BY LenProperties
<1>2. 1 \in 1..(Len(s) + 1) /\ n \in (1 - 1)..Len(s) /\ Len(s) \in n..Len(s)
  BY <1>1
<1>3. SubSeq(s, 1, n) \o SubSeq(s, n + 1, Len(s)) = SubSeq(s, 1, Len(s))
  BY <1>2, ConcatAdjacentSubSeq
<1> QED
  BY <1>3, SubSeqFull

\* The same for a part of a sequence: what a flush sends of the queue, and what
\* is left of it in the buffer.
LEMMA SplitQueue ==
  ASSUME NEW S, NEW b \in Seq(S), NEW k \in Nat, NEW l \in Nat, k + l <= Len(b),
         NEW n \in Nat, 0 < n, n < l
  PROVE  SubSeq(SubSeq(b, k + 1, k + l), 1, n) \o SubSeq(b, (k + n) + 1, (k + n) + (l - n))
           = SubSeq(b, k + 1, k + l)
<1>1. Len(b) \in Nat
  BY LenProperties
<1>2. SubSeq(SubSeq(b, k + 1, k + l), 1, n) = SubSeq(b, (k + 1) + 1 - 1, (k + 1) + n - 1)
  <2>1. /\ k + 1 \in 1..Len(b) /\ k + l \in 1..Len(b)
        /\ 1 \in 1..((k + l) - (k + 1) + 1) /\ n \in 1..((k + l) - (k + 1) + 1)
    BY <1>1
  <2> QED
    BY <2>1, SubSeqOfSubSeq
<1>3. (k + 1) + 1 - 1 = k + 1 /\ (k + 1) + n - 1 = k + n /\ (k + n) + (l - n) = k + l
  OBVIOUS
<1>4. SubSeq(b, k + 1, k + n) \o SubSeq(b, (k + n) + 1, k + l) = SubSeq(b, k + 1, k + l)
  <2>1. /\ k + 1 \in 1..(Len(b) + 1) /\ k + n \in ((k + 1) - 1)..Len(b)
        /\ k + l \in (k + n)..Len(b)
    BY <1>1
  <2> QED
    BY <2>1, ConcatAdjacentSubSeq
<1> QED
  BY <1>2, <1>3, <1>4

-----------------------------------------------------------------------------
(* One end sends: what a context receives never meets what is queued for it. *)

\* What is received on a context with a peer finds the context's buffer free,
\* and what is queued for a context, its peer's.
LEMMA OneQueue ==
  ASSUME OneWay, TypeInv, LifetimeInv, SideInv, NEW c \in Ctx, peer[c] # NULL
  PROVE  /\ sock[cfd[c]].rcv # <<>> => wlen[c] = 0 /\ sock[cfd[c]].side \in Senders
         /\ wlen[peer[c]] > 0 => wlen[c] = 0
<1>1. PICK s : Senders \subseteq {s}
  BY DEF OneWay
<1>2. /\ peer[c] \in Ctx /\ peer[peer[c]] = c /\ cfd[c] \in Fd
      /\ wlen[c] \in Nat /\ wlen[peer[c]] \in Nat
  BY DEF LifetimeInv, PeerOK, TypeInv, TypeOK
<1>3. sock[cfd[c]].side # sock[cfd[peer[c]]].side
  BY DEF SideInv
<1>4. wlen[c] > 0 => sock[cfd[peer[c]]].side \in Senders
  BY DEF SideInv
<1>5. wlen[peer[c]] > 0 => sock[cfd[c]].side \in Senders
  BY <1>2, KernelAssumption DEF SideInv
<1>6. sock[cfd[c]].rcv # <<>> => sock[cfd[c]].side \in Senders
  BY <1>2 DEF SideInv
<1> QED
  BY <1>1, <1>2, <1>3, <1>4, <1>5, <1>6

-----------------------------------------------------------------------------
(* What is received. *)

LEMMA SockRcv ==
  ASSUME NEW S \in [Fd -> Socket], NEW f \in Fd, NEW h \in Fd
  PROVE  /\ \A v : [S EXCEPT ![f].used = v][h].rcv = S[h].rcv
         /\ [S EXCEPT ![f].shut = TRUE][h].rcv = S[h].rcv
         /\ h # f => \A v : [S EXCEPT ![f].rcv = v][h].rcv = S[h].rcv
<1>1. S[f] \in Socket /\ S[h] \in Socket
  OBVIOUS
<1>2. CASE h = f
  BY <1>1, <1>2, Zenon DEF Socket
<1>3. CASE h # f
  BY <1>3, Zenon
<1> QED
  BY <1>2, <1>3

\* The handler puts nothing into a socket's receive queue.
LEMMA HandleRcv ==
  ASSUME TypeInv, LifetimeInv, NEW e \in batch, Handles(e), NEW h \in Fd,
         sock[h].rcv = <<>>
  PROVE  sock'[h].rcv = <<>>
<1> DEFINE c == e.ptr
           p == peer[c]
           f == cfd[c]
           g == cfd[p]
<1>1. Handling(e) /\ c # NULL
  BY HandleLinks DEF Handling
<1>2. c \in Ctx /\ f \in Fd /\ (p # NULL => p \in Ctx /\ g \in Fd)
  BY <1>1, HandledContext
<1>3. sock \in [Fd -> Socket]
  BY DEF TypeInv, TypeOK, KernelTypeOK
<1>4. CASE \/ HandleOrphan(e) \/ HandleNullPeer(e) \/ NothingToDo(e)
           \/ FlushBlocked(e) \/ FlushFails(e) \/ FlushKilled(e)
           \/ ReadFails(e) \/ ReadKilled(e)
  <2>1. sock' = sock
    BY <1>4 DEF HandleOrphan, HandleNullPeer, NothingToDo, FlushBlocked, FlushFails,
                FlushKilled, ReadFails, ReadKilled, Idle, Dies, kernelVars
  <2> QED
    BY <2>1
<1>5. CASE FlushSome(e) \/ FlushAll(e)
  <2>1. \/ sock' = [sock EXCEPT ![f].used = @ + Space(f)]
        \/ sock' = [sock EXCEPT ![f].used = @ + wlen[c]]
    BY <1>5 DEF FlushSome, FlushAll
  <2>2. \A v : [sock EXCEPT ![f].used = v][h].rcv = sock[h].rcv
    BY <1>2, <1>3, SockRcv, Zenon
  <2> QED
    BY <2>1, <2>2, Zenon
<1>6. CASE ReadEof(e) \/ HangUp(e)
  <2>1. p # NULL
    BY <1>6 DEF ReadEof, HangUp, NotRead, Reading, Linked
  <2>2. sock' = sock \/ sock' = [sock EXCEPT ![g].shut = TRUE]
    BY <1>6 DEF ReadEof, HangUp, ShutPeer, Shutdown
  <2>3. [sock EXCEPT ![g].shut = TRUE][h].rcv = sock[h].rcv
    BY <1>2, <1>3, <2>1, SockRcv, Zenon
  <2> QED
    BY <2>2, <2>3, Zenon
<1>7. CASE ReadDropped(e) \/ ReadSentZero(e) \/ RelayAll(e) \/ RelayQueue(e)
  <2>1. p # NULL /\ h # f
    BY <1>7 DEF ReadDropped, ReadSentZero, RelayAll, RelayQueue, Reading, Linked, RecvData
  <2>2. Unread(c) \in Seq(Byte) /\ g \in Fd
    BY <1>2, <2>1, RecvType
  <2>3. PICK T \in [Fd -> Socket] : T = [sock EXCEPT ![f].rcv = Unread(c)]
    BY <1>2, <1>3, <2>2, SockStep
  <2>4. T[h].rcv = <<>>
    BY <1>2, <1>3, <2>1, <2>3, SockRcv, Zenon
  <2>5. \/ sock' = T
        \/ sock' = [T EXCEPT ![g].shut = TRUE]
        \/ \E n : sock' = [T EXCEPT ![g].used = @ + n]
    <3>1. CASE ReadDropped(e)
      BY <2>3, <3>1, Zenon DEF ReadDropped
    <3>2. CASE ReadSentZero(e)
      BY <2>3, <3>2, Zenon DEF ReadSentZero
    <3>3. CASE RelayAll(e) \/ RelayQueue(e)
      <4>1. PICK n : sock' = [sock EXCEPT ![f].rcv = Unread(c), ![g].used = @ + n]
        BY <3>3 DEF RelayAll, RelayQueue
      <4> QED
        BY <2>3, <4>1, Zenon
    <3> QED
      BY <1>7, <3>1, <3>2, <3>3
  <2>6. /\ [T EXCEPT ![g].shut = TRUE][h].rcv = T[h].rcv
        /\ \A v : [T EXCEPT ![g].used = v][h].rcv = T[h].rcv
    BY <2>2, SockRcv, Zenon
  <2> QED
    BY <2>4, <2>5, <2>6, Zenon
<1> QED
  BY <1>4, <1>5, <1>6, <1>7 DEF Handles, Flush, Read

\* The lengths of what recv() takes and leaves.
LEMMA RecvLengths ==
  ASSUME TypeInv, NEW c \in Ctx, cfd[c] \in Fd, RecvData(cfd[c])
  PROVE  /\ Take(c) \in Nat /\ 0 < Take(c) /\ Take(c) <= Len(sock[cfd[c]].rcv)
         /\ Len(Received(c)) = Take(c)
         /\ Len(Unread(c)) = Len(sock[cfd[c]].rcv) - Take(c)
<1>1. PICK s \in Seq(Byte) : s = sock[cfd[c]].rcv
  BY SocketFields DEF TypeInv, TypeOK, KernelTypeOK
<1>2. s # <<>> /\ Len(s) \in Nat /\ Len(s) > 0
  BY <1>1, LenProperties, EmptySeq DEF RecvData
<1>3. Take(c) \in Nat /\ 0 < Take(c) /\ Take(c) <= Len(s)
  BY <1>1, <1>2, LoopAssumption DEF Take
<1>4. /\ Len(SubSeq(s, 1, Take(c))) = IF 1 <= Take(c) THEN Take(c) - 1 + 1 ELSE 0
      /\ Len(SubSeq(s, Take(c) + 1, Len(s))) =
           IF Take(c) + 1 <= Len(s) THEN Len(s) - (Take(c) + 1) + 1 ELSE 0
  BY <1>2, <1>3, SubSeqType
<1>5. /\ Len(SubSeq(s, 1, Take(c))) = Take(c)
      /\ Len(SubSeq(s, Take(c) + 1, Len(s))) = Len(s) - Take(c)
  BY <1>2, <1>3, <1>4
<1> QED
  BY <1>1, <1>3, <1>5, Zenon DEF Received, Unread

\* A remote program that sends is one that may.
LEMMA RemoteRcv ==
  ASSUME TypeInv, Remote, NEW h \in Fd, sock[h].rcv = <<>>, sock'[h].rcv # <<>>
  PROVE  sock[h].side \in Senders
<1>1. sock \in [Fd -> Socket] /\ sock[h] \in Socket
  BY DEF TypeInv, TypeOK, KernelTypeOK
<1>2. CASE Arrive
  BY <1>2 DEF Arrive
<1>3. ASSUME NEW f \in Fd, RemoteSend(f) \/ RemoteRead(f) \/ RemoteFin(f) \/ RemoteReset(f)
      PROVE  sock[h].side \in Senders
  <2>1. h = f
    BY <1>1, <1>3, Zenon DEF RemoteSend, RemoteRead, RemoteFin, RemoteReset
  <2>2. CASE RemoteSend(f)
    BY <2>1, <2>2 DEF RemoteSend
  <2>3. CASE RemoteRead(f)
    BY <1>1, <2>1, <2>3, Zenon DEF RemoteRead, Socket
  <2>4. CASE RemoteFin(f)
    BY <1>1, <2>1, <2>4, Zenon DEF RemoteFin, Socket
  <2>5. CASE RemoteReset(f)
    BY <1>1, <2>1, <2>5, Zenon DEF RemoteReset, Socket
  <2> QED
    BY <1>3, <2>2, <2>3, <2>4, <2>5
<1> QED
  BY <1>2, <1>3 DEF Remote
-----------------------------------------------------------------------------
(* What is sent and queued. *)

\* More is released for t, or more of what is owed to it is sent, and no other
\* context is touched, but for a buffer that is read into over a queue.
Carries(t) ==
  /\ t \in alloc /\ peer[t] # NULL /\ peer' = peer
  /\ \A x \in Ctx \ {t} : /\ wpartial'[x] = wpartial[x]
                          /\ wstart'[x] = wstart[x] /\ wlen'[x] = wlen[x]
                          /\ owed'[x] = owed[x]
                          /\ buffer'[x] = buffer[x] \/ ReadOverQueue(x)
  /\ \A h \in Fd \ {cfd[t]} : out'[h] = out[h]
  /\ \E s \in Seq(Byte) : out'[cfd[t]] = out[cfd[t]] \o s
  /\ \E s \in Seq(Byte) : owed'[t] = owed[t] \o s
  /\ StreamWhole(t) =>
       out'[cfd[t]] \o (IF wpartial'[t]
                        THEN SubSeq(buffer'[t], wstart'[t] + 1, wstart'[t] + wlen'[t])
                        ELSE <<>>) = owed'[t]
  /\ wlen'[t] > 0 => wlen[t] > 0 \/ sock[cfd[peer[t]]].side \in Senders

\* What is sent to a context that has bytes queued are the first of them.
LEMMA FlushCarries ==
  ASSUME Inv, FdInv, NEW e \in batch, FlushSome(e) \/ FlushAll(e)
  PROVE  Carries(e.ptr)
<1> USE DEF Inv
<1> DEFINE c == e.ptr
           f == cfd[c]
<1>1. /\ c \in Ctx /\ c \in alloc /\ f \in Fd /\ f # NoFd
      /\ peer[c] # NULL /\ wpartial[c]
  <2>1. c # NULL /\ peer[c] # NULL /\ wpartial[c]
    BY DEF FlushSome, FlushAll, Flushing, Handling
  <2>2. c \in Ctx /\ c \in alloc /\ f \in Fd
    BY <2>1, HandledContext
  <2> QED
    BY <2>1, <2>2, KernelAssumption DEF NoFd
<1>2. /\ out \in [Fd -> Seq(Byte)] /\ buffer[c] \in Seq(Byte) /\ owed[c] \in Seq(Byte)
      /\ wstart \in [Ctx -> Nat] /\ wlen \in [Ctx -> Nat]
      /\ wstart[c] + wlen[c] <= Len(buffer[c])
  BY <1>1 DEF TypeInv, TypeOK, KernelTypeOK, QueueInBuffer
<1>3. (StreamWhole(c) => out[f] \o Queued(c) = owed[c]) /\ Queued(c) \in Seq(Byte)
  BY <1>1, QueuedType DEF StreamWhole
<1>4. /\ owed' = owed /\ peer' = peer
      /\ \E s \in Seq(Byte) : owed'[c] = owed[c] \o s
  <2>1. owed' = owed /\ peer' = peer
    BY DEF FlushSome, FlushAll
  <2>2. owed[c] = owed[c] \o <<>> /\ <<>> \in Seq(Byte)
    BY <1>2, ConcatEmptySeq, EmptySeq
  <2> QED
    BY <2>1, <2>2
<1>5. CASE FlushSome(e)
  <2> DEFINE n == Space(f)
             s == SubSeq(Queued(c), 1, n)
             r == SubSeq(buffer[c], (wstart[c] + n) + 1, (wstart[c] + n) + (wlen[c] - n))
  <2>1. /\ out' = [out EXCEPT ![f] = @ \o s]
        /\ wstart' = [wstart EXCEPT ![c] = wstart[c] + n]
        /\ wlen' = [wlen EXCEPT ![c] = wlen[c] - n]
        /\ UNCHANGED <<wpartial, buffer>>
        /\ 0 < n /\ n < wlen[c]
    BY <1>5 DEF FlushSome, Advance
  <2>2. n \in Nat
    <3>1. sock[f] \in Socket
      BY <1>1 DEF TypeInv, TypeOK, KernelTypeOK
    <3>2. sock[f].used \in 0..SndCap
      BY <3>1, SocketFields
    <3> QED
      BY <3>2, KernelAssumption DEF Space
  <2>3. s \o r = Queued(c)
    <3> HIDE DEF n
    <3> QED
      BY <1>1, <1>2, <2>1, <2>2, SplitQueue DEF Queued
  <2>4. s \in Seq(Byte) /\ r \in Seq(Byte)
    <3> HIDE DEF n
    <3>1. n <= Len(Queued(c)) /\ (wstart[c] + n) + (wlen[c] - n) <= Len(buffer[c])
      BY <1>1, <1>2, <2>1, <2>2, QueuedType
    <3>2. (wstart[c] + n) + 1 \in Nat \ {0} /\ (wstart[c] + n) + (wlen[c] - n) \in Int
      BY <1>1, <1>2, <2>2
    <3>3. SubSeq(Queued(c), 1, n) \in Seq(Byte)
      BY <1>3, <2>2, <3>1, SubSeqType
    <3>4. r \in Seq(Byte)
      BY <1>2, <3>1, <3>2, SubSeqType
    <3> QED
      BY <3>3, <3>4
  <2>5. out'[f] = out[f] \o s /\ \A h \in Fd \ {f} : out'[h] = out[h]
    BY <1>1, <1>2, <2>1
  <2>6. StreamWhole(c) => (out[f] \o s) \o r = owed[c]
    <3>1. out[f] \in Seq(Byte)
      BY <1>1, <1>2
    <3>2. (out[f] \o s) \o r = out[f] \o (s \o r)
      <4> HIDE DEF s, r
      <4> QED
        BY <2>4, <3>1, ConcatBytes, Zenon
    <3> QED
      BY <1>3, <2>3, <3>2
  <2>7. /\ wpartial'[c] /\ buffer'[c] = buffer[c]
        /\ wstart'[c] = wstart[c] + n /\ wlen'[c] = wlen[c] - n
    BY <1>1, <1>2, <2>1
  <2>8. \A x \in Ctx \ {c} : /\ wpartial'[x] = wpartial[x]
                             /\ wstart'[x] = wstart[x] /\ wlen'[x] = wlen[x]
                             /\ buffer'[x] = buffer[x] /\ owed'[x] = owed[x]
    BY <1>2, <1>4, <2>1
  <2>9. wlen[c] > 0
    BY <1>1, <1>2, <2>1, <2>2
  <2> HIDE DEF n, s
  <2>10. StreamWhole(c) =>
           out'[f] \o SubSeq(buffer'[c], wstart'[c] + 1, wstart'[c] + wlen'[c]) = owed'[c]
    BY <1>4, <2>5, <2>6, <2>7
  <2> QED
    BY <1>1, <1>4, <2>4, <2>5, <2>7, <2>8, <2>9, <2>10 DEF Carries
<1>6. CASE FlushAll(e)
  <2>1. /\ out' = [out EXCEPT ![f] = @ \o Queued(c)]
        /\ wstart' = [wstart EXCEPT ![c] = 0]
        /\ wlen' = [wlen EXCEPT ![c] = 0]
        /\ wpartial' = [wpartial EXCEPT ![c] = FALSE]
        /\ buffer' = [buffer EXCEPT ![c] = <<>>]
    BY <1>6 DEF FlushAll
  <2>2. out'[f] = out[f] \o Queued(c) /\ \A h \in Fd \ {f} : out'[h] = out[h]
    BY <1>1, <1>2, <2>1
  <2>3. ~wpartial'[c] /\ wlen'[c] = 0
    BY <1>1, <2>1 DEF TypeInv, TypeOK
  <2>4. \A x \in Ctx \ {c} : /\ wpartial'[x] = wpartial[x]
                             /\ wstart'[x] = wstart[x] /\ wlen'[x] = wlen[x]
                             /\ buffer'[x] = buffer[x] /\ owed'[x] = owed[x]
    BY <1>4, <2>1 DEF TypeInv, TypeOK
  <2>5. StreamWhole(c) => out'[f] \o <<>> = owed'[c]
    BY <1>2, <1>3, <1>4, <2>2, ConcatEmptySeq
  <2>6. StreamWhole(c) =>
          out'[f] \o (IF wpartial'[c]
                      THEN SubSeq(buffer'[c], wstart'[c] + 1, wstart'[c] + wlen'[c])
                      ELSE <<>>) = owed'[c]
    BY <2>3, <2>5
  <2>7. \E s \in Seq(Byte) : out'[f] = out[f] \o s
    BY <1>3, <2>2
  <2>8. ~(wlen'[c] > 0)
    BY <2>3
  <2> QED
    BY <1>1, <1>4, <2>2, <2>4, <2>6, <2>7, <2>8, Zenon DEF Carries
<1> QED
  BY <1>5, <1>6

\* A read of data takes at least one byte from the socket, and the send that
\* follows, to another socket, leaves the rest.
LEMMA RelayShrinks ==
  ASSUME Inv, NEW e \in batch, RelayAll(e) \/ RelayQueue(e)
  PROVE  Len(sock'[cfd[e.ptr]].rcv) < Len(sock[cfd[e.ptr]].rcv)
<1> USE DEF Inv
<1> DEFINE c == e.ptr
           f == cfd[c]
           g == cfd[peer[c]]
<1>1. c # NULL /\ peer[c] # NULL /\ sock[f].rcv # <<>>
  BY DEF RelayAll, RelayQueue, Reading, Linked, Handling, RecvData
<1>2. c \in Ctx /\ f \in Fd /\ g \in Fd
  BY <1>1, HandledContext
<1>3. sock \in [Fd -> Socket] /\ sock[f] \in Socket /\ sock[f].rcv \in Seq(Byte)
  BY <1>2, SocketFields DEF TypeInv, TypeOK, KernelTypeOK
<1>4. Unread(c) \in Seq(Byte) /\ Len(Unread(c)) < Len(sock[f].rcv)
  <2>1. PICK l, t, u : l = Len(sock[f].rcv) /\ t = Take(c) /\ u = Len(Unread(c))
    OBVIOUS
  <2>2. t \in Nat /\ 0 < t /\ t <= l /\ u = l - t /\ l \in Nat
    BY <1>2, <1>3, <2>1, RecvLengths, LenProperties DEF RelayAll, RelayQueue
  <2> QED
    BY <1>2, <2>1, <2>2, RecvType
<1>5. PICK n : sock' = [sock EXCEPT ![f].rcv = Unread(c), ![g].used = @ + n]
  BY DEF RelayAll, RelayQueue
<1>6. sock'[f].rcv = Unread(c)
  BY <1>2, <1>3, <1>5, Zenon DEF Socket
<1> QED
  BY <1>4, <1>6

\* What is received is sent to the peer, which has nothing queued, and what the
\* socket does not take is queued there.
LEMMA RelayCarries ==
  ASSUME Inv, FdInv, SideInv, NEW e \in batch, RelayAll(e) \/ RelayQueue(e),
         NEW p, p = peer[e.ptr]
  PROVE  Carries(p)
<1> USE DEF Inv
<1> DEFINE c == e.ptr
           g == cfd[p]
<1>1. /\ c \in Ctx /\ p \in Ctx /\ p \in alloc /\ cfd[c] \in Fd /\ g \in Fd /\ g # NoFd
      /\ p # NULL /\ p # c /\ peer[p] = c /\ peer[p] # NULL /\ ~wpartial[p]
  <2>1. c # NULL /\ p # NULL /\ ~wpartial[p]
    BY DEF RelayAll, RelayQueue, Reading, Linked, Handling, CanRead
  <2>2. c \in Ctx /\ p \in Ctx /\ p \in alloc /\ cfd[c] \in Fd /\ g \in Fd /\ p # c /\ peer[p] = c
    BY <2>1, HandledContext
  <2> QED
    BY <2>1, <2>2, KernelAssumption DEF NoFd
<1>2. /\ out \in [Fd -> Seq(Byte)] /\ buffer \in [Ctx -> Seq(Byte)] /\ owed \in [Ctx -> Seq(Byte)]
      /\ wstart \in [Ctx -> Nat] /\ wlen \in [Ctx -> Nat] /\ wpartial \in [Ctx -> BOOLEAN]
  BY DEF TypeInv, TypeOK, KernelTypeOK
<1>3. ASSUME StreamWhole(p) PROVE out[g] = owed[p]
  <2>1. out[g] \o (IF wpartial[p] THEN Queued(p) ELSE <<>>) = owed[p]
    BY <1>1, <1>3 DEF StreamWhole
  <2>2. out[g] \o <<>> = owed[p]
    BY <1>1, <2>1
  <2> QED
    BY <1>1, <1>2, <2>2, ConcatEmptySeq
<1>4. sock[cfd[c]].side \in Senders /\ (wlen[c] # 0 => ReadOverQueue(c))
  <2>1. sock[cfd[c]].rcv # <<>>
    BY DEF RelayAll, RelayQueue, RecvData
  <2>2. Len(sock'[cfd[c]].rcv) < Len(sock[cfd[c]].rcv)
    BY <1>1, <2>1, RelayShrinks
  <2> QED
    BY <1>1, <1>2, <2>1, <2>2 DEF SideInv, ReadOverQueue
<1>5. peer' = peer /\ sock[cfd[peer[p]]].side \in Senders
  BY <1>1, <1>4 DEF RelayAll, RelayQueue
<1>6. CASE RelayAll(e)
  <2>1. PICK d \in Released(c) :
          /\ out' = [out EXCEPT ![g] = @ \o d]
          /\ owed' = [owed EXCEPT ![p] = @ \o d]
          /\ \E b \in Clobbered(c, d) : buffer' = [buffer EXCEPT ![c] = b]
    BY <1>6 DEF RelayAll
  <2>2. UNCHANGED <<wpartial, wstart, wlen>>
    BY <1>6 DEF RelayAll
  <2>3. \A x \in Ctx : buffer'[x] = buffer[x] \/ ReadOverQueue(x)
    BY <1>1, <1>2, <1>4, <2>1 DEF Clobbered
  <2>4. d \in Seq(Byte)
    BY <1>1, ReleasedType
  <2>5. /\ out'[g] = out[g] \o d /\ owed'[p] = owed[p] \o d
        /\ \A h \in Fd \ {g} : out'[h] = out[h]
        /\ \A x \in Ctx \ {p} : owed'[x] = owed[x]
    BY <1>1, <1>2, <2>1
  <2>6. StreamWhole(p) => out'[g] \o <<>> = owed'[p]
    <3>1. out[g] \o d \in Seq(Byte)
      BY <1>1, <1>2, <2>4, ConcatProperties
    <3>2. out'[g] \o <<>> = out[g] \o d
      BY <2>5, <3>1, ConcatEmptySeq
    <3> QED
      BY <1>3, <2>5, <3>2
  <2>7. StreamWhole(p) =>
          out'[g] \o (IF wpartial'[p]
                      THEN SubSeq(buffer'[p], wstart'[p] + 1, wstart'[p] + wlen'[p])
                      ELSE <<>>) = owed'[p]
    BY <1>1, <2>2, <2>6
  <2>8. \A x \in Ctx \ {p} : /\ wpartial'[x] = wpartial[x]
                             /\ wstart'[x] = wstart[x] /\ wlen'[x] = wlen[x]
                             /\ owed'[x] = owed[x]
                             /\ buffer'[x] = buffer[x] \/ ReadOverQueue(x)
    BY <2>2, <2>3, <2>5
  <2>9. /\ \E s \in Seq(Byte) : out'[g] = out[g] \o s
        /\ \E s \in Seq(Byte) : owed'[p] = owed[p] \o s
    BY <2>4, <2>5
  <2> QED
    BY <1>1, <1>5, <2>5, <2>7, <2>8, <2>9, Zenon DEF Carries
<1>7. CASE RelayQueue(e)
  <2>1. PICK d \in Released(c), n \in Taken(g) :
          /\ n < Len(d)
          /\ out' = [out EXCEPT ![g] = @ \o SubSeq(d, 1, n)]
          /\ owed' = [owed EXCEPT ![p] = @ \o d]
          /\ \E b \in Clobbered(c, d) :
               buffer' = [buffer EXCEPT ![c] = b, ![p] = Leftover(d, n)]
          /\ wlen' = [wlen EXCEPT ![p] = Len(Leftover(d, n))]
    BY <1>7 DEF RelayQueue
  <2>2. /\ wpartial' = [wpartial EXCEPT ![p] = TRUE]
        /\ wstart' = [wstart EXCEPT ![p] = 0]
    BY <1>7 DEF RelayQueue
  <2>3. /\ buffer'[p] = Leftover(d, n)
        /\ \A x \in Ctx \ {p} : buffer'[x] = buffer[x] \/ ReadOverQueue(x)
    BY <1>1, <1>2, <1>4, <2>1 DEF Clobbered
  <2>4. n \in Nat
    <3>1. sock[g] \in Socket
      BY <1>1 DEF TypeInv, TypeOK, KernelTypeOK
    <3>2. sock[g].used \in 0..SndCap
      BY <3>1, SocketFields
    <3> QED
      BY <3>2, KernelAssumption DEF Taken, Space
  <2>5. d \in Seq(Byte) /\ Len(d) \in Nat
    BY <1>1, ReleasedType
  <2> DEFINE s == SubSeq(d, 1, n)
             r == Leftover(d, n)
  <2>6. s \in Seq(Byte) /\ r \in Seq(Byte) /\ s \o r = d
    <3>1. s \in Seq(Byte)
      BY <2>1, <2>4, <2>5, SubSeqType
    <3>2. SubSeq(d, n + 1, Len(d)) \in Seq(Byte)
      BY <2>4, <2>5, SubSeqType
    <3>3. n \in 0..Len(d)
      BY <2>1, <2>4, <2>5
    <3> QED
      BY <2>5, <3>1, <3>2, <3>3, SplitAt DEF Leftover
  <2> HIDE DEF s, r
  <2>7. /\ out'[g] = out[g] \o s /\ owed'[p] = owed[p] \o d
        /\ \A h \in Fd \ {g} : out'[h] = out[h]
        /\ \A x \in Ctx \ {p} : owed'[x] = owed[x]
    BY <1>1, <1>2, <2>1 DEF s
  <2>8. /\ wpartial'[p] /\ wstart'[p] = 0 /\ wlen'[p] = Len(r) /\ buffer'[p] = r
        /\ \A x \in Ctx \ {p} : /\ wpartial'[x] = wpartial[x]
                                /\ wstart'[x] = wstart[x] /\ wlen'[x] = wlen[x]
    BY <1>1, <1>2, <2>1, <2>2, <2>3 DEF r
  <2>9. SubSeq(buffer'[p], wstart'[p] + 1, wstart'[p] + wlen'[p]) = r
    <3>1. Len(r) \in Nat
      BY <2>6, LenProperties
    <3>2. wstart'[p] + 1 = 1 /\ wstart'[p] + wlen'[p] = Len(r)
      BY <2>8, <3>1
    <3> QED
      BY <2>6, <2>8, <3>2, SubSeqFull
  <2>10. StreamWhole(p) => (out[g] \o s) \o r = owed'[p]
    <3>1. out[g] \in Seq(Byte)
      BY <1>1, <1>2
    <3>2. (out[g] \o s) \o r = out[g] \o (s \o r)
      BY <2>6, <3>1, ConcatBytes, Zenon
    <3> QED
      BY <1>3, <2>6, <2>7, <3>2
  <2>11. StreamWhole(p) =>
           out'[g] \o (IF wpartial'[p]
                       THEN SubSeq(buffer'[p], wstart'[p] + 1, wstart'[p] + wlen'[p])
                       ELSE <<>>) = owed'[p]
    BY <2>7, <2>8, <2>9, <2>10
  <2>12. /\ \E t \in Seq(Byte) : out'[g] = out[g] \o t
         /\ \E t \in Seq(Byte) : owed'[p] = owed[p] \o t
    BY <2>5, <2>6, <2>7
  <2> QED
    BY <1>1, <1>5, <2>3, <2>7, <2>8, <2>11, <2>12, Zenon DEF Carries
<1> QED
  BY <1>6, <1>7

\* The handler sends, queues and releases bytes for one linked context, or none.
LEMMA HandleData ==
  ASSUME Inv, FdInv, SideInv, NEW e \in batch, Handles(e)
  PROVE  \/ UNCHANGED <<out, owed, wpartial, wstart, wlen, buffer>>
         \/ \E t \in Ctx : Carries(t)
<1>1. CASE FlushSome(e) \/ FlushAll(e)
  <2>1. Carries(e.ptr)
    BY <1>1, FlushCarries
  <2> QED
    BY <2>1 DEF Carries, Inv, TypeInv, TypeOK
<1>2. CASE RelayAll(e) \/ RelayQueue(e)
  <2>1. Carries(peer[e.ptr])
    BY <1>2, RelayCarries
  <2> QED
    BY <2>1 DEF Carries, Inv, TypeInv, TypeOK
<1>3. CASE \/ HandleOrphan(e) \/ HandleNullPeer(e) \/ NothingToDo(e)
           \/ FlushBlocked(e) \/ FlushFails(e) \/ FlushKilled(e)
           \/ ReadFails(e) \/ ReadKilled(e) \/ ReadEof(e) \/ HangUp(e)
           \/ ReadDropped(e) \/ ReadSentZero(e)
  BY <1>3 DEF HandleOrphan, HandleNullPeer, NothingToDo, FlushBlocked, FlushFails,
              FlushKilled, ReadFails, ReadKilled, ReadEof, HangUp, ReadDropped,
              ReadSentZero, Drop, Idle, Dies, queueVars, ctxVars, kernelVars
<1> QED
  BY <1>1, <1>2, <1>3 DEF Handles, Flush, Read

-----------------------------------------------------------------------------
(* The invariant. *)

\* No stream is spoiled but by a read over its queue.
Kept == \A x \in Ctx : StreamWhole(x) => StreamWhole(x)' \/ ReadOverQueue(x)

LEMMA StreamFrame ==
  ASSUME NEW x, x \in alloc, cfd'[x] = cfd[x], out'[cfd[x]] = out[cfd[x]],
         wpartial'[x] = wpartial[x], wstart'[x] = wstart[x], wlen'[x] = wlen[x],
         buffer'[x] = buffer[x], owed'[x] = owed[x], StreamWhole(x)
  PROVE  StreamWhole(x)'
BY DEF StreamWhole, Queued

LEMMA SideHandle ==
  ASSUME Inv, FdInv, SideInv, NEW e \in batch, Handles(e)
  PROVE  SideInv'
<1> USE DEF Inv
<1>1. \A x \in Ctx : peer'[x] # NULL => peer[x] # NULL /\ peer'[x] = peer[x]
  <2>1. e.ptr # NULL
    BY HandleLinks DEF Handling
  <2>2. e.ptr \in Ctx /\ (peer[e.ptr] # NULL => peer[e.ptr] \in Ctx)
    BY <2>1, HandledContext
  <2>3. \/ peer[e.ptr] # NULL /\ peer' = Unlink(e.ptr)
        \/ peer' = peer
    BY HandleLinks
  <2> QED
    BY <2>2, <2>3 DEF Unlink, TypeInv, TypeOK
<1>2. cfd' = cfd
  BY HandleLinks
<1>3. \A h \in Fd : sock'[h].side = sock[h].side
  BY HandleSock
<1>4. \A x \in Ctx : peer[x] # NULL => cfd[x] \in Fd /\ cfd[peer[x]] \in Fd
  BY KernelAssumption DEF LifetimeInv, PeerOK, TypeInv, TypeOK
<1>5. \A x \in Ctx : peer'[x] # NULL => sock'[cfd'[x]].side # sock'[cfd'[peer'[x]]].side
  BY <1>1, <1>2, <1>3, <1>4 DEF SideInv
<1>6. \A h \in Fd : sock'[h].rcv # <<>> => sock'[h].side \in Senders
  BY <1>3, HandleRcv DEF SideInv
<1>7. ASSUME NEW x \in Ctx, wlen'[x] > 0, peer'[x] # NULL
      PROVE  sock'[cfd'[peer'[x]]].side \in Senders
  <2>1. wlen[x] > 0 \/ sock[cfd[peer[x]]].side \in Senders
    BY <1>7, HandleData DEF Carries
  <2>2. sock[cfd[peer[x]]].side \in Senders
    BY <1>1, <1>7, <2>1 DEF SideInv
  <2> QED
    BY <1>1, <1>2, <1>3, <1>4, <1>7, <2>2
<1> QED
  BY <1>5, <1>6, <1>7 DEF SideInv

LEMMA StreamHandle ==
  ASSUME Inv, FdInv, SideInv, FreshInv, NEW e \in batch, Handles(e)
  PROVE  SideInv' /\ FreshInv' /\ Kept
<1> USE DEF Inv
<1>1. UNCHANGED <<alloc, cfd>>
  BY HandleLinks
<1>2. CASE UNCHANGED <<out, owed, wpartial, wstart, wlen, buffer>>
  BY <1>1, <1>2, SideHandle DEF FreshInv, Kept, StreamWhole, Queued
<1>3. CASE \E t \in Ctx : Carries(t)
  <2>1. PICK t \in Ctx : Carries(t)
    BY <1>3
  <2>2. t \in alloc /\ cfd[t] \in Fd /\ cfd[t] # NoFd
    BY <2>1, KernelAssumption DEF Carries, LifetimeInv, PeerOK, NoFd
  <2>3. FreshInv'
    BY <1>1, <2>1, <2>2 DEF Carries, FreshInv
  <2>4. ASSUME NEW x \in Ctx, StreamWhole(x), ~ReadOverQueue(x)
        PROVE  StreamWhole(x)'
    <3>1. CASE x = t
      BY <1>1, <2>1, <2>4, <3>1 DEF Carries, StreamWhole, Queued
    <3>2. CASE x # t /\ x \in alloc /\ cfd[x] # NoFd
      <4>1. cfd[x] \in Fd /\ cfd[x] # cfd[t]
        BY <2>2, <3>2 DEF TypeInv, TypeOK, FdInv, FdOwnership
      <4>2. /\ cfd'[x] = cfd[x] /\ out'[cfd[x]] = out[cfd[x]]
            /\ wpartial'[x] = wpartial[x] /\ wstart'[x] = wstart[x] /\ wlen'[x] = wlen[x]
            /\ buffer'[x] = buffer[x] /\ owed'[x] = owed[x]
        BY <1>1, <2>1, <2>4, <3>2, <4>1 DEF Carries
      <4> QED
        BY <2>4, <3>2, <4>2, StreamFrame
    <3>3. CASE ~(x \in alloc /\ cfd[x] # NoFd)
      BY <1>1, <3>3 DEF StreamWhole
    <3> QED
      BY <3>1, <3>2, <3>3
  <2> QED
    BY <2>3, <2>4, SideHandle DEF Kept
<1> QED
  BY <1>2, <1>3, HandleData

LEMMA StreamConnect ==
  ASSUME Inv, FdInv, SideInv, FreshInv,
         NEW c \in Free, NEW u \in Free, NEW f \in Fd, NEW g \in Fd, NEW wc, NEW wu,
         NEW okC, NEW okU, Connect(c, u, f, g, wc, wu, okC, okU),
         UNCHANGED <<wstart, wlen, buffer, owed, out>>
  PROVE  SideInv' /\ FreshInv' /\ Kept
<1> USE DEF Inv
<1>1. /\ c \in Ctx \ alloc /\ u \in Ctx \ alloc /\ c # u /\ f # g
      /\ ~sock[f].open /\ ~sock[g].open
      /\ alloc' = alloc \cup {c, u}
      /\ cfd'[c] = f /\ cfd'[u] = g
      /\ peer'[c] = u /\ peer'[u] = c
      /\ \A x \in Ctx \ {c, u} : cfd'[x] = cfd[x] /\ peer'[x] = peer[x]
      /\ sock'[f] = NewSocket("client") /\ sock'[g] = NewSocket("upstream")
      /\ \A h \in Fd \ {f, g} : sock'[h] = sock[h]
      /\ \A x \in alloc : x \in Ctx \ {c, u} /\ (cfd[x] # NoFd => cfd[x] \in Fd \ {f, g})
  BY ConnectFacts
<1>2. /\ wlen[c] = 0 /\ wstart[c] = 0 /\ owed[c] = <<>>
      /\ wlen[u] = 0 /\ wstart[u] = 0 /\ owed[u] = <<>>
      /\ out[f] = <<>> /\ out[g] = <<>>
  BY <1>1 DEF FreshInv, FdInv
<1>3. \A x \in Ctx \ {c, u} : peer[x] # NULL =>
        /\ peer[x] \in Ctx \ {c, u}
        /\ cfd[x] \in Fd \ {f, g} /\ cfd[peer[x]] \in Fd \ {f, g}
  <2> SUFFICES ASSUME NEW x \in Ctx, peer[x] # NULL
               PROVE  /\ peer[x] \in Ctx \ {c, u}
                      /\ cfd[x] \in Fd \ {f, g} /\ cfd[peer[x]] \in Fd \ {f, g}
    OBVIOUS
  <2>1. x \in alloc /\ peer[x] \in alloc /\ cfd[x] \in Fd /\ peer[peer[x]] = x
    BY DEF LifetimeInv, PeerOK
  <2>2. cfd[peer[x]] \in Fd
    BY <2>1, KernelAssumption DEF LifetimeInv, PeerOK, TypeInv, TypeOK
  <2> QED
    BY <1>1, <2>1, <2>2, KernelAssumption DEF NoFd
<1>4. SideInv'
  <2>1. /\ NewSocket("client").side = "client" /\ NewSocket("client").rcv = <<>>
        /\ NewSocket("upstream").side = "upstream" /\ NewSocket("upstream").rcv = <<>>
    BY DEF NewSocket
  <2>2. \A x \in Ctx : peer'[x] # NULL => sock'[cfd'[x]].side # sock'[cfd'[peer'[x]]].side
    BY <1>1, <1>3, <2>1 DEF SideInv
  <2>3. \A h \in Fd : sock'[h].rcv # <<>> => sock'[h].side \in Senders
    BY <1>1, <2>1 DEF SideInv
  <2>4. \A x \in Ctx : wlen'[x] > 0 /\ peer'[x] # NULL => sock'[cfd'[peer'[x]]].side \in Senders
    BY <1>1, <1>2, <1>3 DEF SideInv
  <2> QED
    BY <2>2, <2>3, <2>4 DEF SideInv
<1>5. FreshInv'
  BY <1>1 DEF FreshInv
<1>6. ASSUME NEW x \in alloc', StreamWhole(x)
      PROVE  StreamWhole(x)'
  <2>1. CASE x \in {c, u}
    <3>1. out'[cfd'[x]] = <<>> /\ owed'[x] = <<>> /\ wstart'[x] = 0 /\ wlen'[x] = 0
      BY <1>1, <1>2, <2>1
    <3>2. SubSeq(buffer'[x], 0 + 1, 0 + 0) = <<>>
      BY SubSeqEmpty
    <3>3. <<>> \o <<>> = <<>>
      BY EmptySeq, ConcatEmptySeq
    <3> QED
      BY <3>1, <3>2, <3>3 DEF StreamWhole, Queued
  <2>2. CASE x \notin {c, u}
    <3>1. x \in alloc /\ cfd'[x] = cfd[x] /\ x \in Ctx
      BY <1>1, <2>2
    <3>2. wpartial'[x] = wpartial[x]
      BY <1>1, <2>2, <3>1 DEF Connect, TypeInv, TypeOK
    <3>3. CASE cfd[x] # NoFd
      <4>1. out'[cfd[x]] = out[cfd[x]]
        OBVIOUS
      <4> QED
        BY <1>6, <3>1, <3>2, <4>1, StreamFrame
    <3>4. CASE cfd[x] = NoFd
      BY <3>1, <3>4 DEF StreamWhole
    <3> QED
      BY <3>3, <3>4
  <2> QED
    BY <2>1, <2>2
<1> QED
  BY <1>4, <1>5, <1>6 DEF Kept, StreamWhole

LEMMA StreamSweep ==
  ASSUME Inv, FdInv, SideInv, FreshInv, Sweep
  PROVE  SideInv' /\ FreshInv' /\ Kept
<1> USE DEF Inv
<1>1. PICK F : F = OwnedFds(Range(dead))
  OBVIOUS
<1>2. /\ \A x \in Range(dead) : wlen'[x] = 0 /\ wstart'[x] = 0 /\ owed'[x] = <<>>
      /\ \A x \in Ctx \ Range(dead) : /\ wpartial'[x] = wpartial[x]
                                      /\ wstart'[x] = wstart[x] /\ wlen'[x] = wlen[x]
                                      /\ buffer'[x] = buffer[x] /\ owed'[x] = owed[x]
  <2>1. Range(dead) \subseteq Ctx
    BY DEF LifetimeInv, DeadOK, TypeInv, TypeOK
  <2> QED
    BY <2>1 DEF Sweep, Freed
<1>3. SideInv'
  <2>1. ClosedSocket.rcv = <<>>
    BY DEF ClosedSocket, NewSocket
  <2>2. peer' = peer
    BY DEF Sweep
  <2>3. ASSUME NEW x \in Ctx, peer[x] # NULL
        PROVE  /\ cfd'[x] = cfd[x] /\ cfd'[peer[x]] = cfd[peer[x]] /\ wlen'[x] = wlen[x]
               /\ sock'[cfd[x]] = sock[cfd[x]] /\ sock'[cfd[peer[x]]] = sock[cfd[peer[x]]]
    <3>1. /\ x \in alloc /\ peer[x] \in alloc /\ peer[x] \in Ctx
          /\ x \notin Range(dead) /\ peer[x] \notin Range(dead)
          /\ cfd[x] # NoFd /\ cfd[peer[x]] # NoFd
      BY <2>3, KernelAssumption DEF LifetimeInv, PeerOK, DeadOK, NoFd, TypeInv, TypeOK
    <3> QED
      BY <1>1, <1>2, <3>1, SweepFacts
  <2>4. \A h \in Fd : sock'[h].rcv # <<>> => sock'[h].side \in Senders
    BY <1>1, <2>1, SweepFacts DEF SideInv
  <2> QED
    BY <2>2, <2>3, <2>4 DEF SideInv
<1>4. FreshInv'
  BY <1>1, <1>2, SweepFacts DEF FreshInv
<1>5. ASSUME NEW x \in alloc', cfd'[x] # NoFd, StreamWhole(x)
      PROVE  StreamWhole(x)'
  <2>1. x \in alloc /\ x \in Ctx \ Range(dead) /\ cfd'[x] = cfd[x] /\ out'[cfd[x]] = out[cfd[x]]
    BY <1>1, <1>5, SweepFacts
  <2> QED
    BY <1>2, <1>5, <2>1, StreamFrame
<1> QED
  BY <1>3, <1>4, <1>5 DEF Kept, StreamWhole

LEMMA StreamAcceptFails ==
  ASSUME Inv, FdInv, SideInv, FreshInv, AcceptFails
  PROVE  SideInv' /\ FreshInv' /\ Kept
<1> USE DEF Inv
<1>1. PICK c \in Free : alloc' = alloc \cup {c}
  BY DEF AcceptFails
<1>2. UNCHANGED <<cfd, peer, wpartial, wstart, wlen, buffer, owed, sock, out>>
  BY DEF AcceptFails, queueVars
<1>3. cfd[c] = NoFd
  BY DEF Free, FdInv
<1>4. SideInv' /\ FreshInv'
  BY <1>1, <1>2 DEF SideInv, FreshInv
<1>5. Kept
  BY <1>1, <1>2, <1>3 DEF Kept, StreamWhole, Queued
<1> QED
  BY <1>4, <1>5

LEMMA StreamRemote ==
  ASSUME Inv, SideInv, FreshInv, Remote, UNCHANGED <<loopVars, ctxVars>>
  PROVE  SideInv' /\ FreshInv' /\ Kept
<1> USE DEF Inv
<1>1. UNCHANGED <<alloc, cfd, peer, wpartial, wstart, wlen, buffer, owed>>
  BY DEF ctxVars
<1>2. \A h \in Fd : sock'[h].side = sock[h].side
  BY RemoteSock
<1>3. out' = out
  BY DEF Remote, Arrive, RemoteSend, RemoteRead, RemoteFin, RemoteReset
<1>4. SideInv'
  <2>1. \A x \in Ctx : peer[x] # NULL => cfd[x] \in Fd /\ cfd[peer[x]] \in Fd
    BY KernelAssumption DEF LifetimeInv, PeerOK, TypeInv, TypeOK
  <2>2. \A h \in Fd : sock'[h].rcv # <<>> => sock'[h].side \in Senders
    BY <1>2, RemoteRcv DEF SideInv
  <2> QED
    BY <1>1, <1>2, <2>1, <2>2 DEF SideInv
<1>5. FreshInv' /\ Kept
  BY <1>1, <1>3 DEF FreshInv, Kept, StreamWhole, Queued
<1> QED
  BY <1>4, <1>5

LEMMA StreamNext ==
  ASSUME NoStrayClose, Inv, FdInv, SideInv, FreshInv, [Next]_vars
  PROVE  SideInv' /\ FreshInv' /\ Kept
<1>1. CASE \/ Epoll_wait \/ Epoll_fail \/ UNCHANGED vars
           \/ AcceptNoMemory \/ AcceptRefused \/ AcceptConnectFails
  <2>1. UNCHANGED <<alloc, cfd, peer, wpartial, wstart, wlen, buffer, owed, sock, out>>
    BY <1>1 DEF Epoll_wait, Epoll_fail, AcceptNoMemory, AcceptRefused, AcceptConnectFails,
                vars, ctxVars, kernelVars
  <2> QED
    BY <2>1 DEF SideInv, FreshInv, Kept, StreamWhole, Queued
<1>2. CASE AcceptFails
  BY <1>2, StreamAcceptFails
<1>3. CASE AcceptNoUpstream
  BY <1>3 DEF AcceptNoUpstream, LacksUpstream, NoStrayClose
<1>4. CASE AcceptConnected
  <2>1. PICK c \in Free, u \in Free, f \in Fd, g \in Fd,
             wc \in DirtyFlag, wu \in DirtyFlag, okC \in Registered, okU \in Registered :
          Connect(c, u, f, g, wc, wu, okC, okU)
    BY <1>4 DEF AcceptConnected
  <2>2. UNCHANGED <<wstart, wlen, buffer, owed, out>>
    BY <1>4 DEF AcceptConnected
  <2> QED
    BY <2>1, <2>2, StreamConnect
<1>5. CASE Handle
  <2>1. PICK e \in batch : Handles(e)
    BY <1>5 DEF Handle, Handles
  <2> QED
    BY <2>1, StreamHandle
<1>6. CASE Sweep
  BY <1>6, StreamSweep
<1>7. CASE Remote /\ UNCHANGED <<loopVars, ctxVars>>
  BY <1>7, StreamRemote
<1> QED
  BY <1>1, <1>2, <1>3, <1>4, <1>5, <1>6, <1>7 DEF Next, LoopStep, Accept

LEMMA StreamInit == Init => StreamInv
<1> SUFFICES ASSUME Init PROVE StreamInv
  OBVIOUS
<1>1. SideInv
  BY DEF Init, KernelInit, SideInv, ClosedSocket, NewSocket
<1> QED
  BY <1>1 DEF Init, StreamInv, FreshInv, StreamIntegrity, StreamWhole

LEMMA EndsInvariance ==
  ASSUME NoStrayClose
  PROVE  Spec => [](Inv /\ FdInv /\ SideInv /\ FreshInv)
<1>1. Inv /\ FdInv /\ SideInv /\ FreshInv /\ [Next]_vars => SideInv' /\ FreshInv'
  BY StreamNext
<1>2. Init => SideInv /\ FreshInv
  BY StreamInit DEF StreamInv
<1> QED
  BY <1>1, <1>2, FdInvariance, PTL DEF Spec

\* Whichever ends send, whatever fails, whatever malloc returns and however the
\* buffers and the sizes of the sends fall: a stream that is whole stays whole,
\* unless its own context is read while bytes are queued for it.
THEOREM OnlyReadsSpoil ==
  ASSUME NoStrayClose
  PROVE  Spec => SpoiledOnlyByOwnRead
<1>1. Inv /\ FdInv /\ SideInv /\ FreshInv /\ [Next]_vars
        => [\A c \in Ctx : StreamWhole(c) /\ ~StreamWhole(c)' => ReadOverQueue(c)]_vars
  BY StreamNext DEF Kept
<1> QED
  BY <1>1, EndsInvariance, PTL DEF Spec, SpoiledOnlyByOwnRead

\* With one sending end no context is read over its queue.
LEMMA OneWayNext ==
  ASSUME NoStrayClose, OneWay, Inv, FdInv, StreamInv, [Next]_vars
  PROVE  StreamInv'
<1>1. ASSUME NEW x \in Ctx, ReadOverQueue(x) PROVE FALSE
  <2>1. peer[x] # NULL /\ wlen[x] > 0 /\ wlen[x] \in Nat /\ cfd[x] \in Fd
    BY <1>1 DEF ReadOverQueue, Inv, TypeInv, TypeOK, LifetimeInv, PeerOK
  <2>2. sock[cfd[x]].rcv = <<>>
    BY <2>1, OneQueue DEF Inv, StreamInv
  <2>3. sock'[cfd[x]].rcv \in Seq(Byte)
    BY <2>1, InvNext, SocketFields DEF Inv, TypeInv, TypeOK, KernelTypeOK
  <2> QED
    BY <1>1, <2>2, <2>3, LenProperties, EmptySeq DEF ReadOverQueue
<1> QED
  BY <1>1, StreamNext DEF StreamInv, StreamIntegrity, Kept

LEMMA StreamInvariance ==
  ASSUME NoStrayClose, OneWay
  PROVE  Spec => [](Inv /\ FdInv /\ StreamInv)
<1>1. Inv /\ FdInv /\ StreamInv /\ [Next]_vars => StreamInv'
  BY OneWayNext
<1> QED
  BY <1>1, StreamInit, FdInvariance, PTL DEF Spec

\* What the kernel accepted for a context and what is queued in it is what was
\* released for it, byte for byte, whatever fails, whatever malloc returns and
\* however the buffers and the sizes of the sends fall, if one end sends.
THEOREM StreamsWhole ==
  ASSUME NoStrayClose, OneWay
  PROVE  Spec => []StreamIntegrity
<1>1. StreamInv => StreamIntegrity
  BY DEF StreamInv
<1> QED
  BY <1>1, StreamInvariance, PTL

-----------------------------------------------------------------------------
(* The loop implements Relay. *)

LEMMA BeginsConcat ==
  ASSUME NEW s \in Seq(Byte), NEW t \in Seq(Byte)
  PROVE  R!Begins(s, s \o t)
<1>1. Len(s) \in Nat /\ Len(t) \in Nat /\ Len(s \o t) = Len(s) + Len(t)
  BY LenProperties, ConcatProperties
<1>2. SubSeq(s \o t, 1, Len(s)) = s
  <2>1. CASE Len(s) = 0
    <3>1. s = <<>>
      BY <2>1, EmptySeq
    <3>2. SubSeq(s \o t, 1, 0) = <<>>
      BY SubSeqEmpty
    <3> QED
      BY <2>1, <3>1, <3>2
  <2>2. CASE Len(s) > 0
    <3>1. 1 \in 1..Len(s) /\ Len(s) \in 1..Len(s)
      BY <1>1, <2>2
    <3>2. SubSeq(s \o t, 1, Len(s)) = SubSeq(s, 1, Len(s))
      BY <3>1, SubSeqOfConcat1
    <3> QED
      BY <3>2, SubSeqFull
  <2> QED
    BY <1>1, <2>1, <2>2
<1> QED
  BY <1>1, <1>2 DEF R!Begins

LEMMA SentFrame ==
  ASSUME \A x \in Ctx : (IF cfd'[x] = NoFd THEN <<>> ELSE out'[cfd'[x]])
                          = (IF cfd[x] = NoFd THEN <<>> ELSE out[cfd[x]])
  PROVE  Sent' = Sent
BY DEF Sent

\* Bytes that are sent to a context, or released for it.
LEMMA RelayCarry ==
  ASSUME Inv, Inv', FdInv, StreamInv, StreamInv', UNCHANGED <<alloc, cfd>>,
         NEW t \in Ctx, Carries(t)
  PROVE  R!Carry(t)
<1> USE DEF Inv
<1> DEFINE f == cfd[t]
<1>1. t \in alloc /\ f \in Fd /\ f # NoFd /\ peer[t] # NULL /\ peer' = peer
  BY KernelAssumption DEF Carries, LifetimeInv, PeerOK, NoFd
<1>2. Sent[t] = out[f] /\ Sent'[t] = out'[f]
  BY <1>1 DEF Sent
<1>3. /\ out[f] \in Seq(Byte) /\ out'[f] \in Seq(Byte)
      /\ owed[t] \in Seq(Byte) /\ owed'[t] \in Seq(Byte)
  BY <1>1 DEF TypeInv, TypeOK, KernelTypeOK
<1>4. R!Begins(owed[t], owed'[t])
  <2>1. PICK s \in Seq(Byte) : owed'[t] = owed[t] \o s
    BY DEF Carries
  <2> QED
    BY <1>3, <2>1, BeginsConcat
<1>5. R!Begins(Sent[t], Sent'[t])
  <2>1. PICK s \in Seq(Byte) : out'[f] = out[f] \o s
    BY DEF Carries
  <2> QED
    BY <1>2, <1>3, <2>1, BeginsConcat
<1>6. R!Begins(Sent'[t], owed'[t])
  <2>1. (IF wpartial[t] THEN Queued(t) ELSE <<>>)' \in Seq(Byte)
    <3>1. /\ buffer'[t] \in Seq(Byte) /\ wstart'[t] \in Nat /\ wlen'[t] \in Nat
          /\ wstart'[t] + wlen'[t] <= Len(buffer'[t])
      BY DEF TypeInv, TypeOK, QueueInBuffer
    <3>2. SubSeq(buffer'[t], wstart'[t] + 1, wstart'[t] + wlen'[t]) \in Seq(Byte)
      BY <3>1, SubSeqType
    <3> QED
      BY <3>2, EmptySeq DEF Queued
  <2>2. out'[f] \o (IF wpartial[t] THEN Queued(t) ELSE <<>>)' = owed'[t]
    BY <1>1 DEF StreamInv, StreamIntegrity, StreamWhole
  <2> QED
    BY <1>2, <1>3, <2>1, <2>2, BeginsConcat
<1>7. owed' = [owed EXCEPT ![t] = owed'[t]]
  BY DEF Carries, TypeInv, TypeOK
<1>8. Sent' = [Sent EXCEPT ![t] = Sent'[t]]
  <2>1. \A x \in Ctx \ {t} : Sent'[x] = Sent[x]
    BY <1>1 DEF Sent, Carries, FdInv, FdOwnership, TypeInv, TypeOK
  <2> QED
    BY <2>1 DEF Sent
<1> QED
  BY <1>1, <1>4, <1>5, <1>6, <1>7, <1>8 DEF R!Carry

\* The contexts of a new connection hold nothing of an earlier one.
LEMMA RelayJoin ==
  ASSUME Inv, FdInv, StreamInv,
         NEW c \in Free, NEW u \in Free, NEW f \in Fd, NEW g \in Fd, NEW wc, NEW wu,
         NEW okC, NEW okU, Connect(c, u, f, g, wc, wu, okC, okU),
         UNCHANGED <<owed, out>>
  PROVE  R!Join(c, u)
<1> USE DEF Inv
<1>1. /\ c \in Ctx \ alloc /\ u \in Ctx \ alloc /\ c # u
      /\ ~sock[f].open /\ ~sock[g].open
      /\ cfd'[c] = f /\ cfd'[u] = g
      /\ \A x \in Ctx \ {c, u} : cfd'[x] = cfd[x]
  BY ConnectFacts
<1>2. out[f] = <<>> /\ out[g] = <<>> /\ cfd[c] = NoFd /\ cfd[u] = NoFd
  BY <1>1 DEF FdInv
<1>3. \A x \in {c, u} : peer[x] = NULL /\ owed[x] = <<>> /\ Sent[x] = <<>>
  BY <1>1, <1>2 DEF LifetimeInv, PeerOK, StreamInv, FreshInv, Sent
<1>4. Sent' = Sent
  BY <1>1, <1>2, SentFrame
<1>5. peer' = [peer EXCEPT ![c] = u, ![u] = c]
  BY DEF Connect, Link
<1> QED
  BY <1>1, <1>3, <1>4, <1>5 DEF R!Join

\* Swept contexts were unlinked before.
LEMMA RelayForget ==
  ASSUME Inv, FdInv, Sweep
  PROVE  R!Forget(Range(dead)) /\ Range(dead) \in SUBSET Ctx
<1> USE DEF Inv
<1>1. PICK F : F = OwnedFds(Range(dead))
  OBVIOUS
<1>2. /\ \A x \in Range(dead) : peer[x] = NULL
      /\ Range(dead) \subseteq Ctx /\ peer' = peer
  BY DEF LifetimeInv, DeadOK, TypeInv, TypeOK, Sweep
<1>3. owed' = [x \in Ctx |-> IF x \in Range(dead) THEN <<>> ELSE owed[x]]
  BY DEF Sweep, Freed
<1>4. ASSUME NEW x \in Ctx
      PROVE  Sent'[x] = IF x \in Range(dead) THEN <<>> ELSE Sent[x]
  <2>1. CASE x \in Range(dead)
    BY <1>1, <2>1, SweepFacts DEF Sent
  <2>2. CASE x \in alloc \ Range(dead)
    BY <1>1, <2>2, SweepFacts DEF Sent
  <2>3. CASE x \notin alloc
    BY <1>1, <2>3, SweepFacts DEF Sent, FdInv
  <2> QED
    BY <2>1, <2>2, <2>3
<1>5. Sent' = [x \in Ctx |-> IF x \in Range(dead) THEN <<>> ELSE Sent[x]]
  BY <1>4 DEF Sent
<1> QED
  BY <1>2, <1>3, <1>5 DEF R!Forget

LEMMA RelayStep ==
  ASSUME NoStrayClose, Inv, Inv', FdInv, StreamInv, StreamInv', [Next]_vars
  PROVE  [R!Next]_(R!vars)
<1>1. CASE \/ Epoll_wait \/ Epoll_fail \/ UNCHANGED vars
           \/ AcceptNoMemory \/ AcceptRefused \/ AcceptConnectFails \/ AcceptFails
           \/ Remote /\ UNCHANGED <<loopVars, ctxVars>>
  <2>1. UNCHANGED <<cfd, peer, owed, out>>
    BY <1>1 DEF Epoll_wait, Epoll_fail, AcceptNoMemory, AcceptRefused, AcceptConnectFails,
                AcceptFails, Remote, Arrive, RemoteSend, RemoteRead, RemoteFin, RemoteReset,
                vars, ctxVars, kernelVars
  <2>2. Sent' = Sent
    BY <2>1, SentFrame
  <2> QED
    BY <2>1, <2>2 DEF R!vars
<1>2. CASE AcceptNoUpstream
  BY <1>2 DEF AcceptNoUpstream, LacksUpstream, NoStrayClose
<1>3. CASE AcceptConnected
  <2>1. PICK c \in Free, u \in Free, f \in Fd, g \in Fd,
             wc \in DirtyFlag, wu \in DirtyFlag, okC \in Registered, okU \in Registered :
          Connect(c, u, f, g, wc, wu, okC, okU)
    BY <1>3 DEF AcceptConnected
  <2>2. UNCHANGED <<owed, out>>
    BY <1>3 DEF AcceptConnected
  <2>3. R!Join(c, u) /\ c \in Ctx /\ u \in Ctx
    BY <2>1, <2>2, RelayJoin DEF Free
  <2> QED
    BY <2>3 DEF R!Next
<1>4. CASE Handle
  <2>1. PICK e \in batch : Handles(e)
    BY <1>4 DEF Handle, Handles
  <2>2. UNCHANGED <<alloc, cfd>>
    BY <2>1, HandleLinks
  <2>3. CASE UNCHANGED <<out, owed, wpartial, wstart, wlen, buffer>>
    <3>1. Sent' = Sent
      BY <2>2, <2>3, SentFrame
    <3>2. CASE peer' = peer
      BY <2>3, <3>1, <3>2 DEF R!vars
    <3>3. CASE peer[e.ptr] # NULL /\ peer' = Unlink(e.ptr)
      <4>1. e.ptr \in Ctx
        BY <2>1, HandleLinks, HandledContext DEF Handling, Inv
      <4>2. R!Part(e.ptr)
        BY <2>3, <3>1, <3>3 DEF R!Part, Unlink
      <4> QED
        BY <4>1, <4>2 DEF R!Next
    <3> QED
      BY <2>1, <3>2, <3>3, HandleLinks
  <2>4. CASE \E t \in Ctx : Carries(t)
    <3>1. PICK t \in Ctx : Carries(t)
      BY <2>4
    <3>2. R!Carry(t)
      BY <2>2, <3>1, RelayCarry
    <3> QED
      BY <3>2 DEF R!Next
  <2> QED
    BY <2>1, <2>3, <2>4, HandleData DEF StreamInv
<1>5. CASE Sweep
  BY <1>5, RelayForget DEF R!Next
<1> QED
  BY <1>1, <1>2, <1>3, <1>4, <1>5 DEF Next, LoopStep, Accept

\* The loop implements the abstract relay: contexts, descriptors and buffers
\* that are used again carry nothing from one connection to another.
THEOREM LoopRelays ==
  ASSUME NoStrayClose, OneWay
  PROVE  Spec => Relays
<1>1. Init => R!Init
  BY DEF Init, R!Init, Sent
<1>2. /\ Inv /\ FdInv /\ StreamInv /\ (Inv /\ FdInv /\ StreamInv)' /\ [Next]_vars
      => [R!Next]_(R!vars)
  BY RelayStep
<1> QED
  BY <1>1, <1>2, StreamInvariance, PTL DEF Spec, Relays, R!Spec

-----------------------------------------------------------------------------
(* Back-pressure. *)

\* What a linked context waits for is decided by who has bytes queued.
WaitsFor(c) ==
  IF wpartial[peer[c]] THEN PauseEvents
  ELSE IF wpartial[c] THEN WriteEvents ELSE ReadEvents

PollInv ==
  \A c \in Ctx : peer[c] # NULL =>
    /\ poll[cfd[c]].ev = WaitsFor(c)
    /\ wpartial[c] => wlen[c] > 0

\* Every registration succeeds, and malloc returns memory in which wpartial is
\* false: then a registration and the flags it depends on change together.
PollsReliably == "append_poll" \notin Faults /\ DirtyFlag = {FALSE}

\* A linked context is registered, under a descriptor of its own.
LEMMA LinkedRegistered ==
  ASSUME Inv, FdInv, NoneForgotten, NEW c \in Ctx, peer[c] # NULL
  PROVE  /\ c \in alloc /\ cfd[c] \in Fd /\ poll[cfd[c]].ptr = c
         /\ peer[c] \in Ctx /\ peer[c] # c /\ peer[peer[c]] = c
         /\ cfd[peer[c]] \in Fd /\ poll[cfd[peer[c]]].ptr = peer[c]
         /\ \A x \in alloc : cfd[x] = cfd[c] => x = c
<1> USE DEF Inv
<1>1. \A x \in Ctx : peer[x] # NULL =>
        /\ x \in alloc /\ peer[x] \in Ctx /\ cfd[x] \in Fd /\ cfd[x] # NoFd
        /\ peer[x] # x /\ peer[peer[x]] = x /\ x \notin Range(dead)
  BY KernelAssumption DEF LifetimeInv, PeerOK, DeadOK, TypeInv, TypeOK, NoFd
<1>2. \A x \in Ctx : peer[x] # NULL => poll[cfd[x]].ptr = x
  BY <1>1 DEF NoneForgotten
<1>3. peer[c] \in Ctx /\ peer[peer[c]] # NULL
  BY <1>1, KernelAssumption
<1> QED
  BY <1>1, <1>2, <1>3 DEF FdInv, FdOwnership

\* Two registered descriptors are armed anew, and no other one.
LEMMA RearmBoth ==
  ASSUME TypeInv, NEW f \in Fd, NEW g \in Fd, f # g, NEW c \in Ctx, NEW p \in Ctx,
         poll[f].ptr # NULL, poll[g].ptr # NULL,
         NEW a \in SUBSET Event, NEW b \in SUBSET Event,
         poll' = Modify_poll(Modify_poll(poll, f, a, c), g, b, p)
  PROVE  /\ poll'[f].ev = a /\ poll'[g].ev = b
         /\ \A h \in Fd \ {f, g} : poll'[h] = poll[h]
<1>1. poll \in [Fd -> [ev : SUBSET Event, ptr : Ctx \cup {NULL}]]
  BY DEF TypeInv, TypeOK, KernelTypeOK
<1>2. Modify_poll(poll, f, a, c) = [poll EXCEPT ![f] = [ev |-> a, ptr |-> c]]
  BY DEF Modify_poll
<1> DEFINE q == [poll EXCEPT ![f] = [ev |-> a, ptr |-> c]]
<1>3. q[f] = [ev |-> a, ptr |-> c] /\ q[g] = poll[g] /\ \A h \in Fd \ {f} : q[h] = poll[h]
  BY <1>1
<1>4. poll' = [q EXCEPT ![g] = [ev |-> b, ptr |-> p]]
  BY <1>2, <1>3 DEF Modify_poll
<1>5. /\ poll'[f] = [ev |-> a, ptr |-> c] /\ poll'[g] = [ev |-> b, ptr |-> p]
      /\ \A h \in Fd \ {f, g} : poll'[h] = poll[h]
  BY <1>1, <1>3, <1>4
<1> QED
  BY <1>5

LEMMA PollConnect ==
  ASSUME PollsReliably, Inv, FdInv, NoneForgotten, PollInv,
         NEW c \in Free, NEW u \in Free, NEW f \in Fd, NEW g \in Fd,
         NEW wc \in DirtyFlag, NEW wu \in DirtyFlag,
         NEW okC \in Registered, NEW okU \in Registered,
         Connect(c, u, f, g, wc, wu, okC, okU), wlen' = wlen
  PROVE  PollInv'
<1> USE DEF Inv
<1>1. /\ c \in Ctx \ alloc /\ u \in Ctx \ alloc /\ c # u /\ f # g
      /\ cfd'[c] = f /\ cfd'[u] = g
      /\ peer'[c] = u /\ peer'[u] = c
      /\ \A x \in Ctx \ {c, u} : cfd'[x] = cfd[x] /\ peer'[x] = peer[x]
      /\ \A x \in alloc : x \in Ctx \ {c, u} /\ (cfd[x] # NoFd => cfd[x] \in Fd \ {f, g})
  BY ConnectFacts
<1>2. okC /\ okU /\ ~wc /\ ~wu
  BY Zenon DEF Registered, PollsReliably
<1>3. poll' = Append_poll(Append_poll(poll, g, ReadEvents, u), f, ReadEvents, c)
  BY <1>2, Zenon DEF Connect
<1>4. /\ poll'[f].ev = ReadEvents /\ poll'[g].ev = ReadEvents
      /\ \A h \in Fd \ {f, g} : poll'[h] = poll[h]
  BY <1>1, <1>3 DEF Append_poll, TypeInv, TypeOK, KernelTypeOK
<1>5. wpartial' = [wpartial EXCEPT ![c] = wc, ![u] = wu] /\ wpartial \in [Ctx -> BOOLEAN]
  BY DEF Connect, TypeInv, TypeOK
<1>6. ~wpartial'[c] /\ ~wpartial'[u]
  BY <1>1, <1>2, <1>5, Zenon
<1>7. \A x \in Ctx \ {c, u} : wpartial'[x] = wpartial[x]
  BY <1>1, <1>5, Zenon
<1>8. ASSUME NEW x \in Ctx, peer'[x] # NULL
      PROVE  /\ poll'[cfd'[x]].ev = WaitsFor(x)'
             /\ wpartial'[x] => wlen'[x] > 0
  <2>1. CASE x \in {c, u}
    BY <1>1, <1>4, <1>6, <2>1 DEF WaitsFor
  <2>2. CASE x \notin {c, u}
    <3>1. peer'[x] = peer[x] /\ peer[x] # NULL
      BY <1>1, <1>8, <2>2
    <3>2. /\ x \in alloc /\ cfd[x] \in Fd /\ cfd[x] # NoFd
          /\ peer[x] \in alloc
      BY <3>1, KernelAssumption DEF LifetimeInv, PeerOK, NoFd
    <3>3. wpartial'[x] = wpartial[x] /\ wpartial'[peer[x]] = wpartial[peer[x]]
      BY <1>1, <1>7, <3>2
    <3>4. poll'[cfd'[x]] = poll[cfd[x]]
      BY <1>1, <1>4, <3>2
    <3> QED
      BY <3>1, <3>3, <3>4 DEF PollInv, WaitsFor
  <2> QED
    BY <2>1, <2>2
<1> QED
  BY <1>8 DEF PollInv

\* The handler changes what is queued and what is waited for together.
LEMMA PollHandle ==
  ASSUME OneWay, Inv, FdInv, NoneForgotten, StreamInv, PollInv, NEW e \in batch, Handles(e)
  PROVE  PollInv'
<1> USE DEF Inv
<1> DEFINE c == e.ptr
           p == peer[c]
<1>1. UNCHANGED <<alloc, cfd>> /\ c # NULL
  BY HandleLinks DEF Handling
<1>2. c \in Ctx /\ c \in alloc /\ cfd[c] \in Fd
  BY <1>1, HandledContext
<1>3. wlen \in [Ctx -> Nat] /\ wpartial \in [Ctx -> BOOLEAN] /\ peer \in [Ctx -> Ctx \cup {NULL}]
  BY DEF TypeInv, TypeOK
<1>4. CASE \/ HandleOrphan(e) \/ FlushFails(e) \/ ReadFails(e) \/ ReadEof(e)
           \/ ReadDropped(e) \/ ReadSentZero(e) \/ HangUp(e)
  <2>1. ReturnFalse(c) /\ UNCHANGED <<wpartial, wlen>>
    BY <1>4 DEF HandleOrphan, FlushFails, ReadFails, ReadEof, ReadDropped, ReadSentZero,
                HangUp, Drop, queueVars, ctxVars
  <2>2. \/ p = NULL /\ peer' = peer
        \/ p # NULL /\ peer' = Unlink(c)
    BY <1>4 DEF HandleOrphan, FlushFails, Flushing, ReadFails, ReadEof, ReadDropped,
                ReadSentZero, Reading, HangUp, NotRead, Linked, Drop, ctxVars
  <2>3. \A h \in Fd \ {cfd[c]} : poll'[h] = poll[h]
    BY <1>2, <2>1 DEF ReturnFalse, Remove_poll, TypeInv, TypeOK, KernelTypeOK
  <2>4. ASSUME NEW x \in Ctx, peer'[x] # NULL
        PROVE  peer'[x] = peer[x] /\ peer[x] # NULL /\ x # c
    <3>1. p # NULL => p \in Ctx
      BY <1>2, <1>3
    <3> QED
      BY <1>2, <1>3, <2>2, <2>4, <3>1 DEF Unlink
  <2>5. ASSUME NEW x \in Ctx, peer'[x] # NULL
        PROVE  poll'[cfd'[x]] = poll[cfd[x]]
    <3>1. cfd[x] \in Fd /\ cfd[x] # cfd[c]
      BY <1>2, <2>4, <2>5, LinkedRegistered
    <3> QED
      BY <1>1, <2>3, <3>1
  <2> QED
    BY <2>1, <2>4, <2>5 DEF PollInv, WaitsFor
<1>5. CASE \/ HandleNullPeer(e) \/ FlushBlocked(e) \/ FlushKilled(e) \/ ReadKilled(e)
           \/ NothingToDo(e) \/ RelayAll(e)
  <2>1. UNCHANGED <<peer, poll, wpartial, wlen>>
    BY <1>5 DEF HandleNullPeer, FlushBlocked, FlushKilled, ReadKilled, NothingToDo, RelayAll,
                Idle, Dies, ctxVars, kernelVars
  <2> QED
    BY <1>1, <2>1 DEF PollInv, WaitsFor
<1>6. CASE FlushSome(e)
  <2>1. /\ UNCHANGED <<peer, poll, wpartial>>
        /\ wlen' = [wlen EXCEPT ![c] = wlen[c] - Space(cfd[c])]
        /\ 0 < Space(cfd[c]) /\ Space(cfd[c]) < wlen[c]
    BY <1>6 DEF FlushSome
  <2>2. Space(cfd[c]) \in Int
    <3>1. sock[cfd[c]] \in Socket
      BY <1>2 DEF TypeInv, TypeOK, KernelTypeOK
    <3>2. sock[cfd[c]].used \in 0..SndCap
      BY <3>1, SocketFields
    <3> QED
      BY <3>2, KernelAssumption DEF Space
  <2>3. wlen'[c] > 0 /\ \A x \in Ctx \ {c} : wlen'[x] = wlen[x]
    BY <1>2, <1>3, <2>1, <2>2
  <2> QED
    BY <1>1, <2>1, <2>3 DEF PollInv, WaitsFor
<1>7. CASE FlushAll(e)
  <2>1. /\ p # NULL /\ wpartial[c] /\ peer' = peer
        /\ wlen' = [wlen EXCEPT ![c] = 0]
        /\ wpartial' = [wpartial EXCEPT ![c] = FALSE]
        /\ poll' = Resume(c, p)
    BY <1>7 DEF FlushAll, Flushing
  <2>2. /\ p \in Ctx /\ p # c /\ peer[p] = c /\ peer[p] # NULL
        /\ cfd[p] \in Fd /\ cfd[p] # cfd[c]
        /\ poll[cfd[c]].ptr # NULL /\ poll[cfd[p]].ptr # NULL
    BY <1>1, <1>2, <2>1, LinkedRegistered, KernelAssumption
  <2>3. ~wpartial[p]
    <3>1. wlen[c] > 0
      BY <1>2, <2>1 DEF PollInv
    <3>2. wlen[p] = 0
      BY <2>2, <3>1, OneQueue DEF StreamInv
    <3> QED
      BY <2>2, <3>2 DEF PollInv
  <2>4. /\ poll'[cfd[c]].ev = ReadEvents /\ poll'[cfd[p]].ev = ReadEvents
        /\ \A h \in Fd \ {cfd[c], cfd[p]} : poll'[h] = poll[h]
    BY <1>2, <2>1, <2>2, RearmBoth, EventSets DEF Resume
  <2>5. ~wpartial'[c] /\ ~wpartial'[p] /\ \A x \in Ctx \ {c} : wpartial'[x] = wpartial[x]
    BY <1>2, <1>3, <2>1, <2>2, <2>3
  <2>6. ASSUME NEW x \in Ctx, peer[x] # NULL
        PROVE  poll'[cfd[x]].ev = WaitsFor(x)' /\ (wpartial'[x] => wlen'[x] > 0)
    <3>1. CASE x = c \/ x = p
      BY <2>1, <2>2, <2>4, <2>5, <3>1 DEF WaitsFor
    <3>2. CASE x # c /\ x # p
      <4>1. /\ cfd[x] \in Fd \ {cfd[c], cfd[p]} /\ peer[x] \in Ctx /\ peer[x] # c
        BY <1>2, <2>1, <2>2, <2>6, <3>2, LinkedRegistered
      <4>2. /\ poll'[cfd[x]] = poll[cfd[x]] /\ wlen'[x] = wlen[x]
            /\ wpartial'[x] = wpartial[x] /\ wpartial'[peer[x]] = wpartial[peer[x]]
        BY <1>3, <2>1, <2>4, <2>5, <3>2, <4>1
      <4> QED
        BY <2>1, <2>6, <4>2 DEF PollInv, WaitsFor
    <3> QED
      BY <3>1, <3>2
  <2> QED
    BY <1>1, <2>1, <2>6 DEF PollInv
<1>8. CASE RelayQueue(e)
  <2>1. /\ p # NULL /\ ~wpartial[p] /\ peer' = peer
        /\ wpartial' = [wpartial EXCEPT ![p] = TRUE]
        /\ poll' = Pause(c, p)
        /\ sock[cfd[c]].rcv # <<>>
    BY <1>8 DEF RelayQueue, Reading, Linked, CanRead, RecvData
  <2>2. /\ p \in Ctx /\ p # c /\ peer[p] = c /\ peer[p] # NULL
        /\ cfd[p] \in Fd /\ cfd[p] # cfd[c]
        /\ poll[cfd[c]].ptr # NULL /\ poll[cfd[p]].ptr # NULL
    BY <1>1, <1>2, <2>1, LinkedRegistered, KernelAssumption
  <2>3. ~wpartial[c]
    <3>1. wlen[c] = 0
      BY <1>2, <2>1, OneQueue DEF StreamInv
    <3> QED
      BY <1>2, <2>1, <3>1 DEF PollInv
  <2>4. /\ poll'[cfd[c]].ev = PauseEvents /\ poll'[cfd[p]].ev = WriteEvents
        /\ \A h \in Fd \ {cfd[c], cfd[p]} : poll'[h] = poll[h]
    BY <1>2, <2>1, <2>2, RearmBoth, EventSets DEF Pause
  <2>5. ~wpartial'[c] /\ wpartial'[p] /\ \A x \in Ctx \ {p} : wpartial'[x] = wpartial[x]
    BY <1>2, <1>3, <2>1, <2>2, <2>3
  <2>6. wlen'[p] > 0 /\ \A x \in Ctx \ {p} : wlen'[x] = wlen[x]
    <3>1. PICK d \in Released(c), n \in Taken(cfd[p]) :
            n < Len(d) /\ wlen' = [wlen EXCEPT ![p] = Len(Leftover(d, n))]
      BY <1>8 DEF RelayQueue
    <3>2. d \in Seq(Byte) /\ Len(d) \in Nat
      BY <1>2, ReleasedType
    <3>3. n \in Nat
      <4>1. sock[cfd[p]] \in Socket
        BY <2>2 DEF TypeInv, TypeOK, KernelTypeOK
      <4>2. sock[cfd[p]].used \in 0..SndCap
        BY <4>1, SocketFields
      <4> QED
        BY <4>2, KernelAssumption DEF Taken, Space
    <3>4. Len(Leftover(d, n)) = Len(d) - n
      BY <3>1, <3>2, <3>3, SubSeqType DEF Leftover
    <3> QED
      BY <1>3, <2>2, <3>1, <3>2, <3>3, <3>4
  <2>7. ASSUME NEW x \in Ctx, peer[x] # NULL
        PROVE  poll'[cfd[x]].ev = WaitsFor(x)' /\ (wpartial'[x] => wlen'[x] > 0)
    <3>1. CASE x = c \/ x = p
      BY <2>1, <2>2, <2>4, <2>5, <2>6, <3>1 DEF WaitsFor
    <3>2. CASE x # c /\ x # p
      <4>1. /\ cfd[x] \in Fd \ {cfd[c], cfd[p]} /\ peer[x] \in Ctx /\ peer[x] # p
        BY <1>2, <2>1, <2>2, <2>7, <3>2, LinkedRegistered
      <4>2. /\ poll'[cfd[x]] = poll[cfd[x]] /\ wlen'[x] = wlen[x]
            /\ wpartial'[x] = wpartial[x] /\ wpartial'[peer[x]] = wpartial[peer[x]]
        BY <2>4, <2>5, <2>6, <3>2, <4>1
      <4> QED
        BY <2>1, <2>7, <4>2 DEF PollInv, WaitsFor
    <3> QED
      BY <3>1, <3>2
  <2> QED
    BY <1>1, <2>1, <2>7 DEF PollInv
<1> QED
  BY <1>4, <1>5, <1>6, <1>7, <1>8 DEF Handles, Flush, Read

LEMMA PollNext ==
  ASSUME NoStrayClose, OneWay, PollsReliably,
         Inv, FdInv, NoneForgotten, StreamInv, PollInv, [Next]_vars
  PROVE  PollInv'
<1> USE DEF Inv
<1>1. CASE \/ Epoll_wait \/ Epoll_fail \/ UNCHANGED vars
           \/ AcceptNoMemory \/ AcceptRefused \/ AcceptConnectFails \/ AcceptFails
           \/ Remote /\ UNCHANGED <<loopVars, ctxVars>>
  <2>1. UNCHANGED <<cfd, peer, poll, wpartial, wlen>>
    BY <1>1 DEF Epoll_wait, Epoll_fail, AcceptNoMemory, AcceptRefused, AcceptConnectFails,
                AcceptFails, Remote, Arrive, RemoteSend, RemoteRead, RemoteFin, RemoteReset,
                vars, ctxVars, queueVars, kernelVars
  <2> QED
    BY <2>1 DEF PollInv, WaitsFor
<1>2. CASE AcceptNoUpstream
  BY <1>2 DEF AcceptNoUpstream, LacksUpstream, NoStrayClose
<1>3. CASE AcceptConnected
  <2>1. PICK c \in Free, u \in Free, f \in Fd, g \in Fd,
             wc \in DirtyFlag, wu \in DirtyFlag, okC \in Registered, okU \in Registered :
          Connect(c, u, f, g, wc, wu, okC, okU)
    BY <1>3 DEF AcceptConnected
  <2>2. wlen' = wlen
    BY <1>3 DEF AcceptConnected
  <2> QED
    BY <2>1, <2>2, PollConnect
<1>4. CASE Handle
  <2>1. PICK e \in batch : Handles(e)
    BY <1>4 DEF Handle, Handles
  <2> QED
    BY <2>1, PollHandle
<1>5. CASE Sweep
  <2>1. PICK F : F = OwnedFds(Range(dead))
    OBVIOUS
  <2>2. Range(dead) \subseteq Ctx /\ peer' = peer
    BY <1>5 DEF LifetimeInv, DeadOK, TypeInv, TypeOK, Sweep
  <2>3. \A x \in Ctx \ Range(dead) : wpartial'[x] = wpartial[x] /\ wlen'[x] = wlen[x]
    BY <1>5 DEF Sweep, Freed
  <2>4. ASSUME NEW x \in Ctx, peer[x] # NULL
        PROVE  poll'[cfd'[x]].ev = WaitsFor(x)' /\ (wpartial'[x] => wlen'[x] > 0)
    <3>1. /\ x \in alloc \ Range(dead) /\ peer[x] \in Ctx \ Range(dead)
          /\ cfd[x] # NoFd
      BY <2>4, KernelAssumption DEF LifetimeInv, PeerOK, DeadOK, NoFd, TypeInv, TypeOK
    <3>2. poll'[cfd'[x]] = poll[cfd[x]]
      BY <1>5, <2>1, <3>1, SweepFacts
    <3> QED
      BY <2>2, <2>3, <2>4, <3>1, <3>2 DEF PollInv, WaitsFor
  <2> QED
    BY <2>2, <2>4 DEF PollInv
<1> QED
  BY <1>1, <1>2, <1>3, <1>4, <1>5 DEF Next, LoopStep, Accept

LEMMA PausedFromPoll ==
  ASSUME OneWay, Inv, FdInv, NoneForgotten, StreamInv, PollInv
  PROVE  PausedIffQueued
<1> SUFFICES ASSUME NEW c \in alloc, peer[c] # NULL
             PROVE  /\ wpartial[peer[c]] <=> poll[cfd[c]].ev = PauseEvents
                    /\ wpartial[peer[c]] <=> poll[cfd[peer[c]]].ev = WriteEvents
                    /\ wpartial[peer[c]] => wlen[peer[c]] > 0
  BY DEF PausedIffQueued
<1>1. /\ c \in Ctx /\ peer[c] \in Ctx /\ peer[peer[c]] = c /\ peer[peer[c]] # NULL
  <2>1. c \in Ctx
    BY DEF Inv, TypeInv, TypeOK
  <2> QED
    BY <2>1, LinkedRegistered, KernelAssumption
<1>2. /\ poll[cfd[c]].ev = WaitsFor(c) /\ (wpartial[c] => wlen[c] > 0)
      /\ poll[cfd[peer[c]]].ev = WaitsFor(peer[c]) /\ (wpartial[peer[c]] => wlen[peer[c]] > 0)
  BY <1>1 DEF PollInv
<1>3. ~(wpartial[c] /\ wpartial[peer[c]])
  BY <1>1, <1>2, OneQueue DEF Inv, StreamInv
<1>4. PauseEvents # WriteEvents /\ PauseEvents # ReadEvents /\ WriteEvents # ReadEvents
  BY DEF PauseEvents, WriteEvents, ReadEvents
<1> QED
  BY <1>1, <1>2, <1>3, <1>4 DEF WaitsFor

\* A context is paused exactly while its peer has bytes queued, and the peer is
\* then the one that waits for EPOLLOUT: no wake-up is lost, for any buffer and
\* send sizes, if one end sends and malloc's memory is zeroed.
THEOREM BackPressure ==
  ASSUME NoStrayClose, OneWay, PollsReliably
  PROVE  Spec => []PausedIffQueued
<1>1. Init => PollInv
  BY DEF Init, PollInv
<1>2. /\ Inv /\ FdInv /\ NoneForgotten /\ StreamInv /\ PollInv /\ [Next]_vars
      => PollInv'
  BY PollNext
<1>3. Inv /\ FdInv /\ NoneForgotten /\ StreamInv /\ PollInv => PausedIffQueued
  BY PausedFromPoll
<1>4. "append_poll" \notin Faults
  BY DEF PollsReliably
<1>5. Spec => []NoneForgotten
  BY <1>4, ContextsNeverForgotten
<1> QED
  BY <1>1, <1>2, <1>3, <1>5, StreamInvariance, PTL DEF Spec
-----------------------------------------------------------------------------
(* Where every send is whole, what was received is read before a close.    *)

\* No send is partial: a send buffer holds all that the other end ever sends, a
\* hook's answer is no longer than what it replaces, and send() is not
\* interrupted. Both ends may send.
WholeSends ==
  /\ MaxSend <= SndCap
  /\ \A d \in Rewrites : Len(d) = 1
  /\ "eintr" \notin Faults
  /\ DirtyFlag = {FALSE}

\* Nothing is ever queued, so that no context is paused and none waits for
\* EPOLLOUT; an event with EPOLLRDHUP then comes with EPOLLIN. What is in the
\* send buffer of a context and what its peer has yet to read came from the
\* peer's remote.
DrainInv ==
  /\ \A c \in Ctx : ~wpartial[c]
  /\ \A f \in Fd : poll[f].ptr # NULL => poll[f].ev = ReadEvents
  /\ \A e \in batch : "RDHUP" \in e.ev => "IN" \in e.ev
  /\ \A c \in Ctx : peer[c] # NULL =>
       sock[cfd[peer[c]]].used + Len(sock[cfd[c]].rcv) <= sock[cfd[c]].sent

\* What a hook releases fits the send buffer of the peer, and is no more than
\* what was read.
LEMMA ReleaseFits ==
  ASSUME WholeSends, Inv, DrainInv, NEW c \in Ctx, peer[c] # NULL, RecvData(cfd[c]),
         NEW d \in Released(c)
  PROVE  /\ Len(d) \in Nat /\ Len(d) <= Take(c)
         /\ Len(d) <= Space(cfd[peer[c]])
<1>1. /\ cfd[c] \in Fd /\ peer[c] \in Ctx /\ cfd[peer[c]] \in Fd
  BY KernelAssumption DEF Inv, LifetimeInv, PeerOK, TypeInv, TypeOK
<1>2. /\ Take(c) \in Nat /\ 0 < Take(c) /\ Take(c) <= Len(sock[cfd[c]].rcv)
      /\ Len(Received(c)) = Take(c)
  BY <1>1, RecvLengths DEF Inv
<1>3. Len(d) = Take(c) \/ Len(d) = 1
  BY <1>2 DEF Released, WholeSends
<1>4. Len(d) \in Nat /\ Len(d) <= Take(c)
  <2>1. PICK r, t : r = Len(d) /\ t = Take(c)
    OBVIOUS
  <2>2. t \in Nat /\ 0 < t /\ (r = t \/ r = 1)
    BY <1>2, <1>3, <2>1, Zenon
  <2>3. r \in Nat /\ r <= t
    BY <2>2
  <2> QED
    BY <2>1, <2>3, Zenon
<1>5. /\ sock[cfd[peer[c]]].used \in 0..SndCap /\ sock[cfd[c]].sent \in 0..MaxSend
      /\ sock[cfd[c]].rcv \in Seq(Byte)
  BY <1>1, SocketFields DEF Inv, TypeInv, TypeOK, KernelTypeOK
<1>6. sock[cfd[peer[c]]].used + Len(sock[cfd[c]].rcv) <= sock[cfd[c]].sent
  BY DEF DrainInv
<1>7. PICK u, n, l, r, t : /\ u = sock[cfd[peer[c]]].used /\ n = sock[cfd[c]].sent
                           /\ l = Len(sock[cfd[c]].rcv) /\ r = Len(d) /\ t = Take(c)
  OBVIOUS
<1>8. l \in Nat
  BY <1>5, <1>7, LenProperties
<1>9. r <= SndCap - u
  <2>1. /\ u \in 0..SndCap /\ n \in 0..MaxSend /\ u + l <= n /\ t \in Nat /\ t <= l
        /\ r \in Nat /\ r <= t
    BY <1>2, <1>4, <1>5, <1>6, <1>7
  <2> QED
    BY <1>8, <2>1, KernelAssumption DEF WholeSends
<1> QED
  BY <1>4, <1>7, <1>9 DEF Space

\* So nothing is flushed or queued, and a hang-up is never seen before the data
\* in front of it.
LEMMA NothingQueued ==
  ASSUME WholeSends, Inv, DrainInv, NEW e \in batch, Handles(e)
  PROVE  \/ HandleOrphan(e) \/ ReadKilled(e) \/ NothingToDo(e) \/ RelayAll(e)
         \/ ReadFails(e) \/ ReadEof(e) \/ ReadDropped(e) \/ ReadSentZero(e)
<1> DEFINE c == e.ptr
<1>1. Handling(e) /\ c # NULL
  BY HandleLinks DEF Handling, Inv
<1>2. c \in Ctx /\ cfd[c] \in Fd /\ (peer[c] # NULL => peer[c] \in Ctx)
  BY <1>1, HandledContext DEF Inv
<1>3. ~wpartial[c] /\ (peer[c] # NULL => ~wpartial[peer[c]])
  BY <1>2 DEF DrainInv
<1>4. ~HandleNullPeer(e) /\ ~Flush(e)
  BY <1>3 DEF HandleNullPeer, Flush, FlushBlocked, FlushFails, FlushKilled, FlushSome,
              FlushAll, Flushing
<1>5. ~HangUp(e)
  <2> SUFFICES ASSUME HangUp(e) PROVE FALSE
    OBVIOUS
  <2>1. peer[c] # NULL /\ "RDHUP" \in e.ev /\ ~("IN" \in e.ev /\ CanRead(c))
    BY DEF HangUp, NotRead, Linked, WholeSends
  <2>2. "IN" \in e.ev
    BY <2>1 DEF DrainInv
  <2> QED
    BY <1>3, <2>1, <2>2 DEF CanRead
<1>6. ~RelayQueue(e)
  <2> SUFFICES ASSUME RelayQueue(e) PROVE FALSE
    OBVIOUS
  <2>1. peer[c] # NULL /\ RecvData(cfd[c])
    BY DEF RelayQueue, Reading, Linked
  <2>2. PICK d \in Released(c), n \in Taken(cfd[peer[c]]) : n < Len(d)
    BY DEF RelayQueue
  <2>3. n = Space(cfd[peer[c]])
    BY <2>2 DEF Taken, WholeSends
  <2>4. Len(d) \in Nat /\ Len(d) <= Space(cfd[peer[c]])
    BY <1>2, <2>1, <2>2, ReleaseFits
  <2>5. Space(cfd[peer[c]]) \in Int
    <3>1. cfd[peer[c]] \in Fd
      BY <1>2, <2>1, KernelAssumption DEF Inv, LifetimeInv, PeerOK, TypeInv, TypeOK
    <3>2. sock[cfd[peer[c]]].used \in 0..SndCap
      BY <3>1, SocketFields DEF Inv, TypeInv, TypeOK, KernelTypeOK
    <3> QED
      BY <3>2, KernelAssumption DEF Space
  <2> QED
    BY <2>2, <2>3, <2>4, <2>5
<1> QED
  BY <1>4, <1>5, <1>6 DEF Handles, Read

\* A whole relay moves bytes from one receive queue to one send buffer.
Moves(S, T, f, g, r, n) == T = [S EXCEPT ![f].rcv = r, ![g].used = @ + n]

\* It changes no other count and no other socket.
LEMMA RelayCounts ==
  ASSUME NEW S \in [Fd -> Socket], NEW f \in Fd, NEW g \in Fd, f # g,
         NEW r \in Seq(Byte), NEW n, NEW T, Moves(S, T, f, g, r, n)
  PROVE  /\ T[f].rcv = r /\ T[f].used = S[f].used /\ T[f].sent = S[f].sent
         /\ T[g].rcv = S[g].rcv /\ T[g].used = S[g].used + n /\ T[g].sent = S[g].sent
         /\ \A h \in Fd \ {f, g} : T[h] = S[h]
<1>1. S[f] \in Socket /\ S[g] \in Socket
  OBVIOUS
<1>2. T[f] = [S[f] EXCEPT !.rcv = r] /\ T[g] = [S[g] EXCEPT !.used = @ + n]
  BY Zenon DEF Moves
<1>3. T[f].rcv = r /\ T[f].used = S[f].used /\ T[f].sent = S[f].sent
  BY <1>1, <1>2, Zenon DEF Socket
<1>4. T[g].rcv = S[g].rcv /\ T[g].used = S[g].used + n /\ T[g].sent = S[g].sent
  BY <1>1, <1>2, Zenon DEF Socket
<1>5. \A h \in Fd \ {f, g} : T[h] = S[h]
  BY Zenon DEF Moves
<1> QED
  BY <1>3, <1>4, <1>5

\* A remote program sends what it counts, and reads from the send buffer.
LEMMA RemoteCounts ==
  ASSUME TypeInv, Remote, NEW h \in Fd
  PROVE  \E m, k \in Nat :
           /\ sock'[h].used = sock[h].used - m
           /\ sock'[h].sent = sock[h].sent + k
           /\ Len(sock'[h].rcv) = Len(sock[h].rcv) + k
<1>1. sock \in [Fd -> Socket] /\ sock[h] \in Socket
  BY DEF TypeInv, TypeOK, KernelTypeOK
<1>2. PICK u, n, r : u = sock[h].used /\ n = sock[h].sent /\ r = sock[h].rcv
  OBVIOUS
<1>3. u \in Int /\ n \in Nat /\ r \in Seq(Byte) /\ Len(r) \in Nat
  BY <1>1, <1>2, SocketFields, LenProperties, KernelAssumption
<1>4. u = u - 0 /\ n = n + 0 /\ Len(r) = Len(r) + 0 /\ 0 \in Nat /\ 1 \in Nat
  BY <1>3
<1>5. ASSUME sock'[h].used = u, sock'[h].sent = n, sock'[h].rcv = r
      PROVE  \E m, k \in Nat : /\ sock'[h].used = sock[h].used - m
                               /\ sock'[h].sent = sock[h].sent + k
                               /\ Len(sock'[h].rcv) = Len(sock[h].rcv) + k
  BY <1>2, <1>4, <1>5, Zenon
<1>6. CASE Arrive
  BY <1>2, <1>5, <1>6 DEF Arrive
<1>7. ASSUME NEW f \in Fd, RemoteSend(f) \/ RemoteRead(f) \/ RemoteFin(f) \/ RemoteReset(f)
      PROVE  \E m, k \in Nat : /\ sock'[h].used = sock[h].used - m
                               /\ sock'[h].sent = sock[h].sent + k
                               /\ Len(sock'[h].rcv) = Len(sock[h].rcv) + k
  <2>1. CASE h # f
    <3>1. sock'[h] = sock[h]
      BY <1>1, <1>7, <2>1, Zenon DEF RemoteSend, RemoteRead, RemoteFin, RemoteReset
    <3> QED
      BY <1>2, <1>5, <3>1
  <2>2. CASE h = f /\ (RemoteFin(f) \/ RemoteReset(f))
    <3>1. sock'[h].used = u /\ sock'[h].sent = n /\ sock'[h].rcv = r
      <4>1. CASE RemoteFin(f)
        BY <1>1, <1>2, <2>2, <4>1, Zenon DEF RemoteFin, Socket
      <4>2. CASE RemoteReset(f)
        <5>1. PICK k : sock' = [sock EXCEPT ![f].err = k]
          BY <4>2 DEF RemoteReset
        <5> QED
          BY <1>1, <1>2, <2>2, <5>1, Zenon DEF Socket
      <4> QED
        BY <2>2, <4>1, <4>2
    <3> QED
      BY <1>5, <3>1
  <2>3. CASE h = f /\ RemoteRead(f)
    <3>1. sock'[h].used = u - 1 /\ sock'[h].sent = n /\ sock'[h].rcv = r
      BY <1>1, <1>2, <2>3, Zenon DEF RemoteRead, Socket
    <3> QED
      BY <1>2, <1>4, <3>1, Zenon
  <2>4. CASE h = f /\ RemoteSend(f)
    <3>1. sock'[h].used = u /\ sock'[h].sent = n + 1 /\ sock'[h].rcv = Append(r, <<f, n + 1>>)
      BY <1>1, <1>2, <2>4, Zenon DEF RemoteSend, Socket
    <3>2. Len(Append(r, <<f, n + 1>>)) = Len(r) + 1
      BY <1>3, KernelAssumption DEF Byte
    <3> QED
      BY <1>2, <1>4, <3>1, <3>2, Zenon
  <2> QED
    BY <1>7, <2>1, <2>2, <2>3, <2>4
<1> QED
  BY <1>6, <1>7 DEF Remote

\* A step of the handler: a context that is given up is unlinked, and a relay
\* moves no more into the peer's send buffer than it took.
LEMMA DrainHandle ==
  ASSUME WholeSends, Inv, FdInv, DrainInv, NEW e \in batch, Handles(e)
  PROVE  DrainInv'
<1> USE DEF Inv
<1> DEFINE c == e.ptr
           p == peer[c]
           f == cfd[c]
           g == cfd[p]
<1>1. Handling(e) /\ c # NULL
  BY HandleLinks DEF Handling
<1>2. /\ c \in Ctx /\ f \in Fd /\ c \in alloc
      /\ p # NULL => p \in Ctx /\ p \in alloc /\ g \in Fd /\ p # c /\ peer[p] = c
  BY <1>1, HandledContext DEF LifetimeInv, PeerOK, BatchOK
<1>3. sock \in [Fd -> Socket]
  BY DEF TypeInv, TypeOK, KernelTypeOK
<1>4. \A x \in Ctx : peer[x] # NULL =>
        x \in alloc /\ peer[x] \in alloc /\ cfd[x] \in Fd /\ cfd[peer[x]] \in Fd
  BY KernelAssumption DEF LifetimeInv, PeerOK, TypeInv, TypeOK
<1>5. batch' \subseteq batch /\ cfd' = cfd
  BY <1>1, HandleLinks DEF Handling
<1>6. CASE HandleOrphan(e) \/ ReadKilled(e) \/ NothingToDo(e)
  <2>1. UNCHANGED <<peer, sock, wpartial>> /\ (poll' = poll \/ poll' = Remove_poll(poll, f))
    BY <1>6 DEF HandleOrphan, ReadKilled, NothingToDo, ReturnFalse, Dies, Idle, ctxVars, kernelVars
  <2>2. \A h \in Fd : poll'[h] = poll[h] \/ poll'[h].ptr = NULL
    <3>1. CASE poll' = poll
      BY <3>1
    <3>2. CASE poll' = Remove_poll(poll, f)
      BY <1>2, <3>2 DEF Remove_poll, NotPolled, TypeInv, TypeOK, KernelTypeOK
    <3> QED
      BY <2>1, <3>1, <3>2
  <2> QED
    BY <1>5, <2>1, <2>2 DEF DrainInv
<1>7. CASE ReadFails(e) \/ ReadEof(e) \/ ReadDropped(e) \/ ReadSentZero(e)
  <2>1. /\ p # NULL /\ peer' = Unlink(c) /\ wpartial' = wpartial
        /\ poll' = Remove_poll(poll, f)
    BY <1>7 DEF ReadFails, ReadEof, ReadDropped, ReadSentZero, Reading, Linked, Drop,
                ReturnFalse, queueVars
  <2>2. \A h \in Fd : poll'[h].ptr # NULL => poll'[h].ev = ReadEvents
    BY <1>2, <2>1 DEF DrainInv, Remove_poll, NotPolled, TypeInv, TypeOK, KernelTypeOK
  <2>3. \A h \in Fd \ {f, g} : sock'[h] = sock[h]
    <3>1. CASE ReadFails(e)
      BY <3>1 DEF ReadFails
    <3>2. CASE ReadEof(e)
      BY <1>3, <3>2, Zenon DEF ReadEof, ShutPeer, Shutdown
    <3>3. CASE ReadDropped(e)
      BY <1>3, <3>3, Zenon DEF ReadDropped
    <3>4. CASE ReadSentZero(e)
      BY <1>3, <3>4, Zenon DEF ReadSentZero
    <3> QED
      BY <1>7, <3>1, <3>2, <3>3, <3>4
  <2>4. ASSUME NEW x \in Ctx, peer'[x] # NULL
        PROVE  (sock[cfd[peer[x]]].used + Len(sock[cfd[x]].rcv) <= sock[cfd[x]].sent)'
    <3>1. x \notin {c, p} /\ peer'[x] = peer[x] /\ peer[x] # NULL
      BY <1>2, <2>1, <2>4 DEF Unlink, TypeInv, TypeOK
    <3>2. peer[x] \notin {c, p}
      BY <1>2, <2>1, <3>1 DEF LifetimeInv, PeerOK
    <3>3. cfd[x] \in Fd \ {f, g} /\ cfd[peer[x]] \in Fd \ {f, g}
      BY <1>2, <1>4, <2>1, <3>1, <3>2, KernelAssumption DEF FdInv, FdOwnership, NoFd
    <3> QED
      BY <1>5, <2>3, <3>1, <3>3 DEF DrainInv
  <2> QED
    BY <1>5, <2>1, <2>2, <2>4 DEF DrainInv
<1>8. CASE RelayAll(e)
  <2>1. p # NULL /\ RecvData(f) /\ UNCHANGED <<peer, wpartial, poll>>
    BY <1>8 DEF RelayAll, Reading, Linked
  <2>2. PICK d \in Released(c) :
          sock' = [sock EXCEPT ![f].rcv = Unread(c), ![g].used = @ + Len(d)]
    BY <1>8 DEF RelayAll
  <2>3. f # g
    BY <1>2, <2>1, KernelAssumption DEF FdInv, FdOwnership, NoFd
  <2>4. Unread(c) \in Seq(Byte) /\ g \in Fd
    BY <1>2, <2>1, RecvType
  <2>5. /\ sock'[f].rcv = Unread(c) /\ sock'[f].used = sock[f].used /\ sock'[f].sent = sock[f].sent
        /\ sock'[g].rcv = sock[g].rcv /\ sock'[g].used = sock[g].used + Len(d)
        /\ sock'[g].sent = sock[g].sent
        /\ \A h \in Fd \ {f, g} : sock'[h] = sock[h]
    <3>1. PICK S, T, r, n, a, b : /\ S = sock /\ T = sock' /\ r = Unread(c) /\ n = Len(d)
                                  /\ a = f /\ b = g
      OBVIOUS
    <3>2. /\ Moves(S, T, a, b, r, n)
          /\ S \in [Fd -> Socket] /\ a \in Fd /\ b \in Fd /\ a # b /\ r \in Seq(Byte)
      BY <1>2, <1>3, <2>2, <2>3, <2>4, <3>1, Zenon DEF Moves
    <3>3. /\ T[a].rcv = r /\ T[a].used = S[a].used /\ T[a].sent = S[a].sent
          /\ T[b].rcv = S[b].rcv /\ T[b].used = S[b].used + n /\ T[b].sent = S[b].sent
          /\ \A h \in Fd \ {a, b} : T[h] = S[h]
      BY <3>2, RelayCounts
    <3> QED
      BY <3>1, <3>3, Zenon
  <2>6. sock'[g].used + Len(sock'[f].rcv) <= sock'[f].sent
    <3>1. PICK u, n, l, r, t : /\ u = sock[g].used /\ n = sock[f].sent
                               /\ l = Len(sock[f].rcv) /\ r = Len(d) /\ t = Take(c)
      OBVIOUS
    <3>2. t \in Nat /\ t <= l /\ Len(Unread(c)) = l - t
      BY <1>2, <2>1, <3>1, RecvLengths
    <3>3. r \in Nat /\ r <= t
      BY <1>2, <2>1, <2>2, <3>1, ReleaseFits
    <3>4. u + l <= n
      BY <1>2, <2>1, <3>1 DEF DrainInv
    <3>5. u \in Int /\ n \in Int /\ l \in Nat
      <4>1. sock[g] \in Socket /\ sock[f] \in Socket
        BY <1>2, <1>3, <2>4
      <4>2. sock[g].used \in 0..SndCap /\ sock[f].sent \in 0..MaxSend /\ sock[f].rcv \in Seq(Byte)
        BY <4>1, SocketFields
      <4> QED
        BY <3>1, <4>2, LenProperties, KernelAssumption
    <3>6. (u + r) + (l - t) <= n
      BY <3>2, <3>3, <3>4, <3>5
    <3> QED
      BY <2>5, <3>1, <3>2, <3>6, Zenon
  <2>7. sock'[f].used + Len(sock'[g].rcv) <= sock'[g].sent
    BY <1>2, <1>1, <2>1, <2>5 DEF DrainInv
  <2>8. ASSUME NEW x \in Ctx, peer[x] # NULL, x \notin {c, p}
        PROVE  sock'[cfd[peer[x]]].used + Len(sock'[cfd[x]].rcv) <= sock'[cfd[x]].sent
    <3>1. peer[x] \notin {c, p}
      BY <1>2, <2>1, <2>8 DEF LifetimeInv, PeerOK
    <3>2. cfd[x] \in Fd \ {f, g} /\ cfd[peer[x]] \in Fd \ {f, g}
      BY <1>2, <1>4, <2>1, <2>8, <3>1, KernelAssumption DEF FdInv, FdOwnership, NoFd
    <3> QED
      BY <2>5, <2>8, <3>2 DEF DrainInv
  <2>9. \A x \in Ctx : peer[x] # NULL =>
          sock'[cfd[peer[x]]].used + Len(sock'[cfd[x]].rcv) <= sock'[cfd[x]].sent
    <3> SUFFICES ASSUME NEW x \in Ctx, peer[x] # NULL
                 PROVE  sock'[cfd[peer[x]]].used + Len(sock'[cfd[x]].rcv) <= sock'[cfd[x]].sent
      OBVIOUS
    <3>1. CASE x = c
      BY <2>6, <3>1
    <3>2. CASE x = p
      BY <1>2, <2>1, <2>7, <3>2
    <3> QED
      BY <2>8, <3>1, <3>2
  <2> QED
    BY <1>5, <2>1, <2>9 DEF DrainInv
<1> QED
  BY <1>6, <1>7, <1>8, NothingQueued

\* A new connection has received and been sent nothing.
LEMMA DrainConnect ==
  ASSUME WholeSends, Inv, FdInv, DrainInv,
         NEW c \in Free, NEW u \in Free, NEW f \in Fd, NEW g \in Fd,
         NEW wc \in DirtyFlag, NEW wu \in DirtyFlag, NEW okC, NEW okU,
         Connect(c, u, f, g, wc, wu, okC, okU), batch' \subseteq batch
  PROVE  DrainInv'
<1> USE DEF Inv
<1>1. /\ c \in Ctx \ alloc /\ u \in Ctx \ alloc /\ c # u /\ f # g
      /\ cfd'[c] = f /\ cfd'[u] = g
      /\ peer'[c] = u /\ peer'[u] = c
      /\ \A x \in Ctx \ {c, u} : cfd'[x] = cfd[x] /\ peer'[x] = peer[x]
      /\ sock'[f] = NewSocket("client") /\ sock'[g] = NewSocket("upstream")
      /\ \A h \in Fd \ {f, g} : sock'[h] = sock[h]
      /\ \A x \in alloc : x \in Ctx \ {c, u} /\ (cfd[x] # NoFd => cfd[x] \in Fd \ {f, g})
  BY ConnectFacts
<1>2. ~wc /\ ~wu
  BY Zenon DEF WholeSends
<1>3. \A x \in Ctx : ~wpartial'[x]
  <2>1. wpartial' = [wpartial EXCEPT ![c] = wc, ![u] = wu] /\ wpartial \in [Ctx -> BOOLEAN]
    BY DEF Connect, TypeInv, TypeOK
  <2> QED
    BY <1>1, <1>2, <2>1, Zenon DEF DrainInv
<1>4. \A h \in Fd : poll'[h] = poll[h] \/ poll'[h].ev = ReadEvents
  <2>1. poll \in [Fd -> [ev : SUBSET Event, ptr : Ctx \cup {NULL}]]
    BY DEF TypeInv, TypeOK, KernelTypeOK
  <2>2. PICK pu : /\ pu = Append_poll(poll, g, ReadEvents, u) \/ pu = poll
                  /\ poll' = Append_poll(pu, f, ReadEvents, c) \/ poll' = pu
    BY DEF Connect
  <2>3. /\ DOMAIN pu = Fd /\ \A h \in Fd : pu[h] = poll[h] \/ pu[h].ev = ReadEvents
    BY <2>1, <2>2 DEF Append_poll
  <2>4. \A h \in Fd : poll'[h] = pu[h] \/ poll'[h].ev = ReadEvents
    BY <2>2, <2>3 DEF Append_poll
  <2> QED
    BY <2>3, <2>4
<1>5. ASSUME NEW x \in Ctx, peer'[x] # NULL
      PROVE  (sock[cfd[peer[x]]].used + Len(sock[cfd[x]].rcv) <= sock[cfd[x]].sent)'
  <2>1. CASE x \in {c, u}
    <3>1. /\ NewSocket("client").used = 0 /\ NewSocket("client").rcv = <<>>
          /\ NewSocket("client").sent = 0
          /\ NewSocket("upstream").used = 0 /\ NewSocket("upstream").rcv = <<>>
          /\ NewSocket("upstream").sent = 0
      BY DEF NewSocket
    <3>2. /\ sock'[cfd'[peer'[x]]].used = 0 /\ sock'[cfd'[x]].rcv = <<>>
          /\ sock'[cfd'[x]].sent = 0
      BY <1>1, <2>1, <3>1
    <3> QED
      BY <3>2
  <2>2. CASE x \notin {c, u}
    <3>1. peer'[x] = peer[x] /\ peer[x] # NULL
      BY <1>1, <1>5, <2>2
    <3>2. /\ x \in alloc /\ cfd[x] \in Fd /\ cfd[x] # NoFd
          /\ peer[x] \in alloc /\ cfd[peer[x]] \in Fd /\ cfd[peer[x]] # NoFd
      BY <3>1, KernelAssumption DEF LifetimeInv, PeerOK, NoFd, TypeInv, TypeOK
    <3>3. /\ cfd'[x] = cfd[x] /\ sock'[cfd[x]] = sock[cfd[x]]
          /\ cfd'[peer[x]] = cfd[peer[x]] /\ sock'[cfd[peer[x]]] = sock[cfd[peer[x]]]
      BY <1>1, <3>2
    <3> QED
      BY <3>1, <3>3 DEF DrainInv
  <2> QED
    BY <2>1, <2>2
<1> QED
  BY <1>3, <1>4, <1>5 DEF DrainInv

\* epoll_wait reports EPOLLIN with every EPOLLRDHUP, for a FIN and for a RST.
LEMMA DrainEpoll_wait ==
  ASSUME Inv, DrainInv, Epoll_wait
  PROVE  DrainInv'
<1>1. UNCHANGED <<cfd, peer, wpartial, sock, poll>> /\ batch' \subseteq ReadyEvs
  BY DEF Epoll_wait, ctxVars, kernelVars
<1>2. ASSUME NEW e \in ReadyEvs, "RDHUP" \in e.ev
      PROVE  "IN" \in e.ev
  <2>1. CASE e = ListenEv
    BY <1>2, <2>1 DEF ListenEv, Ev
  <2>2. ASSUME NEW f \in ReadyFds, e = Ev(poll[f].ptr, Ready(f))
        PROVE  "IN" \in e.ev
    <3>1. e.ev = Ready(f) /\ f \in Fd /\ poll[f].ptr # NULL
      BY <2>2 DEF Ev, ReadyFds
    <3>2. poll[f].ev = ReadEvents
      BY <3>1 DEF DrainInv
    <3>3. sock[f].fin \/ sock[f].err # "none"
      BY <1>2, <3>1 DEF Ready
    <3> QED
      BY <3>1, <3>2, <3>3 DEF Ready, ReadEvents
  <2> QED
    BY <2>1, <2>2 DEF ReadyEvs
<1> QED
  BY <1>1, <1>2 DEF DrainInv

\* Every step keeps the invariant.
LEMMA DrainNext ==
  ASSUME NoStrayClose, WholeSends, Inv, FdInv, DrainInv, [Next]_vars
  PROVE  DrainInv'
<1> USE DEF Inv
<1>1. CASE \/ Epoll_fail \/ UNCHANGED vars
           \/ AcceptNoMemory \/ AcceptRefused \/ AcceptConnectFails \/ AcceptFails
  <2>1. UNCHANGED <<cfd, peer, wpartial, sock, poll>> /\ batch' \subseteq batch
    BY <1>1 DEF Epoll_fail, AcceptNoMemory, AcceptRefused, AcceptConnectFails, AcceptFails,
                Connectable, Accepting, vars, loopVars, ctxVars, queueVars, kernelVars
  <2> QED
    BY <2>1 DEF DrainInv
<1>2. CASE Epoll_wait
  BY <1>2, DrainEpoll_wait
<1>3. CASE AcceptNoUpstream
  BY <1>3 DEF AcceptNoUpstream, LacksUpstream, NoStrayClose
<1>4. CASE AcceptConnected
  <2>1. PICK c \in Free, u \in Free, f \in Fd, g \in Fd,
             wc \in DirtyFlag, wu \in DirtyFlag, okC \in Registered, okU \in Registered :
          Connect(c, u, f, g, wc, wu, okC, okU)
    BY <1>4 DEF AcceptConnected
  <2>2. batch' \subseteq batch
    BY <1>4 DEF AcceptConnected, Connectable, Accepting
  <2> QED
    BY <2>1, <2>2, DrainConnect
<1>5. CASE Handle
  <2>1. PICK e \in batch : Handles(e)
    BY <1>5 DEF Handle, Handles
  <2> QED
    BY <2>1, DrainHandle
<1>6. CASE Sweep
  <2>1. PICK F : F = OwnedFds(Range(dead))
    OBVIOUS
  <2>2. peer' = peer /\ batch' = batch
    BY <1>6 DEF Sweep
  <2>3. \A x \in Ctx : ~wpartial'[x]
    BY <1>6 DEF Sweep, Freed, DrainInv
  <2>4. \A h \in Fd : poll'[h] = poll[h] \/ poll'[h].ptr = NULL
    BY <1>6 DEF Sweep, ClosePolls, NotPolled
  <2>5. ASSUME NEW x \in Ctx, peer[x] # NULL
        PROVE  /\ cfd'[x] = cfd[x] /\ cfd'[peer[x]] = cfd[peer[x]]
               /\ sock'[cfd[x]] = sock[cfd[x]] /\ sock'[cfd[peer[x]]] = sock[cfd[peer[x]]]
    <3>1. /\ x \in alloc /\ peer[x] \in alloc /\ peer[x] \in Ctx
          /\ x \notin Range(dead) /\ peer[x] \notin Range(dead)
          /\ cfd[x] # NoFd /\ cfd[peer[x]] # NoFd
      BY <2>5, KernelAssumption DEF LifetimeInv, PeerOK, DeadOK, NoFd, TypeInv, TypeOK
    <3> QED
      BY <1>6, <2>1, <3>1, SweepFacts
  <2> QED
    BY <2>2, <2>3, <2>4, <2>5 DEF DrainInv
<1>7. CASE Remote /\ UNCHANGED <<loopVars, ctxVars>>
  <2>1. UNCHANGED <<cfd, peer, wpartial, batch, poll>>
    BY <1>7 DEF loopVars, ctxVars, Remote, Arrive, RemoteSend, RemoteRead, RemoteFin, RemoteReset
  <2>2. ASSUME NEW x \in Ctx, peer[x] # NULL
        PROVE  sock'[cfd[peer[x]]].used + Len(sock'[cfd[x]].rcv) <= sock'[cfd[x]].sent
    <3>1. PICK f, g \in Fd : f = cfd[x] /\ g = cfd[peer[x]]
      BY <2>2, KernelAssumption DEF LifetimeInv, PeerOK, TypeInv, TypeOK
    <3>2. PICK m, k \in Nat : /\ sock'[f].used = sock[f].used - m
                              /\ sock'[f].sent = sock[f].sent + k
                              /\ Len(sock'[f].rcv) = Len(sock[f].rcv) + k
      BY <1>7, RemoteCounts
    <3>3. PICK i, j \in Nat : /\ sock'[g].used = sock[g].used - i
                              /\ sock'[g].sent = sock[g].sent + j
                              /\ Len(sock'[g].rcv) = Len(sock[g].rcv) + j
      BY <1>7, RemoteCounts
    <3>4. PICK u, n, l : u = sock[g].used /\ n = sock[f].sent /\ l = Len(sock[f].rcv)
      OBVIOUS
    <3>5. u \in Int /\ n \in Int /\ l \in Nat
      <4>1. sock[g] \in Socket /\ sock[f] \in Socket
        BY <3>1 DEF TypeInv, TypeOK, KernelTypeOK
      <4>2. sock[g].used \in 0..SndCap /\ sock[f].sent \in 0..MaxSend /\ sock[f].rcv \in Seq(Byte)
        BY <4>1, SocketFields
      <4> QED
        BY <3>4, <4>2, LenProperties, KernelAssumption
    <3>6. u + l <= n
      BY <2>2, <3>1, <3>4 DEF DrainInv
    <3>7. (u - i) + (l + k) <= n + k
      BY <3>5, <3>6
    <3> QED
      BY <3>1, <3>2, <3>3, <3>4, <3>7, Zenon
  <2> QED
    BY <2>1, <2>2 DEF DrainInv
<1> QED
  BY <1>1, <1>2, <1>3, <1>4, <1>5, <1>6, <1>7 DEF Next, LoopStep, Accept

\* The action that DrainedBeforeClose is about.
Drains ==
  \A c \in Ctx :
    /\ peer[c] # NULL
    /\ c \notin Range(dead) /\ c \in Range(dead')
    /\ sock[cfd[c]].err = "none" /\ sock[cfd[peer[c]]].err = "none"
    /\ sock'[cfd[c]].rcv = sock[cfd[c]].rcv
    => sock[cfd[c]].rcv = <<>>

\* The handler gives up a context whose recv() took data, failed or met the FIN.
LEMMA HandleDrains ==
  ASSUME WholeSends, Inv, FdInv, DrainInv, NEW e \in batch, Handles(e)
  PROVE  Drains
<1> USE DEF Inv
<1> SUFFICES ASSUME NEW c \in Ctx, peer[c] # NULL, c \notin Range(dead), c \in Range(dead'),
                    sock'[cfd[c]].rcv = sock[cfd[c]].rcv
             PROVE  sock[cfd[c]].rcv = <<>>
  BY DEF Drains
<1>1. dead \in Seq(Ctx) /\ e.ptr \in Ctx /\ cfd[e.ptr] \in Fd
  BY HandleLinks, HandledContext DEF Handling, TypeInv, TypeOK
<1>2. c = e.ptr
  <2>1. dead' = dead \/ dead' = Append(dead, e.ptr)
    BY HandleLinks DEF ReturnFalse
  <2> QED
    BY <1>1, <2>1, DeadAppend
<1>3. sock \in [Fd -> Socket] /\ sock[cfd[c]].open
  BY <1>1, <1>2, KernelAssumption DEF TypeInv, TypeOK, KernelTypeOK, FdInv, FdOwnership,
                                      LifetimeInv, PeerOK, NoFd
<1>4. CASE HandleOrphan(e) \/ ReadKilled(e) \/ NothingToDo(e) \/ RelayAll(e)
  BY <1>2, <1>4 DEF HandleOrphan, ReadKilled, NothingToDo, RelayAll, Dies, Idle
<1>5. CASE ReadFails(e) \/ ReadEof(e)
  BY <1>2, <1>3, <1>5 DEF ReadFails, ReadEof, RecvFails, RecvEof
<1>6. CASE ReadDropped(e) \/ ReadSentZero(e)
  <2>1. RecvData(cfd[c])
    BY <1>2, <1>6 DEF ReadDropped, ReadSentZero
  <2>2. sock'[cfd[c]].rcv = Unread(c)
    <3>1. CASE ReadDropped(e)
      BY <1>1, <1>2, <1>3, <3>1, Zenon DEF ReadDropped, Socket
    <3>2. CASE ReadSentZero(e)
      <4>1. PICK T : T = [sock EXCEPT ![cfd[c]].rcv = Unread(c)]
        OBVIOUS
      <4>2. sock' = [T EXCEPT ![cfd[peer[c]]].shut = TRUE]
        BY <1>2, <3>2, <4>1, Zenon DEF ReadSentZero
      <4>3. Unread(c) \in Seq(Byte) /\ cfd[c] \in Fd /\ cfd[peer[c]] \in Fd
        BY <1>1, <1>2, RecvType, KernelAssumption DEF LifetimeInv, PeerOK, TypeInv, TypeOK
      <4>4. T \in [Fd -> Socket] /\ T[cfd[c]].rcv = Unread(c)
        <5>1. T \in [Fd -> Socket]
          BY <1>3, <4>1, <4>3, SockStep
        <5>2. T[cfd[c]].rcv = Unread(c)
          BY <1>3, <4>1, <4>3, Zenon DEF Socket
        <5> QED
          BY <5>1, <5>2
      <4>5. sock'[cfd[c]].rcv = T[cfd[c]].rcv
        BY <4>2, <4>3, <4>4, SockRcv, Zenon
      <4> QED
        BY <4>4, <4>5
    <3> QED
      BY <1>6, <3>1, <3>2
  <2>3. /\ Take(c) \in Nat /\ 0 < Take(c)
        /\ Len(Unread(c)) = Len(sock[cfd[c]].rcv) - Take(c)
    BY <1>1, <1>2, <2>1, RecvLengths
  <2>4. Len(sock[cfd[c]].rcv) \in Nat
    BY <1>1, <1>2, <1>3, SocketFields, LenProperties
  <2>5. FALSE
    BY <2>2, <2>3, <2>4
  <2> QED
    BY <2>5
<1> QED
  BY <1>4, <1>5, <1>6, NothingQueued

\* Only the handler gives up a context.
LEMMA NextDrains ==
  ASSUME WholeSends, Inv, FdInv, DrainInv, [Next]_vars
  PROVE  Drains
<1>1. CASE Handle
  <2>1. PICK e \in batch : Handles(e)
    BY <1>1 DEF Handle, Handles
  <2> QED
    BY <2>1, HandleDrains
<1>2. CASE Sweep
  <2>1. Range(dead') = {}
    BY <1>2, DeadEmpty DEF Sweep, ClearDead
  <2> QED
    BY <2>1 DEF Drains
<1>3. CASE \/ Epoll_wait \/ Epoll_fail \/ UNCHANGED vars \/ Accept
           \/ Remote /\ UNCHANGED <<loopVars, ctxVars>>
  <2>1. dead' = dead
    BY <1>3 DEF Epoll_wait, Epoll_fail, Accept, AcceptNoMemory, AcceptFails, AcceptRefused,
                AcceptNoUpstream, AcceptConnectFails, AcceptConnected, Connectable, Accepting,
                vars, loopVars
  <2> QED
    BY <2>1 DEF Drains
<1> QED
  BY <1>1, <1>2, <1>3 DEF Next, LoopStep

LEMMA DrainInvariance ==
  ASSUME NoStrayClose, WholeSends
  PROVE  Spec => [](Inv /\ FdInv /\ DrainInv)
<1>1. Init => DrainInv
  BY DEF Init, KernelInit, DrainInv, NotPolled
<1>2. Inv /\ FdInv /\ DrainInv /\ [Next]_vars => DrainInv'
  BY DrainNext
<1> QED
  BY <1>1, <1>2, FdInvariance, PTL DEF Spec

\* While neither end is reset, a context is given up in a step that reads
\* nothing only if it has nothing left to read, in whatever order data, FIN and
\* the events of a batch come, for any number of connections with traffic in
\* both directions, if every send is whole.
THEOREM ReadBeforeClosed ==
  ASSUME NoStrayClose, WholeSends
  PROVE  Spec => DrainedBeforeClose
<1>1. Inv /\ FdInv /\ DrainInv /\ [Next]_vars => [Drains]_vars
  BY NextDrains
<1>2. Spec => [][Drains]_vars
  BY <1>1, DrainInvariance, PTL DEF Spec
<1> QED
  BY <1>2 DEF DrainedBeforeClose, Drains

-----------------------------------------------------------------------------
(* Whole sends: the bytes. *)

\* Nothing is ever queued, so no context is read over a queue.
QuietInv == \A c \in Ctx : wlen[c] = 0

LEMMA QuietNext ==
  ASSUME WholeSends, Inv, DrainInv, QuietInv, [Next]_vars
  PROVE  QuietInv'
<1>1. CASE Handle
  <2>1. PICK e \in batch : Handles(e)
    BY <1>1 DEF Handle, Handles
  <2>2. \/ HandleOrphan(e) \/ ReadKilled(e) \/ NothingToDo(e) \/ RelayAll(e)
        \/ ReadFails(e) \/ ReadEof(e) \/ ReadDropped(e) \/ ReadSentZero(e)
    BY <2>1, NothingQueued
  <2>3. wlen' = wlen
    BY <2>2 DEF HandleOrphan, ReadKilled, NothingToDo, RelayAll, ReadFails, ReadEof,
                ReadDropped, ReadSentZero, Drop, Dies, Idle, queueVars, ctxVars
  <2> QED
    BY <2>3 DEF QuietInv
<1>2. CASE Sweep
  BY <1>2 DEF Sweep, Freed, QuietInv
<1>3. CASE \/ Epoll_wait \/ Epoll_fail \/ UNCHANGED vars \/ Accept
           \/ Remote /\ UNCHANGED <<loopVars, ctxVars>>
  <2>1. wlen' = wlen
    BY <1>3 DEF Epoll_wait, Epoll_fail, Accept, AcceptNoMemory, AcceptFails, AcceptRefused,
                AcceptNoUpstream, AcceptConnectFails, AcceptConnected, Connectable, Accepting,
                vars, loopVars, ctxVars, queueVars
  <2> QED
    BY <2>1 DEF QuietInv
<1> QED
  BY <1>1, <1>2, <1>3 DEF Next, LoopStep

LEMMA QuietInvariance ==
  ASSUME NoStrayClose, WholeSends
  PROVE  Spec => [](Inv /\ FdInv /\ DrainInv /\ QuietInv)
<1>1. Init => QuietInv
  BY DEF Init, QuietInv
<1>2. Inv /\ DrainInv /\ QuietInv /\ [Next]_vars => QuietInv'
  BY QuietNext
<1> QED
  BY <1>1, <1>2, DrainInvariance, PTL DEF Spec

LEMMA DuplexInvariance ==
  ASSUME NoStrayClose, WholeSends
  PROVE  Spec => [](Inv /\ FdInv /\ StreamInv)
<1>1. ASSUME Inv, FdInv, QuietInv, StreamInv, [Next]_vars PROVE StreamInv'
  <2>1. \A x \in Ctx : ~ReadOverQueue(x)
    BY <1>1 DEF QuietInv, ReadOverQueue
  <2> QED
    BY <1>1, <2>1, StreamNext DEF StreamInv, StreamIntegrity, Kept
<1> QED
  BY <1>1, StreamInit, QuietInvariance, PTL DEF Spec

\* Traffic in both directions: every stream stays whole if every send is.
THEOREM DuplexStreamsWhole ==
  ASSUME NoStrayClose, WholeSends
  PROVE  Spec => []StreamIntegrity
<1>1. StreamInv => StreamIntegrity
  BY DEF StreamInv
<1> QED
  BY <1>1, DuplexInvariance, PTL

\* And the loop implements the abstract relay.
THEOREM DuplexRelays ==
  ASSUME NoStrayClose, WholeSends
  PROVE  Spec => Relays
<1>1. Init => R!Init
  BY DEF Init, R!Init, Sent
<1>2. /\ Inv /\ FdInv /\ StreamInv /\ (Inv /\ FdInv /\ StreamInv)' /\ [Next]_vars
      => [R!Next]_(R!vars)
  BY RelayStep
<1> QED
  BY <1>1, <1>2, DuplexInvariance, PTL DEF Spec, Relays, R!Spec
=============================================================================
