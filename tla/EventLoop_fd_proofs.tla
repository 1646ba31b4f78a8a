------------------------- MODULE EventLoop_fd_proofs -------------------------
(***************************************************************************)
(* Who owns a descriptor, for every value of the constants of EventLoop    *)
(* with which no context is cleaned up before its fd is assigned: what is  *)
(* shut down, registered and closed is the context's own.                  *)
(***************************************************************************)
EXTENDS EventLoop_proofs

\* sm3t__cleanup_ctx is never called on an upstream context whose fd is not
\* yet assigned: SO_ORIGINAL_DST is found, forward mode has its ring of
\* upstreams, and the mode is not the one that the code does not implement.
NoStrayClose ==
  /\ Mode # "socks5"
  /\ Mode = "transparent" => "orig_dst" \notin Faults
  /\ Mode = "forward" => "enqueue" \notin Faults

\* FdOwnership, and what is left in a freed context and in a free descriptor.
FdInv ==
  /\ FdOwnership
  /\ \A c \in Ctx \ alloc : cfd[c] = NoFd
  /\ \A f \in Fd : ~sock[f].open => out[f] = <<>>

-----------------------------------------------------------------------------
(* What a step may do to a socket. *)

\* A socket that is closed, opened or shut down where another is not.
Same(S, T, h) == /\ T[h].open = S[h].open
                 /\ T[h].side = S[h].side
                 /\ T[h].shut = S[h].shut

\* Neither reading from a socket nor sending to it changes this, and shutting
\* it down only that.
LEMMA SockFields ==
  ASSUME NEW S \in [Fd -> Socket], NEW f \in Fd, NEW h \in Fd
  PROVE  /\ \A v : Same(S, [S EXCEPT ![f].rcv = v], h)
         /\ \A v : Same(S, [S EXCEPT ![f].used = v], h)
         /\ [S EXCEPT ![f].shut = TRUE][h].open = S[h].open
         /\ [S EXCEPT ![f].shut = TRUE][h].side = S[h].side
         /\ h # f => Same(S, [S EXCEPT ![f].shut = TRUE], h)
<1>1. S[f] \in Socket /\ S[h] \in Socket
  OBVIOUS
<1>2. CASE h = f
  BY <1>1, <1>2, Zenon DEF Socket, Same
<1>3. CASE h # f
  BY <1>3, Zenon DEF Same
<1> QED
  BY <1>2, <1>3

\* The same for a socket that is read from while another one is sent to.
LEMMA SockFields2 ==
  ASSUME NEW S \in [Fd -> Socket], NEW f \in Fd, NEW g \in Fd, NEW h \in Fd,
         NEW r \in Seq(Byte)
  PROVE  \A n : Same(S, [S EXCEPT ![f].rcv = r, ![g].used = @ + n], h)
<1>1. PICK T \in [Fd -> Socket] : T = [S EXCEPT ![f].rcv = r]
  BY SockStep
<1>2. Same(S, T, h)
  BY <1>1, SockFields, Zenon
<1>3. ASSUME NEW n PROVE Same(S, [S EXCEPT ![f].rcv = r, ![g].used = @ + n], h)
  <2>1. Same(T, [T EXCEPT ![g].used = @ + n], h)
    BY SockFields, Zenon
  <2> QED
    BY <1>1, <1>2, <2>1, Zenon DEF Same
<1> QED
  BY <1>3

\* What the handler does with an event.
Handles(e) ==
  \/ HandleOrphan(e) \/ HandleNullPeer(e)
  \/ Flush(e) \/ Read(e)
  \/ HangUp(e) \/ NothingToDo(e)

\* The handler opens and closes nothing, and the only socket it shuts down is
\* the peer's, in the step in which the two contexts part.
LEMMA HandleSock ==
  ASSUME TypeInv, LifetimeInv, NEW e \in batch, Handles(e), NEW h \in Fd
  PROVE  /\ UNCHANGED <<alloc, cfd>>
         /\ sock'[h].open = sock[h].open
         /\ sock'[h].side = sock[h].side
         /\ \/ sock'[h].shut = sock[h].shut
            \/ /\ peer[e.ptr] # NULL /\ h = cfd[peer[e.ptr]]
               /\ peer' = Unlink(e.ptr)
<1> DEFINE c == e.ptr
           p == peer[c]
           f == cfd[c]
           g == cfd[p]
<1>1. Handling(e) /\ c # NULL
  BY DEF Handles, HandleOrphan, HandleNullPeer, Flush, FlushBlocked, FlushFails, FlushKilled,
         FlushSome, FlushAll, Flushing, Read, ReadFails, ReadEof, ReadDropped,
         ReadKilled, ReadSentZero, RelayAll, RelayQueue, Reading, Linked, HangUp,
         NothingToDo, NotRead, Handling
<1>2. c \in Ctx /\ f \in Fd /\ (p # NULL => p \in Ctx /\ g \in Fd)
  BY <1>1, HandledContext
<1>3. sock \in [Fd -> Socket]
  BY DEF TypeInv, TypeOK, KernelTypeOK
<1>4. CASE \/ HandleOrphan(e) \/ HandleNullPeer(e) \/ NothingToDo(e)
           \/ FlushBlocked(e) \/ FlushFails(e) \/ FlushKilled(e)
           \/ ReadFails(e) \/ ReadKilled(e)
  <2>1. UNCHANGED <<alloc, cfd, sock>>
    BY <1>4 DEF HandleOrphan, HandleNullPeer, NothingToDo, FlushBlocked, FlushFails,
                FlushKilled, ReadFails, ReadKilled, Drop, Idle, Dies, ctxVars, kernelVars
  <2> QED
    BY <2>1
<1>5. CASE FlushSome(e)
  <2>1. UNCHANGED <<alloc, cfd>> /\ sock' = [sock EXCEPT ![f].used = @ + Space(f)]
    BY <1>5 DEF FlushSome
  <2>2. Same(sock, sock', h)
    BY <1>2, <1>3, <2>1, SockFields, Zenon
  <2> QED
    BY <2>1, <2>2 DEF Same
<1>6. CASE FlushAll(e)
  <2>1. UNCHANGED <<alloc, cfd>> /\ sock' = [sock EXCEPT ![f].used = @ + wlen[c]]
    BY <1>6 DEF FlushAll
  <2>2. Same(sock, sock', h)
    BY <1>2, <1>3, <2>1, SockFields, Zenon
  <2> QED
    BY <2>1, <2>2 DEF Same
<1>7. CASE ReadEof(e) \/ HangUp(e)
  <2>1. /\ UNCHANGED <<alloc, cfd>> /\ p # NULL /\ peer' = Unlink(c)
        /\ sock' = sock \/ sock' = [sock EXCEPT ![g].shut = TRUE]
    BY <1>7 DEF ReadEof, HangUp, NotRead, Reading, Linked, Drop, ShutPeer, Shutdown
  <2>2. CASE sock' = sock
    BY <2>1, <2>2
  <2>3. CASE sock' = [sock EXCEPT ![g].shut = TRUE]
    <3>1. /\ sock'[h].open = sock[h].open
          /\ sock'[h].side = sock[h].side
          /\ h # g => Same(sock, sock', h)
      BY <1>2, <1>3, <2>1, <2>3, SockFields, Zenon
    <3> QED
      BY <2>1, <3>1 DEF Same
  <2> QED
    BY <2>1, <2>2, <2>3
<1>8. CASE ReadDropped(e)
  <2>1. UNCHANGED <<alloc, cfd>> /\ sock' = [sock EXCEPT ![f].rcv = Unread(c)]
    BY <1>8 DEF ReadDropped, Drop
  <2>2. Same(sock, sock', h)
    BY <1>2, <1>3, <2>1, SockFields, Zenon
  <2> QED
    BY <2>1, <2>2 DEF Same
<1>9. CASE ReadSentZero(e)
  <2>1. UNCHANGED <<alloc, cfd>> /\ p # NULL /\ peer' = Unlink(c)
    BY <1>9 DEF ReadSentZero, Reading, Linked, Drop
  <2>2. sock' = [sock EXCEPT ![f].rcv = Unread(c), ![g].shut = TRUE]
    BY <1>9 DEF ReadSentZero
  <2>3. Unread(c) \in Seq(Byte) /\ f \in Fd /\ g \in Fd
    BY <1>2, <2>1, RecvType
  <2>4. /\ sock'[h].open = sock[h].open
        /\ sock'[h].side = sock[h].side
        /\ h # g => Same(sock, sock', h)
    <3>1. PICK T \in [Fd -> Socket] : T = [sock EXCEPT ![f].rcv = Unread(c)]
      BY <1>3, <2>3, SockStep
    <3>2. Same(sock, T, h)
      BY <1>3, <2>3, <3>1, SockFields, Zenon
    <3>3. sock' = [T EXCEPT ![g].shut = TRUE]
      BY <2>2, <3>1, Zenon
    <3>4. /\ sock'[h].open = T[h].open
          /\ sock'[h].side = T[h].side
          /\ h # g => Same(T, sock', h)
      BY <2>3, <3>3, SockFields, Zenon
    <3> QED
      BY <3>2, <3>4 DEF Same
  <2> QED
    BY <2>1, <2>4 DEF Same
<1>10. CASE RelayAll(e)
  <2>1. UNCHANGED <<alloc, cfd>> /\ p # NULL
    BY <1>10 DEF RelayAll, Reading, Linked
  <2>2. PICK n : sock' = [sock EXCEPT ![f].rcv = Unread(c), ![g].used = @ + n]
    BY <1>10 DEF RelayAll
  <2>3. Unread(c) \in Seq(Byte)
    BY <1>2, RecvType
  <2>4. Same(sock, sock', h)
    BY <1>2, <1>3, <2>1, <2>2, <2>3, SockFields2, Zenon
  <2> QED
    BY <2>1, <2>4 DEF Same
<1>11. CASE RelayQueue(e)
  <2>1. UNCHANGED <<alloc, cfd>> /\ p # NULL
    BY <1>11 DEF RelayQueue, Reading, Linked
  <2>2. PICK n : sock' = [sock EXCEPT ![f].rcv = Unread(c), ![g].used = @ + n]
    BY <1>11 DEF RelayQueue
  <2>3. Unread(c) \in Seq(Byte)
    BY <1>2, RecvType
  <2>4. Same(sock, sock', h)
    BY <1>2, <1>3, <2>1, <2>2, <2>3, SockFields2, Zenon
  <2> QED
    BY <2>1, <2>4 DEF Same
<1> QED
  BY <1>4, <1>5, <1>6, <1>7, <1>8, <1>9, <1>10, <1>11 DEF Handles, Flush, Read

\* Nor do the remote programs.
LEMMA RemoteSock ==
  ASSUME TypeInv, Remote, NEW h \in Fd
  PROVE  /\ sock'[h].open = sock[h].open
         /\ sock'[h].side = sock[h].side
         /\ sock'[h].shut = sock[h].shut
         /\ out' = out
<1>1. sock \in [Fd -> Socket] /\ sock[h] \in Socket
  BY DEF TypeInv, TypeOK, KernelTypeOK
<1>2. CASE Arrive
  BY <1>2 DEF Arrive
<1>3. ASSUME NEW f \in Fd, RemoteSend(f) \/ RemoteRead(f) \/ RemoteFin(f) \/ RemoteReset(f)
      PROVE  /\ sock'[h].open = sock[h].open
             /\ sock'[h].side = sock[h].side
             /\ sock'[h].shut = sock[h].shut
             /\ out' = out
  <2>1. h # f => sock'[h] = sock[h]
    BY <1>1, <1>3, Zenon DEF RemoteSend, RemoteRead, RemoteFin, RemoteReset
  <2>2. ASSUME h = f
        PROVE  /\ sock'[f].open = sock[f].open
               /\ sock'[f].side = sock[f].side
               /\ sock'[f].shut = sock[f].shut
    <3>1. sock[f] \in Socket
      BY <1>1
    <3>2. CASE RemoteSend(f)
      BY <1>1, <3>1, <3>2, Zenon DEF RemoteSend, Socket
    <3>3. CASE RemoteRead(f)
      BY <1>1, <3>1, <3>3, Zenon DEF RemoteRead, Socket
    <3>4. CASE RemoteFin(f)
      BY <1>1, <3>1, <3>4, Zenon DEF RemoteFin, Socket
    <3>5. CASE RemoteReset(f)
      BY <1>1, <3>1, <3>5, Zenon DEF RemoteReset, Socket
    <3> QED
      BY <1>3, <3>2, <3>3, <3>4, <3>5
  <2>3. out' = out
    BY <1>3 DEF RemoteSend, RemoteRead, RemoteFin, RemoteReset
  <2> QED
    BY <2>1, <2>2, <2>3
<1> QED
  BY <1>2, <1>3 DEF Remote

\* Bytes are only sent on an open socket.
LEMMA HandleOut ==
  ASSUME TypeInv, LifetimeInv, NEW e \in batch, Handles(e), NEW h \in Fd, ~sock[h].open
  PROVE  out'[h] = out[h]
<1>1. out \in [Fd -> Seq(Byte)]
  BY DEF TypeInv, TypeOK, KernelTypeOK
<1>2. CASE FlushSome(e) \/ FlushAll(e)
  <2>1. SendOk(cfd[e.ptr]) /\ \E s : out' = [out EXCEPT ![cfd[e.ptr]] = s]
    BY <1>2 DEF FlushSome, FlushAll
  <2> QED
    BY <1>1, <2>1 DEF SendOk
<1>3. CASE RelayAll(e) \/ RelayQueue(e)
  <2>1. SendOk(cfd[peer[e.ptr]]) /\ \E s : out' = [out EXCEPT ![cfd[peer[e.ptr]]] = s]
    BY <1>3 DEF RelayAll, RelayQueue
  <2> QED
    BY <1>1, <2>1 DEF SendOk
<1>4. CASE \/ HandleOrphan(e) \/ HandleNullPeer(e) \/ NothingToDo(e)
           \/ FlushBlocked(e) \/ FlushFails(e) \/ FlushKilled(e)
           \/ ReadFails(e) \/ ReadKilled(e) \/ ReadEof(e) \/ HangUp(e)
           \/ ReadDropped(e) \/ ReadSentZero(e)
  <2>1. out' = out
    BY <1>4 DEF HandleOrphan, HandleNullPeer, NothingToDo, FlushBlocked, FlushFails,
                FlushKilled, ReadFails, ReadKilled, ReadEof, HangUp, ReadDropped,
                ReadSentZero, Drop, Idle, Dies, kernelVars
  <2> QED
    BY <2>1
<1> QED
  BY <1>2, <1>3, <1>4 DEF Handles, Flush, Read

\* The links, the registrations and the dead: the context dies and is unlinked,
\* or it stays linked and the two registrations are changed together.
LEMMA HandleLinks ==
  ASSUME NEW e \in batch, Handles(e)
  PROVE  /\ Handling(e) /\ UNCHANGED <<alloc, cfd>>
         /\ \/ /\ ReturnFalse(e.ptr)
               /\ \/ peer[e.ptr] = NULL /\ peer' = peer
                  \/ peer[e.ptr] # NULL /\ peer' = Unlink(e.ptr)
            \/ UNCHANGED <<dead, peer, poll>>
            \/ /\ UNCHANGED <<dead, peer>>
               /\ peer[e.ptr] # NULL
               /\ poll' = Resume(e.ptr, peer[e.ptr]) \/ poll' = Pause(e.ptr, peer[e.ptr])
<1>1. CASE HandleOrphan(e)
  BY <1>1 DEF HandleOrphan, ctxVars
<1>2. CASE HandleNullPeer(e) \/ NothingToDo(e) \/ FlushBlocked(e) \/ FlushKilled(e) \/ ReadKilled(e)
  BY <1>2 DEF HandleNullPeer, NothingToDo, NotRead, Linked, FlushBlocked, FlushKilled, Flushing,
              ReadKilled, Reading, Idle, Dies, ctxVars, kernelVars
<1>3. CASE \/ FlushFails(e) \/ ReadFails(e) \/ ReadEof(e) \/ ReadDropped(e)
           \/ ReadSentZero(e) \/ HangUp(e)
  BY <1>3 DEF FlushFails, Flushing, ReadFails, ReadEof, ReadDropped, ReadSentZero, Reading,
              HangUp, NotRead, Linked, Drop
<1>4. CASE FlushSome(e) \/ RelayAll(e)
  BY <1>4 DEF FlushSome, Flushing, RelayAll, Reading, Linked
<1>5. CASE FlushAll(e) \/ RelayQueue(e)
  BY <1>5 DEF FlushAll, Flushing, RelayQueue, Reading, Linked
<1> QED
  BY <1>1, <1>2, <1>3, <1>4, <1>5 DEF Handles, Flush, Read

-----------------------------------------------------------------------------
(* Every descriptor has one owner. *)

LEMMA FdFrame ==
  ASSUME TypeInv, FdInv, UNCHANGED <<alloc, cfd>>,
         \A h \in Fd : sock'[h].open = sock[h].open /\ (~sock[h].open => out'[h] = out[h])
  PROVE  FdInv'
<1>1. \A c \in alloc : cfd[c] \in Fd \cup {NoFd}
  BY DEF TypeInv, TypeOK
<1>2. \A c \in alloc' : cfd'[c] # NoFd => sock'[cfd'[c]].open
  BY <1>1 DEF FdInv, FdOwnership
<1>3. /\ \A c, d \in alloc' : cfd'[c] # NoFd /\ cfd'[c] = cfd'[d] => c = d
      /\ \A h \in Fd : sock'[h].open => \E c \in alloc' : cfd'[c] = h
  BY DEF FdInv, FdOwnership
<1>4. FdOwnership'
  BY <1>2, <1>3 DEF FdOwnership
<1> QED
  BY <1>4 DEF FdInv

\* A new connection takes free contexts and free descriptors, and leaves every
\* other one alone.
LEMMA ConnectFacts ==
  ASSUME TypeInv, FdInv,
         NEW c \in Free, NEW u \in Free, NEW f \in Fd, NEW g \in Fd, NEW wc, NEW wu,
         NEW okC, NEW okU, Connect(c, u, f, g, wc, wu, okC, okU)
  PROVE  /\ c \in Ctx \ alloc /\ u \in Ctx \ alloc /\ c # u /\ f # g
         /\ ~sock[f].open /\ ~sock[g].open
         /\ alloc' = alloc \cup {c, u}
         /\ cfd'[c] = f /\ cfd'[u] = g
         /\ peer'[c] = u /\ peer'[u] = c
         /\ \A x \in Ctx \ {c, u} : cfd'[x] = cfd[x] /\ peer'[x] = peer[x]
         /\ sock'[f] = NewSocket("client") /\ sock'[g] = NewSocket("upstream")
         /\ \A h \in Fd \ {f, g} : sock'[h] = sock[h]
         /\ \A x \in alloc : x \in Ctx \ {c, u} /\ (cfd[x] # NoFd => cfd[x] \in Fd \ {f, g})
<1>1. /\ c \in Ctx \ alloc /\ u \in Ctx \ alloc /\ c # u /\ f # g
      /\ ~sock[f].open /\ ~sock[g].open
  BY DEF Free, Connect, IsLowest, FreeFds
<1>2. /\ alloc' = alloc \cup {c, u}
      /\ cfd'[c] = f /\ cfd'[u] = g
      /\ \A x \in Ctx \ {c, u} : cfd'[x] = cfd[x]
  BY <1>1 DEF Connect, TypeInv, TypeOK
<1>3. /\ peer'[c] = u /\ peer'[u] = c
      /\ \A x \in Ctx \ {c, u} : peer'[x] = peer[x]
  BY <1>1 DEF Connect, Link, TypeInv, TypeOK
<1>4. /\ sock'[f] = NewSocket("client") /\ sock'[g] = NewSocket("upstream")
      /\ \A h \in Fd \ {f, g} : sock'[h] = sock[h]
  BY <1>1 DEF Connect, TypeInv, TypeOK, KernelTypeOK
<1>5. \A x \in alloc : x \in Ctx \ {c, u} /\ (cfd[x] # NoFd => cfd[x] \in Fd \ {f, g})
  BY <1>1 DEF FdInv, FdOwnership, TypeInv, TypeOK
<1> QED
  BY <1>1, <1>2, <1>3, <1>4, <1>5

\* The sweep forgets the dead contexts and closes their descriptors, which no
\* other context owns.
LEMMA SweepFacts ==
  ASSUME TypeInv, LifetimeInv, FdInv, Sweep, NEW F, F = OwnedFds(Range(dead))
  PROVE  /\ alloc' = alloc \ Range(dead) /\ Range(dead) \subseteq alloc
         /\ peer' = peer
         /\ \A x \in Range(dead) : cfd'[x] = NoFd /\ peer[x] = NULL
         /\ \A x \in Ctx \ Range(dead) : cfd'[x] = cfd[x]
         /\ \A h \in F \cap Fd : sock'[h] = ClosedSocket /\ out'[h] = <<>>
         /\ \A h \in Fd \ F : sock'[h] = sock[h] /\ out'[h] = out[h] /\ poll'[h] = poll[h]
         /\ \A x \in alloc' : x \in alloc /\ x \in Ctx /\ (cfd[x] # NoFd => cfd[x] \in Fd \ F)
<1>1. Range(dead) \subseteq alloc /\ alloc \subseteq Ctx /\ cfd \in [Ctx -> Fd \cup {NoFd}]
  BY DEF LifetimeInv, DeadOK, TypeInv, TypeOK
<1>2. \A x \in Range(dead) : peer[x] = NULL
  BY DEF LifetimeInv, DeadOK
<1>3. /\ alloc' = alloc \ Range(dead) /\ peer' = peer
      /\ \A x \in Ctx : cfd'[x] = IF x \in Range(dead) THEN NoFd ELSE cfd[x]
      /\ \A h \in Fd : /\ sock'[h] = IF h \in F THEN ClosedSocket ELSE sock[h]
                       /\ out'[h] = IF h \in F THEN <<>> ELSE out[h]
                       /\ poll'[h] = IF h \in F THEN NotPolled ELSE poll[h]
  BY DEF Sweep, Freed, CloseSocks, CloseOuts, ClosePolls
<1>4. \A x \in alloc \ Range(dead) : cfd[x] # NoFd => cfd[x] \in Fd \ F
  BY <1>1 DEF OwnedFds, FdInv, FdOwnership
<1> QED
  BY <1>1, <1>2, <1>3, <1>4

\* The two descriptors of a new connection were free, and so were its contexts.
LEMMA FdConnect ==
  ASSUME TypeInv, FdInv,
         NEW c \in Free, NEW u \in Free, NEW f \in Fd, NEW g \in Fd, NEW wc, NEW wu,
         NEW okC, NEW okU, Connect(c, u, f, g, wc, wu, okC, okU), out' = out
  PROVE  FdInv'
<1>1. /\ c \in Ctx \ alloc /\ u \in Ctx \ alloc /\ c # u /\ f # g
      /\ ~sock[f].open /\ ~sock[g].open
      /\ alloc' = alloc \cup {c, u}
      /\ cfd'[c] = f /\ cfd'[u] = g /\ \A x \in Ctx \ {c, u} : cfd'[x] = cfd[x]
      /\ sock'[f] = NewSocket("client") /\ sock'[g] = NewSocket("upstream")
      /\ \A h \in Fd \ {f, g} : sock'[h] = sock[h]
  BY ConnectFacts
<1>2. sock'[f].open /\ sock'[g].open
  BY <1>1 DEF NewSocket
<1>3. /\ alloc \subseteq Ctx /\ cfd \in [Ctx -> Fd \cup {NoFd}] /\ NoFd \notin Fd
  BY KernelAssumption DEF TypeInv, TypeOK, NoFd
<1>4. /\ \A x \in alloc : cfd[x] # NoFd => sock[cfd[x]].open
      /\ \A x, y \in alloc : cfd[x] # NoFd /\ cfd[x] = cfd[y] => x = y
      /\ \A h \in Fd : sock[h].open => \E x \in alloc : cfd[x] = h
      /\ \A x \in Ctx \ alloc : cfd[x] = NoFd
      /\ \A h \in Fd : ~sock[h].open => out[h] = <<>>
  BY DEF FdInv, FdOwnership
<1>5. \A x \in alloc : cfd'[x] = cfd[x] /\ cfd[x] # f /\ cfd[x] # g
  BY <1>1, <1>3, <1>4
<1>6. \A x \in alloc' : cfd'[x] # NoFd => sock'[cfd'[x]].open
  BY <1>1, <1>2, <1>3, <1>4, <1>5
<1>7. \A x, y \in alloc' : cfd'[x] # NoFd /\ cfd'[x] = cfd'[y] => x = y
  BY <1>1, <1>4, <1>5
<1>8. \A h \in Fd : sock'[h].open => \E x \in alloc' : cfd'[x] = h
  BY <1>1, <1>4, <1>5
<1>9. \A x \in Ctx \ alloc' : cfd'[x] = NoFd
  BY <1>1, <1>4
<1>10. \A h \in Fd : ~sock'[h].open => out'[h] = <<>>
  BY <1>1, <1>2, <1>4
<1> QED
  BY <1>6, <1>7, <1>8, <1>9, <1>10 DEF FdInv, FdOwnership

LEMMA FdAccept ==
  ASSUME NoStrayClose, TypeInv, FdInv, Accept
  PROVE  FdInv'
<1>1. CASE AcceptNoMemory \/ AcceptRefused \/ AcceptConnectFails
  <2>1. UNCHANGED <<alloc, cfd, sock, out>>
    BY <1>1 DEF AcceptNoMemory, AcceptRefused, AcceptConnectFails, ctxVars, kernelVars
  <2> QED
    BY <2>1, FdFrame
<1>2. CASE AcceptFails
  <2>1. PICK c \in Free : alloc' = alloc \cup {c}
    BY <1>2 DEF AcceptFails
  <2>2. UNCHANGED <<cfd, sock, out>>
    BY <1>2 DEF AcceptFails
  <2>3. c \in Ctx \ alloc /\ cfd[c] = NoFd
    BY DEF Free, FdInv
  <2>4. FdOwnership'
    BY <2>1, <2>2, <2>3 DEF FdInv, FdOwnership
  <2> QED
    BY <2>1, <2>2, <2>4 DEF FdInv
<1>3. CASE AcceptNoUpstream
  BY <1>3 DEF AcceptNoUpstream, LacksUpstream, NoStrayClose
<1>4. CASE AcceptConnected
  <2>1. PICK c \in Free, u \in Free, f \in Fd, g \in Fd,
             wc \in DirtyFlag, wu \in DirtyFlag, okC \in Registered, okU \in Registered :
          Connect(c, u, f, g, wc, wu, okC, okU)
    BY <1>4 DEF AcceptConnected
  <2>2. out' = out
    BY <1>4 DEF AcceptConnected
  <2> QED
    BY <2>1, <2>2, FdConnect
<1> QED
  BY <1>1, <1>2, <1>3, <1>4 DEF Accept

\* The sweep closes the descriptors of the dead contexts, which no other
\* context owns.
LEMMA FdSweep ==
  ASSUME TypeInv, LifetimeInv, FdInv, Sweep
  PROVE  FdInv'
<1>1. PICK F : F = OwnedFds(Range(dead))
  OBVIOUS
<1>2. \A h \in Fd \cap F : \E x \in Range(dead) : cfd[x] = h
  BY <1>1 DEF OwnedFds
<1>3. ~ClosedSocket.open
  BY DEF ClosedSocket, NewSocket
<1>4. NoFd \notin Fd
  BY KernelAssumption DEF NoFd
<1>5. \A x \in alloc' : cfd'[x] # NoFd => sock'[cfd'[x]].open
  BY <1>1, SweepFacts DEF FdInv, FdOwnership
<1>6. \A x, y \in alloc' : cfd'[x] # NoFd /\ cfd'[x] = cfd'[y] => x = y
  BY <1>1, SweepFacts DEF FdInv, FdOwnership
<1>7. ASSUME NEW h \in Fd, sock'[h].open PROVE \E x \in alloc' : cfd'[x] = h
  <2>1. h \notin F /\ sock[h].open
    BY <1>1, <1>3, <1>7, SweepFacts
  <2>2. PICK x \in alloc : cfd[x] = h
    BY <2>1 DEF FdInv, FdOwnership
  <2>3. x \notin Range(dead)
    BY <1>1, <1>4, <2>1, <2>2 DEF OwnedFds
  <2> QED
    BY <1>1, <2>2, <2>3, SweepFacts
<1>8. \A x \in Ctx \ alloc' : cfd'[x] = NoFd
  BY <1>1, SweepFacts DEF FdInv
<1>9. \A h \in Fd : ~sock'[h].open => out'[h] = <<>>
  BY <1>1, SweepFacts DEF FdInv
<1> QED
  BY <1>5, <1>6, <1>7, <1>8, <1>9 DEF FdInv, FdOwnership

LEMMA FdNext ==
  ASSUME NoStrayClose, Inv, FdInv, [Next]_vars
  PROVE  FdInv'
<1> USE DEF Inv
<1>1. CASE Epoll_wait \/ Epoll_fail \/ UNCHANGED vars
  <2>1. UNCHANGED <<alloc, cfd, sock, out>>
    BY <1>1 DEF Epoll_wait, Epoll_fail, vars, ctxVars, kernelVars
  <2> QED
    BY <2>1, FdFrame
<1>2. CASE Accept
  BY <1>2, FdAccept
<1>3. CASE Handle
  <2>1. PICK e \in batch : Handles(e)
    BY <1>3 DEF Handle, Handles
  <2>2. \A h \in Fd : sock'[h].open = sock[h].open /\ (~sock[h].open => out'[h] = out[h])
    BY <2>1, HandleSock, HandleOut
  <2>3. UNCHANGED <<alloc, cfd>>
    BY <2>1, HandleLinks
  <2> QED
    BY <2>2, <2>3, FdFrame
<1>4. CASE Sweep
  BY <1>4, FdSweep
<1>5. CASE Remote /\ UNCHANGED <<loopVars, ctxVars>>
  <2>1. UNCHANGED <<alloc, cfd>>
    BY <1>5 DEF ctxVars
  <2>2. \A h \in Fd : sock'[h].open = sock[h].open /\ out'[h] = out[h]
    BY <1>5, RemoteSock
  <2> QED
    BY <2>1, <2>2, FdFrame
<1> QED
  BY <1>1, <1>2, <1>3, <1>4, <1>5 DEF Next, LoopStep

LEMMA FdInvariance ==
  ASSUME NoStrayClose
  PROVE  Spec => [](Inv /\ FdInv)
<1>1. Init => FdInv
  BY DEF Init, KernelInit, FdInv, FdOwnership, ClosedSocket, NewSocket
<1>2. Inv /\ FdInv /\ [Next]_vars => FdInv'
  BY FdNext
<1> QED
  BY <1>1, <1>2, Invariance, PTL DEF Spec

\* A descriptor that a context owns is open and owned by it alone, and every
\* open socket has its context, for any number of connections and descriptors
\* and with every fault but the one that closes a descriptor by accident.
THEOREM DescriptorsOwned ==
  ASSUME NoStrayClose
  PROVE  Spec => []FdOwnership
<1>1. FdInv => FdOwnership
  BY DEF FdInv
<1> QED
  BY <1>1, FdInvariance, PTL
-----------------------------------------------------------------------------
(* A socket is shut down only in the step that unlinks its context. *)

LEMMA ShutConnect ==
  ASSUME TypeInv, LifetimeInv, FdInv, NoSendAfterShutdown,
         NEW c \in Free, NEW u \in Free, NEW f \in Fd, NEW g \in Fd, NEW wc, NEW wu,
         NEW okC, NEW okU, Connect(c, u, f, g, wc, wu, okC, okU)
  PROVE  NoSendAfterShutdown'
<1>1. ~NewSocket("client").shut /\ ~NewSocket("upstream").shut
  BY DEF NewSocket
<1>2. \A x \in alloc : peer[x] # NULL => cfd[x] # NoFd
  BY KernelAssumption DEF TypeInv, TypeOK, LifetimeInv, PeerOK, NoFd
<1> QED
  BY <1>1, <1>2, ConnectFacts DEF NoSendAfterShutdown

LEMMA ShutSweep ==
  ASSUME TypeInv, LifetimeInv, FdInv, NoSendAfterShutdown, Sweep
  PROVE  NoSendAfterShutdown'
<1>1. PICK F : F = OwnedFds(Range(dead))
  OBVIOUS
<1>2. \A x \in alloc : peer[x] # NULL => cfd[x] # NoFd
  BY KernelAssumption DEF TypeInv, TypeOK, LifetimeInv, PeerOK, NoFd
<1> QED
  BY <1>1, <1>2, SweepFacts DEF NoSendAfterShutdown

LEMMA ShutHandle ==
  ASSUME TypeInv, LifetimeInv, FdInv, NoSendAfterShutdown, NEW e \in batch, Handles(e)
  PROVE  NoSendAfterShutdown'
<1> SUFFICES ASSUME NEW x \in alloc', peer'[x] # NULL
             PROVE  ~sock'[cfd'[x]].shut
  BY DEF NoSendAfterShutdown
<1> DEFINE c == e.ptr
           p == peer[c]
<1>1. c # NULL /\ c \in Ctx /\ (p # NULL => p \in Ctx /\ p \in alloc /\ p # c /\ cfd[p] \in Fd)
  BY HandleLinks, HandledContext DEF Handling
<1>2. \/ p # NULL /\ peer' = Unlink(c)
      \/ peer' = peer
  BY HandleLinks
<1>3. p # NULL /\ peer' = Unlink(c) => peer'[p] = NULL
  BY <1>1 DEF Unlink, TypeInv, TypeOK
<1>4. UNCHANGED <<alloc, cfd>>
  BY HandleLinks
<1>5. peer[x] # NULL
  BY <1>1, <1>2, <1>4 DEF Unlink, TypeInv, TypeOK
<1>6. x \in alloc /\ cfd[x] \in Fd /\ cfd[x] # NoFd
  BY <1>4, <1>5, KernelAssumption DEF TypeInv, TypeOK, LifetimeInv, PeerOK, NoFd
<1>7. ~sock[cfd[x]].shut
  BY <1>5, <1>6 DEF NoSendAfterShutdown
<1>8. \/ sock'[cfd[x]].shut = sock[cfd[x]].shut
      \/ p # NULL /\ cfd[x] = cfd[p] /\ peer' = Unlink(c)
  BY <1>6, HandleSock
<1>9. p # NULL /\ cfd[x] = cfd[p] => x = p
  BY <1>1, <1>6 DEF FdInv, FdOwnership
<1> QED
  BY <1>3, <1>4, <1>7, <1>8, <1>9

LEMMA ShutNext ==
  ASSUME NoStrayClose, Inv, FdInv, NoSendAfterShutdown, [Next]_vars
  PROVE  NoSendAfterShutdown'
<1> USE DEF Inv
<1>1. CASE Epoll_wait \/ Epoll_fail \/ UNCHANGED vars
           \/ AcceptNoMemory \/ AcceptRefused \/ AcceptConnectFails
  <2>1. UNCHANGED <<alloc, cfd, sock, peer>>
    BY <1>1 DEF Epoll_wait, Epoll_fail, AcceptNoMemory, AcceptRefused, AcceptConnectFails,
                vars, ctxVars, kernelVars
  <2> QED
    BY <2>1 DEF NoSendAfterShutdown
<1>2. CASE AcceptFails
  <2>1. PICK c \in Free : alloc' = alloc \cup {c}
    BY <1>2 DEF AcceptFails
  <2>2. UNCHANGED <<cfd, sock, peer>>
    BY <1>2 DEF AcceptFails
  <2>3. peer[c] = NULL
    BY DEF Free, LifetimeInv, PeerOK
  <2> QED
    BY <2>1, <2>2, <2>3 DEF NoSendAfterShutdown
<1>3. CASE AcceptNoUpstream
  BY <1>3 DEF AcceptNoUpstream, LacksUpstream, NoStrayClose
<1>4. CASE AcceptConnected
  <2>1. PICK c \in Free, u \in Free, f \in Fd, g \in Fd,
             wc \in DirtyFlag, wu \in DirtyFlag, okC \in Registered, okU \in Registered :
          Connect(c, u, f, g, wc, wu, okC, okU)
    BY <1>4 DEF AcceptConnected
  <2> QED
    BY <2>1, ShutConnect
<1>5. CASE Handle
  <2>1. PICK e \in batch : Handles(e)
    BY <1>5 DEF Handle, Handles
  <2> QED
    BY <2>1, ShutHandle
<1>6. CASE Sweep
  BY <1>6, ShutSweep
<1>7. CASE Remote /\ UNCHANGED <<loopVars, ctxVars>>
  <2>1. UNCHANGED <<alloc, cfd, peer>>
    BY <1>7 DEF ctxVars
  <2>2. \A h \in Fd : sock'[h].shut = sock[h].shut
    BY <1>7, RemoteSock
  <2>3. \A x \in alloc : peer[x] # NULL => cfd[x] \in Fd
    BY DEF TypeInv, TypeOK, LifetimeInv, PeerOK
  <2> QED
    BY <2>1, <2>2, <2>3 DEF NoSendAfterShutdown
<1> QED
  BY <1>1, <1>2, <1>3, <1>4, <1>5, <1>6, <1>7 DEF Next, LoopStep, Accept

LEMMA ShutInvariance ==
  ASSUME NoStrayClose
  PROVE  Spec => [](Inv /\ NoSendAfterShutdown)
<1>1. Init => NoSendAfterShutdown
  BY DEF Init, NoSendAfterShutdown
<1>2. Inv /\ FdInv /\ NoSendAfterShutdown /\ [Next]_vars => NoSendAfterShutdown'
  BY ShutNext
<1> QED
  BY <1>1, <1>2, FdInvariance, PTL DEF Spec

\* No context that still has a peer, to which it may be sent more, was shut down.
THEOREM NeverSendsAfterShutdown ==
  ASSUME NoStrayClose
  PROVE  Spec => []NoSendAfterShutdown
BY ShutInvariance, PTL

\* What kills the process with SIGPIPE is there when it is killed, and after it
\* nothing moves.
LEMMA PipeNext ==
  ASSUME Inv, NoSendAfterShutdown, PipeOnlyByReset, [Next]_vars
  PROVE  PipeOnlyByReset'
<1> USE DEF Inv
<1>1. CASE UNCHANGED vars
  BY <1>1 DEF vars, loopVars, kernelVars, PipeOnlyByReset
<1>2. CASE Handle /\ Running
  <2>1. PICK e \in batch : Handles(e)
    BY <1>2 DEF Handle, Handles
  <2>2. CASE FlushKilled(e) \/ ReadKilled(e)
    <3>1. PICK c \in {e.ptr, peer[e.ptr]} :
            peer[c] # NULL /\ c \in alloc /\ cfd[c] \in Fd /\ SendKills(cfd[c])
      <4>1. e.ptr # NULL /\ peer[e.ptr] # NULL
        BY <2>2 DEF FlushKilled, ReadKilled, Flushing, Reading, Linked, Handling
      <4>2. /\ e.ptr \in alloc /\ cfd[e.ptr] \in Fd /\ peer[e.ptr] \in alloc
            /\ cfd[peer[e.ptr]] \in Fd /\ peer[peer[e.ptr]] = e.ptr
        BY <4>1, HandledContext
      <4>3. SendKills(cfd[e.ptr]) \/ SendKills(cfd[peer[e.ptr]])
        BY <2>2 DEF FlushKilled, ReadKilled
      <4> QED
        BY <4>1, <4>2, <4>3
    <3>2. sock[cfd[c]].open /\ sock[cfd[c]].err = "pipe"
      BY <3>1 DEF NoSendAfterShutdown, SendKills
    <3>3. sock' = sock
      BY <2>2 DEF FlushKilled, ReadKilled, Dies, kernelVars
    <3> QED
      BY <3>1, <3>2, <3>3 DEF PipeOnlyByReset
  <2>3. CASE ~(FlushKilled(e) \/ ReadKilled(e))
    <3>1. proc' # "sigpipe"
      BY <1>2, <2>1, <2>3 DEF Running, Handles, Flush, Read, HandleOrphan, HandleNullPeer, NothingToDo,
            FlushBlocked, FlushFails, FlushSome, FlushAll, ReadFails, ReadEof, ReadDropped,
            ReadSentZero, RelayAll, RelayQueue, HangUp, Drop, Dies, Idle
    <3> QED
      BY <3>1 DEF PipeOnlyByReset
  <2> QED
    BY <2>2, <2>3
<1>3. CASE /\ Running
           /\ \/ Epoll_wait \/ Epoll_fail \/ Accept \/ Sweep
              \/ Remote /\ UNCHANGED <<loopVars, ctxVars>>
  <2>1. proc' # "sigpipe"
    BY <1>3 DEF Epoll_wait, Epoll_fail, Accept, AcceptNoMemory, AcceptFails, AcceptRefused,
                AcceptNoUpstream, StrayClose, StrayCloseListener, StrayCloseEpoll,
                AcceptConnectFails, AcceptConnected, Connectable, Accepting,
                Sweep, Running, loopVars
  <2> QED
    BY <2>1 DEF PipeOnlyByReset
<1> QED
  BY <1>1, <1>2, <1>3 DEF Next, LoopStep

\* A remote that resets after its FIN is the only cause of SIGPIPE.
THEOREM OnlyResetsKill ==
  ASSUME NoStrayClose
  PROVE  Spec => []PipeOnlyByReset
<1>1. Init => PipeOnlyByReset
  BY DEF Init, PipeOnlyByReset
<1>2. Inv /\ NoSendAfterShutdown /\ PipeOnlyByReset /\ [Next]_vars => PipeOnlyByReset'
  BY PipeNext
<1> QED
  BY <1>1, <1>2, ShutInvariance, PTL DEF Spec

-----------------------------------------------------------------------------
(* A context that owns a descriptor is registered or dead. *)

\* The registrations change together, and each stays at its own descriptor.
LEMMA RearmOwn ==
  ASSUME TypeInv, NEW c \in Ctx, NEW p \in Ctx, cfd[c] \in Fd, cfd[p] \in Fd, c # p,
         poll' = Resume(c, p) \/ poll' = Pause(c, p), NEW h \in Fd
  PROVE  \/ poll'[h].ptr = poll[h].ptr
         \/ h = cfd[c] /\ poll'[h].ptr = c
         \/ h = cfd[p] /\ poll'[h].ptr = p
<1>1. PICK a \in SUBSET Event, b \in SUBSET Event :
        poll' = Modify_poll(Modify_poll(poll, cfd[c], a, c), cfd[p], b, p)
  BY EventSets DEF Resume, Pause
<1> DEFINE pl == Modify_poll(poll, cfd[c], a, c)
<1>2. poll \in PollTable /\ pl \in PollTable
  BY PollOpsType DEF TypeInv, TypeOK, KernelTypeOK, PollTable
<1>3. \/ poll'[h].ptr = pl[h].ptr
      \/ h = cfd[p] /\ poll'[h].ptr = p
  BY <1>1, <1>2, ModifyOwn
<1>4. \/ pl[h].ptr = poll[h].ptr
      \/ h = cfd[c] /\ pl[h].ptr = c
  BY <1>2, ModifyOwn
<1> QED
  BY <1>3, <1>4

LEMMA ForgottenConnect ==
  ASSUME TypeInv, FdInv, NoneForgotten, "append_poll" \notin Faults,
         NEW c \in Free, NEW u \in Free, NEW f \in Fd, NEW g \in Fd, NEW wc, NEW wu,
         NEW okC \in Registered, NEW okU \in Registered,
         Connect(c, u, f, g, wc, wu, okC, okU), dead' = dead
  PROVE  NoneForgotten'
<1>1. okC /\ okU
  BY Zenon DEF Registered
<1>2. poll' = Append_poll(Append_poll(poll, g, ReadEvents, u), f, ReadEvents, c)
  BY <1>1, Zenon DEF Connect
<1>3. f # g
  BY ConnectFacts
<1>4. /\ poll'[f].ptr = c /\ poll'[g].ptr = u
      /\ \A h \in Fd \ {f, g} : poll'[h] = poll[h]
  BY <1>2, <1>3 DEF Append_poll, TypeInv, TypeOK, KernelTypeOK
<1> QED
  BY <1>4, ConnectFacts DEF NoneForgotten

LEMMA ForgottenHandle ==
  ASSUME TypeInv, LifetimeInv, FdInv, NoneForgotten, NEW e \in batch, Handles(e)
  PROVE  NoneForgotten'
<1> SUFFICES ASSUME NEW x \in alloc', cfd'[x] # NoFd
             PROVE  poll'[cfd'[x]].ptr = x \/ x \in Range(dead')
  BY DEF NoneForgotten
<1> DEFINE c == e.ptr
           p == peer[c]
<1>1. /\ c # NULL /\ c \in Ctx /\ c \in alloc /\ cfd[c] \in Fd
      /\ p # NULL => p \in Ctx /\ p \in alloc /\ p # c /\ cfd[p] \in Fd
  BY HandleLinks, HandledContext DEF Handling
<1>2. UNCHANGED <<alloc, cfd>>
  BY HandleLinks
<1>3. x \in alloc /\ cfd[x] \in Fd /\ cfd[x] # NoFd
  BY <1>2 DEF TypeInv, TypeOK
<1>4. poll[cfd[x]].ptr = x \/ x \in Range(dead)
  BY <1>3 DEF NoneForgotten
<1>5. \A y \in alloc : cfd[x] = cfd[y] => x = y
  BY <1>3 DEF FdInv, FdOwnership
<1>6. CASE ReturnFalse(c)
  <2>1. dead' = Append(dead, c) /\ Range(dead') = Range(dead) \cup {c}
    BY <1>1, <1>6, DeadAppend DEF ReturnFalse, TypeInv, TypeOK
  <2>2. cfd[x] # cfd[c] => poll'[cfd[x]] = poll[cfd[x]]
    BY <1>1, <1>3, <1>6 DEF ReturnFalse, Remove_poll, TypeInv, TypeOK, KernelTypeOK
  <2> QED
    BY <1>1, <1>2, <1>4, <1>5, <2>1, <2>2
<1>7. CASE UNCHANGED <<dead, poll>>
  BY <1>2, <1>4, <1>7
<1>8. CASE dead' = dead /\ p # NULL /\ (poll' = Resume(c, p) \/ poll' = Pause(c, p))
  <2>1. \/ poll'[cfd[x]].ptr = poll[cfd[x]].ptr
        \/ cfd[x] = cfd[c] /\ poll'[cfd[x]].ptr = c
        \/ cfd[x] = cfd[p] /\ poll'[cfd[x]].ptr = p
    BY <1>1, <1>3, <1>8, RearmOwn
  <2> QED
    BY <1>1, <1>2, <1>4, <1>5, <1>8, <2>1
<1> QED
  BY <1>6, <1>7, <1>8, HandleLinks

LEMMA ForgottenNext ==
  ASSUME NoStrayClose, "append_poll" \notin Faults, Inv, FdInv, NoneForgotten, [Next]_vars
  PROVE  NoneForgotten'
<1> USE DEF Inv
<1>1. CASE \/ Epoll_wait \/ Epoll_fail \/ UNCHANGED vars
           \/ AcceptNoMemory \/ AcceptRefused \/ AcceptConnectFails
           \/ Remote /\ UNCHANGED <<loopVars, ctxVars>>
  <2>1. UNCHANGED <<alloc, cfd, dead, poll>>
    BY <1>1 DEF Epoll_wait, Epoll_fail, AcceptNoMemory, AcceptRefused, AcceptConnectFails,
                Accepting, Connectable, Remote, Arrive, RemoteSend, RemoteRead, RemoteFin,
                RemoteReset, vars, loopVars, ctxVars, kernelVars
  <2> QED
    BY <2>1 DEF NoneForgotten
<1>2. CASE AcceptFails
  <2>1. PICK c \in Free : alloc' = alloc \cup {c}
    BY <1>2 DEF AcceptFails
  <2>2. UNCHANGED <<cfd, poll, dead>>
    BY <1>2 DEF AcceptFails, Accepting
  <2>3. cfd[c] = NoFd
    BY DEF Free, FdInv
  <2> QED
    BY <2>1, <2>2, <2>3 DEF NoneForgotten
<1>3. CASE AcceptNoUpstream
  BY <1>3 DEF AcceptNoUpstream, LacksUpstream, NoStrayClose
<1>4. CASE AcceptConnected
  <2>1. PICK c \in Free, u \in Free, f \in Fd, g \in Fd,
             wc \in DirtyFlag, wu \in DirtyFlag, okC \in Registered, okU \in Registered :
          Connect(c, u, f, g, wc, wu, okC, okU)
    BY <1>4 DEF AcceptConnected
  <2>2. dead' = dead
    BY <1>4 DEF AcceptConnected, Connectable, Accepting
  <2> QED
    BY <2>1, <2>2, ForgottenConnect
<1>5. CASE Handle
  <2>1. PICK e \in batch : Handles(e)
    BY <1>5 DEF Handle, Handles
  <2> QED
    BY <2>1, ForgottenHandle
<1>6. CASE Sweep
  <2>1. PICK F : F = OwnedFds(Range(dead))
    OBVIOUS
  <2> QED
    BY <1>6, <2>1, SweepFacts DEF NoneForgotten
<1> QED
  BY <1>1, <1>2, <1>3, <1>4, <1>5, <1>6 DEF Next, LoopStep, Accept

\* No context with a descriptor is out of the loop's reach: as long as epoll_ctl
\* registers what it is asked to, an event or a sweep can still free it.
THEOREM ContextsNeverForgotten ==
  ASSUME NoStrayClose, "append_poll" \notin Faults
  PROVE  Spec => []NoneForgotten
<1>1. Init => NoneForgotten
  BY DEF Init, NoneForgotten
<1>2. Inv /\ FdInv /\ NoneForgotten /\ [Next]_vars => NoneForgotten'
  BY ForgottenNext
<1> QED
  BY <1>1, <1>2, FdInvariance, PTL DEF Spec
=============================================================================
