----------------------------- MODULE EventLoop ------------------------------
(***************************************************************************)
(* The single-threaded core of sm3tproxy: the accept path and the epoll    *)
(* loop of sm3t__run_server (src/proxy/sm3t_server.c), the lifetime of a   *)
(* sm3t_context_t and the TCP handler sm3t__tcp_ctx_handler                *)
(* (src/proxy/sm3t_ctx.c).                                                 *)
(*                                                                         *)
(* One step is one system call batch: epoll_wait, the handling of one      *)
(* event of the batch, or the sweep of the dead contexts at its end.       *)
(* Nothing else runs in the process, but the remote programs (module       *)
(* Kernel) may act between any two steps, so an event may be stale when it *)
(* is handled.  The read_eof and write_eof flags are written and never     *)
(* read by the code, and are left out.                                     *)
(***************************************************************************)
EXTENDS Kernel, Functions

CONSTANTS
  Mode,        \* tcp.listen.mode
  MaxEvent,    \* SM3T_MAX_EVENT
  BufferSize,  \* SM3T_BUFFER_SIZE
  HookDrops,   \* whether on_connect and on_data may answer SM3T_HOOK_DROP
  Rewrites,    \* the data on_data may put in place of what was received
  DirtyFlag    \* the values wpartial may have in memory that malloc returns

ASSUME LoopAssumption ==
  /\ Mode \in {"transparent", "forward", "socks5"}
  /\ MaxEvent \in Nat \ {0}
  /\ BufferSize \in Nat \ {0, 1}
  /\ HookDrops \in BOOLEAN
  /\ Rewrites \subseteq Seq(Byte)
  /\ \A d \in Rewrites : Len(d) \in 1..BufferSize
  /\ DirtyFlag \subseteq BOOLEAN /\ DirtyFlag # {}

VARIABLES
  proc,      \* the process: running, also with its epoll descriptor closed
             \* ("no_epoll"), or how it ended
  loop,      \* blocked in epoll_wait, or working through a batch
  batch,     \* ev_list: the events of this batch that are not handled yet
  dead,      \* dead_ctxs: contexts to clean up when the batch is done
  alloc,     \* the contexts that are malloc'ed and not yet freed
  cfd,       \* ctx->fd
  peer,      \* ctx->peer
  wpartial,  \* ctx->wpartial
  wstart,    \* ctx->wstart
  wlen,      \* ctx->wlen
  buffer,    \* ctx->buffer, as long as it holds queued bytes
  owed       \* history: bytes received and released by on_data for this context

ctxVars == <<alloc, cfd, peer, wpartial, wstart, wlen, buffer, owed>>
queueVars == <<wpartial, wstart, wlen, buffer>>
loopVars == <<proc, loop, batch, dead>>
vars == <<loopVars, ctxVars, kernelVars>>

NoFd == -1     \* SM3T__ERR, and every value that is not a descriptor

ReadEvents  == {"IN", "RDHUP"}
PauseEvents == {"RDHUP"}
WriteEvents == {"IN", "OUT", "RDHUP"}

\* One entry of ev_list; the listener's has no context.
Ev(c, evs) == [ptr |-> c, ev |-> evs]
ListenEv == Ev(NULL, {"IN"})

TypeOK ==
  /\ KernelTypeOK
  /\ proc \in {"run", "no_epoll", "segv", "sigpipe", "oom", "exit"}
  /\ loop \in {"wait", "batch"}
  /\ batch \subseteq [ptr : Ctx \cup {NULL}, ev : SUBSET Event]
  /\ dead \in Seq(Ctx)
  /\ alloc \subseteq Ctx
  /\ cfd \in [Ctx -> Fd \cup {NoFd}]
  /\ peer \in [Ctx -> Ctx \cup {NULL}]
  /\ wpartial \in [Ctx -> BOOLEAN]
  /\ wstart \in [Ctx -> Nat]
  /\ wlen \in [Ctx -> Nat]
  /\ buffer \in [Ctx -> Seq(Byte)]
  /\ owed \in [Ctx -> Seq(Byte)]

Init ==
  /\ KernelInit
  /\ proc = "run"
  /\ loop = "wait"
  /\ batch = {}
  /\ dead = <<>>
  /\ alloc = {}
  /\ cfd = [c \in Ctx |-> NoFd]
  /\ peer = [c \in Ctx |-> NULL]
  /\ wpartial = [c \in Ctx |-> FALSE]
  /\ wstart = [c \in Ctx |-> 0]
  /\ wlen = [c \in Ctx |-> 0]
  /\ buffer = [c \in Ctx |-> <<>>]
  /\ owed = [c \in Ctx |-> <<>>]

-----------------------------------------------------------------------------
(* The loop: epoll_wait fills a batch, the batch is handled entry by entry *)
(* and its dead contexts are swept.                                        *)

ReadyEvs ==
  {Ev(poll[f].ptr, Ready(f)) : f \in ReadyFds}
    \cup (IF backlog > 0 THEN {ListenEv} ELSE {})

\* The order in which the batch is handled is the kernel's choice; it is made
\* entry by entry, when Handle picks one.
Epoll_wait ==
  /\ proc = "run"
  /\ loop = "wait"
  /\ ReadyEvs # {}
  /\ batch' \in {B \in SUBSET ReadyEvs :
                   \/ B = ReadyEvs /\ Cardinality(B) <= MaxEvent
                   \/ Cardinality(B) = MaxEvent}
  /\ loop' = "batch"
  /\ UNCHANGED <<proc, dead, ctxVars, kernelVars>>

\* epoll_wait fails (EINTR after a stop and continue, or EBADF): the loop is
\* left, the listener and the epoll instance are closed and the process exits.
Epoll_fail ==
  /\ "epoll_wait" \in Faults \/ proc = "no_epoll"
  /\ loop = "wait"
  /\ proc' = "exit"
  /\ UNCHANGED <<loop, batch, dead, ctxVars, kernelVars>>

\* sm3t__cleanup_vec(dead_ctxs, sm3t__cleanup_ctx): every dead context's
\* descriptor is closed and its memory freed. What is left in freed memory
\* nobody reads; malloc chooses it anew.
Freed(f, F, v) == [c \in Ctx |-> IF c \in F THEN v ELSE f[c]]

\* Mutant: the vector keeps its size, so the next sweep frees again.
ClearDeadNot == dead

ClearDead == <<>>

\* Mutant: a context is freed and its descriptor forgotten.
OwnedFdsNone(D) == {}

\* The descriptors sm3t__cleanup_ctx closes: if (ctx->fd > 0) close(ctx->fd).
OwnedFds(D) == {cfd[c] : c \in D} \ {NoFd}

Sweep ==
  /\ loop = "batch"
  /\ batch = {}
  /\ LET D == Range(dead)
         F == OwnedFds(D)
     IN  /\ alloc' = alloc \ D
         /\ sock' = CloseSocks(F)
         /\ poll' = ClosePolls(F)
         /\ out' = CloseOuts(F)
         /\ cfd' = Freed(cfd, D, NoFd)
         /\ wpartial' = Freed(wpartial, D, FALSE)
         /\ wstart' = Freed(wstart, D, 0)
         /\ wlen' = Freed(wlen, D, 0)
         /\ buffer' = Freed(buffer, D, <<>>)
         /\ owed' = Freed(owed, D, <<>>)
  /\ dead' = ClearDead
  /\ loop' = "wait"
  /\ UNCHANGED <<proc, batch, peer, backlog, arrived>>

-----------------------------------------------------------------------------
(* A new client: sm3t_server.c, the branch for the listening socket.       *)

\* Mutant: the event is kept, as if accept() were called until it fails.
AcceptingAgain ==
  /\ loop = "batch"
  /\ ListenEv \in batch
  /\ UNCHANGED <<loop, batch, dead>>

\* The listener is level-triggered and only this branch accepts, once per
\* batch, so a connection is queued whenever its event is handled.
Accepting ==
  /\ loop = "batch"
  /\ ListenEv \in batch
  /\ backlog > 0
  /\ batch' = batch \ {ListenEv}
  /\ UNCHANGED <<loop, dead>>

Free == Ctx \ alloc

\* sm3t__new_ctx finds no memory for the client's context, or, once the
\* client is accepted, for the upstream's: SM3T__OUT_OF_MEMORY exits.
AcceptNoMemory ==
  /\ Accepting
  /\ \/ Free = {}
     \/ Cardinality(Free) = 1 /\ FreeFds # {}
  /\ proc' = "oom"
  /\ UNCHANGED <<ctxVars, kernelVars>>

\* accept() fails: the client is gone again, or no descriptor is left, in
\* which case it stays in the accept queue. The new context is not freed.
AcceptFails ==
  /\ Accepting
  /\ \E c \in Free : alloc' = alloc \cup {c}
  /\ \/ "accept" \in Faults /\ backlog' = backlog - 1
     \/ FreeFds = {} /\ backlog' = backlog
  /\ UNCHANGED <<proc, cfd, peer, queueVars, owed, sock, poll, out, arrived>>

\* The client is accepted and cleaned up before an upstream context exists:
\* getpeername() fails or on_connect answers SM3T_HOOK_DROP.
AcceptRefused ==
  /\ Accepting
  /\ Free # {}
  /\ FreeFds # {}
  /\ "getpeername" \in Faults \/ HookDrops
  /\ backlog' = backlog - 1
  /\ UNCHANGED <<proc, ctxVars, sock, poll, out, arrived>>

\* No upstream is found for an accepted client: SO_ORIGINAL_DST fails, the
\* ring of upstreams could not be allocated when the server started, which
\* nobody noticed ("enqueue"), or the mode is SOCKS5. inet_pton cannot fail
\* for the one address there is, the constant 127.0.0.1.
LacksUpstream ==
  \/ Mode = "transparent" /\ "orig_dst" \in Faults
  \/ Mode = "forward" /\ "enqueue" \in Faults
  \/ Mode = "socks5"

(* Both contexts are then cleaned up before the upstream's fd is assigned:  *)
(* its memory is uninitialised, and sm3t__cleanup_ctx closes whatever       *)
(* number it holds.  The client's own descriptor is closed before that.     *)

\* The number of a connection, or of nothing the loop uses.
StrayClose ==
  /\ backlog' = backlog - 1
  /\ \E g \in Fd \cup {NoFd} :
       /\ sock' = CloseSocks({g} \ {NoFd})
       /\ poll' = ClosePolls({g} \ {NoFd})
       /\ out' = CloseOuts({g} \ {NoFd})
  /\ UNCHANGED <<proc, arrived>>

\* The listener's: what waits in its accept queue is gone and nothing arrives
\* any more.
StrayCloseListener ==
  /\ backlog' = 0
  /\ arrived' = MaxConn
  /\ UNCHANGED <<proc, sock, poll, out>>

\* The epoll instance's: its interest list is gone, so that the rest of the
\* batch can change nothing there, and the next epoll_wait fails.
StrayCloseEpoll ==
  /\ backlog' = backlog - 1
  /\ poll' = ClosePolls(Fd)
  /\ proc' = "no_epoll"
  /\ UNCHANGED <<sock, out, arrived>>

AcceptNoUpstream ==
  /\ Accepting
  /\ LacksUpstream
  /\ Cardinality(Free) >= 2
  /\ FreeFds # {}
  /\ StrayClose \/ StrayCloseListener \/ StrayCloseEpoll
  /\ UNCHANGED ctxVars

Connectable ==
  /\ Accepting
  /\ Mode = "transparent" \/ (Mode = "forward" /\ "enqueue" \notin Faults)
  /\ Cardinality(Free) >= 2
  /\ backlog' = backlog - 1

\* socket() or connect() fails: fd is SM3T__ERR and only the client's is closed.
AcceptConnectFails ==
  /\ Connectable
  /\ FreeFds # {}
  /\ "connect" \in Faults \/ Cardinality(FreeFds) = 1
  /\ UNCHANGED <<proc, ctxVars, sock, poll, out, arrived>>

\* Mutant: the upstream context does not learn its peer.
LinkClientOnly(c, u) == [peer EXCEPT ![c] = u]

Link(c, u) == [peer EXCEPT ![c] = u, ![u] = c]

\* The pair is linked and both descriptors are registered, the upstream's
\* first. Whether sm3t__append_poll succeeded is not looked at.
Registered == IF "append_poll" \in Faults THEN BOOLEAN ELSE {TRUE}

\* wpartial is what malloc left there. So are wstart and wlen, which a model
\* context starts with at 0: a queue's length and start are written before its
\* EPOLLOUT is asked for and not read before that (OutOnlyQueued).
Connect(c, u, f, g, wc, wu, okC, okU) ==
  /\ c # u
  /\ IsLowest(f, FreeFds)
  /\ IsLowest(g, FreeFds \ {f})
  /\ alloc' = alloc \cup {c, u}
  /\ cfd' = [cfd EXCEPT ![c] = f, ![u] = g]
  /\ peer' = Link(c, u)
  /\ wpartial' = [wpartial EXCEPT ![c] = wc, ![u] = wu]
  /\ sock' = [sock EXCEPT ![f] = NewSocket("client"), ![g] = NewSocket("upstream")]
  /\ LET pu == IF okU THEN Append_poll(poll, g, ReadEvents, u) ELSE poll
     IN  poll' = IF okC THEN Append_poll(pu, f, ReadEvents, c) ELSE pu

AcceptConnected ==
  /\ Connectable
  /\ \E c, u \in Free, f, g \in Fd, wc, wu \in DirtyFlag, okC, okU \in Registered :
       Connect(c, u, f, g, wc, wu, okC, okU)
  /\ UNCHANGED <<proc, wstart, wlen, buffer, owed, out, arrived>>

Accept ==
  \/ AcceptNoMemory \/ AcceptFails \/ AcceptRefused
  \/ AcceptNoUpstream \/ AcceptConnectFails \/ AcceptConnected

-----------------------------------------------------------------------------
(* An event on a context: sm3t__tcp_ctx_handler, and the removal of the    *)
(* context by the loop when the handler returns false.                     *)

Handling(e) ==
  /\ loop = "batch"
  /\ e \in batch
  /\ e.ptr # NULL
  /\ batch' = batch \ {e}
  /\ loop' = loop

\* Mutant: the context is not appended to dead_ctxs.
ReturnFalseLeaks(c) ==
  /\ poll' = Remove_poll(poll, cfd[c])
  /\ UNCHANGED dead

\* The handler returned false: sm3t__remove_poll and sm3t__vec_append.
ReturnFalse(c) ==
  /\ poll' = Remove_poll(poll, cfd[c])
  /\ dead' = Append(dead, c)

\* The two contexts let go of each other. Every path on which the handler of
\* a linked context returns false does this.
\* Mutant: only ctx forgets its peer.
UnlinkSelfOnly(c) == [peer EXCEPT ![c] = NULL]

Unlink(c) == [peer EXCEPT ![c] = NULL, ![peer[c]] = NULL]

Drop(c) ==
  /\ ReturnFalse(c)
  /\ peer' = Unlink(c)
  /\ UNCHANGED <<proc, alloc, cfd, queueVars, owed, out, backlog, arrived>>

\* The handler returned true and changed nothing.
Idle ==
  UNCHANGED <<proc, dead, ctxVars, kernelVars>>

Dies(how) ==
  /\ proc' = how
  /\ UNCHANGED <<dead, ctxVars, kernelVars>>

(* The peer is gone. *)

\* Mutant: the handler returns true for it.
HandleOrphanKept(e) ==
  /\ Handling(e)
  /\ peer[e.ptr] = NULL
  /\ ~wpartial[e.ptr]
  /\ Idle

\* Nothing is queued: the context dies.
HandleOrphan(e) ==
  LET c == e.ptr IN
  /\ Handling(e)
  /\ peer[c] = NULL
  /\ ~wpartial[c]
  /\ ReturnFalse(c)
  /\ UNCHANGED <<proc, ctxVars, sock, out, backlog, arrived>>

\* Bytes are queued: ctx->peer->fd reads through NULL.
HandleNullPeer(e) ==
  /\ Handling(e)
  /\ peer[e.ptr] = NULL
  /\ wpartial[e.ptr]
  /\ Dies("segv")

(* EPOLLOUT with queued bytes: flush them. *)

Flushing(e) ==
  /\ Handling(e)
  /\ peer[e.ptr] # NULL
  /\ "OUT" \in e.ev
  /\ wpartial[e.ptr]

\* Mutant: what was flushed before is sent again.
QueuedFromStart(c) == SubSeq(buffer[c], 1, wlen[c])

Queued(c) == SubSeq(buffer[c], wstart[c] + 1, wstart[c] + wlen[c])

FlushBlocked(e) ==
  /\ Flushing(e)
  /\ SendOk(cfd[e.ptr])
  /\ Space(cfd[e.ptr]) = 0 \/ "eintr" \in Faults
  /\ Idle

FlushFails(e) ==
  /\ Flushing(e)
  /\ \/ SendFails(cfd[e.ptr])
     \/ SendOk(cfd[e.ptr]) /\ "send_zero" \in Faults
  /\ Drop(e.ptr)
  /\ UNCHANGED sock

FlushKilled(e) ==
  /\ Flushing(e)
  /\ SendKills(cfd[e.ptr])
  /\ Dies("sigpipe")

\* Mutant: the length asked for is added, not the length sent.
AdvanceAll(c, n) == wstart[c] + wlen[c]

Advance(c, n) == wstart[c] + n

FlushSome(e) ==
  LET c == e.ptr
      f == cfd[c]
      n == Space(f)
  IN  /\ Flushing(e)
      /\ SendOk(f)
      /\ 0 < n /\ n < wlen[c]
      /\ sock' = [sock EXCEPT ![f].used = @ + n]
      /\ out' = [out EXCEPT ![f] = @ \o SubSeq(Queued(c), 1, n)]
      /\ wstart' = [wstart EXCEPT ![c] = Advance(c, n)]
      /\ wlen' = [wlen EXCEPT ![c] = @ - n]
      /\ UNCHANGED <<proc, dead, alloc, cfd, peer, wpartial, buffer, owed,
                     poll, backlog, arrived>>

\* Everything is sent: both ends go back to reading.
\* Mutant: the paused peer is not armed again.
ResumeSelfOnly(c, p) == Modify_poll(poll, cfd[c], ReadEvents, c)

\* Mutant: the context that was flushed keeps its EPOLLOUT.
ResumePeerOnly(c, p) == Modify_poll(poll, cfd[p], ReadEvents, p)

Resume(c, p) ==
  Modify_poll(Modify_poll(poll, cfd[c], ReadEvents, c), cfd[p], ReadEvents, p)

FlushAll(e) ==
  LET c == e.ptr
      f == cfd[c]
  IN  /\ Flushing(e)
      /\ SendOk(f)
      /\ 0 < Space(f) /\ wlen[c] <= Space(f)
      /\ sock' = [sock EXCEPT ![f].used = @ + wlen[c]]
      /\ out' = [out EXCEPT ![f] = @ \o Queued(c)]
      /\ wstart' = [wstart EXCEPT ![c] = 0]
      /\ wlen' = [wlen EXCEPT ![c] = 0]
      /\ wpartial' = [wpartial EXCEPT ![c] = FALSE]
      /\ buffer' = [buffer EXCEPT ![c] = <<>>]
      /\ poll' = Resume(c, peer[c])
      /\ UNCHANGED <<proc, dead, alloc, cfd, peer, owed, backlog, arrived>>

Flush(e) ==
  FlushBlocked(e) \/ FlushFails(e) \/ FlushKilled(e) \/ FlushSome(e) \/ FlushAll(e)

(* EPOLLIN, and the peer has nothing queued: receive, ask the hook, send.  *)

\* Past the flush branch, with a peer.
Linked(e) ==
  /\ Handling(e)
  /\ peer[e.ptr] # NULL
  /\ ~("OUT" \in e.ev /\ wpartial[e.ptr])

CanRead(c) == ~wpartial[peer[c]]

Reading(e) == Linked(e) /\ "IN" \in e.ev /\ CanRead(e.ptr)

\* shutdown(peer->fd, SHUT_WR), unless the peer still has bytes queued.
ShutPeer(c) == IF wpartial[peer[c]] THEN sock ELSE Shutdown(cfd[peer[c]])

ReadFails(e) ==
  /\ Reading(e)
  /\ RecvFails(cfd[e.ptr])
  /\ Drop(e.ptr)
  /\ UNCHANGED sock

ReadEof(e) ==
  /\ Reading(e)
  /\ RecvEof(cfd[e.ptr])
  /\ Drop(e.ptr)
  /\ sock' = ShutPeer(e.ptr)

\* recv() reads at most SM3T_BUFFER_SIZE - 1 bytes.
Take(c) == IF Len(sock[cfd[c]].rcv) < BufferSize
           THEN Len(sock[cfd[c]].rcv) ELSE BufferSize - 1
Received(c) == SubSeq(sock[cfd[c]].rcv, 1, Take(c))
Unread(c) == SubSeq(sock[cfd[c]].rcv, Take(c) + 1, Len(sock[cfd[c]].rcv))

\* What on_data may leave in the buffer: the data itself, or other data.
Released(c) == {Received(c)} \cup Rewrites

\* memcpy of d to the start of a buffer that holds b.
Overwrite(b, d) == d \o SubSeq(b, Len(d) + 1, Len(b))

\* The terminator a hook's answer gets in the buffer.
Nul == <<0, 0>>

\* recv() and on_data write to ctx->buffer, where bytes queued for ctx itself
\* may still be waiting. The terminator is written if there is a hook and it
\* does not fail.
Clobbered(c, d) ==
  IF wlen[c] = 0
  THEN {buffer[c]}
  ELSE {Overwrite(Overwrite(buffer[c], Received(c)), w) : w \in {d, Append(d, Nul)}}

\* on_data answers SM3T_HOOK_DROP, or send() fails: what was read is lost.
ReadDropped(e) ==
  LET c == e.ptr IN
  /\ Reading(e)
  /\ RecvData(cfd[c])
  /\ HookDrops \/ SendFails(cfd[peer[c]])
  /\ Drop(c)
  /\ sock' = [sock EXCEPT ![cfd[c]].rcv = Unread(c)]

ReadKilled(e) ==
  /\ Reading(e)
  /\ RecvData(cfd[e.ptr])
  /\ SendKills(cfd[peer[e.ptr]])
  /\ Dies("sigpipe")

\* send() returns 0: the peer is shut down.
ReadSentZero(e) ==
  LET c == e.ptr IN
  /\ Reading(e)
  /\ RecvData(cfd[c])
  /\ SendOk(cfd[peer[c]]) /\ "send_zero" \in Faults
  /\ Drop(c)
  /\ sock' = [sock EXCEPT ![cfd[c]].rcv = Unread(c), ![cfd[peer[c]]].shut = TRUE]

RelayAll(e) ==
  LET c == e.ptr
      p == peer[c]
  IN  /\ Reading(e)
      /\ RecvData(cfd[c])
      /\ SendOk(cfd[p])
      /\ \E d \in Released(c) :
           /\ Len(d) <= Space(cfd[p])
           /\ sock' = [sock EXCEPT ![cfd[c]].rcv = Unread(c),
                                   ![cfd[p]].used = @ + Len(d)]
           /\ out' = [out EXCEPT ![cfd[p]] = @ \o d]
           /\ owed' = [owed EXCEPT ![p] = @ \o d]
           /\ \E b \in Clobbered(c, d) : buffer' = [buffer EXCEPT ![c] = b]
      /\ UNCHANGED <<proc, dead, alloc, cfd, peer, wpartial, wstart, wlen,
                     poll, backlog, arrived>>

\* Mutant: the whole of the data is queued again after a partial send.
LeftoverAll(d, n) == d

\* What send() did not take, memcpy'd to the start of peer->buffer.
Leftover(d, n) == SubSeq(d, n + 1, Len(d))

\* Mutant: the reader is not paused.
PauseNot(c, p) == Modify_poll(poll, cfd[p], WriteEvents, p)

\* Mutant: the peer is not asked to report EPOLLOUT.
PauseSelfOnly(c, p) == Modify_poll(poll, cfd[c], PauseEvents, c)

Pause(c, p) ==
  Modify_poll(Modify_poll(poll, cfd[c], PauseEvents, c), cfd[p], WriteEvents, p)

\* The number of bytes a send() of more than that takes. EAGAIN and EINTR
\* are handled like a send of 0 bytes.
Taken(f) == {Space(f)} \cup (IF "eintr" \in Faults THEN {0} ELSE {})

\* send() takes n bytes, fewer than there are: the rest is queued in the peer
\* and ctx is not read until the peer has flushed it.
RelayQueue(e) ==
  LET c == e.ptr
      p == peer[c]
  IN  /\ Reading(e)
      /\ RecvData(cfd[c])
      /\ SendOk(cfd[p])
      /\ \E d \in Released(c), n \in Taken(cfd[p]) :
           /\ n < Len(d)
           /\ sock' = [sock EXCEPT ![cfd[c]].rcv = Unread(c),
                                   ![cfd[p]].used = @ + n]
           /\ out' = [out EXCEPT ![cfd[p]] = @ \o SubSeq(d, 1, n)]
           /\ owed' = [owed EXCEPT ![p] = @ \o d]
           /\ \E b \in Clobbered(c, d) :
                buffer' = [buffer EXCEPT ![c] = b, ![p] = Leftover(d, n)]
           /\ wlen' = [wlen EXCEPT ![p] = Len(Leftover(d, n))]
      /\ wpartial' = [wpartial EXCEPT ![p] = TRUE]
      /\ wstart' = [wstart EXCEPT ![p] = 0]
      /\ poll' = Pause(c, p)
      /\ UNCHANGED <<proc, dead, alloc, cfd, peer, backlog, arrived>>

Read(e) ==
  \/ ReadFails(e) \/ ReadEof(e) \/ ReadDropped(e) \/ ReadKilled(e)
  \/ ReadSentZero(e) \/ RelayAll(e) \/ RelayQueue(e)

(* CHECK_HUP: nothing was read. *)

\* Mutant: the hang-up is looked at whether or not there was data to read.
NotReadEager(e) == Linked(e)

NotRead(e) ==
  /\ Linked(e)
  /\ \/ ~("IN" \in e.ev /\ CanRead(e.ptr))
     \/ "eintr" \in Faults /\ sock[cfd[e.ptr]].open

\* Mutant: the end of one direction is passed on and the context kept.
HangUpHalf(e) ==
  /\ NotRead(e)
  /\ "RDHUP" \in e.ev
  /\ sock' = ShutPeer(e.ptr)
  /\ UNCHANGED <<proc, dead, ctxVars, poll, out, backlog, arrived>>

HangUp(e) ==
  /\ NotRead(e)
  /\ "RDHUP" \in e.ev
  /\ Drop(e.ptr)
  /\ sock' = ShutPeer(e.ptr)

NothingToDo(e) ==
  /\ NotRead(e)
  /\ "RDHUP" \notin e.ev
  /\ Idle

Handle ==
  \E e \in batch :
    \/ HandleOrphan(e) \/ HandleNullPeer(e)
    \/ Flush(e) \/ Read(e)
    \/ HangUp(e) \/ NothingToDo(e)

-----------------------------------------------------------------------------

Running == proc \in {"run", "no_epoll"}

LoopStep == Running /\ (Epoll_wait \/ Accept \/ Handle \/ Sweep)

Next ==
  \/ LoopStep
  \/ Running /\ Epoll_fail
  \/ Running /\ Remote /\ UNCHANGED <<loopVars, ctxVars>>

Spec == Init /\ [][Next]_vars

\* The process keeps running: a step of the loop that stays possible is taken.
FairSpec == Spec /\ WF_vars(LoopStep)

\* Moreover every remote program keeps reading what it is sent.
ReadingSpec ==
  FairSpec /\ \A f \in Fd :
    WF_vars(Running /\ RemoteRead(f) /\ UNCHANGED <<loopVars, ctxVars>>)

-----------------------------------------------------------------------------
(* Properties. *)

\* Every pointer the loop may still follow - in the rest of the batch, in the
\* epoll set, in a context's peer, in the dead list - points to a context that
\* is allocated, and no context is queued twice to be freed. Contexts die in
\* the middle of a batch whose later events may concern them or their peer.
NoDanglingContext ==
  /\ \A e \in batch : e.ptr = NULL \/ e.ptr \in alloc
  /\ \A f \in Fd : poll[f].ptr = NULL \/ poll[f].ptr \in alloc
  /\ \A c \in alloc : peer[c] = NULL \/ peer[c] \in alloc
  /\ Range(dead) \subseteq alloc
  /\ IsInjective(dead)

\* The two contexts of a connection name each other, and neither is waiting
\* to be freed: a context that dies is unlinked from both sides.
PeersMutual ==
  \A c \in alloc :
    peer[c] # NULL =>
      /\ peer[peer[c]] = c
      /\ peer[c] # c
      /\ c \notin Range(dead)

(* The two hold together with what keeps them true from step to step. *)

\* An event is kept only for a registered context, once, and a context is not
\* swept before its event is handled.
BatchOK ==
  /\ \A e \in batch : e.ptr # NULL =>
       e.ptr \in alloc /\ cfd[e.ptr] \in Fd /\ e.ptr \notin Range(dead)
  /\ \A e1, e2 \in batch : e1.ptr = e2.ptr => e1 = e2

\* A registration names the context whose descriptor it is.
PollOK ==
  \A f \in Fd : poll[f].ptr # NULL =>
    /\ poll[f].ptr \in alloc
    /\ cfd[poll[f].ptr] = f
    /\ poll[f].ptr \notin Range(dead)

DeadOK ==
  /\ \A c \in Range(dead) : c \in alloc /\ peer[c] = NULL
  /\ IsInjective(dead)

PeerOK ==
  \A c \in Ctx : peer[c] # NULL =>
    /\ c \in alloc /\ peer[c] \in alloc
    /\ cfd[c] \in Fd
    /\ peer[c] # c
    /\ peer[peer[c]] = c

\* Between two batches nothing is left of the last one.
WaitOK == loop = "wait" => batch = {} /\ dead = <<>>

\* The lifetime of a context: the inductive invariant behind the two above.
LifetimeInv == BatchOK /\ PollOK /\ DeadOK /\ PeerOK /\ WaitOK

\* A context that owns a descriptor owns it alone and it is open, and every
\* open socket has its context: no descriptor is closed twice, used after
\* its number was handed out again, or forgotten.
FdOwnership ==
  /\ \A c \in alloc : cfd[c] # NoFd => sock[cfd[c]].open
  /\ \A c, d \in alloc : cfd[c] # NoFd /\ cfd[c] = cfd[d] => c = d
  /\ \A f \in Fd : sock[f].open => \E c \in alloc : cfd[c] = f

\* Bytes queued in a context are bytes that were copied to its buffer, and
\* lie within it: memcpy to peer->buffer and the advance of a flush.
QueueInBuffer ==
  \A c \in Ctx :
    /\ wstart[c] + wlen[c] <= Len(buffer[c])
    /\ wstart[c] + wlen[c] <= BufferSize

\* No send follows a shutdown(SHUT_WR) of the same socket, which would kill
\* the process with SIGPIPE: a context that still has a peer was not shut down.
NoSendAfterShutdown ==
  \A c \in alloc : peer[c] # NULL => ~sock[cfd[c]].shut

\* SIGPIPE ends the process only if a remote reset a connection after closing
\* it, never for a shutdown of the proxy's own, whichever calls fail, as long
\* as no descriptor is closed that is not the context's own.
PipeOnlyByReset ==
  proc = "sigpipe" => \E f \in Fd : sock[f].open /\ sock[f].err = "pipe"

\* EPOLLOUT is asked for, and reported, only for a context with bytes queued.
\* So no flush sends from the wstart and wlen that malloc left in a context,
\* and the loop, whose events are level-triggered, does not spin on a socket
\* that is writable with nothing to write, also after a registration that
\* failed and with queues in both directions.
OutOnlyQueued ==
  /\ \A f \in Fd : "OUT" \in poll[f].ev => poll[f].ptr # NULL /\ wlen[poll[f].ptr] > 0
  /\ \A e \in batch : "OUT" \in e.ev => e.ptr # NULL /\ wlen[e.ptr] > 0

\* Back-pressure: a context is paused exactly while its peer has bytes queued,
\* and then the peer waits for EPOLLOUT. No wake-up is lost.
PausedIffQueued ==
  \A c \in alloc :
    peer[c] # NULL =>
      LET p == peer[c] IN
      /\ wpartial[p] <=> poll[cfd[c]].ev = PauseEvents
      /\ wpartial[p] <=> poll[cfd[p]].ev = WriteEvents
      /\ wpartial[p] => wlen[p] > 0

\* What the kernel accepted for c, followed by what is queued in it, is what
\* on_data released for it.
StreamWhole(c) ==
  c \in alloc /\ cfd[c] # NoFd =>
    out[cfd[c]] \o (IF wpartial[c] THEN Queued(c) ELSE <<>>) = owed[c]

\* No byte is lost, repeated, reordered or replaced between a recv and the
\* send calls it leads to.
StreamIntegrity == \A c \in Ctx : StreamWhole(c)

\* A recv on a linked context for which bytes are queued: it writes to the
\* buffer they wait in.
ReadOverQueue(c) ==
  /\ peer[c] # NULL /\ wlen[c] > 0
  /\ Len(sock'[cfd[c]].rcv) < Len(sock[cfd[c]].rcv)

\* With data in both directions streams do get spoiled, but in one way only:
\* no partial send, failure, close or reuse of a context or a descriptor does
\* it to any stream, and a recv over a queue only to the stream queued there.
SpoiledOnlyByOwnRead ==
  [][\A c \in Ctx : StreamWhole(c) /\ ~StreamWhole(c)' => ReadOverQueue(c)]_vars

\* The handler never reads ctx->fd through a null peer.
NoNullDeref == proc # "segv"

\* While neither end of a connection is reset, a context that is given up in a
\* step that reads nothing has nothing left to read, however the remote's data
\* and its FIN race with the batch. (A context that was paused when its batch
\* was taken is the exception: where this is checked no send is ever partial.)
DrainedBeforeClose ==
  [][\A c \in Ctx :
       /\ peer[c] # NULL
       /\ c \notin Range(dead) /\ c \in Range(dead')
       /\ sock[cfd[c]].err = "none" /\ sock[cfd[peer[c]]].err = "none"
       /\ sock'[cfd[c]].rcv = sock[cfd[c]].rcv
       => sock[cfd[c]].rcv = <<>>]_vars

\* A context that owns a descriptor is in the reach of the loop, by its
\* registration or in the list of the dead: otherwise neither an event nor a
\* sweep would ever free it.
NoneForgotten ==
  \A c \in alloc :
    cfd[c] # NoFd => poll[cfd[c]].ptr = c \/ c \in Range(dead)

\* What a context was sent is what the kernel accepted on its descriptor.
Sent == [c \in Ctx |-> IF cfd[c] = NoFd THEN <<>> ELSE out[cfd[c]]]

R == INSTANCE Relay WITH End <- Ctx, None <- NULL, other <- peer, promised <- owed, sent <- Sent

\* The loop implements Relay: what is released for one end of a connection is
\* sent to that end, in order and once, and to no other, although contexts,
\* descriptors and buffers are used again for later connections.
Relays == R!Spec

\* A context without a peer is freed once its remote has sent, closed or
\* reset, whatever else the batch holds.
OrphanReaped ==
  \A c \in Ctx :
    (c \in alloc /\ cfd[c] # NoFd /\ peer[c] = NULL /\ Ready(cfd[c]) # {})
      ~> (c \notin alloc \/ proc # "run")

\* Queued bytes are sent in the end if the remote keeps reading: the EPOLLOUT
\* that flushes them is asked for and not lost.
QueueDrains ==
  \A c \in Ctx :
    (c \in alloc /\ wpartial[c])
      ~> (c \notin alloc \/ ~wpartial[c] \/ proc # "run")

\* What a remote sent on a linked context is read in the end if the remotes
\* keep reading: a reader that was paused is resumed.
DataRelayed ==
  \A c \in Ctx :
    (c \in alloc /\ peer[c] # NULL /\ sock[cfd[c]].rcv # <<>>)
      ~> (c \notin alloc \/ peer[c] = NULL \/ sock[cfd[c]].rcv = <<>> \/ proc # "run")
=============================================================================
