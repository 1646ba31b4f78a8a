------------------------------- MODULE Kernel -------------------------------
(***************************************************************************)
(* What sm3tproxy asks of the operating system: a table of connected TCP   *)
(* sockets, an epoll instance and the remote programs at the far end of    *)
(* every socket.  The epoll calls are the wrappers of core/sm3t_event.c;   *)
(* everything else is external and is modelled from how sm3t_server.c and  *)
(* sm3t_ctx.c use it.  All sockets are in non-blocking mode.               *)
(***************************************************************************)
EXTENDS Integers, Sequences, FiniteSets

CONSTANTS
  Ctx,        \* heap addresses that malloc can return for a sm3t_context_t
  NULL,       \* the null pointer
  Fd,         \* descriptors left for connections (0,1,2, listener, epoll are taken)
  SndCap,     \* bytes a socket's kernel send buffer holds
  MaxConn,    \* bound: connections that ever arrive
  MaxSend,    \* bound: bytes one remote program ever sends on a connection
  Senders,    \* which ends ever send data, a subset of {"client", "upstream"}
  Faults      \* which failures the environment may produce

\* "enqueue" is a failure of the start: it is there for good or not at all.
FaultKinds == {"accept", "getpeername", "orig_dst", "connect", "append_poll",
               "epoll_wait", "eintr", "send_zero", "reset", "enqueue"}

ASSUME KernelAssumption ==
  /\ Fd \subseteq Nat \ {0}
  /\ NULL \notin Ctx
  /\ SndCap \in Nat \ {0}
  /\ MaxConn \in Nat
  /\ MaxSend \in Nat
  /\ Senders \subseteq {"client", "upstream"}
  /\ Faults \subseteq FaultKinds

VARIABLES
  sock,       \* the socket behind each descriptor
  poll,       \* the epoll interest list: the events and data.ptr of each descriptor
  out,        \* history: bytes send() accepted on each descriptor since it was opened
  backlog,    \* connections waiting in the listener's accept queue
  arrived     \* connections that have arrived so far (bounded by MaxConn)

kernelVars == <<sock, poll, out, backlog, arrived>>

\* A byte is known by the descriptor it was received on and its position in
\* that stream; origin 0 is a byte that a Lua hook made up.
Byte == Nat \X Nat

Event == {"IN", "OUT", "RDHUP"}

Socket == [open : BOOLEAN,
           side : {"client", "upstream"},
           rcv  : Seq(Byte),                   \* received, not yet read by the proxy
           fin  : BOOLEAN,                     \* the remote's FIN follows rcv
           err  : {"none", "reset", "pipe"},   \* sk_err once a RST has arrived
           used : 0..SndCap,                   \* bytes in the send buffer
           shut : BOOLEAN,                     \* shutdown(SHUT_WR) was called
           sent : 0..MaxSend]                  \* bytes the remote has sent

NewSocket(s) == [open |-> TRUE, side |-> s, rcv |-> <<>>, fin |-> FALSE,
                 err |-> "none", used |-> 0, shut |-> FALSE, sent |-> 0]

ClosedSocket == [NewSocket("client") EXCEPT !.open = FALSE]

NotPolled == [ev |-> {}, ptr |-> NULL]

KernelTypeOK ==
  /\ sock \in [Fd -> Socket]
  /\ poll \in [Fd -> [ev : SUBSET Event, ptr : Ctx \cup {NULL}]]
  /\ out \in [Fd -> Seq(Byte)]
  /\ arrived \in 0..MaxConn
  /\ backlog \in 0..arrived

KernelInit ==
  /\ sock = [f \in Fd |-> ClosedSocket]
  /\ poll = [f \in Fd |-> NotPolled]
  /\ out = [f \in Fd |-> <<>>]
  /\ backlog = 0
  /\ arrived = 0

-----------------------------------------------------------------------------
(* Descriptors. *)

\* The kernel hands out the lowest descriptor that is not in use.
FreeFds == {f \in Fd : ~sock[f].open}

IsLowest(f, S) == f \in S /\ \A g \in S : f <= g

\* close() on the descriptors in F: the sockets are gone, and a closed
\* descriptor leaves the epoll set by itself.
CloseSocks(F) == [f \in Fd |-> IF f \in F THEN ClosedSocket ELSE sock[f]]
ClosePolls(F) == [f \in Fd |-> IF f \in F THEN NotPolled ELSE poll[f]]
CloseOuts(F)  == [f \in Fd |-> IF f \in F THEN <<>> ELSE out[f]]

-----------------------------------------------------------------------------
(* epoll: sm3t__append_poll, sm3t_modify_poll and sm3t__remove_poll. Each   *)
(* is an operator on an interest list, because a handler may apply two.     *)

Append_poll(pl, f, evs, c) == [pl EXCEPT ![f] = [ev |-> evs, ptr |-> c]]

\* EPOLL_CTL_MOD fails with ENOENT on a descriptor that is not registered.
Modify_poll(pl, f, evs, c) ==
  IF pl[f].ptr = NULL THEN pl ELSE [pl EXCEPT ![f] = [ev |-> evs, ptr |-> c]]

Remove_poll(pl, f) == [pl EXCEPT ![f] = NotPolled]

\* Level-triggered readiness. A RST shuts both directions, so it reports all
\* three events; EPOLLERR and EPOLLHUP always come with EPOLLRDHUP, which
\* every registration asks for, and the handler never looks at them.
Ready(f) ==
  LET s == sock[f] IN
  poll[f].ev \cap
    ( (IF s.rcv # <<>> \/ s.fin \/ s.err # "none" THEN {"IN"} ELSE {})
      \cup (IF s.used < SndCap \/ s.shut \/ s.err # "none" THEN {"OUT"} ELSE {})
      \cup (IF s.fin \/ s.err # "none" THEN {"RDHUP"} ELSE {}) )

ReadyFds == {f \in Fd : poll[f].ptr # NULL /\ Ready(f) # {}}

-----------------------------------------------------------------------------
(* send(), recv() and shutdown() on a connected socket. *)

\* send() with flags 0 raises SIGPIPE when its error is EPIPE: the socket was
\* shut down for writing, or a RST came after the remote's FIN.
SendKills(f) ==
  /\ sock[f].open
  /\ sock[f].err # "reset"
  /\ sock[f].shut \/ sock[f].err = "pipe"

\* A hard error that is only returned: ECONNRESET, or EBADF.
SendFails(f) == ~sock[f].open \/ sock[f].err = "reset"

SendOk(f) == sock[f].open /\ ~sock[f].shut /\ sock[f].err = "none"

\* The bytes send() can take; with none, it returns EAGAIN.
Space(f) == SndCap - sock[f].used

\* recv() with nothing left to read: the error of a RST that no FIN preceded
\* (or EBADF), and otherwise 0 once the remote's FIN is reached.
RecvFails(f) ==
  \/ ~sock[f].open
  \/ sock[f].rcv = <<>> /\ ~sock[f].fin /\ sock[f].err = "reset"

RecvEof(f) ==
  /\ sock[f].open
  /\ sock[f].rcv = <<>>
  /\ sock[f].fin

RecvData(f) == sock[f].open /\ sock[f].rcv # <<>>

Shutdown(f) == IF sock[f].open THEN [sock EXCEPT ![f].shut = TRUE] ELSE sock

-----------------------------------------------------------------------------
(* The remote programs, at any time. *)

Live(f) == sock[f].open /\ sock[f].err = "none"

Arrive ==
  /\ arrived < MaxConn
  /\ arrived' = arrived + 1
  /\ backlog' = backlog + 1
  /\ UNCHANGED <<sock, poll, out>>

RemoteSend(f) ==
  /\ Live(f)
  /\ ~sock[f].fin
  /\ sock[f].side \in Senders
  /\ sock[f].sent < MaxSend
  /\ sock' = [sock EXCEPT ![f].sent = @ + 1,
                          ![f].rcv = Append(@, <<f, sock[f].sent + 1>>)]
  /\ UNCHANGED <<poll, out, backlog, arrived>>

\* The remote takes one byte out of the proxy's send buffer.
RemoteRead(f) ==
  /\ Live(f)
  /\ sock[f].used > 0
  /\ sock' = [sock EXCEPT ![f].used = @ - 1]
  /\ UNCHANGED <<poll, out, backlog, arrived>>

RemoteFin(f) ==
  /\ Live(f)
  /\ ~sock[f].fin
  /\ sock' = [sock EXCEPT ![f].fin = TRUE]
  /\ UNCHANGED <<poll, out, backlog, arrived>>

\* In CLOSE_WAIT (after a FIN) a RST leaves EPIPE, otherwise ECONNRESET.
RemoteReset(f) ==
  /\ "reset" \in Faults
  /\ Live(f)
  /\ sock' = [sock EXCEPT ![f].err = IF sock[f].fin THEN "pipe" ELSE "reset"]
  /\ UNCHANGED <<poll, out, backlog, arrived>>

Remote ==
  \/ Arrive
  \/ \E f \in Fd : RemoteSend(f) \/ RemoteRead(f) \/ RemoteFin(f) \/ RemoteReset(f)
=============================================================================
