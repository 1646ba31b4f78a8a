------------------------------ MODULE Startup -------------------------------
(***************************************************************************)
(* From the configuration to the event loop: sm3t__init_server and         *)
(* sm3t__run_server (proxy/sm3t_server.c) up to the first epoll_wait, call *)
(* by call, with what each failure releases.                               *)
(***************************************************************************)
EXTENDS LuaConf

CONSTANT Addresses   \* how many addresses getaddrinfo may find

ASSUME AddressesAssumption == Addresses \subseteq Nat \ {0}

VARIABLES
  held,   \* what is allocated or open: "host", "sock", "server", "epoll", "queue"
  tmp     \* the addresses: how many, and the one tried, 0 for NULL

startVars == <<vars, held, tmp>>

StartInit == Init /\ held = {} /\ tmp = [count |-> 0, at |-> 0]

Mode == Lookup(stack[1], ModePath).n
SM3T__MODE_TRANSPARENT == 0
SM3T__MODE_FORWARD == 1

\* A step of the start-up that only moves on, or ends it.
Goes(to, now) == stage' = to /\ held' = now /\ UNCHANGED <<conf, frames, opts, lost>>

-----------------------------------------------------------------------------
(* sm3t__init_server. *)

\* The port is read, or strdup fails, or it is no port.
ReadPort ==
  /\ stage = "listen"
  /\ \/ /\ Get(PortPath, IntTypes)
        /\ ValidPort(Lookup(stack[1], PortPath).n)
        /\ server' = [server EXCEPT !.port = Lookup(stack[1], PortPath).n]
        /\ Goes("resolve", held)
     \/ /\ \/ ~CanGet(PortPath, IntTypes) \/ NoMemory
           \/ ~ValidPort(Lookup(stack[1], PortPath).n)
        /\ stack' = AfterGet(PortPath, IntTypes)
        /\ Goes("exit", held)
        /\ UNCHANGED server
  /\ UNCHANGED tmp

Resolve ==
  /\ stage = "resolve"
  /\ \/ \E n \in Addresses : tmp' = [count |-> n, at |-> 1] /\ Goes("socket", held \cup {"host"})
     \/ Goes("exit", held) /\ UNCHANGED tmp
  /\ UNCHANGED <<stack, server>>

\* Mutant: the same address is tried again.
RetrySame(now) ==
  /\ UNCHANGED tmp
  /\ IF tmp.at # 0 THEN Goes("socket", now) ELSE Goes("exit", now \ {"host"})

\* RETRY: tmp = host->ai_next; at the end of the list host is freed.
Retry(now) ==
  /\ tmp' = [tmp EXCEPT !.at = IF tmp.count > 1 THEN 2 ELSE 0]
  /\ IF tmp'.at # 0 THEN Goes("socket", now) ELSE Goes("exit", now \ {"host"})

Socket ==
  /\ stage = "socket"
  /\ \/ /\ server' = [server EXCEPT !.transparent = FALSE]
        /\ Goes("options_read", held \cup {"sock"})
        /\ UNCHANGED tmp
     \/ Retry(held) /\ UNCHANGED server
  /\ UNCHANGED stack

\* Without the mode init_server returns at once and keeps what it holds.
ReadMode ==
  /\ stage = "options_read"
  /\ \/ Get(ModePath, IntTypes) /\ Goes("options_set", held)
     \/ /\ ~CanGet(ModePath, IntTypes) \/ NoMemory
        /\ stack' = AfterGet(ModePath, IntTypes)
        /\ Goes("unread", held)
  /\ UNCHANGED <<server, tmp>>

\* Mutant: a socket that cannot be bound stays open.
FailedSocketKept == held

FailedSocketClosed == held \ {"sock"}

\* IP_TRANSPARENT, for transparent mode only.
SetTransparent ==
  /\ stage = "options_set"
  /\ \/ /\ server' = [server EXCEPT !.transparent = (Mode = SM3T__MODE_TRANSPARENT)]
        /\ Goes("reuse", held)
        /\ UNCHANGED tmp
     \/ Mode = SM3T__MODE_TRANSPARENT /\ Retry(FailedSocketClosed) /\ UNCHANGED server
  /\ UNCHANGED stack

\* SO_REUSEADDR.
ReuseAddr ==
  /\ stage = "reuse"
  /\ \/ Goes("bind", held) /\ UNCHANGED tmp
     \/ Retry(FailedSocketClosed)
  /\ UNCHANGED <<stack, server>>

Bind ==
  /\ stage = "bind"
  /\ \/ /\ server' = [server EXCEPT !.bound = TRUE]
        /\ Goes("alloc", held)
        /\ UNCHANGED tmp
     \/ Retry(FailedSocketClosed) /\ UNCHANGED server
  /\ UNCHANGED stack

\* The server gets its memory and the addresses are freed, or malloc fails: the
\* bound socket is closed and the process ends.
NewServer ==
  /\ stage = "alloc"
  /\ \/ Goes("setup", (held \ {"host"}) \cup {"server"})
     \/ Goes("abort", held \ {"sock"})
  /\ UNCHANGED <<stack, server, tmp>>

\* sm3t__close_server.
Closed == held \ {"sock", "server"}

SetNonblocking ==
  /\ stage = "setup"
  /\ Goes("backlog", held) \/ Goes("exit", Closed)
  /\ UNCHANGED <<stack, server, tmp>>

Listen ==
  /\ stage = "backlog"
  /\ Goes("epoll", held) \/ Goes("exit", Closed)
  /\ UNCHANGED <<stack, server, tmp>>

-----------------------------------------------------------------------------
(* sm3t__run_server. *)

EpollCreate ==
  /\ stage = "epoll"
  /\ Goes("poll", held \cup {"epoll"}) \/ Goes("exit", Closed)
  /\ UNCHANGED <<stack, server, tmp>>

\* Mutant: the epoll instance stays open.
AppendPollLeaks ==
  /\ stage = "poll"
  /\ Goes("run", held) \/ Goes("exit", Closed)
  /\ UNCHANGED <<stack, server, tmp>>

\* sm3t__append_poll of the listener.
AppendPoll ==
  /\ stage = "poll"
  /\ Goes("run", held) \/ Goes("exit", Closed \ {"epoll"})
  /\ UNCHANGED <<stack, server, tmp>>

\* The mode is read again, for the loop.
RunMode ==
  /\ stage = "run"
  /\ \/ /\ Get(ModePath, IntTypes)
        /\ server' = [server EXCEPT !.mode = Mode]
        /\ Goes(IF Mode = SM3T__MODE_FORWARD THEN "upstreams" ELSE "serve", held)
     \/ /\ ~CanGet(ModePath, IntTypes) \/ NoMemory
        /\ stack' = AfterGet(ModePath, IntTypes)
        /\ Goes("unread", held)
        /\ UNCHANGED server
  /\ UNCHANGED tmp

\* sm3t__enqueue of the only upstream; nobody looks whether it had the memory.
EnqueueUpstream ==
  /\ stage = "upstreams"
  /\ Goes("serve", held \cup {"queue"}) \/ Goes("serve", held)
  /\ UNCHANGED <<stack, server, tmp>>

\* From the port to the loop.
StartServer ==
  \/ ReadPort \/ Resolve \/ Socket \/ ReadMode \/ SetTransparent \/ ReuseAddr \/ Bind
  \/ NewServer \/ SetNonblocking \/ Listen
  \/ EpollCreate \/ AppendPoll \/ RunMode \/ EnqueueUpstream

Start == (Configure /\ UNCHANGED <<held, tmp>>) \/ StartServer

-----------------------------------------------------------------------------
(* Properties. *)

\* The server runs with the port and the mode of the command line or not at
\* all, whatever the file returned and in whichever place, unless memory ran
\* out when that very option was stored. Its socket is bound, and it has
\* IP_TRANSPARENT exactly if the loop runs in transparent mode, although
\* sm3t__init_server and sm3t__run_server read the mode each for itself.
ServesOptions ==
  stage = "serve" =>
    /\ PortPath \in lost \/ server.port = opts.port
    /\ ModePath \in lost \/ server.mode = opts.mode
    /\ server.bound /\ (server.transparent <=> server.mode = SM3T__MODE_TRANSPARENT)

\* A start that fails gives back what it took, whichever call failed and after
\* whichever address, before the process goes on to its end; only the two
\* returns for want of the mode do not. A server that runs holds its socket
\* and its epoll instance and no address list, and a ring of upstreams in
\* forward mode only.
StartReleases ==
  /\ stage = "exit" => held = {}
  /\ stage = "socket" => held = {"host"}
  /\ stage = "serve" =>
       /\ held \ {"queue"} = {"sock", "server", "epoll"}
       /\ "queue" \in held => server.mode = SM3T__MODE_FORWARD

\* The start-up comes to an end: the server runs or the process does not.
StartDecides == <>(stage \in {"serve", "exit", "unread", "abort"})
=============================================================================
