# sm3tproxy: TLA+ models and proofs

sm3tproxy is a single-threaded TCP proxy in C. One `epoll` loop accepts
clients, connects each to an upstream and relays bytes in both directions
through Lua hooks. This directory models that loop with the operating system
around it, model-checks it with TLC on small instances and proves most of what
is checked with TLAPS for all instances. A second group of modules follows the
configuration from the Lua file to the running server and the server's calls
into Lua; two more model the command line and the string views. Paths below are relative to the
repository; line numbers are those of the modelled commit.

## 1. Inventory

| Part | Source | State | Operations | What makes it correct |
|---|---|---|---|---|
| Event loop, accept path | `src/proxy/sm3t_server.c` | `ev_list`, `dead_ctxs`, epoll instance, listener | `sm3t__run_server`, `sm3t__connect_upstream` | no pointer to a freed context; every descriptor has one owner; every failure path cleans up |
| Contexts, TCP handler | `src/proxy/sm3t_ctx.c` | `fd`, `peer`, `buffer`, `wstart`, `wlen`, `wpartial` | `sm3t__new_ctx`, `sm3t__cleanup_ctx`, `sm3t__tcp_ctx_handler` | the stream is relayed unchanged; back-pressure never stalls; data before a FIN is read; peers are unlinked on both sides |
| epoll wrappers | `src/core/sm3t_event.c` | interest list | add, modify, remove | (used by the above) |
| Dead vector | `src/core/sm3t_vec.c` | `data`, `size`, `capacity` | append, cleanup | each dead context is freed once |
| Upstream queue | `src/core/sm3t_queue.c` | ring `data`, `head`, `tail`, `size`, `capacity` | enqueue, dequeue, free | upstreams are handed out in turn |
| Start-up | `src/core/sm3tproxy.c`, `src/proxy/sm3t_server.c` | address list, listener, epoll instance | `main`, `sm3t__init_server`, `sm3t__run_server` | the options reach the server; each failure releases what was acquired; the start-up ends |
| Command line | `lib/args.h`, `src/core/sm3tproxy.c` | the option list, the parsed options | `parse_args`, the shell completions | every argument has one role; help is always found; values are those of the line; completion and parser agree |
| Lua hooks | `src/conf/lua/sm3t_lua_hooks.c` | the Lua stack | `on_connect`, `on_data`, `on_disconnect` | the stack is balanced; an answer fits the buffer |
| Configuration parser | `src/conf/lua/sm3t_parser.c` | `lua_conf`, the Lua stack | `sm3t__parse_*` | a configuration is accepted iff it is valid |
| Configuration access | `src/conf/sm3t_conf.c`, `src/conf/lua/sm3t_lua_conf_rw.c` | registry table | load, reload, get, set | what was set is what is read |
| Lua API | `src/conf/lua/sm3t_lua_api.c` | none | `log`, `rhost`, `rport` | accessors only |
| String views | `src/core/sm3t_views.c` | none | pure functions on `sm3t_view_t` | trimming, splitting, comparing agree with their definitions |
| Logger, NAT script | `lib/logger.h`, `nat.sh` | | | output; a shell script outside the program |

How the parts interact. `main` parses the command line, loads the
configuration, writes the options over it, creates the listener and calls `sm3t__run_server`. That fills the upstream queue once and then
repeats: `epoll_wait`, then one call per event (the accept path for the
listener, `sm3t__tcp_ctx_handler` for a context), then a sweep that frees the
contexts whose handler returned false. A context reaches its peer by a pointer,
modifies the peer's queue and both registrations, and calls a Lua hook between
`recv` and `send`.

What is hard. There are no threads, but the two remote programs of every
connection act between any two system calls; an event may be stale when it is
handled; a context may die while a later event of the same batch concerns it or
its peer; descriptor numbers are reused; a send may be partial; one buffer
serves both directions; memory from `malloc` is not initialised.
`PROJECT.json` lists these hazards at their lines.

## 2. Modules

| Module | Models |
|---|---|
| `Kernel` | external: sockets, `send`, `recv`, `shutdown`, `close`, lowest-free descriptors, level-triggered epoll with the wrappers of `sm3t_event.c`, and the remote programs |
| `EventLoop` | extends `Kernel`: the loop, the accept path, context lifetime and the TCP handler; all properties of this part |
| `Relay` | abstract: what the proxy promises of a connection; `EventLoop` is shown to implement it |
| `MCEventLoop` | values of the constants for TLC |
| `RoundRobin` | abstract: what the queue of upstreams is for |
| `UpstreamQueue`, `MCUpstreamQueue` | the ring, and its refinement of `RoundRobin` |
| `LuaConf` | the Lua stack from `sm3t__init_conf` to the start of the server: the parser's walk, get, set, the options of `main` |
| `Startup` | extends `LuaConf`: `sm3t__init_server` and `sm3t__run_server` up to the loop, one action per call that may fail |
| `ConfSchema` | extends `LuaConf`: the schema of `sm3t_parser.c`, table by table, and `examples/conf.lua` |
| `Hooks` | extends `Startup`: the running server's calls into Lua |
| `MCHooks` | configurations and options for TLC, on the real schema |
| `Args`, `MCArgs` | the options of `main`, the three passes of `parse_args`, the shell completions |
| `Views`, `MCViews` | the functions of `sm3t_views.c` as operators, and a caller that cuts a text into pieces |
| `EventLoop_proofs`, `EventLoop_fd_proofs`, `EventLoop_stream_proofs` | theorems about `EventLoop`, each module on top of the one before: types and lifetime; descriptors; bytes, back-pressure and the end of a connection |
| `UpstreamQueue_proofs`, `Args_proofs`, `Views_proofs` | theorems about these modules |
| `LuaConf_proofs`, `Hooks_proofs` | lemmas about the parser's walk, and the theorems about the whole of `Hooks` that rest on them |

### EventLoop and the code

A step is `Epoll_wait`, the handling of one event, or `Sweep`. Between two
steps any remote may act (`Remote`); within one event handler remotes do not
act, which loses nothing: a handler makes at most one `recv` and one `send` per
event, and what a remote does between them is visible only as another amount of
space or data, which the model also reaches with the remote acting before the
handler.

* `batch` is a set of events with distinct `data.ptr`. The kernel chooses the
  order; `Handle` chooses the next event when it is handled.
* `dead` is the vector `dead_ctxs`, in order.
* A context is a heap address (`Ctx`); `alloc` says which are allocated. Fields
  nobody can read (of freed memory) have fixed values, so that equal states are
  equal. `buffer` is kept only while it holds queued bytes.
* The flags of a new context are uninitialised (`sm3t__new_ctx` sets only `L`):
  `wpartial` starts with any value of `DirtyFlag`. `wstart` and `wlen` start as 0
  in the model and as anything in the code; no value of theirs is read before it
  is set, since only a queue waits for EPOLLOUT (`OutOnlyQueued`).
* The descriptor of an upstream context that is cleaned up before it is assigned
  is any number (`AcceptNoUpstream`), for want of the original destination, in
  SOCKS5 mode, and in forward mode if `sm3t__enqueue` had no memory at the start
  (the fault `enqueue`). It may be another context's (`StrayClose`), the
  listener's, after which no client comes in (`StrayCloseListener`), or the epoll
  instance's, after which nothing can be registered and the next `epoll_wait`
  fails (`StrayCloseEpoll`). That it is 1 or 2 and takes the log away is left out.
* A byte is its origin and position, so a lost, repeated, reordered or foreign
  byte is told apart. `owed` and `out` are history: what `on_data` released for
  a context and what the kernel accepted for it.
* A Lua hook is an input: `HookDrops` lets it answer `SM3T_HOOK_DROP`,
  `Rewrites` are the data it may put in place of what it was given, and the
  terminator it leaves behind is part of `Clobbered`.
* `Faults` names the system calls that may fail. An ignored result
  (`sm3t__append_poll`) is ignored in the model too.
* `send` without `MSG_NOSIGNAL` to a socket that was shut down or whose remote
  closed and reset raises SIGPIPE, and ends the process (`FlushKilled`,
  `ReadKilled`).
* Left out: `read_eof`, `write_eof` (written, never read), logging, and address
  data that is only logged. `connect` to the upstream is one step: the loop
  blocks in it and nothing else of the process runs.

### Relay

`Relay` has no sockets, buffers or events: two ends are joined, bytes are
promised to an end and sent to it, the ends part and are forgotten. The mapping
takes `peer` for the other end, `owed` for what was promised and, for what was
sent, the bytes the kernel accepted on the context's present descriptor (none
if it has none). So `Relays` says in one formula that what was sent is a prefix
of what was released for that end, that it only grows, that one step touches one
end, and that a context or descriptor that is used again starts empty. With
traffic in both directions the code does not implement it
(`duplex_corruption`).

### UpstreamQueue and the code

`capacity = 0` stands for the null queue pointer. `Dequeue` does not remove, it
moves `head` modulo `size`; `Enqueue` reallocates a full ring to twice its
capacity and leaves `Junk` in the new slots, exactly as `realloc` does. Without
memory for a new ring nothing is enqueued (`EnqueueFails`), without memory for a
larger one the process exits (`GrowFails`).

### LuaConf, Hooks and the code

A Lua value is its type, its number and, for a table, its path in the
configuration; the contents of the configuration are a function of paths.
`stack` is the stack of the one `lua_State`, and every operation is written as
the pushes and pops the code makes, so that what a path leaves behind shows.
`validate_tab_node` is a state machine with its own call stack (`frames`): one
step is a round of its loop or a return. Fields of type `SM3T_CFLOAT` and
`_required` fields do not occur in the schema and have no branch here. A hook is
an arbitrary Lua function: it may fail, answer anything, and set parts of the
configuration it lives in to nil (`Erasable`). A number as the answer of
`on_data` passes `lua_isstring` and makes `luaL_len` raise an error outside
`lua_pcall`, which aborts the process (`OnDataNumber`). `main` ignores whether
`sm3t__set_conf_value` stored an option, and its `strdup` may fail (`NoMemory`):
the history variable `lost` names the options that were lost that way, which
`ServesOptions` excepts.

`Startup` keeps what the start-up holds (`held`: the address list, the socket,
the server structure, the epoll instance, the ring of upstreams) and the address
it tries (`tmp`). There is one action for each call that may fail: the port, the
lookup, `socket`, the mode, IP_TRANSPARENT (transparent mode only), SO_REUSEADDR,
`bind`, `malloc`, `sm3t__set_nonblocking`, `listen`, `epoll_create`,
`sm3t__append_poll`, the mode again, and in forward mode the enqueue whose result
nobody looks at. A failure goes to `RETRY`, or ends the start-up, after that
path's own releases; `unread` is the
end for want of the mode, where both functions return without releasing
anything. `AI_PASSIVE` with `AF_INET` gives one address (`Addresses`).

`Hooks` keeps the stack and the configuration. Each way through a hook is an
action with the number of values the code pops there: no hook, `lua_pcall` failed,
and for `on_data` an empty string, one that fits, and anything else. What an answer does to a connection and its buffer is in `EventLoop`: the
data, other data of 1 to `BufferSize` bytes, or a drop.

### Args and the code

A text is a sequence of characters in which a long name, a number or a word is
one element. `Splitting` is the first pass, `LookForExit` the second, `Check` the
third; a stack of short options is read one character per step. An entry of
`parsed` remembers which argument it was found in and which argument, if any,
gave its value. Long names may be abbreviated (`strncmp` with the length given),
and the first option that fits wins; `Beginnings` lists the abbreviations that
the instance uses. `Numerals` is what `strtol` reads to the end of a text; the
empty text is 0. `Suggested` and `ValueOption` are what `args__bash_complete`
offers; zsh and fish are given every option. The check for duplicate names
passes for the options of `main` and is left out.

### Views and the code

A view is an offset into `text` and a length, or `Null`. Every function is an
operator; the actions apply those that return views to the current view, in any
order, with arguments inside and just outside of the text. `UINT32_MAX` and
`UINT64_MOD` are parameters, because the point where a number stops fitting is
what matters.

## 3. Runs

No run checks deadlock, because each of them really may stop. A ring that cannot
grow ends the process. `Args` and `Views` end; that a line
is always decided is `ArgsDecide`. For `EventLoop` and `Hooks`: an idle proxy waits in `epoll_wait` for
remotes that, with all bounds used up, have nothing more to do, and a process
that ended takes no step.

Properties that hold:

| Run | Instance | Shows |
|---|---|---|
| `two_connections` | 4 contexts, 4 descriptors, batches of up to 3 events, resets, hooks that drop | `NoDanglingContext`, `PeersMutual`, `FdOwnership`, `NoneForgotten`, `Relays`, `DrainedBeforeClose` |
| `one_connection_faults` | the same two contexts and descriptors used twice, every fault of forward mode with a ring, uninitialised flags, data in both directions, a hook answer that fills the buffer | `TypeOK`, `QueueInBuffer`, `NoSendAfterShutdown`, `PipeOnlyByReset`, `SpoiledOnlyByOwnRead`, `OutOnlyQueued` (only a queue waits for EPOLLOUT) |
| `transparent_lifetime` | transparent mode, 3 connections on 3 descriptors, failed `SO_ORIGINAL_DST` lookups that close a stray descriptor | `LifetimeInv` |
| `one_way` | one client sends 3 bytes, send buffer of 2, reads of 2, hook answers of 3, hooks that drop, resets, remotes that keep reading | `StreamIntegrity`, `PausedIffQueued`, `Relays` (partial sends included), and the liveness properties `OrphanReaped`, `QueueDrains`, `DataRelayed` |
| `upstreams_in_turn` | 3 upstreams, a ring of 3, up to 5 elements, memory given or refused | `TypeOK` (head and tail stay in the ring, however often it doubles), `InTurn` (the ring is a `RoundRobin` until it grows, and again after a free) |
| `configuration` | the real schema; `examples/conf.lua` with any one path changed to any of 11 values, with two paths changed, with no number at all; the table as first, last, only or no result of the file; the default options, forward mode with `--debug`, and `--port` 65536; `strdup` and every call of the start-up failing; hooks that answer anything, fail and erase | `FrameOnTable`, `ParseDecides` (accepted iff valid), `StackAfterParse` (one value left per missing number), `ServesOptions`, `StartReleases`, `ServeBalanced`, and the liveness property `StartDecides` |
| `command_line` | every line of up to 3 arguments out of 24 texts that hold each form of an option, known, abbreviated, unknown, stacked, with its value attached, separate or missing; the commands `completion` and `__complete` | `TypeOK`, `ArgumentsPartitioned`, `HelpWins`, `OptionsFromLine`, `CompletionAgrees`, and the liveness property `ArgsDecide` |
| `views` | texts of up to 5 letters, spaces and delimiters, and of up to 4 digits, with a limit of 15 counted modulo 256 | `ViewInside`, `SearchesAgree`, `FieldsJoin`, `NumberExact` |

What the code does not do (each run stops with a counterexample; `findings` in
`PROJECT.json` quotes the line it disagrees with):

| Run | Property | What happens |
|---|---|---|
| `duplex_corruption` | `StreamIntegrity` | bytes are queued for a context in its buffer; its own remote sends; `recv` (`sm3t_ctx.c:132`) overwrites the queue |
| `orphan_crash` | `NoNullDeref` | a peer hangs up while bytes are queued for the context; its next event reads `ctx->peer->fd` through NULL (`sm3t_ctx.c:84`) |
| `duplex_stall` | `QueueDrains` | a context with queued bytes is paused: its registration becomes `EPOLLRDHUP` alone (`sm3t_ctx.c:205`) and nothing flushes them |
| `dirty_context_stall` | `DataRelayed` | a context starts with `wpartial` set by what was in its memory; its peer is never read |

Also seen in the code while modelling, without a run of its own:

* The schema's key is `backpresure` (`src/conf/lua/sm3t_parser.c:223`) while
  `examples/conf.lua:31` gives `backpressure`: that table is never validated.
* A hook answer larger than the buffer is logged as ignored but drops the
  connection (`src/conf/lua/sm3t_lua_hooks.c:109`), and an answer of exactly
  `SM3T_BUFFER_SIZE` bytes is terminated one byte behind it (`:104`).
* A context that is paused when its remote hangs up is given up with its unread
  data, even if its peer was flushed earlier in the same batch.
* The direction that `on_data` is told is always `SM3T_CLI_UPS`:
  `src/proxy/sm3t_ctx.c:155` compares `peer->fd` with the `fd_out` that line 84
  took from it.
* When an address fails, `sm3t__init_server` goes on to `host->ai_next` instead
  of `tmp->ai_next` (`src/proxy/sm3t_server.c:127`): a third address would never
  be tried, and a second one that keeps failing would be tried for ever. There
  is only one address, so `StartDecides` holds. A start that fails for want of
  the mode (`:88`, `:195`) releases nothing; the process ends right after it, with
  `EXIT_SUCCESS`.
* `sm3t__enqueue` doubles a full ring whose tail is back at slot 0 and leaves the
  tail there (`src/core/sm3t_queue.c:31`): the next element overwrites the oldest,
  and slots that `realloc` left uninitialised are counted and handed out. The
  server enqueues one upstream today, far below `QUEUE_MAX`. The growth is in the
  states of `upstreams_in_turn`; `InTurn` excepts what is done to a grown ring.
* `sm3t__view_trim_left` and `sm3t__view_trim_right` step once more when they meet
  a character that is no space, so that they cut it off. `sm3t__vec_pop` returns
  the slot behind the last element. Nothing calls any of them.
* `--` and `--=x` are beginnings of every long name and so mean `--help`.

These decide where the passing runs live. `StreamIntegrity`, `PausedIffQueued`,
`QueueDrains` and `DataRelayed` hold with traffic in one direction and zeroed
flags, and so does `Relays`; `DrainedBeforeClose` holds while send buffers suffice (a paused context
that hangs up loses what it had not read). A stray close makes two contexts share
a descriptor number, and so `FdOwnership`, `NoneForgotten`, `NoSendAfterShutdown`,
`PipeOnlyByReset` and `SpoiledOnlyByOwnRead` hold where none happens: not in SOCKS5
mode, not in transparent mode with failing lookups, not in forward mode without
its ring; `NoneForgotten` needs, besides, that registering succeeds. The handler
follows no null peer while nothing is queued, which says no more than its guard
does (`sm3t_ctx.c:75`); `NoNullDeref` is therefore checked only where queues occur,
in `orphan_crash`. `NoDanglingContext`, `PeersMutual`, `QueueInBuffer` and
`OutOnlyQueued` need none of these restrictions.

### Bounds

Every bound is a constant. `MaxConn` and `MaxSend` cap what the remotes do;
everything else is the program's own limit made small. Two connections are the
fewest in which a batch mixes events of two contexts of one connection with
those of another and with an accept; `MaxEvent` below the number of ready
descriptors (`two_connections`, 3 of 5) makes a batch leave events out. Two
connections one after the other (`one_connection_faults`) are
the fewest that reuse memory and descriptors. A `BufferSize` of 3 gives reads of up to 2 bytes and answers of 3,
with a send buffer of 2: every send is whole, partial or blocked, and a
flush takes several rounds. Contexts are interchangeable addresses, which makes
`Permutations` sound; descriptors are not (the lowest is handed out) and are not
permuted. Runs of liveness use no symmetry.

The configurations are those near a valid one, because the parser's fields are
independent but for what they leave on the stack: one change reaches every
branch at every node, two changes with a number missing reach every branch with
something left under it, and the file without numbers leaves the most. 65536 is
the first port that does not fit 16 bits, which `main` refuses.

Three arguments are an option, its value and one more, before or behind; what
`parse_args` does with an argument depends on no more than the option before it
and on what was set earlier. Five characters hold two delimiters with a field on
each side. A limit of 15 with 256 values leaves room for one more digit without
wrapping and wraps with three digits, as 2^32 and 2^64 do with 11 and 20.

### Fairness

`FairSpec` is weak fairness of `LoopStep`: the process is single-threaded, the
loop has no other way to wait than `epoll_wait`, and a ready descriptor ends
that wait. The batch of the liveness run, `one_way`, is large enough for all its
descriptors, so that no fairness of the kernel's choice among ready descriptors
is assumed. `ReadingSpec` adds weak fairness of each remote's reads. That is an
assumption about the environment, needed because no proxy can flush to a remote
that never reads; in `Startup` and `Args` weak fairness says that a process that
can take its next step does. No fairness of sending, closing or connecting is assumed.

## 4. Proofs

The theorems hold for every value of the constants that the named assumptions
allow. TLC evaluates the assumptions in every run. A theorem that needs more
says so in its own `ASSUME`; each such hypothesis is a formula on the constants
that holds in a passing run, and where it fails a run or section 3 shows the
property failing.

### Event loop

`KernelAssumption` and `LoopAssumption` are the shape of the constants, a buffer
of at least two bytes, and that a hook's answer fits the buffer, as
`sm3t__hook_on_data` checks.

| Theorem | Property | Hypotheses |
|---|---|---|
| `TypeCorrectness`, `QueueStaysInBuffer`, `OnlyQueuesWait` | `TypeOK`, `QueueInBuffer`, `OutOnlyQueued` | |
| `Lifetime`, `ContextsNeverDangle`, `PeersStayMutual` | `LifetimeInv`, `NoDanglingContext`, `PeersMutual` | |
| `DescriptorsOwned`, `NeverSendsAfterShutdown`, `OnlyResetsKill` | `FdOwnership`, `NoSendAfterShutdown`, `PipeOnlyByReset` | `NoStrayClose` |
| `OnlyReadsSpoil` | `SpoiledOnlyByOwnRead` | `NoStrayClose` |
| `ContextsNeverForgotten` | `NoneForgotten` | `NoStrayClose`, registering succeeds |
| `StreamsWhole`, `LoopRelays` | `StreamIntegrity`, `Relays` | `NoStrayClose`, `OneWay` |
| `BackPressure` | `PausedIffQueued` | `NoStrayClose`, `OneWay`, `PollsReliably` |
| `DuplexStreamsWhole`, `DuplexRelays` | `StreamIntegrity`, `Relays` | `NoStrayClose`, `WholeSends` |
| `ReadBeforeClosed` | `DrainedBeforeClose` | `NoStrayClose`, `WholeSends` |

`NoStrayClose`: not SOCKS5, in transparent mode no failing `SO_ORIGINAL_DST`
lookup, and in forward mode a ring (`AcceptNoUpstream` closes a descriptor that some other
connection may own). `OneWay`: only clients or only upstreams send
(`duplex_corruption` shows why). `PollsReliably`: registering succeeds and flags
start zeroed. `WholeSends`: a send buffer takes all that the other end sends,
hook answers of one byte or the data itself, no `EINTR`, zeroed flags; both ends
may send.

*Types and lifetime.* `TypeOK` is not inductive alone: that `wlen - n` stays a
natural number and that a `SubSeq` is a sequence of bytes need `QueueInBuffer`.
Nor is `QueueInBuffer` alone: it needs the types, and that a queue is written
only to a linked context. Both are shown together (`TypeInv`). `NoDanglingContext`
needs to know why a pointer is still good when it is followed: an event of the
batch may only be kept while its context is registered and not dead (`BatchOK`),
a registration belongs to the context whose descriptor it is (`PollOK`), a dead
context has no peer and is listed once (`DeadOK`), peers are allocated, hold
descriptors and name each other (`PeerOK`), and nothing of a batch survives it
(`WaitOK`). `LifetimeInv` is their conjunction. The delicate case is that a
context may be given up while events for its peer are still in the batch:
`Drop` clears both `peer` fields, so the peer's event meets a null peer instead
of a freed one, and the sweep comes only when the batch is empty. The theorem
does not assume that a context owns its descriptor alone, because in transparent
mode a stray close makes two contexts share one; it shows that memory safety
survives that.

*Waiting for EPOLLOUT.* `OutOnlyQueued` rests on `TypeInv` and `LifetimeInv`: a
registration for EPOLLOUT is made with a queue and is taken back in the step that
empties it, which is the only step that does; an event of the batch copies a
registration, and a context that is freed leaves neither.

*Descriptors.* `FdOwnership` becomes inductive (`FdInv`) with what is left in a
freed context (no descriptor) and of a free descriptor (no history). The handler
opens and closes nothing, and the only socket it shuts down is the peer's, in the
step that unlinks it (`HandleSock`): that gives `NoSendAfterShutdown`, and with it
`PipeOnlyByReset`, since a send is killed by the proxy's own shutdown or by a
reset after a FIN.

*Bytes.* `StreamWhole(c)` is the claim about one context: what the kernel took
and what is queued is what was released. `Carries` says what any send of the
handler does to one context, and that every other is left alone but for a buffer
that is read into over a queue (`ReadOverQueue`). A context that `malloc` returns
again is owed nothing and has no queue (`FreshInv`); data is received and queued
only from an end that sends (`SideInv`). From these, which need no restriction on
the traffic, follows `Kept`: each step keeps each stream whole or reads its own
context over its queue. That is `OnlyReadsSpoil`, and says that the defect of
`duplex_corruption` is the only one of its kind. The other theorems exclude
`ReadOverQueue`: with one sending end, received bytes and a queue lie on
different contexts of a connection (`OneQueue`); with whole sends nothing is
queued (`QuietInv`). Either way `StreamInv` (`SideInv`, `FreshInv` and
`StreamIntegrity`) is inductive, and the refinement follows from it: accepting is
`Relay`'s join, a send or a queueing is a carry to one end, giving up is a
parting, the sweep forgets, and everything else stutters (`RelayStep`).

*Back-pressure.* `PollInv` ties each linked context's registration to the two
`wpartial` flags (`WaitsFor`); it needs `NoneForgotten`, since a context that is
not registered cannot be armed again (`EPOLL_CTL_MOD` fails).

*The end of a connection.* `DrainInv` says that nothing is queued, so nobody is
paused and `EPOLLRDHUP` never comes without `EPOLLIN`, and counts: the bytes in a
send buffer and those its peer has not read yet are no more than the peer's
remote has sent, hence the next send fits. Then a context is given up only by a
`recv` that took data, failed or reached the FIN.

### Upstream queue

`RingInTurn` (`InTurn`): as long as the ring has not grown, and again once it was
freed, every step is a step or a stutter of `RoundRobin` under the mapping
`items = data[0 .. size-1]`, `pos = head`. The invariant, `RingInv` of a ring that
has not grown, says that `tail` is `size` modulo the capacity and that every slot
below `size` was written. `RingImplementsRoundRobin`: with `MaxItems <= QueueMax`
the ring never grows, and the exception is not needed. `IndicesInRing` (`TypeOK`):
the indices stay in the array even when the ring is doubled and elements are
overwritten, or cannot be doubled.

### Configuration, start-up and hooks

The theorems are about `HooksSpec`, which runs from `sm3t__init_conf` to the
serving proxy, for every schema and all files with: `SchemaAssumption` (the
schema is a finite tree with distinct keys whose root asks for more than numbers
and strings, as the static tables of `sm3t_parser.c` are) and `FilesAssumption`
(a file has a value, nil perhaps, for every node of the schema, and a table knows
its place in the file). `ConfSchema` and the files of `MCHooks` are instances.

* `CallsKeepTheirTable` (`FrameOnTable`): the absolute index of every active call
  still holds its table. `WalkInv` adds the types, that the indices of nested
  calls increase, and that only tables lie below them.
* `ParserDecides` and `ParserLeaves` (`ParseDecides`, `StackAfterParse`).
  `DecideInv` says of every active call that its answer so far is that of the
  fields it has looked at, that what it left on the stack is one value for each
  number missing in the subtrees it has finished, and that each call is for the
  table its caller is at. The counting rests on lemmas about the tree: the
  missing numbers below a node are a finite set that the nodes' subtrees
  partition.
* `OptionsWin` (`ServesOptions`), by `OptionsInv`: from the stage that sets an
  option on, the configuration at index 1 holds it, or `lost` names it.
* `FailedStartsRelease` (`StartReleases`), by `HeldInv`, what is held at each stage:
  a release that is missing on one failing path shows at `exit`.
* `HooksBalanced` (`ServeBalanced`), path by path through the hooks, with
  `StackInv` for the stack being one of Lua values.

### Command line

For every set of lines, of any length and with any texts: `ArgsAssumption` gives
the types and `TextsAssumption` says that a long argument without `=` has at
most one name, which is what a text element stands for. `ArgsTyped` (`TypeOK`),
`EveryArgumentOneRole` (`ArgumentsPartitioned`), `OptionsAreThoseOfTheLine`
(`OptionsFromLine`), `HelpIsAlwaysFound` (`HelpWins`), `CompletionAndParserAgree`
(`CompletionAgrees`). `ArgsInv` has a part for each question: `PassInv` (how far
each pass has come and what the next may rely on), `SetInv` (the options set so
far are those of the entries looked at), `RoleInv` and `ValueInv` (the roles of
the arguments read so far, also halfway through a stack of short options), and
`ReadInv` (every argument read led to the entries its text asks for).

### Views

For every set of texts (`ViewsAssumption`): `ViewsStayInside` (`ViewInside`),
`SearchesFindPlaces` (`SearchesAgree`), `NumbersAreExact` (`NumberExact`) and
`FieldsAreTheText` (`FieldsJoin`). The loops that search are least elements
of sets of places (`FirstOfLeast`); `Fits` says that one part of the text stands
at a place of another, and each function is shown to be about `Fits`.

The last two are about loops that add up, and need an induction over the length
of a text. The library's induction theorems take a predicate as a parameter,
which the provers cannot instantiate; `Induction` is stated about a set instead
(it holds 0, and k if it holds k - 1) and proved from the least number outside of
it. `Recursion` gives the existence of a recursive function in the same way.
`to_u32` counts from the left and cuts off at the limit, `Number` is the sum of
digits times powers of ten from the right: `Horner` shows that the uncut count is
that sum, `CountsDigits` that the cut count is the uncut one up to the limit and
refuses from the limit on, because ten times the limit and a digit more still
fit 64 bits (`ViewsAssumption`). `JoinInv` says that the fields cut so far, each with its delimiter,
and the rest of the view are the text; `SplitJoins` is the step of `split`, and
`FlattenJoins` and `FlattenAppend` say what `FlattenSeq` computes.

### Model-checked only

* `OrphanReaped`, `QueueDrains`, `DataRelayed`, `StartDecides`, `ArgsDecide`:
  liveness under fairness is out of the prover's reach.
* The properties of the runs that end in a counterexample: they are false
  without the hypotheses of section 4.

## 5. Not modelled

* `sm3t__tcp_echo` and `sm3t__socks5__ctx_handler`: no connection reaches them,
  since in SOCKS5 mode the accept path cleans every connection up.
* `sm3t__reload_conf` and `sm3t__cleanup_conf`, `sm3t__vec_pop`: no callers.
* Of `lib/args.h`: option types that `main` does not use (float, string, path,
  required, early exit), the layout of help and completion output, and the C++
  interface.
* The growth of the vector of dead contexts: its only visible effect is the exit
  when memory runs out.
* The Lua API (read-only accessors), logging (`lib/logger.h`) and `nat.sh`.

## 6. Plan

1. Done: all modules of section 2 with their runs, and the theorems of section 4:
   every safety property of a passing run is proved.
2. Left: `ReadBeforeClosed` for contexts that were not paused when their batch
   was taken, in place of `WholeSends`.
3. Resource exhaustion: what a failing `accept` leaks, and what bounds it.
