---------------------------- MODULE Hooks_proofs ----------------------------
(***************************************************************************)
(* Theorems about the configuration, the start of the server and its hooks *)
(* (HooksSpec), for every schema that is a tree, every file and every      *)
(* option.  What the parser does step by step is in LuaConf_proofs.        *)
(***************************************************************************)
EXTENDS Hooks, LuaConf_proofs

-----------------------------------------------------------------------------
(* What the start-up holds, by stage. *)

Before == {"start", "parse", "options", "debug", "mode", "listen", "resolve", "exit"}

HeldInv ==
  /\ stage \in Before \cup {"socket", "options_read", "options_set", "setup", "epoll", "run",
                            "reuse", "bind", "alloc", "backlog", "poll", "upstreams",
                            "serve", "unread", "abort"}
  /\ stage \in Before => held = {}
  /\ stage = "socket" => held = {"host"}
  /\ stage \in {"options_read", "options_set", "reuse", "bind", "alloc"} => held = {"host", "sock"}
  /\ stage \in {"setup", "backlog", "epoll"} => held = {"sock", "server"}
  /\ stage \in {"poll", "run", "upstreams"} => held = {"sock", "server", "epoll"}
  /\ stage = "upstreams" => server.mode = SM3T__MODE_FORWARD
  /\ stage = "serve" => StartReleases
  /\ "mode" \in DOMAIN server

LEMMA HeldInit == StartInit => HeldInv
BY DEF StartInit, Init, NoServer, HeldInv, Before

LEMMA HeldNext ==
  ASSUME HeldInv, [HooksNext]_startVars
  PROVE  HeldInv'
<1>1. ASSUME Configure, UNCHANGED held PROVE HeldInv'
  BY <1>1 DEF Configure, LoadFails, Loaded, CheckField, CheckTable, ReturnToParent, EndParse,
              InField, Parsed, BadPort, SetPort, SetDebug, SetMode, HeldInv, Before
<1>2. ASSUME ReadPort \/ Resolve \/ ReadMode \/ NewServer \/ SetNonblocking \/ Listen
             \/ EpollCreate \/ AppendPoll
      PROVE  HeldInv'
  BY <1>2 DEF ReadPort, Resolve, ReadMode, NewServer, SetNonblocking, Listen, EpollCreate,
              AppendPoll, Goes, Closed, HeldInv, Before
<1>3. ASSUME Socket \/ SetTransparent \/ ReuseAddr \/ Bind PROVE HeldInv'
  BY <1>3 DEF Socket, SetTransparent, ReuseAddr, Bind, Retry, FailedSocketClosed, Goes, HeldInv,
              Before
<1>4. ASSUME Serve PROVE HeldInv'
  BY <1>4 DEF Serve, NoHook, HookFails, HookReturns, OnConnectReturns, OnDisconnectReturns,
              OnDataEmpty, OnDataReplaces, OnDataDrops, Returns, Called, Serving, OnDataNumber,
              SetPeerMeta, HeldInv, Before, StartReleases
<1>5. ASSUME UNCHANGED startVars PROVE HeldInv'
  BY <1>5 DEF startVars, vars, HeldInv, Before, StartReleases
<1>6. ASSUME RunMode PROVE HeldInv'
  <2>1. CASE /\ stage = "run" /\ Goes(IF Mode = SM3T__MODE_FORWARD THEN "upstreams" ELSE "serve", held)
             /\ server' = [server EXCEPT !.mode = Mode]
    <3>1. held' = {"sock", "server", "epoll"} /\ "mode" \in DOMAIN server'
      BY <2>1 DEF Goes, HeldInv
    <3>2. CASE Mode = SM3T__MODE_FORWARD
      <4>1. stage' = "upstreams"
        BY <2>1, <3>2 DEF Goes
      <4>2. server'.mode = SM3T__MODE_FORWARD
        BY <2>1, <3>2 DEF HeldInv
      <4> QED
        BY <3>1, <4>1, <4>2 DEF HeldInv, Before
    <3>3. CASE Mode # SM3T__MODE_FORWARD
      <4>1. stage' = "serve"
        BY <2>1, <3>3 DEF Goes
      <4>2. StartReleases'
        BY <3>1, <4>1 DEF StartReleases
      <4> QED
        BY <3>1, <4>1, <4>2 DEF HeldInv, Before
    <3> QED
      BY <3>2, <3>3
  <2>2. CASE Goes("unread", held) /\ server' = server
    BY <2>2 DEF Goes, HeldInv, Before
  <2> QED
    BY <1>6, <2>1, <2>2 DEF RunMode
<1>7. ASSUME EnqueueUpstream PROVE HeldInv'
  <2>1. stage' = "serve" /\ held' \ {"queue"} = {"sock", "server", "epoll"}
    BY <1>7 DEF EnqueueUpstream, Goes, HeldInv
  <2>2. server'.mode = SM3T__MODE_FORWARD
    BY <1>7 DEF EnqueueUpstream, HeldInv, SM3T__MODE_FORWARD
  <2>3. StartReleases' /\ "mode" \in DOMAIN server'
    BY <1>7, <2>1, <2>2 DEF EnqueueUpstream, HeldInv, StartReleases
  <2> QED
    BY <2>1, <2>3 DEF HeldInv, Before
<1> QED
  BY <1>1, <1>2, <1>3, <1>4, <1>5, <1>6, <1>7 DEF HooksNext, Start, StartServer

\* A start that fails gives back the addresses, the socket, the server and the
\* epoll instance it took, whichever call of sm3t__init_server or
\* sm3t__run_server failed (StartReleases).
THEOREM FailedStartsRelease == HooksSpec => []StartReleases
<1>1. HeldInv => StartReleases
  BY DEF HeldInv, Before, StartReleases
<1> QED
  BY <1>1, HeldInit, HeldNext, PTL DEF HooksSpec

-----------------------------------------------------------------------------
(* The stack after the walk: nobody leaves anything on it. *)

StackInv == WalkInv /\ DecideInv /\ opts \in Opts

\* Whatever was pushed over s, popping as many gives s again.
LEMMA PopToPrefix ==
  ASSUME NEW S, NEW s \in Seq(S), NEW u \in Seq(S), NEW n \in Nat, Len(u) = Len(s) + n,
         \A k \in 1..Len(s) : u[k] = s[k]
  PROVE  Pop(u, n) = s
<1>1. n \in 0..Len(u) /\ Len(u) - n = Len(s) /\ Len(s) \in Nat
  OBVIOUS
<1>2. /\ Pop(u, n) \in Seq(S) /\ Len(Pop(u, n)) = Len(s)
      /\ \A k \in 1..Len(s) : Pop(u, n)[k] = s[k]
  BY <1>1, PopSeq
<1> QED
  BY <1>2, SeqEqual

LEMMA PopCall ==
  ASSUME NEW S, NEW s \in Seq(S), NEW a \in S, NEW b \in S, NEW t \in Seq(S), NEW r \in Seq(S),
         NEW m \in Nat, Len(t) = m
  PROVE  Pop(Pop(s \o <<a, b>> \o t, m + 1) \o r, 1 + Len(r)) = s
<1>1. <<a, b>> \in Seq(S) /\ Len(<<a, b>>) = 2 /\ Len(s) \in Nat /\ Len(r) \in Nat
  OBVIOUS
<1>2. PICK v : v = s \o <<a, b>>
  OBVIOUS
<1>3. v \in Seq(S) /\ Len(v) = Len(s) + 2 /\ \A k \in 1..Len(s) : v[k] = s[k]
  BY <1>1, <1>2, ConcatProperties
<1>4. PICK u : u = v \o t
  OBVIOUS
<1>5. u \in Seq(S) /\ Len(u) = Len(s) + 2 + m /\ \A k \in 1..Len(s) : u[k] = s[k]
  <2>1. u \in Seq(S) /\ Len(u) = Len(v) + m
    BY <1>3, <1>4, ConcatProperties
  <2>2. \A k \in 1..Len(v) : u[k] = v[k]
    BY <1>3, <1>4
  <2> QED
    BY <1>1, <1>3, <2>1, <2>2
<1>6. PICK w : w = Pop(u, m + 1)
  OBVIOUS
<1>7. w \in Seq(S) /\ Len(w) = Len(s) + 1 /\ \A k \in 1..Len(s) : w[k] = s[k]
  <2>1. m + 1 \in 0..Len(u) /\ Len(u) - (m + 1) = Len(s) + 1
    BY <1>1, <1>5
  <2>2. w \in Seq(S) /\ Len(w) = Len(s) + 1 /\ \A k \in 1..(Len(s) + 1) : w[k] = u[k]
    BY <1>5, <1>6, <2>1, PopSeq
  <2> QED
    BY <1>1, <1>5, <2>2
<1>8. PICK x : x = w \o r
  OBVIOUS
<1>9. x \in Seq(S) /\ Len(x) = Len(s) + (1 + Len(r)) /\ \A k \in 1..Len(s) : x[k] = s[k]
  <2>1. x \in Seq(S) /\ Len(x) = Len(w) + Len(r)
    BY <1>7, <1>8, ConcatProperties
  <2>2. \A k \in 1..Len(w) : x[k] = w[k]
    BY <1>7, <1>8
  <2> QED
    BY <1>1, <1>7, <2>1, <2>2
<1>10. 1 + Len(r) \in Nat
  BY <1>1
<1>11. Pop(x, 1 + Len(r)) = s
  BY <1>9, <1>10, PopToPrefix
<1> QED
  BY <1>2, <1>4, <1>6, <1>8, <1>11

\* sm3t__get_conf_value, whatever it finds.
LEMMA GetBalanced ==
  ASSUME ConfOK, stack \in Seq(Values), Len(stack) > 0, NEW p, NEW T
  PROVE  AfterGet(p, T) = stack
<1>1. stack[1] \in Values
  OBVIOUS
<1>2. Lookup(stack[1], p) \in Values
  BY <1>1, LookupValue
<1>3. Pop(Append(stack, Lookup(stack[1], p)), 1) = stack
  BY <1>2, PopAppend
<1> QED
  BY <1>3, Zenon DEF AfterGet, Traversed

LEMMA StartQuiet ==
  ASSUME WalkInv, StartServer
  PROVE  /\ stack' = stack /\ conf' = conf /\ frames' = frames /\ opts' = opts /\ lost' = lost
         /\ stage \notin {"start", "exit", "parse", "serve"} /\ stage' \notin {"start", "parse"}
<1>1. /\ conf' = conf /\ frames' = frames /\ opts' = opts /\ lost' = lost
      /\ stage \notin {"start", "exit", "parse", "serve"} /\ stage' \notin {"start", "parse"}
  BY DEF StartServer, ReadPort, Resolve, Socket, ReadMode, SetTransparent, ReuseAddr, Bind,
         NewServer, SetNonblocking, Listen, EpollCreate, AppendPoll, RunMode, EnqueueUpstream,
         Retry, Goes
<1>2. \A p, T : AfterGet(p, T) = stack
  BY <1>1, GetBalanced DEF WalkInv
<1>3. stack' = stack
  BY <1>2 DEF StartServer, ReadPort, Resolve, Socket, ReadMode, SetTransparent, ReuseAddr, Bind,
              NewServer, SetNonblocking, Listen, EpollCreate, AppendPoll, RunMode, EnqueueUpstream,
              Get
<1> QED
  BY <1>1, <1>3

\* What a hook may answer.
Answers == {Bool(TRUE), Bool(FALSE), Nil, Str}

LEMMA AnswerValues ==
  ASSUME NEW name \in HookNames
  PROVE  /\ <<Str>> \in Seq(Values) /\ Len(<<Str>>) = 1
         /\ \A v \in Answers : <<v>> \in Seq(Values) /\ Len(<<v>>) = 1
         /\ <<>> \in Seq(Values)
         /\ NArgs(name) \in Nat
         /\ [i \in 1..NArgs(name) |-> Nil] \in Seq(Values)
         /\ Len([i \in 1..NArgs(name) |-> Nil]) = NArgs(name)
<1>1. Str \in Values
  <2>1. <<>> \in Seq(Strings)
    BY EmptySeq, Zenon
  <2>2. "string" \in Strings
    BY DEF Strings, Types
  <2>3. 0 \in Int
    OBVIOUS
  <2> QED
    BY <2>1, <2>2, <2>3, Zenon DEF Str, Value, Values
<1>2. Bool(TRUE) \in Values /\ Bool(FALSE) \in Values /\ Nil \in Values
  BY BoolValue, NilValue, Zenon
<1>3. \A v \in Values : <<v>> \in Seq(Values) /\ Len(<<v>>) = 1
  OBVIOUS
<1>4. <<>> \in Seq(Values)
  BY EmptySeq, Zenon
<1>5. \A v \in Answers : <<v>> \in Seq(Values) /\ Len(<<v>>) = 1
  BY <1>1, <1>2, <1>3, Zenon DEF Answers
<1>6. NArgs(name) \in Nat
  BY DEF NArgs
<1>7. PICK m \in Nat : m = NArgs(name)
  BY <1>6
<1>8. [i \in 1..m |-> Nil] \in Seq(Values) /\ Len([i \in 1..m |-> Nil]) = m
  BY <1>2, IsASeq
<1> QED
  BY <1>1, <1>3, <1>4, <1>5, <1>6, <1>7, <1>8, Zenon

\* Every path through sm3t_lua_hooks.c, and the read of sm3t__set_peer_meta.
LEMMA ServeQuiet ==
  ASSUME WalkInv, Serve
  PROVE  /\ stack' = stack /\ ConfOK' /\ frames' = frames /\ opts' = opts /\ lost' = lost
         /\ server' = server /\ stage = "serve" /\ stage' \in {"serve", "abort"}
<1>1. /\ frames' = frames /\ opts' = opts /\ lost' = lost /\ server' = server
      /\ stage = "serve" /\ stage' \in {"serve", "abort"}
  BY DEF Serve, NoHook, HookFails, HookReturns, OnConnectReturns, OnDisconnectReturns,
         OnDataEmpty, OnDataReplaces, OnDataDrops, Returns, Called, Serving, OnDataNumber,
         SetPeerMeta
<1>2. ConfOK /\ stack \in Seq(Values) /\ Len(stack) > 0
  BY <1>1 DEF WalkInv
<1>3. stack[1] \in Values
  BY <1>2
<1>4. ASSUME MayErase PROVE ConfOK'
  <2>1. DOMAIN conf' = DOMAIN conf /\ \A q \in DOMAIN conf : conf'[q] \in {conf[q], Nil}
    BY <1>4 DEF MayErase
  <2>2. Nil \in Values /\ ~IsTable(Nil)
    BY NilValue DEF IsTable, Nil, Value
  <2> QED
    BY <1>2, <2>1, <2>2 DEF ConfOK, IsTable
<1>5. ASSUME UNCHANGED conf PROVE ConfOK'
  BY <1>2, <1>5 DEF ConfOK, IsTable
<1>6. ConfOK'
  BY <1>4, <1>5 DEF Serve, NoHook, HookFails, HookReturns, OnConnectReturns,
                    OnDisconnectReturns, OnDataEmpty, OnDataReplaces, OnDataDrops, Returns,
                    OnDataNumber, SetPeerMeta
<1>7. ASSUME NEW name \in HookNames
      PROVE  /\ HooksTable \in Values /\ Hook(name) \in Values
             /\ \A v \in Answers : Pop(AfterCall(name, <<v>>), 2) = stack
             /\ Pop(AfterCall(name, <<>>), 1) = stack
  <2>1. HooksTable \in Values /\ Hook(name) \in Values
    BY <1>2, <1>3, LookupValue DEF HooksTable, Hook
  <2>2. PICK a \in Values, b \in Values : a = HooksTable /\ b = Hook(name)
    BY <2>1
  <2>3. PICK m \in Nat, t \in Seq(Values) :
          m = NArgs(name) /\ t = [i \in 1..NArgs(name) |-> Nil] /\ Len(t) = m
    BY AnswerValues
  <2>4. \A r \in Seq(Values) : Pop(Pop(stack \o <<a, b>> \o t, m + 1) \o r, 1 + Len(r)) = stack
    BY <1>2, <2>3, PopCall
  <2>5. \A r : AfterCall(name, r) = Pop(stack \o <<a, b>> \o t, m + 1) \o r
    BY <2>2, <2>3, Zenon DEF AfterCall, AtCall
  <2>6. \A r \in Seq(Values) : Pop(AfterCall(name, r), 1 + Len(r)) = stack
    BY <2>4, <2>5, Zenon
  <2>7. ASSUME NEW v \in Answers PROVE Pop(AfterCall(name, <<v>>), 2) = stack
    <3>1. PICK r \in Seq(Values) : r = <<v>> /\ Len(r) = 1
      BY AnswerValues, Zenon
    <3>2. 1 + Len(r) = 2
      BY <3>1
    <3> QED
      BY <2>6, <3>1, <3>2, Zenon
  <2>8. Pop(AfterCall(name, <<>>), 1) = stack
    <3>1. PICK r \in Seq(Values) : r = <<>>
      BY AnswerValues, Zenon
    <3>2. 1 + Len(r) = 1
      BY <3>1
    <3> QED
      BY <2>6, <3>1, <3>2, Zenon
  <2> QED
    BY <2>1, <2>7, <2>8, Zenon
<1>8. ASSUME NEW name \in HookNames, NoHook(name) PROVE stack' = stack
  <2>1. PICK a \in Values, b \in Values : a = HooksTable /\ b = Hook(name)
    BY <1>7
  <2>2. Pop(Append(stack, a), 1) = stack
    BY <1>2, PopAppend
  <2>3. Pop(stack \o <<a, b>>, 2) = stack
    <3>1. <<a, b>> \in Seq(Values) /\ Len(<<a, b>>) = 2
      OBVIOUS
    <3>2. PICK u : u = stack \o <<a, b>>
      OBVIOUS
    <3>3. u \in Seq(Values) /\ Len(u) = Len(stack) + 2 /\ \A k \in 1..Len(stack) : u[k] = stack[k]
      BY <1>2, <3>1, <3>2, ConcatProperties
    <3>4. 2 \in Nat
      OBVIOUS
    <3>5. Pop(u, 2) = stack
      BY <1>2, <3>3, <3>4, PopToPrefix
    <3> QED
      BY <3>2, <3>5
  <2> QED
    BY <1>8, <2>1, <2>2, <2>3, Zenon DEF NoHook
<1>9. ASSUME (\E name \in HookNames : HookFails(name)) \/ HookReturns PROVE stack' = stack
  <2>1. {"on_connect", "on_data", "on_disconnect"} \subseteq HookNames
    BY DEF HookNames
  <2>2. Str \in Answers
    BY DEF Answers
  <2>3. ASSUME NEW name \in HookNames, HookFails(name) PROVE stack' = stack
    BY <1>7, <2>2, <2>3, Zenon DEF HookFails, ErrorPops
  <2>4. CASE OnConnectReturns
    BY <1>7, <2>1, <2>4, Zenon DEF OnConnectReturns, Returns, Answers
  <2>5. CASE OnDisconnectReturns
    BY <1>7, <2>1, <2>5, Zenon DEF OnDisconnectReturns, Returns
  <2>6. CASE OnDataEmpty \/ OnDataReplaces
    BY <1>7, <2>1, <2>2, <2>6, Zenon DEF OnDataEmpty, OnDataReplaces, Returns
  <2>7. CASE OnDataDrops
    BY <1>7, <2>1, <2>7, Zenon DEF OnDataDrops, Returns, Answers
  <2> QED
    BY <1>9, <2>3, <2>4, <2>5, <2>6, <2>7, Zenon DEF HookReturns
<1>10. ASSUME OnDataNumber \/ SetPeerMeta PROVE stack' = stack
  BY <1>2, <1>10, GetBalanced DEF OnDataNumber, SetPeerMeta
<1>11. stack' = stack
  BY <1>8, <1>9, <1>10, Zenon DEF Serve
<1> QED
  BY <1>1, <1>6, <1>11

LEMMA StackInit == StartInit => StackInv
BY WalkInit DEF StartInit, Init, StackInv, DecideInv

LEMMA StackNext ==
  ASSUME StackInv, [HooksNext]_startVars
  PROVE  StackInv'
<1>1. WalkInv /\ DecideInv /\ opts \in Opts
  BY DEF StackInv
<1>2. ASSUME Configure PROVE StackInv'
  BY <1>1, <1>2, WalkConfigure, DecideConfigure DEF StackInv
<1>3. ASSUME StartServer PROVE StackInv'
  <2>1. /\ stack' = stack /\ conf' = conf /\ frames' = frames /\ opts' = opts
        /\ stage \notin {"start", "exit", "parse"} /\ stage' \notin {"start", "parse"}
    BY <1>1, <1>3, StartQuiet
  <2>2. frames' = <<>> /\ ConfOK'
    BY <1>1, <2>1 DEF WalkInv, ConfOK, IsTable
  <2>3. WalkInv'
    BY <1>1, <2>1, <2>2, WalkQuiet
  <2> QED
    BY <1>1, <2>1, <2>3 DEF StackInv, DecideInv
<1>4. ASSUME Serve PROVE StackInv'
  <2>1. /\ stack' = stack /\ ConfOK' /\ frames' = frames /\ opts' = opts
        /\ stage = "serve" /\ stage' \in {"serve", "abort"}
    BY <1>1, <1>4, ServeQuiet
  <2>2. frames' = <<>>
    BY <1>1, <2>1 DEF WalkInv
  <2>3. WalkInv'
    BY <1>1, <2>1, <2>2, WalkQuiet
  <2> QED
    BY <1>1, <2>1, <2>3 DEF StackInv, DecideInv
<1>5. ASSUME UNCHANGED startVars PROVE StackInv'
  <2>1. /\ stage' = stage /\ stack' = stack /\ conf' = conf /\ frames' = frames /\ opts' = opts
    BY <1>5 DEF startVars, vars
  <2>2. WalkInv'
    BY <1>1, <2>1 DEF WalkInv, ConfOK, IsTable, FrameOnTable, Other, Tab, Value, Nested, BaseOK
  <2>3. DecideInv'
    BY <1>1, <2>1 DEF DecideInv, Rooted, RootedInv, TopOf, IsTable
  <2> QED
    BY <1>1, <2>1, <2>2, <2>3 DEF StackInv
<1> QED
  BY <1>2, <1>3, <1>4, <1>5 DEF HooksNext, Start

LEMMA StackInvariance == HooksSpec => []StackInv
BY StackInit, StackNext, PTL DEF HooksSpec

\* Every active call of validate_tab_node finds its own table at its absolute
\* index, whatever other calls left on the stack (FrameOnTable).
THEOREM CallsKeepTheirTable == HooksSpec => []FrameOnTable
<1>1. StackInv => FrameOnTable
  BY DEF StackInv, WalkInv
<1> QED
  BY <1>1, StackInvariance, PTL

\* sm3t__parse_conf accepts the table it was given exactly if it is valid,
\* for every schema that is a tree (ParseDecides).
THEOREM ParserDecides == HooksSpec => []ParseDecides
<1>1. StackInv => ParseDecides
  BY Decided DEF StackInv
<1> QED
  BY <1>1, StackInvariance, PTL

\* An accepted configuration leaves on the Lua stack one value for every
\* number it does not give, and nothing else (StackAfterParse).
THEOREM ParserLeaves == HooksSpec => []StackAfterParse
<1>1. StackInv => StackAfterParse
  BY Decided DEF StackInv
<1> QED
  BY <1>1, StackInvariance, PTL

\* No hook and no read of the configuration changes the Lua stack of the
\* running server (ServeBalanced).
THEOREM HooksBalanced == HooksSpec => ServeBalanced
<1>1. ASSUME StackInv, [HooksNext]_startVars
      PROVE  [stage = "serve" => stack' = stack]_startVars
  <2>1. CASE Configure
    BY <2>1 DEF Configure, LoadFails, Loaded, CheckField, CheckTable, ReturnToParent, EndParse,
                InField, Parsed, BadPort, SetPort, SetDebug, SetMode
  <2>2. CASE StartServer
    BY <1>1, <2>2, StartQuiet DEF StackInv
  <2>3. CASE Serve
    BY <1>1, <2>3, ServeQuiet DEF StackInv
  <2>4. CASE UNCHANGED startVars
    BY <2>4
  <2> QED
    BY <1>1, <2>1, <2>2, <2>3, <2>4 DEF HooksNext, Start
<1> QED
  BY <1>1, StackInvariance, PTL DEF HooksSpec, ServeBalanced

-----------------------------------------------------------------------------
(* The options reach the server. *)

\* What main stored under a path is what sm3t__get_conf_value finds, if it
\* was stored and if it finds a number.
PortKept ==
  PortPath \in lost \/ (CanGet(PortPath, IntTypes) => Lookup(stack[1], PortPath).n = opts.port)
ModeKept ==
  ModePath \in lost \/ (CanGet(ModePath, IntTypes) => Lookup(stack[1], ModePath).n = opts.mode)

Resolving == {"resolve", "socket", "options_read", "options_set", "reuse", "bind"}
Starting == {"alloc", "setup", "backlog", "epoll", "poll", "run"}

\* Where the socket has what its mode asks for.
HasOptions == {"reuse", "bind"} \cup Starting

\* The server has the options of the command line.
Served ==
  /\ PortPath \in lost \/ server.port = opts.port
  /\ ModePath \in lost \/ server.mode = opts.mode
  /\ server.bound /\ (server.transparent <=> server.mode = SM3T__MODE_TRANSPARENT)

ServerType == [port : Int, mode : Int, transparent : BOOLEAN, bound : BOOLEAN]

OptionsInv ==
  /\ server \in ServerType
  /\ stage \in {"debug", "mode", "listen"} => PortKept
  /\ stage \in {"listen"} \cup Resolving \cup Starting => ModeKept
  /\ stage \in Resolving \cup Starting => PortPath \in lost \/ server.port = opts.port
  /\ stage \in HasOptions => (server.transparent <=> Mode = SM3T__MODE_TRANSPARENT)
  /\ stage \in Starting => server.bound
  /\ stage \in {"upstreams", "serve"} => Served

LEMMA PathFacts ==
  /\ PortPath \in Seq(Strings) /\ ModePath \in Seq(Strings) /\ DebugPath \in Seq(Strings)
  /\ Len(PortPath) = 3 /\ Len(ModePath) = 3 /\ Len(DebugPath) = 3
  /\ PortPath # ModePath /\ PortPath # DebugPath /\ ModePath # DebugPath
  /\ PortPath # <<>> /\ ModePath # <<>>
<1>1. {"tcp", "listen", "port", "mode", "telemetry", "enable"} \subseteq Strings
  BY DEF Strings, Keys
<1> QED
  BY <1>1 DEF PortPath, ModePath, DebugPath

LEMMA SubSeqFirst ==
  ASSUME NEW S, NEW s \in Seq(S), NEW k \in 0..Len(s)
  PROVE  /\ SubSeq(s, 1, k) \in Seq(S) /\ Len(SubSeq(s, 1, k)) = k
         /\ \A j \in 1..k : SubSeq(s, 1, k)[j] = s[j]
OBVIOUS

\* A path that can be read can be written.
LEMMA GetIsSet ==
  ASSUME NEW p \in Seq(Strings), Len(p) = 3, IsTable(stack[1]), Traverses(p)
  PROVE  CanSet(p)
<1>1. \A k \in 0..2 : IsTable(Lookup(stack[1], SubSeq(p, 1, k)))
  BY DEF Traverses
<1>2. PICK q : q = Parent(p)
  OBVIOUS
<1>3. q = SubSeq(p, 1, 2) /\ q \in Seq(Strings) /\ Len(q) = 2 /\ \A k \in 1..2 : q[k] = p[k]
  BY <1>2 DEF Parent
<1>4. ASSUME NEW k \in 0..1 PROVE SubSeq(q, 1, k) = SubSeq(p, 1, k)
  <2>1. /\ SubSeq(p, 1, k) \in Seq(Strings) /\ Len(SubSeq(p, 1, k)) = k
        /\ \A j \in 1..k : SubSeq(p, 1, k)[j] = p[j]
    <3>1. k \in 0..Len(p)
      OBVIOUS
    <3> QED
      BY <3>1, SubSeqFirst
  <2>2. /\ SubSeq(q, 1, k) \in Seq(Strings) /\ Len(SubSeq(q, 1, k)) = k
        /\ \A j \in 1..k : SubSeq(q, 1, k)[j] = q[j]
    BY <1>3
  <2>3. \A j \in 1..k : q[j] = p[j]
    BY <1>3
  <2> QED
    BY <2>1, <2>2, <2>3, SeqEqual
<1>5. Traverses(q)
  <2>1. \A k \in 0..1 : IsTable(Lookup(stack[1], SubSeq(q, 1, k)))
    <3>1. \A k \in 0..1 : k \in 0..2
      OBVIOUS
    <3> QED
      BY <1>1, <1>4, <3>1
  <2>2. Len(q) - 1 = 1
    BY <1>3
  <2> QED
    BY <2>1, <2>2 DEF Traverses
<1>6. IsTable(Lookup(stack[1], q))
  <2>1. 2 \in 0..2
    OBVIOUS
  <2> QED
    BY <1>1, <1>3, <2>1
<1> QED
  BY <1>2, <1>5, <1>6 DEF CanSet

\* What was stored is found there, or nothing is found.
LEMMA SetThenGet ==
  ASSUME WalkInv, Len(stack) > 0, NEW p \in Seq(Strings), Len(p) = 3, NEW m \in Int,
         Set(p, Num(m)), stack' = stack
  PROVE  p \in lost' \/ (CanGet(p, IntTypes)' => Lookup(stack[1], p)'.n = m)
<1> SUFFICES ASSUME p \notin lost', CanGet(p, IntTypes)'
             PROVE  Lookup(stack[1], p)'.n = m
  OBVIOUS
<1>1. p # <<>>
  OBVIOUS
<1>2. CASE CanSet(p) /\ conf' = [conf EXCEPT ![stack[1].at \o p] = Num(m)]
  <2>1. Lookup(stack[1], p)'.t \in IntTypes
    BY DEF CanGet
  <2>2. Lookup(stack[1], p)' # Nil
    BY <2>1 DEF IntTypes, Nil, Value
  <2>3. Lookup(stack[1], p)' = conf'[stack[1].at \o p] /\ stack[1].at \o p \in DOMAIN conf'
    BY <1>1, <2>2 DEF Lookup
  <2>4. Lookup(stack[1], p)' = Num(m)
    BY <1>2, <2>3
  <2> QED
    BY <2>4 DEF Num, Value
<1>3. CASE ~CanSet(p) /\ conf' = conf
  <2>1. IsTable(stack[1]) /\ Traverses(p)
    BY <1>3 DEF CanGet, Traverses, Lookup, IsTable
  <2> QED
    BY <1>3, <2>1, GetIsSet
<1>4. CASE lost' = lost \cup {p}
  BY <1>4
<1> QED
  BY <1>2, <1>3, <1>4 DEF Set

\* What is stored elsewhere changes nothing.
LEMMA SetElsewhere ==
  ASSUME WalkInv, Len(stack) > 0, NEW p \in Seq(Strings), NEW q \in Seq(Strings), Len(p) = 3,
         Len(q) = 3, p # q, NEW v \in Values, ~IsTable(v), Set(q, v), stack' = stack
  PROVE  /\ CanGet(p, IntTypes)' <=> CanGet(p, IntTypes)
         /\ Lookup(stack[1], p)' = Lookup(stack[1], p)
         /\ lost \subseteq lost'
<1>1. ConfOK /\ stack \in Seq(Values)
  BY DEF WalkInv
<1>2. PICK b \in Seq(Strings) : b = stack[1].at
  <2>1. stack[1] \in Values
    BY <1>1
  <2> QED
    BY <2>1 DEF Values
<1>3. /\ DOMAIN conf' = DOMAIN conf /\ lost \subseteq lost'
      /\ \A r \in DOMAIN conf : r # b \o q => conf'[r] = conf[r]
  BY <1>1, <1>2, SetConf
<1>4. ASSUME NEW r \in Seq(Strings), r # q
      PROVE  Lookup(stack[1], r)' = Lookup(stack[1], r)
  <2>1. b \o r # b \o q
    BY <1>4, ConcatSimplifications
  <2> QED
    BY <1>2, <1>3, <2>1 DEF Lookup, IsTable
<1>5. ASSUME NEW k \in 0..2
      PROVE  Lookup(stack[1], SubSeq(p, 1, k))' = Lookup(stack[1], SubSeq(p, 1, k))
  <2>1. SubSeq(p, 1, k) \in Seq(Strings) /\ Len(SubSeq(p, 1, k)) = k
    <3>1. k \in 0..Len(p)
      OBVIOUS
    <3> QED
      BY <3>1, SubSeqFirst
  <2>2. PICK r \in Seq(Strings) : r = SubSeq(p, 1, k)
    BY <2>1
  <2>3. r # q
    <3>1. Len(r) = k
      BY <2>1, <2>2
    <3>2. k # 3
      OBVIOUS
    <3> QED
      BY <3>1, <3>2
  <2>4. Lookup(stack[1], r)' = Lookup(stack[1], r)
    BY <1>4, <2>3
  <2> QED
    BY <2>2, <2>4
<1>6. Traverses(p)' <=> Traverses(p)
  <2>1. Len(p) - 1 = 2
    OBVIOUS
  <2> QED
    BY <1>5, <2>1 DEF Traverses, IsTable
<1>7. Lookup(stack[1], p)' = Lookup(stack[1], p)
  BY <1>4
<1> QED
  BY <1>3, <1>6, <1>7 DEF CanGet, IsTable

LEMMA KeptQuiet ==
  ASSUME stack' = stack, conf' = conf, opts' = opts, lost' = lost
  PROVE  /\ PortKept' <=> PortKept
         /\ ModeKept' <=> ModeKept
         /\ Mode' = Mode
         /\ server' = server => (Served' <=> Served)
<1>1. \A p : Lookup(stack[1], p)' = Lookup(stack[1], p)
  BY DEF Lookup, IsTable
<1>2. \A p : Traverses(p)' <=> Traverses(p)
  BY <1>1 DEF Traverses, IsTable
<1>3. \A p, T : CanGet(p, T)' <=> CanGet(p, T)
  BY <1>1, <1>2 DEF CanGet, IsTable
<1>4. Mode' = Mode
  BY <1>1 DEF Mode
<1>5. PortKept' <=> PortKept
  BY <1>1, <1>3 DEF PortKept
<1>6. ModeKept' <=> ModeKept
  BY <1>1, <1>3 DEF ModeKept
<1>7. ASSUME server' = server PROVE Served' <=> Served
  BY <1>7, Zenon DEF Served, SM3T__MODE_TRANSPARENT
<1> QED
  BY <1>4, <1>5, <1>6, <1>7

LEMMA OptionsConfigure ==
  ASSUME StackInv, OptionsInv, Configure
  PROVE  OptionsInv'
<1>1. WalkInv /\ server \in ServerType /\ opts.port \in Int /\ opts.mode \in Int
  <2>1. opts \in [port : Int, mode : 0..2, debug : BOOLEAN]
    BY ConfAssumption DEF StackInv
  <2> QED
    BY <2>1 DEF StackInv, OptionsInv
<1>2. server' = server /\ stage' \notin Resolving \cup HasOptions \cup {"upstreams", "serve"}
  BY DEF Configure, LoadFails, Loaded, CheckField, CheckTable, ReturnToParent, EndParse,
         InField, Parsed, BadPort, SetPort, SetDebug, SetMode, Resolving, HasOptions, Starting
<1>3. ASSUME LoadFails \/ Loaded \/ CheckField \/ CheckTable \/ ReturnToParent \/ EndParse \/ BadPort
      PROVE  stage' \notin {"debug", "mode", "listen"}
  BY <1>3 DEF LoadFails, Loaded, CheckField, CheckTable, ReturnToParent, EndParse,
              InField, Parsed, BadPort
<1>4. ASSUME SetPort
      PROVE  stage' = "debug" /\ PortKept'
  <2>1. /\ stage = "options" /\ stage' = "debug" /\ stack' = stack /\ opts' = opts
        /\ Set(PortPath, Num(opts.port))
    BY <1>4 DEF SetPort
  <2>2. Len(stack) > 0
    BY <1>1, <2>1 DEF WalkInv
  <2>3. PICK m \in Int : m = opts.port
    BY <1>1
  <2>4. PortPath \in lost' \/ (CanGet(PortPath, IntTypes)' => Lookup(stack[1], PortPath)'.n = m)
    BY <1>1, <2>1, <2>2, <2>3, PathFacts, SetThenGet
  <2> QED
    BY <2>1, <2>3, <2>4 DEF PortKept
<1>5. ASSUME SetDebug
      PROVE  stage' = "mode" /\ PortKept'
  <2>1. /\ stage = "debug" /\ stage' = "mode" /\ stack' = stack /\ opts' = opts
        /\ Set(DebugPath, Bool(opts.debug))
    BY <1>5 DEF SetDebug
  <2>2. Len(stack) > 0 /\ PortKept
    BY <1>1, <2>1 DEF WalkInv, OptionsInv
  <2>3. /\ CanGet(PortPath, IntTypes)' <=> CanGet(PortPath, IntTypes)
        /\ Lookup(stack[1], PortPath)' = Lookup(stack[1], PortPath)
        /\ lost \subseteq lost'
    BY <1>1, <2>1, <2>2, PathFacts, BoolValue, SetElsewhere
  <2> QED
    BY <2>1, <2>2, <2>3 DEF PortKept
<1>6. ASSUME SetMode
      PROVE  stage' = "listen" /\ PortKept' /\ ModeKept'
  <2>1. /\ stage = "mode" /\ stage' = "listen" /\ stack' = stack /\ opts' = opts
        /\ Set(ModePath, Num(opts.mode))
    BY <1>6 DEF SetMode
  <2>2. Len(stack) > 0 /\ PortKept
    BY <1>1, <2>1 DEF WalkInv, OptionsInv
  <2>3. PICK m \in Int : m = opts.mode
    BY <1>1
  <2>4. /\ CanGet(PortPath, IntTypes)' <=> CanGet(PortPath, IntTypes)
        /\ Lookup(stack[1], PortPath)' = Lookup(stack[1], PortPath)
        /\ lost \subseteq lost'
    BY <1>1, <2>1, <2>2, <2>3, PathFacts, NumValue, SetElsewhere
  <2>5. ModePath \in lost' \/ (CanGet(ModePath, IntTypes)' => Lookup(stack[1], ModePath)'.n = m)
    BY <1>1, <2>1, <2>2, <2>3, PathFacts, SetThenGet
  <2> QED
    BY <2>1, <2>2, <2>3, <2>4, <2>5 DEF PortKept, ModeKept
<1>7. /\ stage' \in {"debug", "mode", "listen"} => PortKept'
      /\ stage' = "listen" => ModeKept'
  BY <1>3, <1>4, <1>5, <1>6 DEF Configure
<1> QED
  BY <1>1, <1>2, <1>7 DEF OptionsInv, HasOptions

LEMMA OptionsStart ==
  ASSUME StackInv, OptionsInv, StartServer
  PROVE  OptionsInv'
<1>1. WalkInv /\ server \in ServerType
  BY DEF StackInv, OptionsInv
<1>2. /\ stack' = stack /\ conf' = conf /\ frames' = frames /\ opts' = opts /\ lost' = lost
      /\ stage \notin {"start", "exit", "parse", "serve"} /\ stage' \notin {"start", "parse"}
  BY <1>1, StartQuiet
<1>3. (PortKept' <=> PortKept) /\ (ModeKept' <=> ModeKept) /\ Mode' = Mode
  BY <1>2, KeptQuiet
<1>4. \A p : Lookup(stack[1], p).n \in Int
  <2>1. stack[1] \in Values /\ ConfOK
    BY <1>1, <1>2 DEF WalkInv
  <2>2. \A p : Lookup(stack[1], p) \in Values
    BY <2>1, LookupValue
  <2> QED
    BY <2>2 DEF Values
<1>5. /\ stage = "listen" => PortKept
      /\ stage \in {"listen"} \cup Resolving \cup Starting => ModeKept
      /\ stage \in Resolving \cup Starting => PortPath \in lost \/ server.port = opts.port
      /\ stage \in HasOptions => (server.transparent <=> Mode = SM3T__MODE_TRANSPARENT)
      /\ stage \in Starting => server.bound
      /\ stage = "upstreams" => Served
  BY DEF OptionsInv
<1>6. stage' \notin {"debug", "mode", "listen"}
  BY DEF StartServer, ReadPort, Resolve, Socket, ReadMode, SetTransparent, ReuseAddr, Bind,
         NewServer, SetNonblocking, Listen, EpollCreate, AppendPoll, RunMode, EnqueueUpstream,
         Retry, Goes
<1>7. ASSUME server' = server, stage \in Resolving,
             stage' \in {"socket", "options_read", "options_set", "exit", "unread"}
      PROVE  OptionsInv'
  <2>1. /\ stage' \in Resolving \cup Starting => stage' \in Resolving
        /\ stage' \notin HasOptions \cup Starting \cup {"upstreams", "serve"}
    BY <1>7 DEF Resolving, HasOptions, Starting
  <2> QED
    BY <1>1, <1>2, <1>3, <1>5, <1>6, <1>7, <2>1 DEF OptionsInv
<1>8. ASSUME server' = server,
             \/ stage = "reuse" /\ stage' = "bind"
             \/ stage \in Starting /\ stage' \in Starting \cup {"exit", "unread", "abort"}
      PROVE  OptionsInv'
  <2>1. /\ stage \in HasOptions /\ stage \in Resolving \cup Starting
        /\ stage' \notin {"upstreams", "serve"}
        /\ stage' \in Starting => stage \in Starting
    BY <1>8 DEF HasOptions, Resolving, Starting
  <2>2. stage' \in HasOptions => (server'.transparent <=> Mode' = SM3T__MODE_TRANSPARENT)
    BY <1>3, <1>5, <1>8, <2>1, Zenon
  <2> QED
    BY <1>1, <1>2, <1>3, <1>5, <1>6, <1>8, <2>1, <2>2 DEF OptionsInv
<1>9. ASSUME Resolve \/ ReadMode PROVE OptionsInv'
  BY <1>7, <1>9 DEF Resolve, ReadMode, Goes, Resolving
<1>10. ASSUME NewServer \/ SetNonblocking \/ Listen \/ EpollCreate \/ AppendPoll PROVE OptionsInv'
  BY <1>8, <1>10 DEF NewServer, SetNonblocking, Listen, EpollCreate, AppendPoll, Goes, Starting
<1>11. ASSUME ReadPort PROVE OptionsInv'
  <2>1. CASE /\ CanGet(PortPath, IntTypes)
             /\ server' = [server EXCEPT !.port = Lookup(stack[1], PortPath).n]
             /\ stage = "listen" /\ stage' = "resolve"
    <3>1. server' \in ServerType /\ server'.port = Lookup(stack[1], PortPath).n
      BY <1>1, <1>4, <2>1 DEF ServerType
    <3>2. PortPath \in lost \/ Lookup(stack[1], PortPath).n = opts.port
      BY <1>5, <2>1 DEF PortKept
    <3>3. ModeKept'
      BY <1>3, <1>5, <2>1
    <3> QED
      BY <1>2, <2>1, <3>1, <3>2, <3>3 DEF OptionsInv, Resolving, HasOptions, Starting
  <2>2. CASE server' = server /\ stage' = "exit"
    BY <1>1, <2>2 DEF OptionsInv, Resolving, HasOptions, Starting
  <2> QED
    BY <1>11, <2>1, <2>2 DEF ReadPort, Get, Goes
<1>12. ASSUME Socket PROVE OptionsInv'
  <2>1. CASE /\ server' = [server EXCEPT !.transparent = FALSE]
             /\ stage = "socket" /\ stage' = "options_read"
    <3>1. /\ server' \in ServerType /\ server'.port = server.port
      BY <1>1, <2>1 DEF ServerType
    <3>2. ModeKept' /\ (PortPath \in lost' \/ server'.port = opts'.port)
      BY <1>2, <1>3, <1>5, <2>1, <3>1 DEF Resolving
    <3> QED
      BY <2>1, <3>1, <3>2 DEF OptionsInv, Resolving, HasOptions, Starting
  <2>2. CASE server' = server /\ stage = "socket" /\ stage' \in {"socket", "exit"}
    BY <1>7, <2>2 DEF Resolving
  <2> QED
    BY <1>12, <2>1, <2>2 DEF Socket, Retry, Goes
<1>13. ASSUME SetTransparent PROVE OptionsInv'
  <2>1. CASE /\ server' = [server EXCEPT !.transparent = (Mode = SM3T__MODE_TRANSPARENT)]
             /\ stage = "options_set" /\ stage' = "reuse"
    <3>1. PICK b \in BOOLEAN : b <=> Mode = SM3T__MODE_TRANSPARENT
      OBVIOUS
    <3>2. server' = [server EXCEPT !.transparent = b]
      BY <2>1, <3>1
    <3>3. /\ server' \in ServerType /\ server'.port = server.port
      BY <1>1, <3>2 DEF ServerType
    <3>4. server'.transparent <=> Mode' = SM3T__MODE_TRANSPARENT
      <4>1. server'.transparent = b
        BY <1>1, <3>2 DEF ServerType
      <4> QED
        BY <1>3, <3>1, <4>1, Zenon
    <3>5. ModeKept' /\ (PortPath \in lost' \/ server'.port = opts'.port)
      BY <1>2, <1>3, <1>5, <2>1, <3>3 DEF Resolving
    <3> QED
      BY <2>1, <3>3, <3>4, <3>5 DEF OptionsInv, Resolving, Starting
  <2>2. CASE server' = server /\ stage = "options_set" /\ stage' \in {"socket", "exit"}
    BY <1>7, <2>2 DEF Resolving
  <2> QED
    BY <1>13, <2>1, <2>2 DEF SetTransparent, Retry, Goes
<1>14. ASSUME ReuseAddr PROVE OptionsInv'
  BY <1>7, <1>8, <1>14 DEF ReuseAddr, Retry, Goes, Resolving
<1>15. ASSUME Bind PROVE OptionsInv'
  <2>1. CASE /\ server' = [server EXCEPT !.bound = TRUE]
             /\ stage = "bind" /\ stage' = "alloc"
    <3>1. /\ server' \in ServerType /\ server'.port = server.port /\ server'.bound
          /\ server'.transparent = server.transparent
      BY <1>1, <2>1 DEF ServerType
    <3>2. server'.transparent <=> Mode' = SM3T__MODE_TRANSPARENT
      <4>1. stage \in HasOptions
        BY <2>1 DEF HasOptions
      <4> QED
        BY <1>3, <1>5, <3>1, <4>1, Zenon
    <3>3. ModeKept' /\ (PortPath \in lost' \/ server'.port = opts'.port)
      BY <1>2, <1>3, <1>5, <2>1, <3>1 DEF Resolving
    <3> QED
      BY <2>1, <3>1, <3>2, <3>3 DEF OptionsInv, Resolving, Starting
  <2>2. CASE server' = server /\ stage = "bind" /\ stage' \in {"socket", "exit"}
    BY <1>7, <2>2 DEF Resolving
  <2> QED
    BY <1>15, <2>1, <2>2 DEF Bind, Retry, Goes
<1>16. ASSUME RunMode PROVE OptionsInv'
  <2>1. CASE /\ CanGet(ModePath, IntTypes)
             /\ server' = [server EXCEPT !.mode = Mode]
             /\ stage = "run" /\ stage' \in {"upstreams", "serve"}
    <3>1. /\ server' \in ServerType /\ server'.mode = Mode /\ server'.port = server.port
          /\ server'.bound = server.bound /\ server'.transparent = server.transparent
      BY <1>1, <1>4, <2>1 DEF ServerType, Mode
    <3>2. ModePath \in lost \/ Mode = opts.mode
      BY <1>5, <2>1 DEF ModeKept, Mode, Starting
    <3>3. server.bound /\ (server.transparent <=> Mode = SM3T__MODE_TRANSPARENT)
          /\ (PortPath \in lost \/ server.port = opts.port)
      <4>1. stage \in Starting /\ stage \in HasOptions
        BY <2>1 DEF HasOptions, Starting
      <4> QED
        BY <1>5, <4>1
    <3>4. /\ server'.bound
          /\ server'.transparent <=> server'.mode = SM3T__MODE_TRANSPARENT
      BY <3>1, <3>3, Zenon
    <3>5. /\ PortPath \in lost' \/ server'.port = opts'.port
          /\ ModePath \in lost' \/ server'.mode = opts'.mode
      BY <1>2, <3>1, <3>2, <3>3
    <3>6. Served'
      BY <3>4, <3>5, Zenon DEF Served, SM3T__MODE_TRANSPARENT
    <3> QED
      BY <2>1, <3>1, <3>6 DEF OptionsInv, Resolving, HasOptions, Starting
  <2>2. CASE server' = server /\ stage = "run" /\ stage' = "unread"
    BY <1>8, <2>2 DEF Starting
  <2> QED
    BY <1>16, <2>1, <2>2 DEF RunMode, Get, Goes
<1>17. ASSUME EnqueueUpstream PROVE OptionsInv'
  <2>1. server' = server /\ stage = "upstreams" /\ stage' = "serve"
    BY <1>17 DEF EnqueueUpstream, Goes
  <2>2. Served'
    BY <1>2, <1>5, <2>1, KeptQuiet
  <2> QED
    BY <1>1, <2>1, <2>2 DEF OptionsInv, Resolving, HasOptions, Starting
<1> QED
  BY <1>9, <1>10, <1>11, <1>12, <1>13, <1>14, <1>15, <1>16, <1>17 DEF StartServer

LEMMA OptionsNext ==
  ASSUME StackInv, OptionsInv, [HooksNext]_startVars
  PROVE  OptionsInv'
<1>1. ASSUME Serve PROVE OptionsInv'
  <2>1. /\ opts' = opts /\ lost' = lost /\ server' = server
        /\ stage = "serve" /\ stage' \in {"serve", "abort"}
    BY <1>1, ServeQuiet DEF StackInv
  <2>2. Served /\ server \in ServerType
    BY <2>1 DEF OptionsInv
  <2>3. Served'
    BY <2>1, <2>2, Zenon DEF Served, SM3T__MODE_TRANSPARENT
  <2> QED
    BY <2>1, <2>2, <2>3 DEF OptionsInv, Resolving, HasOptions, Starting
<1>2. ASSUME UNCHANGED startVars PROVE OptionsInv'
  <2>1. /\ stage' = stage /\ stack' = stack /\ conf' = conf /\ opts' = opts /\ lost' = lost
        /\ server' = server
    BY <1>2 DEF startVars, vars
  <2>2. (PortKept' <=> PortKept) /\ (ModeKept' <=> ModeKept) /\ Mode' = Mode /\ (Served' <=> Served)
    BY <2>1, KeptQuiet
  <2>3. stage' \in HasOptions => (server'.transparent <=> Mode' = SM3T__MODE_TRANSPARENT)
    <3>1. stage \in HasOptions => (server.transparent <=> Mode = SM3T__MODE_TRANSPARENT)
      BY DEF OptionsInv
    <3> QED
      BY <2>1, <2>2, <3>1, Zenon
  <2> QED
    BY <2>1, <2>2, <2>3 DEF OptionsInv
<1> QED
  BY <1>1, <1>2, OptionsConfigure, OptionsStart DEF HooksNext, Start

LEMMA OptionsInit == StartInit => OptionsInv
BY DEF StartInit, Init, OptionsInv, NoServer, ServerType, Resolving, HasOptions, Starting

\* A server that runs has the port and the mode of the command line, whatever
\* the file says and however its tables are mixed up, unless strdup failed for
\* that very option; its socket is transparent exactly if its loop is
\* (ServesOptions).
THEOREM OptionsWin == HooksSpec => []ServesOptions
<1>1. OptionsInv => ServesOptions
  BY DEF OptionsInv, Served, ServesOptions
<1> QED
  BY <1>1, OptionsInit, OptionsNext, StackInvariance, PTL DEF HooksSpec
=============================================================================
