------------------------------- MODULE Hooks --------------------------------
(***************************************************************************)
(* The running server's calls into Lua (conf/lua/sm3t_lua_hooks.c) on the  *)
(* stack that LuaConf left: on_connect, on_data, on_disconnect and the     *)
(* look at tcp.telemetry.enable for every new context.  A hook is a Lua    *)
(* function with the configuration in its reach, so it may change it.      *)
(* What an answer does to a connection and to its buffer is in EventLoop.  *)
(***************************************************************************)
EXTENDS Startup

CONSTANT Erasable   \* paths of the configuration that a hook may set to nil

HookNames == {"on_connect", "on_data", "on_disconnect"}

HooksTable == Lookup(stack[1], <<"hooks">>)
Hook(name) == Lookup(stack[1], <<"hooks", name>>)
HasHook(name) == IsTable(HooksTable) /\ Hook(name).t = "function"

\* The context, and for on_data the data and the direction.
NArgs(name) == IF name = "on_data" THEN 3 ELSE 1

\* The stack when a hook is called, and when lua_pcall has replaced the
\* function and its arguments by what it returned.
AtCall(name) == stack \o <<HooksTable, Hook(name)>> \o [i \in 1..NArgs(name) |-> Nil]
AfterCall(name, results) == Pop(AtCall(name), NArgs(name) + 1) \o results

\* lua_istable(L, 1) holds: without it the server would not have started.
Serving == stage = "serve" /\ UNCHANGED <<frames, opts, lost, server, held, tmp>>

Under(p, q) == Len(p) <= Len(q) /\ SubSeq(q, 1, Len(p)) = p

\* What the hook does to the configuration before it returns or fails.
MayErase ==
  conf' \in {conf} \cup {[q \in DOMAIN conf |-> IF Under(p, q) THEN Nil ELSE conf[q]] :
                         p \in Erasable}

\* Neither the hooks table nor the hook need be there any more.
NoHook(name) ==
  /\ Serving
  /\ ~HasHook(name)
  /\ stack' = IF IsTable(HooksTable) THEN Pop(stack \o <<HooksTable, Hook(name)>>, 2)
                                     ELSE Pop(Append(stack, HooksTable), 1)
  /\ UNCHANGED <<stage, conf>>

Called(name) == Serving /\ HasHook(name)

\* Mutant: the message is popped and the hooks table stays.
ErrorPopsOne(name) == Pop(AfterCall(name, <<Str>>), 1)

\* The message and the hooks table are popped.
ErrorPops(name) == Pop(AfterCall(name, <<Str>>), 2)

HookFails(name) ==
  /\ Called(name)
  /\ MayErase
  /\ stack' = ErrorPops(name)
  /\ UNCHANGED stage

\* The hook returns, and the caller pops n values when it has looked at them.
Returns(name, results, n) ==
  /\ Called(name)
  /\ MayErase
  /\ stack' = Pop(AfterCall(name, results), n)
  /\ UNCHANGED stage

\* Any answer is read as a boolean.
OnConnectReturns == \E v \in {Bool(TRUE), Bool(FALSE), Nil, Str} : Returns("on_connect", <<v>>, 2)

\* Mutant: the number of pops of the hooks that answer.
OnDisconnectPopsTwo == Returns("on_disconnect", <<>>, 2)

\* Only the hooks table is left.
OnDisconnectReturns == Returns("on_disconnect", <<>>, 1)

\* An empty string: the data is passed on as it is.
OnDataEmpty == Returns("on_data", <<Str>>, 2)

\* Mutant: the new data is popped and the hooks table stays.
OnDataReplacesPopsOne == Returns("on_data", <<Str>>, 1)

\* A string that fits takes the place of the data.
OnDataReplaces == Returns("on_data", <<Str>>, 2)

\* A string that does not fit, or no string: the data is dropped.
OnDataDrops == \E v \in {Str, Nil, Bool(TRUE)} : Returns("on_data", <<v>>, 2)

HookReturns ==
  \/ OnConnectReturns \/ OnDisconnectReturns
  \/ OnDataEmpty \/ OnDataReplaces \/ OnDataDrops

\* A number from on_data passes lua_isstring, but luaL_len of a number is an
\* error, and outside lua_pcall an error aborts the process.
OnDataNumber ==
  /\ Called("on_data")
  /\ stage' = "abort"
  /\ UNCHANGED <<stack, conf>>

\* sm3t__set_peer_meta.
SetPeerMeta ==
  /\ Serving
  /\ stack' = AfterGet(DebugPath, {"boolean"})
  /\ UNCHANGED <<stage, conf>>

Serve ==
  \/ \E name \in HookNames : NoHook(name) \/ HookFails(name)
  \/ HookReturns
  \/ OnDataNumber
  \/ SetPeerMeta

HooksNext == Start \/ Serve

HooksSpec == StartInit /\ [][HooksNext]_startVars /\ WF_startVars(Start)

-----------------------------------------------------------------------------
(* Properties. *)

\* No call into Lua grows or eats the stack, on any path, even when a hook
\* takes the configuration apart under the server: sm3t_lua_hooks.c and the
\* reads of sm3t_lua_conf_rw.c leave what they found.
ServeBalanced ==
  [][stage = "serve" => stack' = stack]_startVars
=============================================================================
