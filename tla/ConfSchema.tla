----------------------------- MODULE ConfSchema -----------------------------
(***************************************************************************)
(* The schema of conf/lua/sm3t_parser.c, table by table, and the           *)
(* configuration of examples/conf.lua.                                     *)
(***************************************************************************)
EXTENDS LuaConf, TLC, SequencesExt

Typed(type, keys) == [i \in DOMAIN keys |-> [key |-> keys[i], type |-> type, ok |-> Int]]
Ints(keys) == Typed("int", keys)
Bools(keys) == Typed("boolean", keys)
Strings(keys) == Typed("string", keys)
Functions_(keys) == Typed("function", keys)
Tables(keys) == Typed("table", keys)
Ranged(key, S) == <<[key |-> key, type |-> "int", ok |-> S]>>

\* verify_mode, verify_port, verify_failure_policy, verify_dst_policy and
\* verify_backpressure_policy.
ModeRange == 0..2
PortRange == 1..65535
FailureRange == 0..2
DstRange == 0..2
BackpressureRange == 0..1

sys_tabs ==
  (<<"sys">> :> Strings(<<"name", "user", "group", "chroot">>) \o Tables(<<"logging">>))
  @@ (<<"sys", "logging">> :>
       Ints(<<"level", "format">>) \o Strings(<<"file_path">>) \o Tables(<<"out">>))
  @@ (<<"sys", "logging", "out">> :> Bools(<<"file", "stdout", "syslog">>))

conn_tabs ==
  (<<"tcp", "conn">> :> Tables(<<"limit", "timeout", "retries">>))
  @@ (<<"tcp", "conn", "limit">> :> Ints(<<"max_total", "max_per_src">>))
  @@ (<<"tcp", "conn", "timeout">> :> Ints(<<"connect_ms", "idle_ms", "lifetime_ms">>))
  @@ (<<"tcp", "conn", "retries">> :> Bools(<<"enable">>) \o Ints(<<"max", "backoff_ms">>))

transport_tabs ==
  (<<"tcp", "transport">> :>
       Tables(<<"keepalive">>) \o Bools(<<"nodelay", "reset_on_violation">>))
  @@ (<<"tcp", "transport", "keepalive">> :>
       Bools(<<"enable">>) \o Ints(<<"idle_ms", "interval_ms", "count">>))

telemetry_tabs ==
  (<<"tcp", "telemetry">> :> Bools(<<"enable">>) \o Tables(<<"metrics", "log">>))
  @@ (<<"tcp", "telemetry", "metrics">> :> Bools(<<"per_src", "per_dst">>))
  @@ (<<"tcp", "telemetry", "log">> :>
       Bools(<<"src_ip", "src_port", "dst_ip", "dst_port",
               "bytes_in", "bytes_out", "duration", "err">>))

\* The table of upstreams has no schema of its own.
tcp_tabs ==
  (<<"tcp">> :>
       Tables(<<"listen">>) \o Ranged("orig_dst", DstRange)
         \o Tables(<<"forward", "conn">>) \o Ranged("backpresure", BackpressureRange)
         \o Tables(<<"transport", "telemetry">>))
  @@ (<<"tcp", "listen">> :>
       Ranged("mode", ModeRange) \o Ranged("port", PortRange) \o Strings(<<"address">>))
  @@ (<<"tcp", "forward">> :>
       Tables(<<"upstreams">>) \o Ints(<<"upstreams_count">>)
         \o Ranged("failure_policy", FailureRange))
  @@ conn_tabs @@ transport_tabs @@ telemetry_tabs

root_tab ==
  (<<>> :> Tables(<<"sys", "tcp", "hooks">>))
  @@ (<<"hooks">> :> Functions_(<<"on_connect", "on_data", "on_disconnect">>))
  @@ sys_tabs @@ tcp_tabs

-----------------------------------------------------------------------------

NodePaths ==
  UNION {{Append(p, root_tab[p][i].key) : i \in DOMAIN root_tab[p]} : p \in DOMAIN root_tab}

TypeAt(p) ==
  LET nodes == root_tab[Front(p)]
  IN  nodes[CHOOSE i \in DOMAIN nodes : nodes[i].key = Last(p)].type

ExampleValue(p) ==
  LET type == TypeAt(p) IN
  IF type = "table" THEN Tab(p)
  ELSE IF type = "boolean" THEN Bool(FALSE)
  ELSE IF type = "function" THEN Fun
  ELSE IF type = "string" THEN Str ELSE Num(0)

\* examples/conf.lua
example_conf ==
  (<<>> :> Tab(<<>>))
  @@ (<<"tcp", "listen", "mode">> :> Num(2))
  @@ (<<"tcp", "listen", "port">> :> Num(6969))
  @@ (<<"tcp", "orig_dst">> :> Num(1))
  @@ (<<"tcp", "forward", "upstreams_count">> :> Num(1))
  @@ (<<"tcp", "backpressure">> :> Num(0))
  @@ (<<"tcp", "backpresure">> :> Nil)
  @@ [p \in NodePaths |-> ExampleValue(p)]

\* Table f with v at p, and nothing left of what p held before.
Changed(f, p, v) ==
  [q \in DOMAIN f |-> IF q = p THEN v ELSE IF IsPrefix(p, q) THEN Nil ELSE f[q]]
=============================================================================
