------------------------------ MODULE MCHooks -------------------------------
(* Instances of LuaConf and Hooks for TLC, on the real schema. *)
EXTENDS Hooks, ConfSchema

\* What a path may hold instead of what the example gives it.
Oddities(p) == {Nil, Num(-1), Num(2), Num(3), Num(65536), NumStr(1), NumStr(9),
                Str, Bool(TRUE), Fun, Tab(p)}

Paths == DOMAIN example_conf

\* The example with any one path changed,
OneChange == {example_conf} \cup
  UNION {{Changed(example_conf, p, v) : v \in Oddities(p)} : p \in Paths}

\* or with two: a number gone and something else wrong before or after it.
TwoChanges ==
  {Changed(Changed(example_conf, p, Nil), q, v) :
     p \in {<<"sys", "logging", "level">>, <<"tcp", "listen", "port">>,
            <<"tcp", "transport", "keepalive", "count">>},
     q \in {<<"sys", "logging", "format">>, <<"sys", "logging", "out", "file">>,
            <<"tcp", "orig_dst">>, <<"tcp", "conn", "retries">>, <<"hooks", "on_data">>},
     v \in {Nil, Num(3), Bool(TRUE), Fun}}

\* or with no number at all.
NoNumbers ==
  [p \in Paths |-> IF IsNumber(example_conf[p]) THEN Nil ELSE example_conf[p]]

\* The file returns its table alone, and some files return it after or before
\* another, or return nothing.
ManyFiles ==
  {[conf |-> f, returns |-> <<TRUE>>] : f \in OneChange \cup TwoChanges \cup {NoNumbers}}
  \cup {[conf |-> f, returns |-> r] :
          f \in {example_conf, NoNumbers, Changed(example_conf, <<"tcp">>, Nil)},
          r \in {<<FALSE, TRUE>>, <<TRUE, FALSE>>, <<>>}}

\* The defaults, a forward proxy that logs, and a port that is none.
ThreeOpts ==
  {[port |-> 8080, mode |-> 0, debug |-> FALSE], [port |-> 6600, mode |-> 1, debug |-> TRUE],
   [port |-> 65536, mode |-> 0, debug |-> FALSE]}
OneAddress == {1}

Gone == {<<"hooks">>, <<"hooks", "on_data">>, <<"tcp">>}
=============================================================================
