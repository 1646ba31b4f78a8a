------------------------------ MODULE LuaConf -------------------------------
(***************************************************************************)
(* The configuration, from the Lua file to the start of the server:        *)
(* sm3t__init_conf (conf/sm3t_conf.c), the walk of validate_tab_node over   *)
(* the table the file returned (conf/lua/sm3t_parser.c), the command-line  *)
(* options that main writes over it, and how a value is read back          *)
(* (conf/lua/sm3t_lua_conf_rw.c).                                          *)
(*                                                                         *)
(* All of it works on the stack of one lua_State.  The table stays on that *)
(* stack for good: the parser looks for it at the top, everybody else at   *)
(* index 1.  sm3t__sandbox and sm3t__register_api only set globals.         *)
(***************************************************************************)
EXTENDS Integers, Sequences, FiniteSets

CONSTANTS
  Schema,     \* root_tab and its children: by the path of a table, its nodes
  Files,      \* what a configuration file may return: a table, by path, and
              \* which of its results are that table, e.g. <<TRUE>>
  Opts,       \* what the options of the command line may say
  NoMemory    \* whether strdup may fail

ASSUME ConfAssumption ==
  /\ <<>> \in DOMAIN Schema
  /\ \A f \in Files : DOMAIN Schema \subseteq DOMAIN f.conf /\ f.returns \in Seq(BOOLEAN)
  /\ Opts \subseteq [port : Int, mode : 0..2, debug : BOOLEAN]
  /\ NoMemory \in BOOLEAN

VARIABLES
  stage,      \* where the process is between main and the event loop
  stack,      \* the Lua stack
  conf,       \* the contents of the configuration table
  frames,     \* the active calls of validate_tab_node
  opts,       \* the parsed options
  lost,       \* history: the paths of options that could not be stored
  server      \* the server that is started: its port, mode and socket

vars == <<stage, stack, conf, frames, opts, lost, server>>

(* Lua values. A table is known by its path in the configuration.          *)
Value(t, n, at) == [t |-> t, n |-> n, at |-> at]
Nil == Value("nil", 0, <<>>)
Num(n) == Value("number", n, <<>>)
NumStr(n) == Value("numstr", n, <<>>)    \* a string that reads as a number
Str == Value("string", 0, <<>>)
Bool(b) == Value("boolean", IF b THEN 1 ELSE 0, <<>>)
Fun == Value("function", 0, <<>>)
Tab(p) == Value("table", 0, p)

IsTable(v) == v.t = "table"
IsNumber(v) == v.t \in {"number", "numstr"}       \* lua_isnumber

\* A result of the file that is not its configuration: another table.
Other == Tab(<<"other">>)

Pop(s, n) == SubSeq(s, 1, Len(s) - n)
Top(s) == s[Len(s)]

\* What is found under path p in table v.
Lookup(v, p) ==
  IF p = <<>> THEN v
  ELSE IF IsTable(v) /\ v.at \o p \in DOMAIN conf THEN conf[v.at \o p] ELSE Nil

\* The schema is a finite tree: every table it describes is a node of type
\* "table" of the table above it, and its root asks for more than numbers and
\* strings.
ASSUME SchemaAssumption ==
  /\ IsFiniteSet(DOMAIN Schema)
  /\ \A p \in DOMAIN Schema :
       /\ p \in Seq(STRING)
       /\ Len(Schema[p]) \in Nat /\ DOMAIN Schema[p] = 1..Len(Schema[p])
       /\ \A i \in DOMAIN Schema[p] :
            /\ Schema[p][i].key \in STRING
            /\ Schema[p][i].type \in {"int", "string", "boolean", "function", "table"}
            /\ Append(p, Schema[p][i].key) \in DOMAIN Schema => Schema[p][i].type = "table"
            /\ \A j \in DOMAIN Schema[p] : Schema[p][j].key = Schema[p][i].key => j = i
       /\ \A k \in 0..(Len(p) - 1) :
            /\ SubSeq(p, 1, k) \in DOMAIN Schema
            /\ \E i \in DOMAIN Schema[SubSeq(p, 1, k)] :
                 Schema[SubSeq(p, 1, k)][i].key = p[k + 1]
  /\ \E i \in DOMAIN Schema[<<>>] : Schema[<<>>][i].type \notin {"int", "string"}

\* A configuration has a value, Nil perhaps, for every node of the schema, and
\* a table in it is known by its own path.
ASSUME FilesAssumption ==
  \A f \in Files :
    /\ \A p \in DOMAIN f.conf :
         /\ p \in Seq(STRING) /\ f.conf[p] \in [t : STRING, n : Int, at : Seq(STRING)]
         /\ IsTable(f.conf[p]) => f.conf[p].at = p
         /\ Len(p) > 0 => p[1] # Other.at[1]
    /\ \A p \in DOMAIN Schema : \A i \in DOMAIN Schema[p] :
         Append(p, Schema[p][i].key) \in DOMAIN f.conf

NoServer == [port |-> 0, mode |-> 0, transparent |-> FALSE, bound |-> FALSE]

Init ==
  /\ stage = "start"
  /\ stack = <<>>
  /\ conf = [p \in {<<>>} |-> Nil]
  /\ frames = <<>>
  /\ opts \in Opts
  /\ lost = {}
  /\ server = NoServer

-----------------------------------------------------------------------------
(* sm3t__init_conf. *)

\* No such file, or it does not compile, or it fails when it is run.
LoadFails ==
  /\ stage = "start"
  /\ stage' = "exit"
  /\ UNCHANGED <<stack, conf, frames, opts, lost, server>>

\* Mutant: the absolute index is one too small.
EnteredLow(s, p) == [idx |-> Len(s) - 1, tab |-> p, i |-> 1, ok |-> TRUE]

\* validate_tab_node is called for the table on top of the stack s; index -1
\* becomes absolute.
Entered(s, p) == [idx |-> Len(s), tab |-> p, i |-> 1, ok |-> TRUE]

\* The file's results are on the stack. Without a table on top there is
\* nothing to validate.
Loaded ==
  /\ stage = "start"
  /\ \E f \in Files :
       /\ conf' = f.conf
       /\ stack' = [i \in DOMAIN f.returns |-> IF f.returns[i] THEN conf'[<<>>] ELSE Other]
       /\ IF f.returns # <<>> /\ IsTable(Top(stack'))
          THEN stage' = "parse" /\ frames' = <<Entered(stack', <<>>)>>
          ELSE stage' = "exit" /\ frames' = <<>>
  /\ UNCHANGED <<opts, lost, server>>

-----------------------------------------------------------------------------
(* validate_tab_node: one step is one round of its loop, or its return.    *)

Frame == frames[Len(frames)]
Nodes == Schema[Frame.tab]
Node == Nodes[Frame.i]
FieldPath == Append(Frame.tab, Node.key)

\* lua_getfield(L, abs_idx, node->_key)
Field == Lookup(stack[Frame.idx], <<Node.key>>)

InField == stage = "parse" /\ Frame.i <= Len(Nodes)

\* No node of the schema is _required, so a number may be missing and a
\* string may be anything.
Accepts(node, v) ==
  \/ node.type = "int" /\ (IsNumber(v) => v.n \in node.ok)
  \/ node.type = "string"
  \/ node.type = "boolean" /\ v.t = "boolean"
  \/ node.type = "function" /\ v.t = "function"
  \/ node.type = "table" /\ IsTable(v)

Advanced(fs, ok) ==
  [fs EXCEPT ![Len(fs)].i = @ + 1, ![Len(fs)].ok = @ /\ ok]

\* Mutant: the default is pushed only to be popped again with the field.
PushedNoDefault(v) == Append(stack, v)

\* The field, and the 0 that is pushed on top of a field that is no number.
Pushed(v) ==
  IF Node.type = "int" /\ ~IsNumber(v) THEN stack \o <<v, Num(0)>> ELSE Append(stack, v)

Descends == Node.type = "table" /\ IsTable(Field) /\ FieldPath \in DOMAIN Schema

CheckField ==
  /\ InField
  /\ ~Descends
  /\ stack' = Pop(Pushed(Field), 1)
  /\ frames' = Advanced(frames, Accepts(Node, Field))
  /\ UNCHANGED <<stage, conf, opts, lost, server>>

CheckTable ==
  /\ InField
  /\ Descends
  /\ stack' = Append(stack, Field)
  /\ frames' = Append(frames, Entered(stack', FieldPath))
  /\ UNCHANGED <<stage, conf, opts, lost, server>>

\* Mutant: what a nested table's check returned is forgotten.
ReturnedTrue == Advanced(Pop(frames, 1), TRUE)

Returned == Advanced(Pop(frames, 1), Frame.ok)

ReturnToParent ==
  /\ stage = "parse"
  /\ Frame.i > Len(Nodes)
  /\ Len(frames) > 1
  /\ stack' = Pop(stack, 1)
  /\ frames' = Returned
  /\ UNCHANGED <<stage, conf, opts, lost, server>>

Parsed == stage = "parse" /\ Len(frames) = 1 /\ Frame.i > Len(Nodes)

\* sm3t__parse_conf returns; a refused configuration ends the process.
EndParse ==
  /\ Parsed
  /\ stage' = IF Frame.ok THEN "options" ELSE "exit"
  /\ frames' = <<>>
  /\ UNCHANGED <<stack, conf, opts, lost, server>>

-----------------------------------------------------------------------------
(* sm3t__get_conf_value and sm3t__set_conf_value. *)

\* sm3t__traverse_path: every node above the last one is a table.
Traverses(p) ==
  \A k \in 0..(Len(p) - 1) : IsTable(Lookup(stack[1], SubSeq(p, 1, k)))

\* It pushes what it found, or nothing.
Traversed(p) ==
  IF Traverses(p) THEN Append(stack, Lookup(stack[1], p)) ELSE stack

CanGet(p, T) ==
  IsTable(stack[1]) /\ Traverses(p) /\ Lookup(stack[1], p).t \in T

\* sm3t__lua_ctype pops the value it converts, sm3t__get_conf_value the
\* value it refuses.
AfterGet(p, T) ==
  IF IsTable(stack[1]) /\ Traverses(p) THEN Pop(Traversed(p), 1) ELSE stack

IntTypes == {"number", "numstr"}

Parent(p) == SubSeq(p, 1, Len(p) - 1)

CanSet(p) ==
  /\ IsTable(stack[1])
  /\ Traverses(Parent(p))
  /\ IsTable(Lookup(stack[1], Parent(p)))

\* The value is stored, unless the path leads nowhere or strdup fails; main
\* does not look at the result.
Set(p, v) ==
  \/ /\ CanSet(p)
     /\ conf' = [conf EXCEPT ![stack[1].at \o p] = v]
     /\ lost' = lost
  \/ ~CanSet(p) /\ UNCHANGED <<conf, lost>>
  \/ NoMemory /\ conf' = conf /\ lost' = lost \cup {p}

-----------------------------------------------------------------------------
(* main, and the start of the server. *)

PortPath == <<"tcp", "listen", "port">>
ModePath == <<"tcp", "listen", "mode">>
DebugPath == <<"tcp", "telemetry", "enable">>

UINT16_MAX == 65535
ValidPort(n) == n > 0 /\ n <= UINT16_MAX

BadPort ==
  /\ stage = "options"
  /\ ~ValidPort(opts.port)
  /\ stage' = "exit"
  /\ UNCHANGED <<stack, conf, frames, opts, lost, server>>

\* The options go over what the file says: port, debug flag, mode.
SetPort ==
  /\ stage = "options"
  /\ ValidPort(opts.port)
  /\ Set(PortPath, Num(opts.port))
  /\ stage' = "debug"
  /\ UNCHANGED <<stack, frames, opts, server>>

SetDebug ==
  /\ stage = "debug"
  /\ Set(DebugPath, Bool(opts.debug))
  /\ stage' = "mode"
  /\ UNCHANGED <<stack, frames, opts, server>>

\* Mutant: a mode of 0 is taken for an option that was not given.
SetModeGiven ==
  /\ stage = "mode"
  /\ IF opts.mode = 0 THEN UNCHANGED <<conf, lost>> ELSE Set(ModePath, Num(opts.mode))
  /\ stage' = "listen"
  /\ UNCHANGED <<stack, frames, opts, server>>

SetMode ==
  /\ stage = "mode"
  /\ Set(ModePath, Num(opts.mode))
  /\ stage' = "listen"
  /\ UNCHANGED <<stack, frames, opts, server>>

Get(p, T) == CanGet(p, T) /\ stack' = AfterGet(p, T)

\* main up to the call of sm3t__run_server.
Configure ==
  \/ LoadFails \/ Loaded
  \/ CheckField \/ CheckTable \/ ReturnToParent \/ EndParse
  \/ BadPort \/ SetPort \/ SetDebug \/ SetMode

-----------------------------------------------------------------------------
(* Properties. *)

\* What a valid configuration is: every section is there, every switch is a
\* boolean, every hook a function, and a number, if given, is in its range.
Valid(f) ==
  /\ \A p \in DOMAIN Schema : IsTable(f[p])
  /\ \A p \in DOMAIN Schema : \A i \in DOMAIN Schema[p] :
       LET node == Schema[p][i]
           v == f[Append(p, node.key)]
       IN  /\ node.type \in {"boolean", "function", "table"} => v.t = node.type
           /\ node.type = "int" /\ IsNumber(v) => v.n \in node.ok

\* validate_tab_node accepts the table it was given exactly if it is valid,
\* however deep a fault lies and whatever is left on the stack on the way.
ParseDecides ==
  Parsed /\ stack[Frame.idx] = Tab(<<>>) => (Frame.ok <=> Valid(conf))

\* Every active call still finds its own table at its absolute index, under
\* all that later calls leave on the stack.
FrameOnTable ==
  \A k \in DOMAIN frames :
    /\ frames[k].idx \in DOMAIN stack
    /\ IsTable(stack[frames[k].idx])
    /\ stack[frames[k].idx].at \in {frames[k].tab, Other.at}

\* Whether node i of table p is a number that the configuration lacks.
Lacks(p, i) ==
  Schema[p][i].type = "int" /\ ~IsNumber(conf[Append(p, Schema[p][i].key)])

MissingNumbers ==
  {n \in UNION {{p} \X DOMAIN Schema[p] : p \in DOMAIN Schema} : Lacks(n[1], n[2])}

\* An accepted configuration leaves on the stack one value for every number
\* it does not give, and nothing else.
StackAfterParse ==
  Parsed /\ Frame.ok => Len(stack) = Frame.idx + Cardinality(MissingNumbers)
=============================================================================
