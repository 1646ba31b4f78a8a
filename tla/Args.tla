-------------------------------- MODULE Args --------------------------------
(***************************************************************************)
(* The command line: the options that main defines and parse_args of       *)
(* lib/args.h, which reads the arguments in three passes.  The first one    *)
(* splits them into options, values and positional arguments without any   *)
(* error, the second one looks for --help and --version, the third one     *)
(* checks the options and sets their values.                               *)
(*                                                                         *)
(* A text is a sequence of its characters, except that a long name, a      *)
(* number or a word is one element: --port=80 is <<"-", "-", "port", "=",  *)
(* "80">> and -dp80 is <<"-", "d", "p", "80">>.                             *)
(***************************************************************************)
EXTENDS Integers, Sequences, FiniteSets, Functions

CONSTANTS
  Lines,      \* the command lines, each a sequence of texts
  Numerals    \* what strtol reads of the texts that it reads to their end

ASSUME ArgsAssumption ==
  /\ \A l \in Lines : l \in Seq(Seq(STRING))
  /\ \A t \in DOMAIN Numerals : Numerals[t] \in Int

VARIABLES
  line,        \* argv without the program's name
  stage,       \* the pass, or how parse_args ended
  next,        \* the argument that is looked at next
  stack,       \* what is left of an argument with stacked short options
  parsed,      \* the options found, in order
  positional,  \* the indices of the positional arguments
  i,           \* the loop counter of the second and the third pass
  value,       \* option->as
  is_set,      \* the options whose is_set is true
  shown        \* what a completion prints: options, or values of --mode

vars == <<line, stage, next, stack, parsed, positional, i, value, is_set, shown>>

Ends == {"script", "completed", "help", "version", "error", "done"}

-----------------------------------------------------------------------------
(* The options. *)

NewOption(long_name, short_name, type, default) ==
  [long_name |-> long_name, short_name |-> short_name, type |-> type, default |-> default]

option_flag(long_name, short_name) == NewOption(long_name, short_name, "flag", 0)
option_long(long_name, short_name, default) == NewOption(long_name, short_name, "long", default)
option_enum(long_name, short_name) == NewOption(long_name, short_name, "enum", 0)
option_help == NewOption("help", "h", "help", 0)
option_version == NewOption("version", "v", "version", 0)

SM3T_DEFAULT_PORT == 8080

\* What main defines, in this order.
Options ==
  <<option_help, option_version, option_long("port", "p", SM3T_DEFAULT_PORT),
    option_flag("debug", "d"), option_enum("mode", "m")>>

Port == 3
Debug == 4
Mode == 5

\* ARGS__TYPE_BOOL; help and version are flags too.
IsFlag(o) == Options[o].type \in {"flag", "help", "version"}

\* The beginnings of a long name that a command line may hold.
Beginnings(name) ==
  {"", name} \cup (CASE name = "port" -> {"p", "po"}
                     [] name = "debug" -> {"d", "de"}
                     [] name = "mode" -> {"m", "mo"}
                     [] name = "help" -> {"h", "he"}
                     [] name = "version" -> {"v", "ve"})

\* The values of --mode, each as the spellings that strcasecmp takes for it,
\* and the shorter texts that strncasecmp takes for a beginning of it.
ModeNames == <<{"TTCP", "ttcp"}, {"TCP", "tcp"}, {"SOCKS5", "socks5"}>>
ModeBeginnings == <<{"T", "t"}, {"T", "t"}, {"S", "s"}>>

-----------------------------------------------------------------------------
(* An argument. *)

NoValue == <<"NULL">>

IsPositional(arg) == ~(Len(arg) > 1 /\ arg[1] = "-")
IsLong(arg) == arg[2] = "-"

\* What stands between "--" and "=" or the end, and what follows "=".
HasEquals(arg) == \E k \in DOMAIN arg : arg[k] = "="
LongName(arg) == IF Len(arg) < 3 \/ arg[3] = "=" THEN "" ELSE arg[3]
AfterEquals(arg) ==
  LET k == CHOOSE k \in DOMAIN arg : arg[k] = "=" /\ \A j \in 1..(k - 1) : arg[j] # "="
  IN  SubSeq(arg, k + 1, Len(arg))

\* How the texts of the lines are written: a long argument without "=" is "--"
\* and one name, or none.
ASSUME TextsAssumption ==
  \A l \in Lines : \A n \in DOMAIN l :
    ~IsPositional(l[n]) /\ IsLong(l[n]) /\ ~HasEquals(l[n]) => Len(l[n]) <= 3

First(S) == IF S = {} THEN 0 ELSE CHOOSE o \in S : \A p \in S : o <= p

\* args__find_option: a short name must be the same, a long name may be any
\* beginning of the option's name, the first option wins. 0 is NULL.
FindShort(ch) == First({o \in DOMAIN Options : Options[o].short_name = ch})
FindLong(name) == First({o \in DOMAIN Options : name \in Beginnings(Options[o].long_name)})
Find(e) == IF e.short THEN FindShort(e.name) ELSE FindLong(e.name)

\* Whether an option without a value of its own takes the next argument.
TakesNextLong(name) == FindLong(name) # 0 /\ ~IsFlag(FindLong(name))
TakesValue(ch) == FindShort(ch) = 0 \/ ~IsFlag(FindShort(ch))

\* Args__ParsedOption: arg is the argument it was found in and from the one
\* its value is, 0 if the value is part of arg or missing.
Parsed(short, name, v, arg, from) ==
  [short |-> short, name |-> name, value |-> v, arg |-> arg, from |-> from]

-----------------------------------------------------------------------------
(* Shell completion. *)

\* What is left of an argument after "--" is, or begins, a long name.
Rest(arg) == SubSeq(arg, 3, Len(arg))
Begins(rest, name) == rest = <<>> \/ (Len(rest) = 1 /\ rest[1] \in Beginnings(name))

\* The options that args__bash_complete prints for cur, which begins with "-".
Suggested(cur) ==
  CASE Len(cur) = 1 -> DOMAIN Options
    [] Len(cur) > 1 /\ cur[2] = "-" ->
         {o \in DOMAIN Options : Begins(Rest(cur), Options[o].long_name)}
    [] Len(cur) = 2 /\ cur[2] # "-" -> {FindShort(cur[2])} \ {0}
    [] OTHER -> {}

\* Mutant: the last character of a stack is taken for the option.
ValueOptionLastChar(prev) ==
  IF prev[2] = "-"
  THEN First({o \in DOMAIN Options : Rest(prev) = <<Options[o].long_name>>})
  ELSE FindShort(prev[Len(prev)])

\* The option whose value args__bash_complete completes after prev, 0 if none:
\* a long name in full, or the last of a stack in which only flags precede it.
ValueOption(prev) ==
  IF prev[2] = "-"
  THEN First({o \in DOMAIN Options : Rest(prev) = <<Options[o].long_name>>})
  ELSE LET known(k) == FindShort(prev[k]) # 0 /\ IsFlag(FindShort(prev[k]))
       IN  IF \A k \in 2..(Len(prev) - 1) : known(k) THEN FindShort(prev[Len(prev)]) ELSE 0

SuggestedValues(prev, cur) ==
  IF IsPositional(prev) \/ ValueOption(prev) # Mode
  THEN {}
  ELSE {m \in DOMAIN ModeNames :
          cur = <<>> \/ (Len(cur) = 1 /\ cur[1] \in ModeNames[m] \cup ModeBeginnings[m])}

Shells == {<<"bash">>, <<"zsh">>, <<"fish">>}

HandleCompletion ==
  /\ stage' = IF Len(line) = 2 /\ line[2] \in Shells THEN "script" ELSE "error"
  /\ shown' = shown

BashComplete(prev, cur, columns) ==
  IF cur # <<>> /\ cur[1] = "-"
  THEN IF columns \in DOMAIN Numerals /\ Numerals[columns] - 1 > 0
       THEN stage' = "completed" /\ shown' = Suggested(cur)
       ELSE stage' = "error" /\ shown' = shown
  ELSE stage' = "completed" /\ shown' = SuggestedValues(prev, cur)

HandleComplete ==
  IF Len(line) = 5 /\ line[2] = <<"bash">>
  THEN BashComplete(line[3], line[4], line[5])
  ELSE IF Len(line) = 2 /\ line[2] \in Shells \ {<<"bash">>}
  THEN stage' = "completed" /\ shown' = DOMAIN Options
  ELSE stage' = "error" /\ shown' = shown

-----------------------------------------------------------------------------
(* parse_args. *)

Init ==
  /\ line \in Lines
  /\ stage = "start"
  /\ next = 1
  /\ stack = <<>>
  /\ parsed = <<>>
  /\ positional = <<>>
  /\ i = 1
  /\ value = [o \in DOMAIN Options |-> Options[o].default]
  /\ is_set = {}
  /\ shown = {}

\* A command for the shell is handled and the program exits.
Start ==
  /\ stage = "start"
  /\ IF line # <<>> /\ line[1] = <<"completion">> THEN HandleCompletion
     ELSE IF line # <<>> /\ line[1] = <<"__complete">> THEN HandleComplete
     ELSE stage' = "split" /\ shown' = shown
  /\ UNCHANGED <<line, next, stack, parsed, positional, i, value, is_set>>

\* argv, which ends with NULL.
Argv(n) == IF n \in DOMAIN line THEN line[n] ELSE NoValue

\* Mutant: a value is taken without a look at argc.
ArgLeftAlways(n) == TRUE

\* argc > 0 where an option looks for its value.
ArgLeft(n) == n <= Len(line)

Splitting == stage = "split" /\ stack = <<>> /\ next <= Len(line)

\* Mutant: continue skips the decrement of argc.
TakePositionalAgain ==
  /\ Splitting /\ IsPositional(line[next])
  /\ positional' = IF next \in Range(positional) THEN positional ELSE Append(positional, next)
  /\ UNCHANGED <<line, stage, next, stack, parsed, i, value, is_set, shown>>

TakePositional ==
  /\ Splitting /\ IsPositional(line[next])
  /\ positional' = Append(positional, next)
  /\ next' = next + 1
  /\ UNCHANGED <<line, stage, stack, parsed, i, value, is_set, shown>>

TakeLong ==
  /\ Splitting /\ ~IsPositional(line[next]) /\ IsLong(line[next])
  /\ LET arg == line[next]
         name == LongName(arg)
         takes == ~HasEquals(arg) /\ ArgLeft(next + 1) /\ TakesNextLong(name)
         v == IF HasEquals(arg) THEN AfterEquals(arg)
              ELSE IF takes THEN Argv(next + 1) ELSE NoValue
     IN  /\ parsed' = Append(parsed, Parsed(FALSE, name, v, next, IF takes THEN next + 1 ELSE 0))
         /\ next' = IF takes THEN next + 2 ELSE next + 1
  /\ UNCHANGED <<line, stage, stack, positional, i, value, is_set, shown>>

StartShort ==
  /\ Splitting /\ ~IsPositional(line[next]) /\ ~IsLong(line[next])
  /\ stack' = Tail(line[next])
  /\ next' = next + 1
  /\ UNCHANGED <<line, stage, parsed, positional, i, value, is_set, shown>>

\* The argument whose stack is being read. A short option that takes the next
\* argument is the last of its stack, so next still follows that argument.
StackArg == next - 1

\* Mutant: arg_length stays when the rest was taken as the value.
ShortCharKeepsRest ==
  /\ stage = "split" /\ stack # <<>>
  /\ LET ch == Head(stack)
         rest == Tail(stack)
         takes == TakesValue(ch) /\ rest = <<>> /\ ArgLeft(next)
         v == IF ~TakesValue(ch) THEN NoValue
              ELSE IF rest # <<>> THEN rest
              ELSE IF takes THEN Argv(next) ELSE NoValue
     IN  /\ parsed' = Append(parsed, Parsed(TRUE, ch, v, StackArg, IF takes THEN next ELSE 0))
         /\ next' = IF takes THEN next + 1 ELSE next
         /\ stack' = rest
  /\ UNCHANGED <<line, stage, positional, i, value, is_set, shown>>

\* One character of a stack. An unknown one, or one with a value, takes the
\* rest of the argument, or the next argument if there is no rest.
ShortChar ==
  /\ stage = "split" /\ stack # <<>>
  /\ LET ch == Head(stack)
         rest == Tail(stack)
         takes == TakesValue(ch) /\ rest = <<>> /\ ArgLeft(next)
         v == IF ~TakesValue(ch) THEN NoValue
              ELSE IF rest # <<>> THEN rest
              ELSE IF takes THEN Argv(next) ELSE NoValue
     IN  /\ parsed' = Append(parsed, Parsed(TRUE, ch, v, StackArg, IF takes THEN next ELSE 0))
         /\ next' = IF takes THEN next + 1 ELSE next
         /\ stack' = IF TakesValue(ch) THEN <<>> ELSE rest
  /\ UNCHANGED <<line, stage, positional, i, value, is_set, shown>>

EndSplit ==
  /\ stage = "split" /\ stack = <<>> /\ next > Len(line)
  /\ stage' = "exits"
  /\ UNCHANGED <<line, next, stack, parsed, positional, i, value, is_set, shown>>

\* Mutant: the look for help stops at an option that is not known.
LookForExitStops ==
  /\ stage = "exits"
  /\ LET o == IF i <= Len(parsed) THEN Find(parsed[i]) ELSE 0
     IN  IF o # 0 /\ Options[o].type \in {"help", "version"}
         THEN stage' = Options[o].type /\ i' = i
         ELSE IF o # 0 THEN i' = i + 1 /\ stage' = stage
         ELSE stage' = "check" /\ i' = 1
  /\ UNCHANGED <<line, next, stack, parsed, positional, value, is_set, shown>>

\* The second pass: the first of --help and --version ends the program.
LookForExit ==
  /\ stage = "exits"
  /\ IF i > Len(parsed) THEN stage' = "check" /\ i' = 1
     ELSE LET o == Find(parsed[i])
          IN  IF o # 0 /\ Options[o].type \in {"help", "version"}
              THEN stage' = Options[o].type /\ i' = i
              ELSE i' = i + 1 /\ stage' = stage
  /\ UNCHANGED <<line, next, stack, parsed, positional, value, is_set, shown>>

\* args__parse_value: the value that a text has for an option, if it has one.
ModesOf(text) == {m \in DOMAIN ModeNames : Len(text) = 1 /\ text[1] \in ModeNames[m]}
HasValue(o, text) ==
  IF Options[o].type = "long" THEN text \in DOMAIN Numerals ELSE ModesOf(text) # {}
ParseValue(o, text) ==
  IF Options[o].type = "long" THEN Numerals[text] ELSE First(ModesOf(text)) - 1

\* Mutant: an option may be given again.
AcceptableAgain(e, set) ==
  /\ Find(e) # 0
  /\ IF IsFlag(Find(e)) THEN e.value = NoValue
     ELSE e.value # NoValue /\ HasValue(Find(e), e.value)

\* What the third pass accepts, with the options set before.
Acceptable(e, set) ==
  /\ Find(e) # 0
  /\ Find(e) \notin set
  /\ IF IsFlag(Find(e)) THEN e.value = NoValue
     ELSE e.value # NoValue /\ HasValue(Find(e), e.value)

\* Mutant: an option that is not known is skipped.
CheckSkipsUnknown ==
  /\ stage = "check" /\ i <= Len(parsed)
  /\ LET e == parsed[i]
         o == Find(e)
     IN  \/ /\ Acceptable(e, is_set)
            /\ is_set' = is_set \cup {o}
            /\ value' = [value EXCEPT ![o] = IF IsFlag(o) THEN 1 ELSE ParseValue(o, e.value)]
            /\ i' = i + 1
            /\ stage' = stage
         \/ /\ o = 0
            /\ i' = i + 1
            /\ UNCHANGED <<stage, value, is_set>>
         \/ /\ o # 0 /\ ~Acceptable(e, is_set)
            /\ stage' = "error"
            /\ UNCHANGED <<i, value, is_set>>
  /\ UNCHANGED <<line, next, stack, parsed, positional, shown>>

\* The third pass: an error ends the program, the options before it are set.
Check ==
  /\ stage = "check" /\ i <= Len(parsed)
  /\ LET e == parsed[i]
         o == Find(e)
     IN  \/ /\ Acceptable(e, is_set)
            /\ is_set' = is_set \cup {o}
            /\ value' = [value EXCEPT ![o] = IF IsFlag(o) THEN 1 ELSE ParseValue(o, e.value)]
            /\ i' = i + 1
            /\ stage' = stage
         \/ /\ ~Acceptable(e, is_set)
            /\ stage' = "error"
            /\ UNCHANGED <<i, value, is_set>>
  /\ UNCHANGED <<line, next, stack, parsed, positional, shown>>

Return ==
  /\ stage = "check" /\ i > Len(parsed)
  /\ stage' = "done"
  /\ UNCHANGED <<line, next, stack, parsed, positional, i, value, is_set, shown>>

Next ==
  \/ Start
  \/ TakePositional \/ TakeLong \/ StartShort \/ ShortChar \/ EndSplit
  \/ LookForExit \/ Check \/ Return

Spec == Init /\ [][Next]_vars /\ WF_vars(Next)

-----------------------------------------------------------------------------
(* Properties. *)

\* Every variable keeps its type.
TypeOK ==
  /\ line \in Lines
  /\ stage \in {"start", "split", "exits", "check"} \cup Ends
  /\ next \in 1..(Len(line) + 1)
  /\ stack \in Seq(STRING)
  /\ \A e \in Range(parsed) :
       /\ e.arg \in DOMAIN line /\ e.from \in {0} \cup DOMAIN line
       /\ e.name \in {""} \cup Range(line[e.arg])
  /\ \A p \in Range(positional) : p \in DOMAIN line
  /\ i \in 1..(Len(parsed) + 1)
  /\ value \in [DOMAIN Options -> Int]
  /\ is_set \subseteq DOMAIN Options
  /\ shown \subseteq DOMAIN Options

Values == {e.from : e \in Range(parsed)} \ {0}

\* The first pass gives every argument it has consumed one role: it is a
\* positional argument, or it holds options, or it is the value of the option
\* before it; and of the options stacked in one argument only the last one has
\* a value, so that no text is read both as a value and as options.
ArgumentsPartitioned ==
  /\ LET read == IF stack = <<>> THEN next - 1 ELSE next - 2
         roles == <<Range(positional), {e.arg : e \in Range(parsed)}, Values>>
     IN  \A k \in 1..read : Cardinality({r \in DOMAIN roles : k \in roles[r]}) = 1
  /\ \A j, k \in DOMAIN parsed :
       j < k /\ parsed[j].arg = parsed[k].arg => parsed[j].value = NoValue

Asks(text) == text \in {<<"-", "h">>, <<"-", "v">>, <<"-", "-", "help">>, <<"-", "-", "version">>}

\* Whoever asks for help or the version gets it, wherever the request stands on
\* the line and whatever is wrong with the other options: once the arguments
\* are split, parse_args neither fails nor returns if an argument that is not
\* another option's value asks for it.
HelpWins ==
  stage \in {"check", "error", "done"} /\ next > Len(line) =>
    \A k \in DOMAIN line : Asks(line[k]) => k \in Values

\* The values with which main goes on are those of the line: every option holds
\* the value of the only place that gives it, or its default, and no part of
\* the line that looks like an option was dropped: whatever was split off as
\* one is an option the program knows.
OptionsFromLine ==
  stage = "done" =>
    /\ \A k \in DOMAIN parsed : Find(parsed[k]) # 0
    /\ \A o \in DOMAIN Options :
         LET given == {k \in DOMAIN parsed : Find(parsed[k]) = o}
         IN  /\ Cardinality(given) <= 1
             /\ given = {} => value[o] = Options[o].default
             /\ \A k \in given :
                  value[o] = IF IsFlag(o) THEN 1 ELSE ParseValue(o, parsed[k].value)

\* The completion of the shell and the parser read a line alike: where the
\* completion offers the value of an option, the parser takes the next argument
\* as the value of that option; and an abbreviation for which the completion
\* offers options is read by the parser as the first of them.
CompletionAgrees ==
  /\ stage = "exits" =>
       \A k \in 1..(Len(line) - 1) :
         /\ ~IsPositional(line[k]) /\ k \notin Values
         /\ ValueOption(line[k]) # 0 /\ ~IsFlag(ValueOption(line[k]))
         => \E e \in Range(parsed) :
              e.arg = k /\ e.from = k + 1 /\ Find(e) = ValueOption(line[k])
  /\ stage = "exits" =>
       \A e \in Range(parsed) :
         ~e.short /\ ~HasEquals(line[e.arg]) => Find(e) = First(Suggested(line[e.arg]))

\* parse_args returns or ends the program for every line.
ArgsDecide == <>(stage \in Ends)

=============================================================================
