---------------------------- MODULE Args_proofs -----------------------------
(***************************************************************************)
(* Proofs about Args, for every set of command lines and all numerals.     *)
(***************************************************************************)
EXTENDS Args, SequenceTheorems, FiniteSetTheorems, WellFoundedInduction, TLAPS

-----------------------------------------------------------------------------
(* The options of main. *)

\* The table, row by row.
LEMMA OptionTable ==
  /\ DOMAIN Options = 1..5
  /\ Options[1] = option_help
  /\ Options[2] = option_version
  /\ Options[3] = option_long("port", "p", SM3T_DEFAULT_PORT)
  /\ Options[4] = option_flag("debug", "d")
  /\ Options[5] = option_enum("mode", "m")
BY DEF Options

\* Its columns.
LEMMA OptionTypes ==
  /\ Options[1].type = "help" /\ Options[2].type = "version" /\ Options[3].type = "long"
  /\ Options[4].type = "flag" /\ Options[5].type = "enum"
BY OptionTable DEF option_help, option_version, option_long, option_flag, option_enum, NewOption

LEMMA OptionDefaults ==
  /\ Options[1].default = 0 /\ Options[2].default = 0 /\ Options[3].default = 8080
  /\ Options[4].default = 0 /\ Options[5].default = 0
BY OptionTable DEF option_help, option_version, option_long, option_flag, option_enum, NewOption,
   SM3T_DEFAULT_PORT

LEMMA OptionShortNames ==
  /\ Options[1].short_name = "h" /\ Options[2].short_name = "v" /\ Options[3].short_name = "p"
  /\ Options[4].short_name = "d" /\ Options[5].short_name = "m"
BY OptionTable DEF option_help, option_version, option_long, option_flag, option_enum, NewOption

LEMMA OptionLongNames ==
  /\ Options[1].long_name = "help" /\ Options[2].long_name = "version"
  /\ Options[3].long_name = "port"
  /\ Options[4].long_name = "debug" /\ Options[5].long_name = "mode"
BY OptionTable DEF option_help, option_version, option_long, option_flag, option_enum, NewOption

\* First picks the least member of a set of options.
LEMMA FirstLeast ==
  ASSUME NEW S \in SUBSET (1..5)
  PROVE  /\ S = {} => First(S) = 0
         /\ S # {} => First(S) \in S /\ \A p \in S : First(S) <= p
<1>1. CASE S = {}
  BY <1>1 DEF First
<1>2. CASE S # {}
  <2>1. \E o \in S : \A p \in S : o <= p
    <3>1. CASE 1 \in S
      BY <3>1
    <3>2. CASE 1 \notin S /\ 2 \in S
      BY <3>2
    <3>3. CASE 1 \notin S /\ 2 \notin S /\ 3 \in S
      BY <3>3
    <3>4. CASE 1 \notin S /\ 2 \notin S /\ 3 \notin S /\ 4 \in S
      BY <3>4
    <3>5. CASE 1 \notin S /\ 2 \notin S /\ 3 \notin S /\ 4 \notin S
      <4>1. PICK x : x \in S
        BY <1>2
      <4>2. \A p \in S : p = 5
        BY <3>5
      <4> QED
        BY <4>1, <4>2
    <3> QED
      BY <3>1, <3>2, <3>3, <3>4, <3>5
  <2>2. First(S) = CHOOSE o \in S : \A p \in S : o <= p
    BY <1>2 DEF First
  <2> QED
    BY <1>2, <2>1, <2>2
<1> QED
  BY <1>1, <1>2

LEMMA FirstRange ==
  ASSUME NEW S \in SUBSET (1..5)
  PROVE  First(S) \in 0..5 /\ (First(S) # 0 => First(S) \in S)
<1>1. CASE S = {}
  BY <1>1, FirstLeast
<1>2. CASE S # {}
  <2>1. PICK f : f = First(S) /\ f \in S
    BY <1>2, FirstLeast
  <2> QED
    BY <2>1
<1> QED
  BY <1>1, <1>2

\* The only member of a set is its first.
LEMMA FirstOnly ==
  ASSUME NEW o \in 1..5
  PROVE  First({o}) = o
BY FirstLeast, {o} \in SUBSET (1..5), {o} # {}

LEMMA FindRange ==
  ASSUME NEW n
  PROVE  FindShort(n) \in 0..5 /\ FindLong(n) \in 0..5
<1>1. {o \in DOMAIN Options : Options[o].short_name = n} \in SUBSET (1..5)
  BY OptionTable
<1>2. {o \in DOMAIN Options : n \in Beginnings(Options[o].long_name)} \in SUBSET (1..5)
  BY OptionTable
<1> QED
  BY <1>1, <1>2, FirstRange DEF FindShort, FindLong

\* Which options are flags.
LEMMA Flags ==
  ASSUME NEW o \in 1..5
  PROVE  IsFlag(o) <=> o \in {1, 2, 4}
BY OptionTypes DEF IsFlag

\* A short name is found by its character.
LEMMA ShortFound ==
  ASSUME NEW o \in 1..5
  PROVE  FindShort(Options[o].short_name) = o
<1>1. {p \in DOMAIN Options : Options[p].short_name = Options[o].short_name} = {o}
  BY OptionTable, OptionShortNames
<1> QED
  BY <1>1, FirstOnly DEF FindShort

LEMMA BeginningsTable ==
  /\ Beginnings("help") = {"", "help", "h", "he"}
  /\ Beginnings("version") = {"", "version", "v", "ve"}
  /\ Beginnings("port") = {"", "port", "p", "po"}
  /\ Beginnings("debug") = {"", "debug", "d", "de"}
  /\ Beginnings("mode") = {"", "mode", "m", "mo"}
BY DEF Beginnings

\* A long name written in full is found, because none is the beginning of another.
LEMMA LongFound ==
  ASSUME NEW o \in 1..5
  PROVE  FindLong(Options[o].long_name) = o
<1>a. \A p \in 1..5 : p = 1 \/ p = 2 \/ p = 3 \/ p = 4 \/ p = 5
  OBVIOUS
<1>b. 1 # 2 /\ 1 # 3 /\ 1 # 4 /\ 1 # 5 /\ 2 # 3 /\ 2 # 4 /\ 2 # 5 /\ 3 # 4 /\ 3 # 5 /\ 4 # 5
  OBVIOUS
<1>1. \A p \in 1..5 : Options[o].long_name \in Beginnings(Options[p].long_name) <=> p = o
  <2>1. CASE o = 1
    <3>1. /\ "help" \in Beginnings("help")
          /\ "help" \notin Beginnings("version")
          /\ "help" \notin Beginnings("port")
          /\ "help" \notin Beginnings("debug")
          /\ "help" \notin Beginnings("mode")
      BY BeginningsTable
    <3> QED
      BY <2>1, <3>1, <1>a, <1>b, OptionLongNames, Zenon
  <2>2. CASE o = 2
    <3>1. /\ "version" \notin Beginnings("help")
          /\ "version" \in Beginnings("version")
          /\ "version" \notin Beginnings("port")
          /\ "version" \notin Beginnings("debug")
          /\ "version" \notin Beginnings("mode")
      BY BeginningsTable
    <3> QED
      BY <2>2, <3>1, <1>a, <1>b, OptionLongNames, Zenon
  <2>3. CASE o = 3
    <3>1. /\ "port" \notin Beginnings("help")
          /\ "port" \notin Beginnings("version")
          /\ "port" \in Beginnings("port")
          /\ "port" \notin Beginnings("debug")
          /\ "port" \notin Beginnings("mode")
      BY BeginningsTable
    <3> QED
      BY <2>3, <3>1, <1>a, <1>b, OptionLongNames, Zenon
  <2>4. CASE o = 4
    <3>1. /\ "debug" \notin Beginnings("help")
          /\ "debug" \notin Beginnings("version")
          /\ "debug" \notin Beginnings("port")
          /\ "debug" \in Beginnings("debug")
          /\ "debug" \notin Beginnings("mode")
      BY BeginningsTable
    <3> QED
      BY <2>4, <3>1, <1>a, <1>b, OptionLongNames, Zenon
  <2>5. CASE o = 5
    <3>1. /\ "mode" \notin Beginnings("help")
          /\ "mode" \notin Beginnings("version")
          /\ "mode" \notin Beginnings("port")
          /\ "mode" \notin Beginnings("debug")
          /\ "mode" \in Beginnings("mode")
      BY BeginningsTable
    <3> QED
      BY <2>5, <3>1, <1>a, <1>b, OptionLongNames, Zenon
  <2> QED
    BY <2>1, <2>2, <2>3, <2>4, <2>5
<1>2. {p \in DOMAIN Options : Options[o].long_name \in Beginnings(Options[p].long_name)} = {o}
  BY <1>1, OptionTable
<1> QED
  BY <1>2, FirstOnly DEF FindLong

-----------------------------------------------------------------------------
(* Arguments. *)

\* A set of numbers has a least member.
LEMMA LeastExists ==
  ASSUME NEW S, S \subseteq Nat, S # {}
  PROVE  \E x \in S : \A y \in S : x <= y
<1>1. \E x \in S : \A y \in S : <<y, x>> \notin OpToRel(<, Nat)
  BY NatLessThanWellFounded, WFMin, Zenon
<1>2. PICK x \in S : \A y \in S : <<y, x>> \notin OpToRel(<, Nat)
  BY <1>1
<1>3. \A y \in S : ~(y < x)
  BY <1>2 DEF OpToRel
<1> QED
  BY <1>3

\* What follows "=" is a text.
LEMMA AfterEqualsType ==
  ASSUME NEW arg \in Seq(STRING), HasEquals(arg)
  PROVE  AfterEquals(arg) \in Seq(STRING)
<1> DEFINE S == {k \in DOMAIN arg : arg[k] = "="}
<1>1. S # {} /\ S \subseteq Nat
  BY DEF HasEquals
<1>2. PICK k \in S : \A j \in S : k <= j
  BY <1>1, LeastExists
<1>3. k \in DOMAIN arg /\ arg[k] = "=" /\ \A j \in 1..(k - 1) : arg[j] # "="
  BY <1>2
<1>4. PICK m \in DOMAIN arg : AfterEquals(arg) = SubSeq(arg, m + 1, Len(arg))
  BY <1>3, Zenon DEF AfterEquals
<1> QED
  BY <1>4

-----------------------------------------------------------------------------
(* Types. *)

Text == Seq(STRING)

\* An entry of parsed, with a name that may be the empty one.
Entry ==
  [short : BOOLEAN, name : STRING \cup {""}, value : Text \cup {NoValue}, arg : Nat, from : Nat]

LEMMA ParsedEntry ==
  ASSUME NEW short \in BOOLEAN, NEW name \in STRING \cup {""}, NEW v \in Text \cup {NoValue},
         NEW arg \in Nat, NEW from \in Nat
  PROVE  Parsed(short, name, v, arg, from) \in Entry
BY Zenon DEF Parsed, Entry

\* The parts of a text.
LEMMA TextParts ==
  ASSUME NEW t \in Text, t # <<>>
  PROVE  Head(t) \in STRING /\ Tail(t) \in Text
BY HeadTailProperties DEF Text

LEMMA TailLeft ==
  ASSUME NEW t \in Text, Len(t) > 1
  PROVE  t # <<>> /\ Tail(t) # <<>>
<1>1. t # <<>>
  OBVIOUS
<1>2. PICK u : u = Tail(t)
  OBVIOUS
<1>3. Len(u) = Len(t) - 1
  BY <1>1, <1>2, HeadTailProperties DEF Text
<1>4. u # <<>>
  BY <1>3
<1> QED
  BY <1>1, <1>2, <1>4

LEMMA LongNameType ==
  ASSUME NEW arg \in Text
  PROVE  LongName(arg) \in STRING \cup {""}
<1>1. CASE Len(arg) < 3 \/ arg[3] = "="
  BY <1>1 DEF LongName
<1>2. CASE ~(Len(arg) < 3 \/ arg[3] = "=")
  <2>1. arg[3] \in STRING
    BY <1>2 DEF Text
  <2> QED
    BY <1>2, <2>1 DEF LongName
<1> QED
  BY <1>1, <1>2

\* One more entry.
LEMMA AppendEntry ==
  ASSUME NEW ps \in Seq(Entry), NEW e \in Entry
  PROVE  /\ Append(ps, e) \in Seq(Entry) /\ Len(Append(ps, e)) = Len(ps) + 1
         /\ \A j \in 1..Len(ps) : Append(ps, e)[j] = ps[j]
         /\ Append(ps, e)[Len(ps) + 1] = e
BY AppendProperties

TypeInv ==
  /\ line \in Lines
  /\ stage \in {"start", "split", "exits", "check"} \cup Ends
  /\ next \in 1..(Len(line) + 1)
  /\ stack \in Text
  /\ parsed \in Seq(Entry)
  /\ positional \in Seq(Nat)
  /\ i \in 1..(Len(parsed) + 1)
  /\ value \in [DOMAIN Options -> Int]
  /\ is_set \subseteq DOMAIN Options
  /\ shown \subseteq DOMAIN Options

\* The line and its texts.
LEMMA LineTexts ==
  ASSUME TypeInv
  PROVE  line \in Seq(Text) /\ Len(line) \in Nat /\ next \in Nat /\ i \in Nat
BY ArgsAssumption DEF TypeInv, Text

\* Whether the long option that is read takes the next argument.
LongTakes(l, n) == ~HasEquals(l[n]) /\ n + 1 <= Len(l) /\ TakesNextLong(LongName(l[n]))

\* What reading a long option does.
LEMMA LongStep ==
  ASSUME TypeInv, TakeLong
  PROVE  /\ stage = "split" /\ stack = <<>> /\ next \in 1..Len(line)
         /\ ~IsPositional(line[next]) /\ IsLong(line[next])
         /\ UNCHANGED <<line, stage, stack, positional, i, value, is_set, shown>>
         /\ \E e \in Entry :
              /\ parsed' = Append(parsed, e)
              /\ e.short = FALSE /\ e.name = LongName(line[next]) /\ e.arg = next
              /\ e.from = IF LongTakes(line, next) THEN next + 1 ELSE 0
              /\ next' = IF e.from = 0 THEN next + 1 ELSE next + 2
<1>1. /\ stage = "split" /\ stack = <<>> /\ next \in 1..Len(line)
      /\ ~IsPositional(line[next]) /\ IsLong(line[next])
      /\ UNCHANGED <<line, stage, stack, positional, i, value, is_set, shown>>
  BY LineTexts DEF TakeLong, Splitting, TypeInv
<1> DEFINE arg == line[next]
           v == IF HasEquals(arg) THEN AfterEquals(arg)
                ELSE IF LongTakes(line, next) THEN Argv(next + 1) ELSE NoValue
           from == IF LongTakes(line, next) THEN next + 1 ELSE 0
<1>2. arg \in Text
  BY <1>1, LineTexts
<1>3. v \in Text \cup {NoValue}
  <2>1. HasEquals(arg) => AfterEquals(arg) \in Text
    BY <1>2, AfterEqualsType DEF Text
  <2>2. LongTakes(line, next) => Argv(next + 1) \in Text
    BY LineTexts, <1>1 DEF LongTakes, Argv
  <2> QED
    BY <2>1, <2>2
<1>4. from \in Nat /\ next \in Nat /\ (from = 0 <=> ~LongTakes(line, next))
  BY LineTexts, <1>1
<1>5. /\ parsed' = Append(parsed, Parsed(FALSE, LongName(line[next]), v, next, from))
      /\ next' = IF LongTakes(line, next) THEN next + 2 ELSE next + 1
  BY Zenon DEF TakeLong, LongTakes, ArgLeft
<1>6. next' = IF from = 0 THEN next + 1 ELSE next + 2
  BY <1>4, <1>5, Zenon
<1>7. LongName(line[next]) \in STRING \cup {""}
  BY <1>2, LongNameType, Zenon
<1>8. from = IF LongTakes(line, next) THEN next + 1 ELSE 0
  OBVIOUS
<1> HIDE DEF v, from
<1>9. PICK e \in Entry : e = Parsed(FALSE, LongName(line[next]), v, next, from)
  BY <1>3, <1>4, <1>7, ParsedEntry
<1>10. e.short = FALSE /\ e.name = LongName(line[next]) /\ e.arg = next /\ e.from = from
  BY <1>9 DEF Parsed
<1> QED
  BY <1>1, <1>5, <1>6, <1>8, <1>9, <1>10, Zenon

\* Whether the character ch, with rest behind it, takes the next argument n.
ShortTakes(l, n, ch, rest) == TakesValue(ch) /\ rest = <<>> /\ n <= Len(l)

\* What reading a character of a stack does.
LEMMA ShortStep ==
  ASSUME TypeInv, ShortChar
  PROVE  /\ stage = "split" /\ stack # <<>>
         /\ UNCHANGED <<line, stage, positional, i, value, is_set, shown>>
         /\ stack' = IF TakesValue(Head(stack)) THEN <<>> ELSE Tail(stack)
         /\ \E e \in Entry :
              /\ parsed' = Append(parsed, e)
              /\ e.short = TRUE /\ e.name = Head(stack) /\ e.arg = next - 1
              /\ e.from = IF ShortTakes(line, next, Head(stack), Tail(stack)) THEN next ELSE 0
              /\ next' = IF e.from = 0 THEN next ELSE next + 1
              /\ ~TakesValue(Head(stack)) => e.value = NoValue
<1>1. /\ stage = "split" /\ stack # <<>>
      /\ UNCHANGED <<line, stage, positional, i, value, is_set, shown>>
  BY DEF ShortChar
<1>2. next \in Nat \ {0} /\ stack \in Text /\ Tail(stack) \in Text
  BY <1>1, LineTexts DEF TypeInv, Text
<1> DEFINE T == ShortTakes(line, next, Head(stack), Tail(stack))
           v == IF ~TakesValue(Head(stack)) THEN NoValue
                ELSE IF Tail(stack) # <<>> THEN Tail(stack)
                ELSE IF T THEN Argv(next) ELSE NoValue
           from == IF T THEN next ELSE 0
<1>3. v \in Text \cup {NoValue}
  <2>1. T => Argv(next) \in Text
    BY LineTexts, <1>2 DEF ShortTakes, Argv
  <2> QED
    BY <2>1, <1>2
<1>4. from \in Nat /\ next - 1 \in Nat /\ (from = 0 <=> ~T)
  BY <1>2
<1>5. /\ parsed' = Append(parsed, Parsed(TRUE, Head(stack), v, next - 1, from))
      /\ next' = IF T THEN next + 1 ELSE next
      /\ stack' = IF TakesValue(Head(stack)) THEN <<>> ELSE Tail(stack)
  BY Zenon DEF ShortChar, ShortTakes, ArgLeft, StackArg
<1>6. next' = IF from = 0 THEN next ELSE next + 1
  BY <1>4, <1>5, Zenon
<1>7. ~TakesValue(Head(stack)) => v = NoValue
  OBVIOUS
<1>8. from = IF T THEN next ELSE 0
  OBVIOUS
<1>9. Head(stack) \in STRING \cup {""}
  <2>1. Head(stack) \in STRING
    BY <1>1, <1>2, TextParts, Zenon
  <2> QED
    BY <2>1, Zenon
<1> HIDE DEF v, from
<1>10. PICK e \in Entry : e = Parsed(TRUE, Head(stack), v, next - 1, from)
  BY <1>3, <1>4, <1>9, ParsedEntry
<1>11. /\ e.short = TRUE /\ e.name = Head(stack) /\ e.value = v
       /\ e.arg = next - 1 /\ e.from = from
  BY <1>10 DEF Parsed
<1> QED
  BY <1>1, <1>5, <1>6, <1>7, <1>8, <1>10, <1>11, Zenon

LEMMA TypeInit == Init => TypeInv
<1> SUFFICES ASSUME Init PROVE TypeInv
  OBVIOUS
<1>1. value \in [DOMAIN Options -> Int]
  <2>1. \A o \in DOMAIN Options : Options[o].default \in Int
    BY OptionTable, OptionDefaults
  <2> QED
    BY <2>1 DEF Init
<1>2. line \in Seq(Text)
  BY ArgsAssumption DEF Init, Text
<1>3. stack \in Text /\ parsed \in Seq(Entry) /\ positional \in Seq(Nat)
  BY DEF Init, Text
<1>4. next \in 1..(Len(line) + 1) /\ i \in 1..(Len(parsed) + 1)
  BY <1>2, <1>3 DEF Init
<1> QED
  BY <1>1, <1>3, <1>4 DEF Init, TypeInv

\* A completion shows options, or values of --mode, of which there are fewer.
LEMMA TypeStart ==
  ASSUME TypeInv, Start
  PROVE  TypeInv'
<1>1. UNCHANGED <<line, next, stack, parsed, positional, i, value, is_set>>
  BY DEF Start
<1>2. \A cur : Suggested(cur) \subseteq DOMAIN Options
  <2> TAKE cur
  <2>1. {FindShort(cur[2])} \ {0} \subseteq DOMAIN Options
    BY FindRange, OptionTable
  <2> QED
    BY <2>1, Zenon DEF Suggested
<1>3. \A prev, cur : SuggestedValues(prev, cur) \subseteq DOMAIN Options
  <2> TAKE prev, cur
  <2>1. DOMAIN ModeNames \subseteq DOMAIN Options
    BY OptionTable DEF ModeNames
  <2> QED
    BY <2>1, Zenon DEF SuggestedValues
<1>4. shown' \subseteq DOMAIN Options
  <2>1. shown' = shown \/ shown' = DOMAIN Options
          \/ (\E cur : shown' = Suggested(cur))
          \/ (\E prev, cur : shown' = SuggestedValues(prev, cur))
    BY Zenon DEF Start, HandleCompletion, HandleComplete, BashComplete
  <2> QED
    BY <1>2, <1>3, <2>1, Zenon DEF TypeInv
<1>5. stage' \in {"script", "error", "completed", "split"}
  BY Zenon DEF Start, HandleCompletion, HandleComplete, BashComplete
<1> QED
  BY <1>1, <1>4, <1>5 DEF TypeInv, Ends

LEMMA TypePositional ==
  ASSUME TypeInv, TakePositional
  PROVE  TypeInv'
BY LineTexts DEF TypeInv, TakePositional, Splitting

LEMMA TypeLong ==
  ASSUME TypeInv, TakeLong
  PROVE  TypeInv'
<1>1. PICK e \in Entry :
           /\ parsed' = Append(parsed, e)
           /\ e.from = IF LongTakes(line, next) THEN next + 1 ELSE 0
           /\ next' = IF e.from = 0 THEN next + 1 ELSE next + 2
  BY LongStep, Zenon
<1>2. /\ UNCHANGED <<line, stage, stack, positional, i, value, is_set, shown>>
      /\ next \in 1..Len(line)
  BY LongStep
<1>3. parsed' \in Seq(Entry) /\ Len(parsed') = Len(parsed) + 1
  BY <1>1, AppendEntry, Zenon DEF TypeInv
<1>4. next' \in 1..(Len(line) + 1)
  <2>1. e.from = 0 \/ next + 1 <= Len(line)
    BY <1>1, Zenon DEF LongTakes
  <2> QED
    BY <2>1, <1>1, <1>2, LineTexts
<1>5. i' \in 1..(Len(parsed') + 1)
  BY <1>2, <1>3 DEF TypeInv
<1> QED
  BY <1>2, <1>3, <1>4, <1>5 DEF TypeInv

LEMMA TypeStartShort ==
  ASSUME TypeInv, StartShort
  PROVE  TypeInv'
<1>1. next \in 1..Len(line) /\ line[next] \in Text /\ line[next] # <<>>
  BY LineTexts DEF TypeInv, StartShort, Splitting, IsPositional
<1>2. Tail(line[next]) \in Text
  BY <1>1, TextParts
<1> QED
  BY <1>1, <1>2, LineTexts DEF TypeInv, StartShort

LEMMA TypeShort ==
  ASSUME TypeInv, ShortChar
  PROVE  TypeInv'
<1>1. PICK e \in Entry :
           /\ parsed' = Append(parsed, e)
           /\ e.from = IF ShortTakes(line, next, Head(stack), Tail(stack)) THEN next ELSE 0
           /\ next' = IF e.from = 0 THEN next ELSE next + 1
  BY ShortStep, Zenon
<1>2. /\ UNCHANGED <<line, stage, positional, i, value, is_set, shown>>
      /\ stack # <<>>
      /\ stack' = IF TakesValue(Head(stack)) THEN <<>> ELSE Tail(stack)
  BY ShortStep
<1>3. parsed' \in Seq(Entry) /\ Len(parsed') = Len(parsed) + 1
  BY <1>1, AppendEntry, Zenon DEF TypeInv
<1>4. next' \in 1..(Len(line) + 1)
  <2>1. e.from = 0 \/ next <= Len(line)
    BY <1>1, Zenon DEF ShortTakes
  <2> QED
    BY <2>1, <1>1, LineTexts DEF TypeInv
<1>5. i' \in 1..(Len(parsed') + 1)
  BY <1>2, <1>3 DEF TypeInv
<1>6. stack' \in Text
  <2>1. <<>> \in Text /\ stack \in Text
    BY DEF TypeInv, Text
  <2>2. Tail(stack) \in Text
    BY <2>1, <1>2, TextParts, Zenon
  <2> QED
    BY <1>2, <2>1, <2>2
<1> QED
  BY <1>2, <1>3, <1>4, <1>5, <1>6 DEF TypeInv

LEMMA TypeEndSplit ==
  ASSUME TypeInv, EndSplit
  PROVE  TypeInv'
BY DEF TypeInv, EndSplit

LEMMA TypeLookForExit ==
  ASSUME TypeInv, LookForExit
  PROVE  TypeInv'
<1>1. UNCHANGED <<line, next, stack, parsed, positional, value, is_set, shown>>
  BY DEF LookForExit
<1>2. stage' \in {"check", "help", "version", "exits"}
  BY Zenon DEF LookForExit
<1>3. i' = 1 \/ i' = i \/ (i <= Len(parsed) /\ i' = i + 1)
  <2>1. Len(parsed) \in Nat /\ i \in Nat
    BY LineTexts DEF TypeInv
  <2>2. i > Len(parsed) \/ i <= Len(parsed)
    BY <2>1
  <2> QED
    BY <2>2, Zenon DEF LookForExit
<1>4. i' \in 1..(Len(parsed) + 1)
  BY <1>3 DEF TypeInv
<1> QED
  BY <1>1, <1>2, <1>4 DEF TypeInv, Ends

\* The value of an accepted option is a number.
LEMMA ParsedValueType ==
  ASSUME NEW o \in 1..5, NEW text, ~IsFlag(o), HasValue(o, text)
  PROVE  ParseValue(o, text) \in Int
<1>1. CASE Options[o].type = "long"
  BY <1>1, ArgsAssumption DEF HasValue, ParseValue
<1>2. CASE Options[o].type # "long"
  <2>1. ModesOf(text) \in SUBSET (1..5)
    BY DEF ModesOf, ModeNames
  <2>2. PICK f : f = First(ModesOf(text)) /\ f \in 0..5
    BY <2>1, FirstRange
  <2>3. ParseValue(o, text) = f - 1
    BY <1>2, <2>2 DEF ParseValue
  <2> QED
    BY <2>2, <2>3
<1> QED
  BY <1>1, <1>2

LEMMA FindOption ==
  ASSUME NEW e, Find(e) # 0
  PROVE  Find(e) \in 1..5
BY FindRange DEF Find

LEMMA TypeCheck ==
  ASSUME TypeInv, Check
  PROVE  TypeInv'
<1>1. UNCHANGED <<line, next, stack, parsed, positional, shown>> /\ stage = "check"
  BY DEF Check
<1>2. CASE stage' = "error" /\ UNCHANGED <<i, value, is_set>>
  BY <1>1, <1>2 DEF TypeInv, Ends
<1>3. CASE /\ Acceptable(parsed[i], is_set)
           /\ is_set' = is_set \cup {Find(parsed[i])}
           /\ value' = [value EXCEPT ![Find(parsed[i])] =
                           IF IsFlag(Find(parsed[i])) THEN 1
                           ELSE ParseValue(Find(parsed[i]), parsed[i].value)]
           /\ i' = i + 1 /\ stage' = stage
  <2>1. PICK o \in 1..5 : o = Find(parsed[i])
    BY <1>3, FindOption DEF Acceptable
  <2>2. PICK x \in Int : x = IF IsFlag(o) THEN 1 ELSE ParseValue(o, parsed[i].value)
    <3>1. IsFlag(o) \/ ParseValue(o, parsed[i].value) \in Int
      BY <1>3, <2>1, ParsedValueType DEF Acceptable
    <3> QED
      BY <3>1
  <2>3. value' \in [DOMAIN Options -> Int]
    BY <1>3, <2>1, <2>2 DEF TypeInv
  <2>4. is_set' \subseteq DOMAIN Options
    BY <1>3, <2>1, OptionTable DEF TypeInv
  <2>5. i' \in 1..(Len(parsed) + 1)
    BY <1>3, LineTexts DEF TypeInv, Check
  <2> QED
    BY <1>1, <1>3, <2>3, <2>4, <2>5 DEF TypeInv
<1> QED
  BY <1>2, <1>3, Zenon DEF Check

LEMMA TypeReturn ==
  ASSUME TypeInv, Return
  PROVE  TypeInv'
BY DEF TypeInv, Return, Ends

LEMMA TypeStep == TypeInv /\ [Next]_vars => TypeInv'
<1>1. TypeInv /\ UNCHANGED vars => TypeInv'
  BY DEF TypeInv, vars
<1> QED
  BY <1>1, TypeStart, TypePositional, TypeLong, TypeStartShort, TypeShort, TypeEndSplit,
     TypeLookForExit, TypeCheck, TypeReturn DEF Next

-----------------------------------------------------------------------------
(* The passes. *)

\* An entry that asks for help or the version.
AsksExit(e) == Find(e) # 0 /\ Options[Find(e)].type \in {"help", "version"}

\* The passes follow each other: the first one has read the whole line before
\* the second one starts, and only a line without a request for help or the
\* version reaches the third one.
PassInv ==
  /\ stage = "start" => next = 1
  /\ stage # "split" => stack = <<>>
  /\ stage \in {"exits", "check", "done"} => next > Len(line)
  /\ stage \in {"start", "split"} => i = 1
  /\ stage = "exits" => \A k \in 1..(i - 1) : ~AsksExit(parsed[k])
  /\ stage \in {"check", "done"} \/ (stage = "error" /\ next > Len(line)) =>
       \A k \in 1..Len(parsed) : ~AsksExit(parsed[k])

LEMMA PassInit == Init => PassInv
<1> SUFFICES ASSUME Init PROVE PassInv
  OBVIOUS
<1> QED
  BY DEF Init, PassInv

LEMMA PassStart ==
  ASSUME TypeInv, PassInv, Start
  PROVE  PassInv'
<1>1. stage = "start" /\ UNCHANGED <<line, next, stack, parsed, positional, i, value, is_set>>
  BY DEF Start
<1>2. stage' \in {"script", "error", "completed", "split"}
  BY Zenon DEF Start, HandleCompletion, HandleComplete, BashComplete
<1>3. stage' = "split" \/ Len(line) >= 1
  <2>1. stage' = "split" \/ line # <<>>
    BY Zenon DEF Start
  <2> QED
    BY <2>1, LineTexts
<1> QED
  BY <1>1, <1>2, <1>3, LineTexts DEF PassInv

\* Reading arguments leaves the pass.
LEMMA PassSplit ==
  ASSUME TypeInv, PassInv, stage = "split", stage' = "split", i' = i
  PROVE  PassInv'
BY DEF PassInv

LEMMA PassLookForExit ==
  ASSUME TypeInv, PassInv, LookForExit
  PROVE  PassInv'
<1>1. stage = "exits" /\ UNCHANGED <<line, next, stack, parsed, positional, value, is_set, shown>>
  BY DEF LookForExit
<1>2. stack = <<>> /\ next > Len(line) /\ \A k \in 1..(i - 1) : ~AsksExit(parsed[k])
  BY <1>1 DEF PassInv
<1>3. i \in Nat /\ Len(parsed) \in Nat /\ i <= Len(parsed) + 1
  BY LineTexts DEF TypeInv
<1>4. CASE i > Len(parsed)
  <2>1. stage' = "check" /\ i' = 1
    BY <1>4 DEF LookForExit
  <2>2. i - 1 = Len(parsed)
    BY <1>3, <1>4
  <2> QED
    BY <1>1, <1>2, <2>1, <2>2 DEF PassInv
<1>5. CASE ~(i > Len(parsed)) /\ AsksExit(parsed[i])
  <2>1. stage' \in {"help", "version"}
    BY <1>5, Zenon DEF LookForExit, AsksExit
  <2> QED
    BY <1>1, <1>2, <2>1 DEF PassInv
<1>6. CASE ~(i > Len(parsed)) /\ ~AsksExit(parsed[i])
  <2>1. stage' = "exits" /\ i' = i + 1
    BY <1>1, <1>6, Zenon DEF LookForExit, AsksExit
  <2>2. \A k \in 1..(i' - 1) : k = i \/ k \in 1..(i - 1)
    BY <2>1, <1>3
  <2>3. \A k \in 1..(i' - 1) : ~AsksExit(parsed[k])
    BY <1>2, <1>6, <2>2, Zenon
  <2> QED
    BY <1>1, <1>2, <2>1, <2>3 DEF PassInv
<1> QED
  BY <1>4, <1>5, <1>6, Zenon

LEMMA PassCheck ==
  ASSUME TypeInv, PassInv, Check \/ Return
  PROVE  PassInv'
<1>1. stage = "check" /\ UNCHANGED <<line, next, stack, parsed>>
  BY DEF Check, Return
<1>2. stage' \in {"check", "error", "done"}
  BY Zenon DEF Check, Return
<1> QED
  BY <1>1, <1>2 DEF PassInv

LEMMA PassStep == TypeInv /\ PassInv /\ [Next]_vars => PassInv'
<1> SUFFICES ASSUME TypeInv, PassInv, [Next]_vars PROVE PassInv'
  OBVIOUS
<1>1. CASE TakePositional \/ TakeLong \/ StartShort \/ ShortChar
  BY <1>1, PassSplit DEF TakePositional, TakeLong, StartShort, ShortChar, Splitting
<1>2. CASE EndSplit
  BY <1>2, LineTexts DEF PassInv, EndSplit
<1>3. CASE UNCHANGED vars
  BY <1>3 DEF PassInv, vars
<1> QED
  BY <1>1, <1>2, <1>3, PassStart, PassLookForExit, PassCheck DEF Next

-----------------------------------------------------------------------------
(* The values of the options. *)

\* What an entry gives its option.
Given(e) == IF IsFlag(Find(e)) THEN 1 ELSE ParseValue(Find(e), e.value)

\* The options that are set are those of the entries before i, one entry each,
\* with its value; the others have their defaults.
SetInv ==
  /\ stage \in {"start", "split", "exits"} =>
       is_set = {} /\ \A o \in DOMAIN Options : value[o] = Options[o].default
  /\ stage \in {"check", "done"} =>
       /\ \A k \in 1..(i - 1) : Find(parsed[k]) \in is_set
       /\ \A o \in is_set : \E k \in 1..(i - 1) : Find(parsed[k]) = o
       /\ \A j, k \in 1..(i - 1) : Find(parsed[j]) = Find(parsed[k]) => j = k
       /\ \A k \in 1..(i - 1) : value[Find(parsed[k])] = Given(parsed[k])
       /\ \A o \in DOMAIN Options \ is_set : value[o] = Options[o].default
  /\ stage = "done" => i > Len(parsed)

LEMMA SetInit == Init => SetInv
<1> SUFFICES ASSUME Init PROVE SetInv
  OBVIOUS
<1> QED
  BY DEF Init, SetInv

LEMMA SetEarly ==
  ASSUME SetInv, stage \in {"start", "split", "exits"}, UNCHANGED <<value, is_set>>,
         stage' \notin {"check", "done"}
  PROVE  SetInv'
BY DEF SetInv

LEMMA SetLookForExit ==
  ASSUME TypeInv, SetInv, LookForExit
  PROVE  SetInv'
<1>1. stage = "exits" /\ UNCHANGED <<parsed, value, is_set>>
  BY DEF LookForExit
<1>2. \/ stage' = "check" /\ i' = 1
      \/ stage' \in {"help", "version", "exits"}
  BY <1>1, Zenon DEF LookForExit
<1>3. CASE stage' = "check" /\ i' = 1
  <2>1. 1..(i' - 1) = {}
    BY <1>3
  <2>2. is_set = {} /\ \A o \in DOMAIN Options : value[o] = Options[o].default
    BY <1>1 DEF SetInv
  <2> QED
    BY <1>1, <1>3, <2>1, <2>2 DEF SetInv
<1>4. CASE stage' \in {"help", "version", "exits"}
  BY <1>1, <1>4, SetEarly
<1> QED
  BY <1>2, <1>3, <1>4

LEMMA SetCheck ==
  ASSUME TypeInv, SetInv, Check
  PROVE  SetInv'
<1>1. stage = "check" /\ UNCHANGED parsed
  BY DEF Check
<1>2. CASE stage' = "error"
  BY <1>2 DEF SetInv
<1>3. CASE /\ Acceptable(parsed[i], is_set)
           /\ is_set' = is_set \cup {Find(parsed[i])}
           /\ value' = [value EXCEPT ![Find(parsed[i])] = Given(parsed[i])]
           /\ i' = i + 1 /\ stage' = stage
  <2>1. PICK o \in 1..5 : o = Find(parsed[i])
    BY <1>3, FindOption DEF Acceptable
  <2>2. o \notin is_set
    BY <1>3, <2>1 DEF Acceptable
  <2>3. i \in Nat \ {0}
    BY LineTexts DEF TypeInv
  <2>4. \A k \in 1..(i' - 1) : k = i \/ k \in 1..(i - 1)
    BY <1>3, <2>3
  <2>5. i \in 1..(i' - 1) /\ \A k \in 1..(i - 1) : k \in 1..(i' - 1)
    BY <1>3, <2>3
  <2>6. /\ value'[o] = Given(parsed[i])
        /\ \A p \in DOMAIN Options : p # o => value'[p] = value[p]
    BY <1>3, <2>1, OptionTable DEF TypeInv
  <2>7. is_set' = is_set \cup {o} /\ is_set \subseteq DOMAIN Options
    BY <1>3, <2>1 DEF TypeInv
  <2>8. /\ \A k \in 1..(i - 1) : Find(parsed[k]) \in is_set
        /\ \A p \in is_set : \E k \in 1..(i - 1) : Find(parsed[k]) = p
        /\ \A j, k \in 1..(i - 1) : Find(parsed[j]) = Find(parsed[k]) => j = k
        /\ \A k \in 1..(i - 1) : value[Find(parsed[k])] = Given(parsed[k])
        /\ \A p \in DOMAIN Options \ is_set : value[p] = Options[p].default
    BY <1>1 DEF SetInv
  <2>9. \A k \in 1..(i' - 1) : Find(parsed[k]) \in is_set'
    BY <2>1, <2>4, <2>7, <2>8, Zenon
  <2>10. \A p \in is_set' : \E k \in 1..(i' - 1) : Find(parsed[k]) = p
    BY <2>1, <2>5, <2>7, <2>8, Zenon
  <2>11. \A j, k \in 1..(i' - 1) : Find(parsed[j]) = Find(parsed[k]) => j = k
    BY <2>1, <2>2, <2>4, <2>8, Zenon
  <2>12. \A k \in 1..(i' - 1) : value'[Find(parsed[k])] = Given(parsed[k])
    <3>1. \A k \in 1..(i - 1) : Find(parsed[k]) # o /\ Find(parsed[k]) \in DOMAIN Options
      BY <2>2, <2>7, <2>8, Zenon
    <3> QED
      BY <2>1, <2>4, <2>6, <2>8, <3>1, Zenon
  <2>13. \A p \in DOMAIN Options \ is_set' : value'[p] = Options[p].default
    BY <2>6, <2>7, <2>8, Zenon
  <2> QED
    BY <1>1, <1>3, <2>9, <2>10, <2>11, <2>12, <2>13, Zenon DEF SetInv
<1> QED
  BY <1>2, <1>3, Zenon DEF Check, Given

LEMMA SetStep == TypeInv /\ SetInv /\ [Next]_vars => SetInv'
<1> SUFFICES ASSUME TypeInv, SetInv, [Next]_vars PROVE SetInv'
  OBVIOUS
<1>1. CASE TakePositional \/ TakeLong \/ StartShort \/ ShortChar \/ EndSplit
  BY <1>1, SetEarly DEF TakePositional, TakeLong, StartShort, ShortChar, EndSplit, Splitting
<1>2. CASE Start
  <2>1. stage' \in {"script", "error", "completed", "split"}
    BY <1>2, Zenon DEF Start, HandleCompletion, HandleComplete, BashComplete
  <2> QED
    BY <1>2, <2>1, SetEarly DEF Start
<1>3. CASE Return
  BY <1>3 DEF SetInv, Return
<1>4. CASE UNCHANGED vars
  BY <1>4 DEF SetInv, vars
<1> QED
  BY <1>1, <1>2, <1>3, <1>4, SetLookForExit, SetCheck DEF Next

-----------------------------------------------------------------------------
(* The roles of the arguments. *)

\* The arguments that hold options, and those that are values.
Holders(ps) == {e.arg : e \in Range(ps)}
ValuesOf(ps) == {e.from : e \in Range(ps)} \ {0}

LEMMA AppendRoles ==
  ASSUME NEW ps \in Seq(Entry), NEW e \in Entry
  PROVE  /\ Range(Append(ps, e)) = Range(ps) \cup {e}
         /\ Holders(Append(ps, e)) = Holders(ps) \cup {e.arg}
         /\ ValuesOf(Append(ps, e)) = ValuesOf(ps) \cup ({e.from} \ {0})
<1>1. PICK qs \in Seq(Entry) : qs = Append(ps, e)
  BY AppendEntry
<1>2. /\ Len(ps) \in Nat /\ DOMAIN ps = 1..Len(ps) /\ DOMAIN qs = 1..(Len(ps) + 1)
      /\ \A j \in 1..Len(ps) : qs[j] = ps[j]
      /\ qs[Len(ps) + 1] = e
  BY <1>1, AppendEntry, LenProperties
<1>3. /\ \A j \in DOMAIN qs : j \in DOMAIN ps \/ j = Len(ps) + 1
      /\ \A j \in DOMAIN ps : j \in DOMAIN qs
      /\ Len(ps) + 1 \in DOMAIN qs
  BY <1>2
<1>4. Range(qs) = Range(ps) \cup {e}
  BY <1>2, <1>3, Zenon DEF Range
<1>5. Holders(qs) = Holders(ps) \cup {e.arg}
  BY <1>4, Zenon DEF Holders
<1>6. ValuesOf(qs) = ValuesOf(ps) \cup ({e.from} \ {0})
  BY <1>4, Zenon DEF ValuesOf
<1> QED
  BY <1>1, <1>4, <1>5, <1>6

\* P, H and V are the positional arguments, those with options and the values;
\* n is the argument that is looked at next, and open says that the stack of
\* the argument before it is still being read.
Roles(P, H, V, n, open) ==
  /\ P \subseteq 1..(n - 1) /\ H \subseteq 1..(n - 1) /\ V \subseteq 1..(n - 1)
  /\ \A k \in 1..(n - 1) :
       /\ ~(k \in P /\ k \in H) /\ ~(k \in P /\ k \in V) /\ ~(k \in H /\ k \in V)
       /\ k \in P \/ k \in H \/ k \in V \/ (open /\ k = n - 1)
  /\ open => n > 1 /\ n - 1 \notin P /\ n - 1 \notin V

RoleInv == Roles(Range(positional), Holders(parsed), ValuesOf(parsed), next, stack # <<>>)

LEMMA RolesPositional ==
  ASSUME NEW P, NEW H, NEW V, NEW n \in Nat \ {0}, Roles(P, H, V, n, FALSE)
  PROVE  Roles(P \cup {n}, H, V, n + 1, FALSE)
BY DEF Roles

LEMMA RolesOpen ==
  ASSUME NEW P, NEW H, NEW V, NEW n \in Nat \ {0}, Roles(P, H, V, n, FALSE)
  PROVE  Roles(P, H, V, n + 1, TRUE)
BY DEF Roles

LEMMA RolesLong ==
  ASSUME NEW P, NEW H, NEW V, NEW n \in Nat \ {0}, Roles(P, H, V, n, FALSE),
         NEW from \in {0, n + 1}
  PROVE  Roles(P, H \cup {n}, V \cup ({from} \ {0}),
               IF from = 0 THEN n + 1 ELSE n + 2, FALSE)
<1>1. CASE from = 0
  <2>1. V \cup ({from} \ {0}) = V
    BY <1>1
  <2>2. Roles(P, H \cup {n}, V, n + 1, FALSE)
    BY DEF Roles
  <2> QED
    BY <1>1, <2>1, <2>2
<1>2. CASE from = n + 1
  <2>1. V \cup ({from} \ {0}) = V \cup {n + 1} /\ from # 0
    BY <1>2
  <2>2. Roles(P, H \cup {n}, V \cup {n + 1}, n + 2, FALSE)
    BY DEF Roles
  <2> QED
    BY <2>1, <2>2
<1> QED
  BY <1>1, <1>2

LEMMA RolesShort ==
  ASSUME NEW P, NEW H, NEW V, NEW n \in Nat \ {0}, Roles(P, H, V, n, TRUE),
         NEW from \in {0, n}, NEW open \in BOOLEAN, from # 0 => ~open
  PROVE  Roles(P, H \cup {n - 1}, V \cup ({from} \ {0}),
               IF from = 0 THEN n ELSE n + 1, open)
<1>1. CASE from = 0
  <2>1. V \cup ({from} \ {0}) = V
    BY <1>1
  <2>2. Roles(P, H \cup {n - 1}, V, n, TRUE) /\ Roles(P, H \cup {n - 1}, V, n, FALSE)
    BY DEF Roles
  <2> QED
    BY <1>1, <2>1, <2>2
<1>2. CASE from = n
  <2>1. V \cup ({from} \ {0}) = V \cup {n} /\ from # 0 /\ open = FALSE
    BY <1>2
  <2>2. Roles(P, H \cup {n - 1}, V \cup {n}, n + 1, FALSE)
    BY DEF Roles
  <2> QED
    BY <2>1, <2>2
<1> QED
  BY <1>1, <1>2

LEMMA RoleInit == Init => RoleInv
<1> SUFFICES ASSUME Init PROVE RoleInv
  OBVIOUS
<1>1. next = 1 /\ stack = <<>> /\ parsed = <<>> /\ positional = <<>>
  BY DEF Init
<1>2. Range(<<>>) = {}
  BY DEF Range
<1>3. Holders(parsed) = {} /\ ValuesOf(parsed) = {} /\ Range(positional) = {}
  BY <1>1, <1>2, Zenon DEF Holders, ValuesOf
<1>4. Roles({}, {}, {}, 1, FALSE)
  BY DEF Roles
<1> QED
  BY <1>1, <1>3, <1>4 DEF RoleInv

LEMMA RolePositional ==
  ASSUME TypeInv, RoleInv, TakePositional
  PROVE  RoleInv'
<1>1. /\ stack = <<>> /\ stack' = <<>> /\ parsed' = parsed /\ next' = next + 1
      /\ positional' = Append(positional, next) /\ next \in Nat \ {0}
  BY LineTexts DEF TakePositional, Splitting, TypeInv
<1>2. Range(positional') = Range(positional) \cup {next}
  <2>1. positional \in Seq(Nat)
    BY DEF TypeInv
  <2> QED
    BY <1>1, <2>1 DEF Range
<1>3. Roles(Range(positional) \cup {next}, Holders(parsed), ValuesOf(parsed), next + 1, FALSE)
  BY <1>1, RolesPositional DEF RoleInv
<1> QED
  BY <1>1, <1>2, <1>3 DEF RoleInv

LEMMA RoleLong ==
  ASSUME TypeInv, RoleInv, TakeLong
  PROVE  RoleInv'
<1>1. PICK e \in Entry :
           /\ parsed' = Append(parsed, e) /\ e.arg = next
           /\ e.from = IF LongTakes(line, next) THEN next + 1 ELSE 0
           /\ next' = IF e.from = 0 THEN next + 1 ELSE next + 2
  BY LongStep, Zenon
<1>2. /\ stack = <<>> /\ stack' = <<>> /\ positional' = positional
      /\ next \in 1..Len(line) /\ next \in Nat \ {0}
  BY LongStep, LineTexts
<1>3. /\ Holders(parsed') = Holders(parsed) \cup {next}
      /\ ValuesOf(parsed') = ValuesOf(parsed) \cup ({e.from} \ {0})
  BY <1>1, AppendRoles, Zenon DEF TypeInv
<1>4. PICK from \in {0, next + 1} : from = e.from
  BY <1>1, Zenon
<1>5. Roles(Range(positional), Holders(parsed) \cup {next}, ValuesOf(parsed) \cup ({from} \ {0}),
            IF from = 0 THEN next + 1 ELSE next + 2, FALSE)
  BY <1>2, RolesLong DEF RoleInv
<1> QED
  BY <1>1, <1>2, <1>3, <1>4, <1>5 DEF RoleInv

LEMMA RoleStartShort ==
  ASSUME TypeInv, RoleInv, StartShort
  PROVE  RoleInv'
<1>1. /\ stack = <<>> /\ UNCHANGED <<parsed, positional>> /\ next' = next + 1
      /\ next \in Nat \ {0} /\ next \in 1..Len(line) /\ stack' = Tail(line[next])
      /\ Len(line[next]) > 1
  BY LineTexts DEF StartShort, Splitting, TypeInv, IsPositional
<1>2. stack' # <<>>
  <2>1. line[next] \in Text
    BY <1>1, LineTexts
  <2> QED
    BY <1>1, <2>1, TailLeft
<1> QED
  BY <1>1, <1>2, RolesOpen DEF RoleInv

LEMMA RoleShort ==
  ASSUME TypeInv, RoleInv, ShortChar
  PROVE  RoleInv'
<1>1. PICK e \in Entry :
           /\ parsed' = Append(parsed, e) /\ e.arg = next - 1
           /\ e.from = IF ShortTakes(line, next, Head(stack), Tail(stack)) THEN next ELSE 0
           /\ next' = IF e.from = 0 THEN next ELSE next + 1
  BY ShortStep, Zenon
<1>2. /\ stack # <<>> /\ positional' = positional
      /\ stack' = IF TakesValue(Head(stack)) THEN <<>> ELSE Tail(stack)
  BY ShortStep
<1>3. next \in Nat \ {0}
  BY LineTexts DEF TypeInv
<1>4. /\ Holders(parsed') = Holders(parsed) \cup {next - 1}
      /\ ValuesOf(parsed') = ValuesOf(parsed) \cup ({e.from} \ {0})
  <2>1. PICK a : a = next - 1
    OBVIOUS
  <2>2. e.arg = a /\ parsed \in Seq(Entry) /\ parsed' = Append(parsed, e)
    BY <1>1, <2>1 DEF TypeInv
  <2>3. /\ Holders(parsed') = Holders(parsed) \cup {a}
        /\ ValuesOf(parsed') = ValuesOf(parsed) \cup ({e.from} \ {0})
    BY <2>2, AppendRoles, Zenon
  <2> QED
    BY <2>1, <2>3
<1>5. PICK from \in {0, next} : from = e.from
  BY <1>1, Zenon
<1>6. from # 0 => ~(stack' # <<>>)
  BY <1>1, <1>2, <1>5, Zenon DEF ShortTakes
<1>7. Roles(Range(positional), Holders(parsed), ValuesOf(parsed), next, TRUE)
  BY <1>2 DEF RoleInv
<1>8. Roles(Range(positional), Holders(parsed) \cup {next - 1},
            ValuesOf(parsed) \cup ({from} \ {0}), IF from = 0 THEN next ELSE next + 1, stack' # <<>>)
  BY <1>3, <1>6, <1>7, RolesShort
<1> QED
  BY <1>1, <1>2, <1>4, <1>5, <1>8 DEF RoleInv

LEMMA RoleStep == TypeInv /\ RoleInv /\ [Next]_vars => RoleInv'
<1> SUFFICES ASSUME TypeInv, RoleInv, [Next]_vars PROVE RoleInv'
  OBVIOUS
<1>1. CASE \/ Start \/ EndSplit \/ LookForExit \/ Check \/ Return
           \/ UNCHANGED vars
  <2>1. UNCHANGED <<next, stack, parsed, positional>>
    BY <1>1 DEF Start, EndSplit, LookForExit, Check, Return, vars
  <2> QED
    BY <2>1 DEF RoleInv
<1> QED
  BY <1>1, RolePositional, RoleLong, RoleStartShort, RoleShort DEF Next

\* Of the options of one argument only the last has a value.
OneValue(ps) ==
  \A j, k \in 1..Len(ps) : j < k /\ ps[j].arg = ps[k].arg => ps[j].value = NoValue

\* No option of argument a has a value.
Bare(ps, a) == \A j \in 1..Len(ps) : ps[j].arg = a => ps[j].value = NoValue

ValueInv == OneValue(parsed) /\ (stack # <<>> => Bare(parsed, next - 1))

LEMMA OneValueAppend ==
  ASSUME NEW ps \in Seq(Entry), NEW e \in Entry, OneValue(ps), Bare(ps, e.arg)
  PROVE  OneValue(Append(ps, e))
<1>1. PICK qs : qs = Append(ps, e)
  OBVIOUS
<1>2. PICK n \in Nat : n = Len(ps)
  BY LenProperties
<1>3. /\ Len(qs) = n + 1 /\ qs[n + 1] = e
      /\ \A j \in 1..n : qs[j] = ps[j]
  BY <1>1, <1>2, AppendEntry
<1>4. \A j, k \in 1..(n + 1) : j < k => j \in 1..n /\ (k \in 1..n \/ k = n + 1)
  OBVIOUS
<1>5. /\ \A j, k \in 1..n : j < k /\ ps[j].arg = ps[k].arg => ps[j].value = NoValue
      /\ \A j \in 1..n : ps[j].arg = e.arg => ps[j].value = NoValue
  BY <1>2 DEF OneValue, Bare
<1>6. \A j, k \in 1..(n + 1) : j < k /\ qs[j].arg = qs[k].arg => qs[j].value = NoValue
  BY <1>3, <1>4, <1>5, Zenon
<1> QED
  BY <1>1, <1>3, <1>6, Zenon DEF OneValue

LEMMA BareAppend ==
  ASSUME NEW ps \in Seq(Entry), NEW e \in Entry, NEW a, Bare(ps, a),
         e.arg = a => e.value = NoValue
  PROVE  Bare(Append(ps, e), a)
<1>1. PICK qs : qs = Append(ps, e)
  OBVIOUS
<1>2. PICK n \in Nat : n = Len(ps)
  BY LenProperties
<1>3. /\ Len(qs) = n + 1 /\ qs[n + 1] = e
      /\ \A j \in 1..n : qs[j] = ps[j]
  BY <1>1, <1>2, AppendEntry
<1>4. \A j \in 1..(n + 1) : j \in 1..n \/ j = n + 1
  OBVIOUS
<1>5. \A j \in 1..n : ps[j].arg = a => ps[j].value = NoValue
  BY <1>2 DEF Bare
<1>6. \A j \in 1..(n + 1) : qs[j].arg = a => qs[j].value = NoValue
  BY <1>3, <1>4, <1>5, Zenon
<1> QED
  BY <1>1, <1>3, <1>6, Zenon DEF Bare

\* An argument that was not looked at yet holds no option.
LEMMA BareAhead ==
  ASSUME TypeInv, RoleInv
  PROVE  Bare(parsed, next)
<1>1. parsed \in Seq(Entry) /\ DOMAIN parsed = 1..Len(parsed)
  BY LenProperties DEF TypeInv
<1>2. \A j \in 1..Len(parsed) : parsed[j].arg \in Holders(parsed)
  BY <1>1, Zenon DEF Holders, Range
<1>3. next \notin 1..(next - 1)
  BY LineTexts
<1>4. Holders(parsed) \subseteq 1..(next - 1)
  BY DEF RoleInv, Roles
<1> QED
  BY <1>2, <1>3, <1>4, Zenon DEF Bare

LEMMA ValueInit == Init => ValueInv
<1> SUFFICES ASSUME Init PROVE ValueInv
  OBVIOUS
<1>1. 1..Len(parsed) = {}
  BY DEF Init
<1> QED
  BY <1>1 DEF Init, ValueInv, OneValue

LEMMA ValueLong ==
  ASSUME TypeInv, RoleInv, ValueInv, TakeLong
  PROVE  ValueInv'
<1>1. PICK e \in Entry : parsed' = Append(parsed, e) /\ e.arg = next
  BY LongStep, Zenon
<1>2. stack' = <<>>
  BY LongStep
<1>3. Bare(parsed, e.arg)
  BY <1>1, BareAhead
<1> QED
  BY <1>1, <1>2, <1>3, OneValueAppend DEF TypeInv, ValueInv

LEMMA ValueShort ==
  ASSUME TypeInv, RoleInv, ValueInv, ShortChar
  PROVE  ValueInv'
<1>1. PICK e \in Entry :
           /\ parsed' = Append(parsed, e) /\ e.arg = next - 1
           /\ e.from = IF ShortTakes(line, next, Head(stack), Tail(stack)) THEN next ELSE 0
           /\ next' = IF e.from = 0 THEN next ELSE next + 1
           /\ ~TakesValue(Head(stack)) => e.value = NoValue
  BY ShortStep, Zenon
<1>2. /\ stack # <<>>
      /\ stack' = IF TakesValue(Head(stack)) THEN <<>> ELSE Tail(stack)
  BY ShortStep
<1>3. parsed \in Seq(Entry) /\ OneValue(parsed) /\ Bare(parsed, e.arg)
  BY <1>1, <1>2 DEF TypeInv, ValueInv
<1>4. OneValue(parsed')
  BY <1>1, <1>3, OneValueAppend
<1>5. ASSUME stack' # <<>>
      PROVE  Bare(parsed', next' - 1)
  <2>1. e.value = NoValue /\ e.from = 0 /\ next' = next
    BY <1>1, <1>2, <1>5, Zenon DEF ShortTakes
  <2>2. Bare(parsed', e.arg)
    BY <1>1, <1>3, <2>1, BareAppend
  <2> QED
    BY <1>1, <2>1, <2>2
<1> QED
  BY <1>4, <1>5 DEF ValueInv

LEMMA ValueStep == TypeInv /\ RoleInv /\ ValueInv /\ [Next]_vars => ValueInv'
<1> SUFFICES ASSUME TypeInv, RoleInv, ValueInv, [Next]_vars PROVE ValueInv'
  OBVIOUS
<1>1. CASE StartShort
  <2>1. parsed' = parsed /\ next' - 1 = next
    BY <1>1, LineTexts DEF StartShort
  <2>2. OneValue(parsed) /\ Bare(parsed, next)
    BY BareAhead DEF ValueInv
  <2> QED
    BY <2>1, <2>2 DEF ValueInv
<1>2. CASE TakePositional
  BY <1>2 DEF ValueInv, TakePositional, Splitting
<1>3. CASE \/ Start \/ EndSplit \/ LookForExit \/ Check \/ Return
           \/ UNCHANGED vars
  <2>1. UNCHANGED <<next, stack, parsed>>
    BY <1>3 DEF Start, EndSplit, LookForExit, Check, Return, vars
  <2> QED
    BY <2>1 DEF ValueInv
<1> QED
  BY <1>1, <1>2, <1>3, ValueLong, ValueShort DEF Next

-----------------------------------------------------------------------------
(* How the arguments were read. *)

\* An entry for argument k.
EntryFor(ps, k, short, name, from) ==
  \E j \in 1..Len(ps) :
    ps[j].short = short /\ ps[j].name = name /\ ps[j].arg = k /\ ps[j].from = from

ReadLong(l, ps, k) ==
  IsLong(l[k]) /\ EntryFor(ps, k, FALSE, LongName(l[k]), IF LongTakes(l, k) THEN k + 1 ELSE 0)

\* The reading of a stack ended at character m, the last one or the first one
\* that takes a value.
ReadShort(l, ps, k) ==
  /\ ~IsLong(l[k])
  /\ \E m \in 2..Len(l[k]) :
       /\ \A x \in 2..(m - 1) : ~TakesValue(l[k][x])
       /\ m = Len(l[k]) \/ TakesValue(l[k][m])
       /\ EntryFor(ps, k, TRUE, l[k][m],
                   IF TakesValue(l[k][m]) /\ m = Len(l[k]) /\ k + 1 <= Len(l) THEN k + 1 ELSE 0)

WasRead(l, ps, k) ==
  IsPositional(l[k]) \/ k \in ValuesOf(ps) \/ ReadLong(l, ps, k) \/ ReadShort(l, ps, k)

\* The stack is the rest of argument a, and only flags were read of it.
Reading(l, a, st) ==
  /\ a \in 1..Len(l) /\ ~IsLong(l[a])
  /\ \E m \in 2..Len(l[a]) :
       st = SubSeq(l[a], m, Len(l[a])) /\ \A x \in 2..(m - 1) : ~TakesValue(l[a][x])

\* Where the name of an entry comes from.
NamedBy(l, e) ==
  /\ e.arg \in 1..Len(l)
  /\ e.short = TRUE => \E m \in 1..Len(l[e.arg]) : e.name = l[e.arg][m]
  /\ e.short = FALSE =>
       e.name = LongName(l[e.arg]) /\ ~IsPositional(l[e.arg]) /\ IsLong(l[e.arg])

ReadInv ==
  /\ \A k \in 1..(next - 1) : stack = <<>> \/ k # next - 1 => WasRead(line, parsed, k)
  /\ stack # <<>> => Reading(line, next - 1, stack)
  /\ \A j \in 1..Len(parsed) : NamedBy(line, parsed[j])

\* A new entry is an entry, and the older ones stay.
LEMMA EntryNew ==
  ASSUME NEW ps \in Seq(Entry), NEW e \in Entry
  PROVE  EntryFor(Append(ps, e), e.arg, e.short, e.name, e.from)
<1>1. Len(ps) + 1 \in 1..(Len(ps) + 1)
  BY LenProperties
<1>2. Len(Append(ps, e)) = Len(ps) + 1 /\ Append(ps, e)[Len(ps) + 1] = e
  BY AppendEntry
<1> QED
  BY <1>1, <1>2, Zenon DEF EntryFor

LEMMA EntryStays ==
  ASSUME NEW ps \in Seq(Entry), NEW e \in Entry,
         NEW k, NEW short, NEW name, NEW from, EntryFor(ps, k, short, name, from)
  PROVE  EntryFor(Append(ps, e), k, short, name, from)
<1>1. /\ \A j \in 1..Len(ps) : j \in 1..Len(Append(ps, e))
      /\ \A j \in 1..Len(ps) : Append(ps, e)[j] = ps[j]
  BY AppendEntry, LenProperties
<1> QED
  BY <1>1, Zenon DEF EntryFor

LEMMA ReadStays ==
  ASSUME NEW l, NEW ps \in Seq(Entry), NEW e \in Entry, NEW k, WasRead(l, ps, k)
  PROVE  WasRead(l, Append(ps, e), k)
<1>1. k \in ValuesOf(ps) => k \in ValuesOf(Append(ps, e))
  BY AppendRoles
<1>2. ReadLong(l, ps, k) => ReadLong(l, Append(ps, e), k)
  BY EntryStays, Zenon DEF ReadLong
<1>3. ReadShort(l, ps, k) => ReadShort(l, Append(ps, e), k)
  BY EntryStays, Zenon DEF ReadShort
<1> QED
  BY <1>1, <1>2, <1>3, Zenon DEF WasRead

LEMMA NamesStay ==
  ASSUME NEW l, NEW ps \in Seq(Entry), NEW e \in Entry,
         \A j \in 1..Len(ps) : NamedBy(l, ps[j]), NamedBy(l, e)
  PROVE  \A j \in 1..Len(Append(ps, e)) : NamedBy(l, Append(ps, e)[j])
<1>1. /\ \A j \in 1..Len(Append(ps, e)) : j \in 1..Len(ps) \/ j = Len(ps) + 1
      /\ \A j \in 1..Len(ps) : Append(ps, e)[j] = ps[j]
      /\ Append(ps, e)[Len(ps) + 1] = e
  BY AppendEntry, LenProperties
<1> QED
  BY <1>1, Zenon

LEMMA ReadInit == Init => ReadInv
<1> SUFFICES ASSUME Init PROVE ReadInv
  OBVIOUS
<1>1. 1..Len(parsed) = {} /\ 1..(next - 1) = {} /\ stack = <<>>
  BY DEF Init
<1> QED
  BY <1>1, Zenon DEF ReadInv

LEMMA ReadPositional ==
  ASSUME TypeInv, ReadInv, TakePositional
  PROVE  ReadInv'
<1>1. /\ stack = <<>> /\ stack' = <<>> /\ parsed' = parsed /\ line' = line
      /\ next' = next + 1 /\ IsPositional(line[next]) /\ next \in Nat
  BY LineTexts DEF TakePositional, Splitting
<1>2. \A k \in 1..(next' - 1) : k \in 1..(next - 1) \/ k = next
  BY <1>1
<1>3. \A k \in 1..(next' - 1) : WasRead(line, parsed, k)
  BY <1>1, <1>2, Zenon DEF ReadInv, WasRead
<1> QED
  BY <1>1, <1>3, Zenon DEF ReadInv

LEMMA ReadLongStep ==
  ASSUME TypeInv, ReadInv, TakeLong
  PROVE  ReadInv'
<1>1. PICK e \in Entry :
           /\ parsed' = Append(parsed, e)
           /\ e.short = FALSE /\ e.name = LongName(line[next]) /\ e.arg = next
           /\ e.from = IF LongTakes(line, next) THEN next + 1 ELSE 0
           /\ next' = IF e.from = 0 THEN next + 1 ELSE next + 2
  BY LongStep, Zenon
<1>2. /\ stack = <<>> /\ stack' = <<>> /\ line' = line /\ next \in 1..Len(line)
      /\ ~IsPositional(line[next]) /\ IsLong(line[next])
  BY LongStep
<1>3. next \in Nat /\ parsed \in Seq(Entry)
  BY LineTexts DEF TypeInv
<1>4. \A k \in 1..(next - 1) : WasRead(line, parsed', k)
  BY <1>1, <1>2, <1>3, ReadStays, Zenon DEF ReadInv
<1>5. WasRead(line, parsed', next)
  BY <1>1, <1>2, <1>3, EntryNew, Zenon DEF WasRead, ReadLong
<1>6. e.from # 0 => e.from \in ValuesOf(parsed')
  BY <1>1, <1>3, AppendRoles, Zenon
<1>7. e.from = 0 \/ e.from = next + 1
  BY <1>1, Zenon
<1>8. \A k \in 1..(next' - 1) :
        \/ k \in 1..(next - 1) \/ k = next
        \/ e.from # 0 /\ k = e.from
  BY <1>1, <1>3, <1>7
<1>9. \A k \in 1..(next' - 1) : WasRead(line, parsed', k)
  BY <1>4, <1>5, <1>6, <1>8, Zenon DEF WasRead
<1>10. NamedBy(line, e)
  BY <1>1, <1>2, Zenon DEF NamedBy
<1>11. \A j \in 1..Len(parsed') : NamedBy(line, parsed'[j])
  BY <1>1, <1>3, <1>10, NamesStay, Zenon DEF ReadInv
<1> QED
  BY <1>2, <1>9, <1>11, Zenon DEF ReadInv

LEMMA ReadStartShort ==
  ASSUME TypeInv, ReadInv, StartShort
  PROVE  ReadInv'
<1>1. /\ stack = <<>> /\ stack' = Tail(line[next]) /\ UNCHANGED <<line, parsed>>
      /\ next' = next + 1 /\ next \in 1..Len(line) /\ next \in Nat
      /\ ~IsLong(line[next]) /\ Len(line[next]) > 1
  BY LineTexts DEF StartShort, Splitting, IsPositional, TypeInv
<1>2. \A k \in 1..(next' - 1) : stack' = <<>> \/ k # next' - 1 => k \in 1..(next - 1)
  <2>1. line[next] \in Text
    BY <1>1, LineTexts
  <2>2. stack' # <<>>
    BY <1>1, <2>1, TailLeft
  <2> QED
    BY <1>1, <2>2
<1>3. \A k \in 1..(next' - 1) : stack' = <<>> \/ k # next' - 1 => WasRead(line, parsed, k)
  BY <1>1, <1>2, Zenon DEF ReadInv
<1>4. Reading(line, next, stack')
  <2>1. PICK t \in Text : t = line[next]
    BY <1>1, LineTexts
  <2>2. Tail(t) = SubSeq(t, 2, Len(t)) /\ 2 \in 2..Len(t) /\ 2..(2 - 1) = {}
    BY <1>1, <2>1, TailIsSubSeq DEF Text
  <2> QED
    BY <1>1, <2>1, <2>2, Zenon DEF Reading
<1>5. next' - 1 = next
  BY <1>1
<1> QED
  BY <1>1, <1>3, <1>4, <1>5, Zenon DEF ReadInv

\* The character that is read is character m of its argument. If it ends the
\* stack the argument was read, otherwise the stack begins at m + 1.
LEMMA ReadShortStep ==
  ASSUME TypeInv, ReadInv, ShortChar
  PROVE  ReadInv'
<1>1. PICK e \in Entry :
           /\ parsed' = Append(parsed, e)
           /\ e.short = TRUE /\ e.name = Head(stack) /\ e.arg = next - 1
           /\ e.from = IF ShortTakes(line, next, Head(stack), Tail(stack)) THEN next ELSE 0
           /\ next' = IF e.from = 0 THEN next ELSE next + 1
  BY ShortStep, Zenon
<1>2. /\ stack # <<>> /\ line' = line
      /\ stack' = IF TakesValue(Head(stack)) THEN <<>> ELSE Tail(stack)
  BY ShortStep
<1>3. next \in Nat /\ parsed \in Seq(Entry)
  BY LineTexts DEF TypeInv
<1>4. PICK a : a = next - 1
  OBVIOUS
<1>5. Reading(line, a, stack)
  BY <1>2, <1>4 DEF ReadInv
<1>6. PICK t \in Text : t = line[a]
  BY <1>5, LineTexts DEF Reading
<1>7. PICK m \in 2..Len(t) :
           stack = SubSeq(t, m, Len(t)) /\ \A x \in 2..(m - 1) : ~TakesValue(t[x])
  BY <1>5, <1>6, Zenon DEF Reading
<1>8. a \in 1..Len(line) /\ ~IsLong(t) /\ a + 1 = next
  BY <1>3, <1>4, <1>5, <1>6 DEF Reading
<1>9. /\ Head(stack) = t[m] /\ Tail(stack) = SubSeq(t, m + 1, Len(t))
      /\ Tail(stack) = <<>> <=> m = Len(t)
  <2>1. m \in 1..Len(t) /\ Len(t) \in m..Len(t) /\ t \in Seq(STRING)
    BY DEF Text
  <2>2. Head(stack) = t[m] /\ Tail(stack) = SubSeq(t, m + 1, Len(t))
    BY <1>7, <2>1, HeadTailOfSubSeq
  <2>3. \A x \in (m + 1)..Len(t) : t[x] \in STRING
    BY <2>1
  <2>4. Len(SubSeq(t, m + 1, Len(t))) = IF m + 1 <= Len(t) THEN Len(t) - (m + 1) + 1 ELSE 0
    BY <2>1, <2>3, SubSeqProperties
  <2>5. SubSeq(t, m + 1, Len(t)) = <<>> <=> m = Len(t)
    <3>1. CASE m = Len(t)
      BY <2>1, <3>1, SubSeqEmpty
    <3>2. CASE m # Len(t)
      <4>1. PICK u : u = SubSeq(t, m + 1, Len(t))
        OBVIOUS
      <4>2. Len(u) > 0
        BY <2>1, <2>4, <3>2, <4>1
      <4>3. u # <<>>
        BY <4>2
      <4> QED
        BY <3>2, <4>1, <4>3
    <3> QED
      BY <3>1, <3>2
  <2> QED
    BY <2>2, <2>5
<1>10. \A k \in 1..(next - 1) : k # a => WasRead(line, parsed', k)
  BY <1>1, <1>2, <1>3, <1>4, ReadStays, Zenon DEF ReadInv
<1>11. EntryFor(parsed', a, TRUE, t[m], e.from)
  <2>1. EntryFor(parsed', e.arg, e.short, e.name, e.from)
    BY <1>1, <1>3, EntryNew, Zenon
  <2>2. e.arg = a /\ e.short = TRUE /\ e.name = t[m]
    BY <1>1, <1>4, <1>9, Zenon
  <2> QED
    BY <2>1, <2>2, Zenon
<1>12. e.from = IF TakesValue(t[m]) /\ m = Len(t) /\ a + 1 <= Len(line) THEN a + 1 ELSE 0
  <2>1. ShortTakes(line, next, Head(stack), Tail(stack))
          <=> TakesValue(t[m]) /\ m = Len(t) /\ next <= Len(line)
    BY <1>9, Zenon DEF ShortTakes
  <2> QED
    BY <1>1, <1>8, <2>1, Zenon
<1>13. ASSUME stack' = <<>>
       PROVE  WasRead(line, parsed', a)
  <2>1. m = Len(t) \/ TakesValue(t[m])
    BY <1>2, <1>9, <1>13, Zenon
  <2> QED
    BY <1>6, <1>7, <1>8, <1>11, <1>12, <2>1, Zenon DEF WasRead, ReadShort
<1>14. e.from # 0 => e.from \in ValuesOf(parsed')
  BY <1>1, <1>3, AppendRoles
<1>15. e.from = 0 \/ (e.from = next /\ stack' = <<>>)
  BY <1>1, <1>2, Zenon DEF ShortTakes
<1>16. \A k \in 1..(next' - 1) :
         \/ k \in 1..(next - 1) /\ k # a
         \/ k = a
         \/ e.from # 0 /\ k = e.from
  BY <1>1, <1>3, <1>4, <1>15
<1>17. stack' # <<>> => next' - 1 = a
  BY <1>1, <1>4, <1>15
<1>18. \A k \in 1..(next' - 1) : stack' = <<>> \/ k # next' - 1 => WasRead(line, parsed', k)
  BY <1>10, <1>13, <1>14, <1>16, <1>17, Zenon DEF WasRead
<1>19. ASSUME stack' # <<>>
       PROVE  Reading(line, next' - 1, stack')
  <2>1. ~TakesValue(t[m]) /\ stack' = SubSeq(t, m + 1, Len(t)) /\ m # Len(t)
    BY <1>2, <1>9, <1>19, Zenon
  <2>2. m + 1 \in 2..Len(t) /\ \A x \in 2..((m + 1) - 1) : x = m \/ x \in 2..(m - 1)
    BY <2>1
  <2>3. \A x \in 2..((m + 1) - 1) : ~TakesValue(t[x])
    BY <1>7, <2>1, <2>2, Zenon
  <2>4. Reading(line, a, stack')
    BY <1>6, <1>8, <2>1, <2>2, <2>3, Zenon DEF Reading
  <2> QED
    BY <1>17, <1>19, <2>4
<1>20. NamedBy(line, e)
  <2>1. m \in 1..Len(t)
    OBVIOUS
  <2> QED
    BY <1>1, <1>4, <1>6, <1>8, <1>9, <2>1, Zenon DEF NamedBy
<1>21. \A j \in 1..Len(parsed') : NamedBy(line, parsed'[j])
  BY <1>1, <1>3, <1>20, NamesStay, Zenon DEF ReadInv
<1> QED
  BY <1>2, <1>18, <1>19, <1>21, Zenon DEF ReadInv

LEMMA ReadStep == TypeInv /\ ReadInv /\ [Next]_vars => ReadInv'
<1> SUFFICES ASSUME TypeInv, ReadInv, [Next]_vars PROVE ReadInv'
  OBVIOUS
<1>1. CASE \/ Start \/ EndSplit \/ LookForExit \/ Check \/ Return
           \/ UNCHANGED vars
  <2>1. UNCHANGED <<line, next, stack, parsed>>
    BY <1>1 DEF Start, EndSplit, LookForExit, Check, Return, vars
  <2> QED
    BY <2>1 DEF ReadInv
<1> QED
  BY <1>1, ReadPositional, ReadLongStep, ReadStartShort, ReadShortStep DEF Next

-----------------------------------------------------------------------------
(* Theorems. *)

ArgsInv == TypeInv /\ PassInv /\ SetInv /\ RoleInv /\ ValueInv /\ ReadInv

LEMMA ArgsInvariant == Spec => []ArgsInv
<1>1. Init => ArgsInv
  BY TypeInit, PassInit, SetInit, RoleInit, ValueInit, ReadInit DEF ArgsInv
<1>2. ArgsInv /\ [Next]_vars => ArgsInv'
  BY TypeStep, PassStep, SetStep, RoleStep, ValueStep, ReadStep DEF ArgsInv
<1> QED
  BY <1>1, <1>2, PTL DEF Spec

\* Every entry is one of the sequence.
LEMMA EntryOf ==
  ASSUME TypeInv, NEW e \in Range(parsed)
  PROVE  e \in Entry /\ \E j \in 1..Len(parsed) : e = parsed[j]
<1>1. parsed \in Seq(Entry) /\ DOMAIN parsed = 1..Len(parsed)
  BY LenProperties DEF TypeInv
<1>2. PICK j \in 1..Len(parsed) : e = parsed[j]
  BY <1>1, Zenon DEF Range
<1>3. parsed[j] \in Entry
  BY <1>1, ElementOfSeq
<1> QED
  BY <1>2, <1>3

LEMMA TypesHold ==
  ASSUME ArgsInv
  PROVE  TypeOK
<1>1. TypeInv /\ RoleInv /\ ReadInv
  BY DEF ArgsInv
<1>2. line \in Seq(Text) /\ DOMAIN line = 1..Len(line) /\ 1..(next - 1) \subseteq DOMAIN line
  <2>1. line \in Seq(Text) /\ DOMAIN line = 1..Len(line)
    BY <1>1, LineTexts, LenProperties
  <2> QED
    BY <1>1, <2>1, LineTexts DEF TypeInv
<1>3. ASSUME NEW e \in Range(parsed)
      PROVE  /\ e.arg \in DOMAIN line /\ e.from \in {0} \cup DOMAIN line
             /\ e.name \in {""} \cup Range(line[e.arg])
  <2>1. e \in Entry /\ NamedBy(line, e)
    BY <1>1, EntryOf, Zenon DEF ReadInv
  <2>2. e.from = 0 \/ e.from \in ValuesOf(parsed)
    BY Zenon DEF ValuesOf
  <2>3. ValuesOf(parsed) \subseteq 1..(next - 1)
    BY <1>1 DEF RoleInv, Roles
  <2>4. e.arg \in DOMAIN line
    BY <1>2, <2>1 DEF NamedBy
  <2>5. PICK t \in Text : t = line[e.arg]
    BY <1>2, <2>4
  <2>6. DOMAIN t = 1..Len(t) /\ Len(t) \in Nat
    BY LenProperties DEF Text
  <2>7. CASE e.short = TRUE
    <3>1. PICK m \in 1..Len(t) : e.name = t[m]
      BY <2>1, <2>5, <2>7 DEF NamedBy
    <3>2. e.name \in Range(t)
      BY <2>6, <3>1, Zenon DEF Range
    <3> QED
      BY <1>2, <2>2, <2>3, <2>4, <2>5, <3>2, Zenon
  <2>8. CASE e.short = FALSE
    <3>1. e.name = LongName(t)
      BY <2>1, <2>5, <2>8 DEF NamedBy
    <3>2. LongName(t) = "" \/ (LongName(t) = t[3] /\ ~(Len(t) < 3))
      BY Zenon DEF LongName
    <3>3. ~(Len(t) < 3) => 3 \in DOMAIN t
      BY <2>6
    <3>4. e.name = "" \/ e.name \in Range(t)
      BY <3>1, <3>2, <3>3, Zenon DEF Range
    <3> QED
      BY <1>2, <2>2, <2>3, <2>4, <2>5, <3>4, Zenon
  <2>9. e.short = TRUE \/ e.short = FALSE
    BY <2>1, Zenon DEF Entry
  <2> QED
    BY <2>7, <2>8, <2>9
<1>4. \A p \in Range(positional) : p \in DOMAIN line
  BY <1>1, <1>2 DEF RoleInv, Roles
<1> QED
  BY <1>1, <1>3, <1>4, Zenon DEF TypeInv, TypeOK, Text

\* The state of parse_args keeps its types: no index of an option, of a value
\* or of a positional argument leaves the command line, in any pass, and every
\* option is named by the argument it was found in.
THEOREM ArgsTyped == Spec => []TypeOK
BY ArgsInvariant, TypesHold, PTL

LEMMA RolesHold ==
  ASSUME ArgsInv
  PROVE  ArgumentsPartitioned
<1>1. TypeInv /\ RoleInv /\ ValueInv
  BY DEF ArgsInv
<1> DEFINE read == IF stack = <<>> THEN next - 1 ELSE next - 2
           roles == <<Range(positional), {e.arg : e \in Range(parsed)}, Values>>
<1>2. ASSUME NEW k \in 1..read
      PROVE  Cardinality({r \in DOMAIN roles : k \in roles[r]}) = 1
  <2>1. k \in 1..(next - 1) /\ (stack # <<>> => k # next - 1)
    BY <1>1, LineTexts
  <2>2. PICK P, H, V : P = Range(positional) /\ H = Holders(parsed) /\ V = ValuesOf(parsed)
    OBVIOUS
  <2>3. /\ ~(k \in P /\ k \in H) /\ ~(k \in P /\ k \in V) /\ ~(k \in H /\ k \in V)
        /\ k \in P \/ k \in H \/ k \in V
    BY <1>1, <2>1, <2>2 DEF RoleInv, Roles
  <2>4. roles = <<P, H, V>>
    BY <2>2 DEF Holders, ValuesOf, Values
  <2> HIDE DEF roles
  <2>5. DOMAIN roles = {1, 2, 3} /\ roles[1] = P /\ roles[2] = H /\ roles[3] = V
    BY <2>4
  <2>6. PICK c \in {1, 2, 3} : {r \in DOMAIN roles : k \in roles[r]} = {c}
    <3>1. 1 # 2 /\ 1 # 3 /\ 2 # 3
      OBVIOUS
    <3>2. CASE k \in P
      <4>1. {r \in DOMAIN roles : k \in roles[r]} = {1}
        BY <2>3, <2>5, <3>1, <3>2, Zenon
      <4> QED
        BY <4>1, Zenon
    <3>3. CASE k \in H
      <4>1. {r \in DOMAIN roles : k \in roles[r]} = {2}
        BY <2>3, <2>5, <3>1, <3>3, Zenon
      <4> QED
        BY <4>1, Zenon
    <3>4. CASE k \in V
      <4>1. {r \in DOMAIN roles : k \in roles[r]} = {3}
        BY <2>3, <2>5, <3>1, <3>4, Zenon
      <4> QED
        BY <4>1, Zenon
    <3> QED
      BY <2>3, <3>2, <3>3, <3>4, Zenon
  <2> QED
    BY <2>6, FS_Singleton, Zenon
<1>3. \A j, k \in DOMAIN parsed :
        j < k /\ parsed[j].arg = parsed[k].arg => parsed[j].value = NoValue
  <2>1. DOMAIN parsed = 1..Len(parsed)
    BY <1>1, LenProperties DEF TypeInv
  <2> QED
    BY <1>1, <2>1, Zenon DEF ValueInv, OneValue
<1> QED
  BY <1>2, <1>3, Zenon DEF ArgumentsPartitioned

\* The first pass of parse_args gives every argument exactly one role and a
\* stack of short options at most one value, for every command line.
THEOREM EveryArgumentOneRole == Spec => []ArgumentsPartitioned
BY ArgsInvariant, RolesHold, PTL

LEMMA OptionsHold ==
  ASSUME ArgsInv
  PROVE  OptionsFromLine
<1> DEFINE given(o) == {k \in DOMAIN parsed : Find(parsed[k]) = o}
<1> HIDE DEF given
<1> SUFFICES ASSUME stage = "done"
             PROVE  /\ \A k \in DOMAIN parsed : Find(parsed[k]) # 0
                    /\ \A o \in DOMAIN Options :
                         /\ Cardinality(given(o)) <= 1
                         /\ given(o) = {} => value[o] = Options[o].default
                         /\ \A k \in given(o) :
                              value[o] = IF IsFlag(o) THEN 1 ELSE ParseValue(o, parsed[k].value)
  BY Zenon DEF OptionsFromLine, given
<1>1. TypeInv /\ SetInv
  BY DEF ArgsInv
<1>2. DOMAIN parsed = 1..(i - 1)
  <2>1. parsed \in Seq(Entry) /\ DOMAIN parsed = 1..Len(parsed) /\ Len(parsed) \in Nat
    BY <1>1, LenProperties DEF TypeInv
  <2>2. i > Len(parsed) /\ i \in 1..(Len(parsed) + 1)
    BY <1>1 DEF SetInv, TypeInv
  <2>3. i - 1 = Len(parsed)
    BY <2>1, <2>2
  <2> QED
    BY <2>1, <2>3
<1>3. /\ \A p \in is_set : \E k \in DOMAIN parsed : Find(parsed[k]) = p
      /\ \A j, k \in DOMAIN parsed : Find(parsed[j]) = Find(parsed[k]) => j = k
      /\ \A k \in DOMAIN parsed : value[Find(parsed[k])] = Given(parsed[k])
      /\ \A p \in DOMAIN Options \ is_set : value[p] = Options[p].default
  BY <1>1, <1>2 DEF SetInv
<1>4. \A k \in DOMAIN parsed : Find(parsed[k]) # 0
  <2>1. \A k \in DOMAIN parsed : Find(parsed[k]) \in DOMAIN Options
    <3>1. \A k \in 1..(i - 1) : Find(parsed[k]) \in is_set
      BY <1>1 DEF SetInv
    <3>2. is_set \subseteq DOMAIN Options
      BY <1>1 DEF TypeInv
    <3> QED
      BY <1>2, <3>1, <3>2, Zenon
  <2>2. 0 \notin DOMAIN Options
    BY OptionTable
  <2> QED
    BY <2>1, <2>2, Zenon
<1>5. ASSUME NEW o \in DOMAIN Options
      PROVE  Cardinality(given(o)) <= 1
  <2>1. CASE given(o) = {}
    <3>1. Cardinality(given(o)) = 0
      BY <2>1, FS_EmptySet, Zenon
    <3> QED
      BY <3>1
  <2>2. CASE given(o) # {}
    <3>1. PICK k : k \in given(o)
      BY <2>2
    <3>2. given(o) = {k}
      BY <1>3, <3>1, Zenon DEF given
    <3>3. Cardinality(given(o)) = 1
      BY <3>2, FS_Singleton, Zenon
    <3> QED
      BY <3>3
  <2> QED
    BY <2>1, <2>2
<1>6. ASSUME NEW o \in DOMAIN Options
      PROVE  given(o) = {} => value[o] = Options[o].default
  BY <1>3, Zenon DEF given
<1>7. ASSUME NEW o \in DOMAIN Options, NEW k \in given(o)
      PROVE  value[o] = IF IsFlag(o) THEN 1 ELSE ParseValue(o, parsed[k].value)
  BY <1>3, Zenon DEF Given, given
<1> QED
  BY <1>4, <1>5, <1>6, <1>7, Zenon

\* When parse_args returns, every option has the value of its only place on the
\* line, or its default, and nothing on the line was skipped as unknown.
THEOREM OptionsAreThoseOfTheLine == Spec => []OptionsFromLine
BY ArgsInvariant, OptionsHold, PTL

\* The texts that ask for help or the version are options 1 and 2 in full.
LEMMA AskTexts ==
  ASSUME NEW t, Asks(t)
  PROVE  \E o \in {1, 2} :
           \/ /\ Len(t) = 2 /\ t[1] = "-" /\ t[2] # "-"
              /\ t[2] = Options[o].short_name
           \/ /\ Len(t) = 3 /\ t[1] = "-" /\ t[2] = "-" /\ t[3] # "="
              /\ t[3] = Options[o].long_name
<1>1. CASE t = <<"-", "h">>
  <2>1. Len(t) = 2 /\ t[1] = "-" /\ t[2] # "-" /\ t[2] = "h"
    BY <1>1
  <2> QED
    BY <2>1, OptionShortNames, Zenon
<1>2. CASE t = <<"-", "v">>
  <2>1. Len(t) = 2 /\ t[1] = "-" /\ t[2] # "-" /\ t[2] = "v"
    BY <1>2
  <2> QED
    BY <2>1, OptionShortNames, Zenon
<1>3. CASE t = <<"-", "-", "help">>
  <2>1. Len(t) = 3 /\ t[1] = "-" /\ t[2] = "-" /\ t[3] # "=" /\ t[3] = "help"
    BY <1>3
  <2> QED
    BY <2>1, OptionLongNames, Zenon
<1>4. CASE t = <<"-", "-", "version">>
  <2>1. Len(t) = 3 /\ t[1] = "-" /\ t[2] = "-" /\ t[3] # "=" /\ t[3] = "version"
    BY <1>4
  <2> QED
    BY <2>1, OptionLongNames, Zenon
<1> QED
  BY <1>1, <1>2, <1>3, <1>4, Zenon DEF Asks

\* Once the first pass is over, all of the line was read.
LEMMA AllRead ==
  ASSUME ArgsInv, stage # "split", next > Len(line)
  PROVE  \A k \in 1..Len(line) : WasRead(line, parsed, k)
<1>1. stack = <<>>
  BY DEF ArgsInv, PassInv
<1>2. next - 1 = Len(line)
  BY LineTexts DEF ArgsInv, TypeInv
<1> QED
  BY <1>1, <1>2, Zenon DEF ArgsInv, ReadInv

LEMMA HelpHolds ==
  ASSUME ArgsInv
  PROVE  HelpWins
<1> SUFFICES ASSUME stage \in {"check", "error", "done"}, next > Len(line),
                    NEW k \in DOMAIN line, Asks(line[k]), k \notin Values
             PROVE  FALSE
  BY Zenon DEF HelpWins
<1>1. TypeInv /\ \A j \in 1..Len(parsed) : ~AsksExit(parsed[j])
  BY DEF ArgsInv, PassInv
<1>2. k \in 1..Len(line) /\ k \notin ValuesOf(parsed)
  BY <1>1, LineTexts, LenProperties DEF Values, ValuesOf
<1>3. WasRead(line, parsed, k)
  BY <1>2, AllRead
<1>4. PICK t : t = line[k]
  OBVIOUS
<1>5. PICK o \in {1, 2} :
           \/ /\ Len(t) = 2 /\ t[1] = "-" /\ t[2] # "-"
              /\ t[2] = Options[o].short_name
           \/ /\ Len(t) = 3 /\ t[1] = "-" /\ t[2] = "-" /\ t[3] # "="
              /\ t[3] = Options[o].long_name
  BY <1>4, AskTexts, Zenon
<1>6. ~IsPositional(t)
  BY <1>5 DEF IsPositional
<1>7. o \in 1..5 /\ o # 0 /\ Options[o].type \in {"help", "version"}
  BY OptionTypes
<1>8. ASSUME NEW j \in 1..Len(parsed), Find(parsed[j]) = o
      PROVE  FALSE
  BY <1>1, <1>7, <1>8, Zenon DEF AsksExit
<1>9. CASE Len(t) = 2 /\ t[2] # "-" /\ t[2] = Options[o].short_name
  <2>1. ReadShort(line, parsed, k)
    BY <1>2, <1>3, <1>4, <1>6, <1>9, Zenon DEF WasRead, ReadLong, IsLong
  <2>2. PICK m \in 2..Len(t) : \E f : EntryFor(parsed, k, TRUE, t[m], f)
    BY <1>4, <2>1, Zenon DEF ReadShort
  <2>3. m = 2
    BY <1>9
  <2>4. PICK j \in 1..Len(parsed) : parsed[j].short = TRUE /\ parsed[j].name = t[m]
    BY <2>2, Zenon DEF EntryFor
  <2>5. Find(parsed[j]) = o
    BY <1>7, <1>9, <2>3, <2>4, ShortFound, Zenon DEF Find
  <2> QED
    BY <1>8, <2>5
<1>10. CASE Len(t) = 3 /\ t[2] = "-" /\ t[3] # "=" /\ t[3] = Options[o].long_name
  <2>1. ReadLong(line, parsed, k)
    BY <1>2, <1>3, <1>4, <1>6, <1>10, Zenon DEF WasRead, ReadShort, IsLong
  <2>2. PICK f : EntryFor(parsed, k, FALSE, LongName(t), f)
    BY <1>4, <2>1, Zenon DEF ReadLong
  <2>3. LongName(t) = t[3]
    <3>1. ~(Len(t) < 3)
      BY <1>10
    <3> QED
      BY <1>10, <3>1, Zenon DEF LongName
  <2>4. PICK j \in 1..Len(parsed) : parsed[j].short = FALSE /\ parsed[j].name = t[3]
    BY <2>2, <2>3, Zenon DEF EntryFor
  <2>5. Find(parsed[j]) = o
    BY <1>7, <1>10, <2>4, LongFound, Zenon DEF Find
  <2> QED
    BY <1>8, <2>5
<1> QED
  BY <1>5, <1>9, <1>10, Zenon

\* A request for help or the version that is no option's value is never passed
\* over: parse_args neither fails in its third pass nor returns.
THEOREM HelpIsAlwaysFound == Spec => []HelpWins
BY ArgsInvariant, HelpHolds, PTL

\* What is left of an argument of at most three characters.
LEMMA RestShort ==
  ASSUME NEW t \in Text
  PROVE  /\ Len(t) = 2 => Rest(t) = <<>>
         /\ Len(t) = 3 => Rest(t) = <<t[3]>>
         /\ Len(t) >= 2 => Len(Rest(t)) = Len(t) - 2
         /\ Len(t) >= 3 => Rest(t)[1] = t[3]
<1>1. t \in Seq(STRING) /\ Len(t) \in Nat
  BY DEF Text
<1>2. \A x \in 3..Len(t) : t[x] \in STRING
  BY <1>1
<1>3. PICK n \in Nat : n = Len(t)
  BY <1>1
<1>4. PICK r : r = Rest(t)
  OBVIOUS
<1>5. /\ r \in Seq(STRING)
      /\ Len(r) = IF 3 <= n THEN n - 3 + 1 ELSE 0
      /\ \A x \in 1..(n - 3 + 1) : r[x] = t[3 + x - 1]
  BY <1>2, <1>3, <1>4, SubSeqProperties DEF Rest
<1>6. n = 2 => r = <<>>
  BY <1>5
<1>7. n = 3 => r = <<t[3]>>
  BY <1>5
<1>8. n >= 2 => Len(r) = n - 2
  BY <1>5
<1>9. n >= 3 => r[1] = t[3]
  BY <1>5
<1> QED
  BY <1>3, <1>4, <1>6, <1>7, <1>8, <1>9

\* A value that the completion offers is taken by the parser.
LEMMA OfferedValueTaken ==
  ASSUME ArgsInv, stage = "exits", NEW k \in 1..(Len(line) - 1),
         ~IsPositional(line[k]), k \notin Values,
         ValueOption(line[k]) # 0, ~IsFlag(ValueOption(line[k]))
  PROVE  \E e \in Range(parsed) :
           e.arg = k /\ e.from = k + 1 /\ Find(e) = ValueOption(line[k])
<1>1. TypeInv /\ next > Len(line)
  BY DEF ArgsInv, PassInv
<1>2. k \in 1..Len(line) /\ k + 1 <= Len(line)
  BY <1>1, LineTexts
<1>3. PICK t \in Text : t = line[k]
  BY <1>1, <1>2, LineTexts
<1>4. WasRead(line, parsed, k) /\ k \notin ValuesOf(parsed)
  BY <1>1, <1>2, AllRead DEF Values, ValuesOf
<1>5. Len(t) \in Nat /\ DOMAIN t = 1..Len(t) /\ Len(t) > 1 /\ t[1] = "-"
  BY <1>3, LenProperties DEF IsPositional, Text
<1>6. PICK v : v = ValueOption(t)
  OBVIOUS
<1>7. v # 0 /\ ~IsFlag(v)
  BY <1>3, <1>6
<1>8. SUFFICES \E j \in 1..Len(parsed) :
                 parsed[j].arg = k /\ parsed[j].from = k + 1 /\ Find(parsed[j]) = v
  <2>1. DOMAIN parsed = 1..Len(parsed)
    BY <1>1, LenProperties DEF TypeInv
  <2> QED
    BY <1>3, <1>6, <1>8, <2>1, Zenon DEF Range
<1>9. CASE t[2] = "-"
  <2>1. v = First({o \in DOMAIN Options : Rest(t) = <<Options[o].long_name>>})
    BY <1>6, <1>9, Zenon DEF ValueOption
  <2>2. v \in 1..5 /\ Rest(t) = <<Options[v].long_name>>
    <3>1. {o \in DOMAIN Options : Rest(t) = <<Options[o].long_name>>} \in SUBSET (1..5)
      BY OptionTable
    <3>2. v \in {o \in DOMAIN Options : Rest(t) = <<Options[o].long_name>>}
      BY <1>7, <2>1, <3>1, FirstRange, Zenon
    <3> QED
      BY <3>2, OptionTable, Zenon
  <2>3. PICK r : r = Rest(t)
    OBVIOUS
  <2>4. Len(r) = 1 /\ r[1] = Options[v].long_name
    BY <2>2, <2>3
  <2>5. Len(t) = 3 /\ t[3] = Options[v].long_name
    <3>1. Len(t) >= 2 /\ Len(t) \in Nat
      BY <1>5
    <3>2. Len(r) = Len(t) - 2 /\ (Len(t) >= 3 => r[1] = t[3])
      BY <2>3, <3>1, RestShort, Zenon
    <3>3. Len(t) = 3
      <4>1. PICK n \in Nat : n = Len(t)
        BY <3>1
      <4>2. n - 2 = 1
        BY <2>4, <3>2, <4>1, Zenon
      <4>3. n = 3
        BY <4>2
      <4> QED
        BY <4>1, <4>3, Zenon
    <3>4. Len(t) >= 3
      BY <3>3
    <3> QED
      BY <2>4, <3>2, <3>3, <3>4, Zenon
  <2>6. Options[v].long_name # "="
    BY <2>2, OptionLongNames
  <2>7. ~HasEquals(t)
    <3>1. \A x \in DOMAIN t : x = 1 \/ x = 2 \/ x = 3
      BY <1>5, <2>5
    <3>2. t[1] # "=" /\ t[2] # "=" /\ t[3] # "="
      BY <1>5, <1>9, <2>5, <2>6
    <3> QED
      BY <3>1, <3>2, Zenon DEF HasEquals
  <2>8. LongName(t) = t[3]
    <3>1. ~(Len(t) < 3)
      BY <2>5
    <3> QED
      BY <2>5, <2>6, <3>1, Zenon DEF LongName
  <2>9. FindLong(LongName(t)) = v
    BY <2>2, <2>5, <2>8, LongFound, Zenon
  <2>10. LongTakes(line, k)
    BY <1>2, <1>3, <1>7, <2>7, <2>9, Zenon DEF LongTakes, TakesNextLong
  <2>11. ReadLong(line, parsed, k)
    BY <1>3, <1>4, <1>9, Zenon DEF WasRead, ReadShort, IsLong
  <2>12. EntryFor(parsed, k, FALSE, LongName(t), k + 1)
    BY <1>3, <2>10, <2>11, Zenon DEF ReadLong
  <2> QED
    BY <2>9, <2>12, Zenon DEF EntryFor, Find
<1>10. CASE t[2] # "-"
  <2>1. /\ \A x \in 2..(Len(t) - 1) : FindShort(t[x]) # 0 /\ IsFlag(FindShort(t[x]))
        /\ v = FindShort(t[Len(t)])
    BY <1>6, <1>7, <1>10, Zenon DEF ValueOption
  <2>2. ReadShort(line, parsed, k)
    BY <1>3, <1>4, <1>10, Zenon DEF WasRead, ReadLong, IsLong
  <2>3. PICK m \in 2..Len(t) :
             /\ m = Len(t) \/ TakesValue(t[m])
             /\ EntryFor(parsed, k, TRUE, t[m],
                         IF TakesValue(t[m]) /\ m = Len(t) /\ k + 1 <= Len(line) THEN k + 1 ELSE 0)
    BY <1>3, <2>2, Zenon DEF ReadShort
  <2>4. m = Len(t)
    <3>1. m # Len(t) => m \in 2..(Len(t) - 1)
      <4>1. PICK n \in Nat : n = Len(t)
        BY <1>5
      <4>2. m \in 2..n
        BY <4>1
      <4>3. m # n => m \in 2..(n - 1)
        BY <4>2
      <4> QED
        BY <4>1, <4>3
    <3> QED
      BY <2>1, <2>3, <3>1, Zenon DEF TakesValue
  <2>5. TakesValue(t[m])
    BY <1>7, <2>1, <2>4, Zenon DEF TakesValue
  <2>6. EntryFor(parsed, k, TRUE, t[m], k + 1)
    BY <1>2, <2>3, <2>4, <2>5, Zenon
  <2> QED
    BY <2>1, <2>4, <2>6, Zenon DEF EntryFor, Find
<1> QED
  BY <1>9, <1>10

\* An abbreviation is read as the first option that the completion offers.
LEMMA AbbreviationAgrees ==
  ASSUME ArgsInv, NEW e \in Range(parsed), ~e.short, ~HasEquals(line[e.arg])
  PROVE  Find(e) = First(Suggested(line[e.arg]))
<1>1. TypeInv /\ ReadInv
  BY DEF ArgsInv
<1>2. e \in Entry /\ NamedBy(line, e)
  BY <1>1, EntryOf, Zenon DEF ReadInv
<1>3. e.short = FALSE
  BY <1>2, Zenon DEF Entry
<1>4. /\ e.arg \in 1..Len(line) /\ e.name = LongName(line[e.arg])
      /\ ~IsPositional(line[e.arg]) /\ IsLong(line[e.arg])
  BY <1>2, <1>3 DEF NamedBy
<1>5. PICK t \in Text : t = line[e.arg]
  BY <1>1, <1>4, LineTexts
<1>6. e.arg \in DOMAIN line
  BY <1>1, <1>4, LineTexts, LenProperties
<1>7. Len(t) <= 3
  BY <1>1, <1>4, <1>5, <1>6, TextsAssumption, Zenon DEF TypeInv
<1>8. Len(t) \in Nat /\ DOMAIN t = 1..Len(t) /\ Len(t) > 1 /\ t[1] = "-" /\ t[2] = "-"
  BY <1>4, <1>5, LenProperties DEF IsPositional, IsLong, Text
<1>9. ASSUME NEW n
      PROVE  LongName(t) \in Beginnings(n) <=> Begins(Rest(t), n)
  <2>1. CASE Len(t) = 2
    <3>1. LongName(t) = "" /\ Rest(t) = <<>>
      BY <2>1, RestShort DEF LongName
    <3> QED
      BY <3>1, Zenon DEF Begins, Beginnings
  <2>2. CASE Len(t) = 3
    <3>1. t[3] # "="
      <4>1. 3 \in DOMAIN t
        BY <1>8, <2>2
      <4> QED
        BY <1>5, <4>1, Zenon DEF HasEquals
    <3>2. LongName(t) = t[3]
      <4>1. ~(Len(t) < 3)
        BY <2>2
      <4> QED
        BY <3>1, <4>1, Zenon DEF LongName
    <3>3. PICK r : r = Rest(t)
      OBVIOUS
    <3>4. Len(r) = 1 /\ r[1] = t[3]
      BY <1>8, <2>2, <3>3, RestShort
    <3>5. r # <<>>
      BY <3>4
    <3> QED
      BY <3>2, <3>3, <3>4, <3>5, Zenon DEF Begins
  <2> QED
    BY <1>7, <1>8, <2>1, <2>2
<1>10. Suggested(t) = {o \in DOMAIN Options : Begins(Rest(t), Options[o].long_name)}
  <2>1. Len(t) # 1 /\ Len(t) > 1 /\ t[2] = "-"
    BY <1>8
  <2> QED
    BY <2>1, Zenon DEF Suggested
<1>11. {o \in DOMAIN Options : LongName(t) \in Beginnings(Options[o].long_name)} = Suggested(t)
  BY <1>9, <1>10, Zenon
<1>12. Find(e) = FindLong(LongName(t))
  BY <1>3, <1>4, <1>5, Zenon DEF Find
<1> QED
  BY <1>5, <1>11, <1>12, Zenon DEF FindLong

LEMMA CompletionHolds ==
  ASSUME ArgsInv
  PROVE  CompletionAgrees
BY OfferedValueTaken, AbbreviationAgrees, Zenon DEF CompletionAgrees

\* The shell completion and parse_args agree on every line: a value is offered
\* where one is taken, and an abbreviation means the first option offered.
THEOREM CompletionAndParserAgree == Spec => []CompletionAgrees
BY ArgsInvariant, CompletionHolds, PTL

=============================================================================
