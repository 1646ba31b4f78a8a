--------------------------- MODULE LuaConf_proofs ---------------------------
(***************************************************************************)
(* Proofs about the parser of LuaConf, for every schema that is a tree and *)
(* every file: what the walk of validate_tab_node keeps, frame by frame.   *)
(***************************************************************************)
EXTENDS LuaConf, SequenceTheorems, FunctionTheorems, FiniteSetTheorems, TLAPS

\* The strings, with those of the model by name: no backend knows that a
\* literal is in STRING.
Types == {"nil", "number", "numstr", "string", "boolean", "function", "table"}
Keys == {"other", "tcp", "listen", "port", "mode", "telemetry", "enable"}
Strings == STRING \cup Types \cup Keys

Values == [t : Strings, n : Int, at : Seq(Strings)]

FrameType == [idx : Nat \ {0}, tab : DOMAIN Schema, i : Nat \ {0}, ok : BOOLEAN]

\* What FilesAssumption says of a file, of the configuration as it is.
ConfOK ==
  \A p \in DOMAIN conf :
    /\ p \in Seq(Strings) /\ conf[p] \in Values
    /\ IsTable(conf[p]) => conf[p].at = p
    /\ Len(p) > 0 => p[1] # "other"

\* The calls' indices grow with their depth.
Nested ==
  \A j, k \in DOMAIN frames : j < k => frames[j].idx < frames[k].idx

\* Index 1 holds the configuration, the other table, or no table.
BaseOK ==
  Len(stack) > 0 /\ IsTable(stack[1]) => stack[1].at \in {<<>>, <<"other">>}

WalkInv ==
  /\ ConfOK
  /\ stack \in Seq(Values)
  /\ frames \in Seq(FrameType)
  /\ stage = "parse" <=> frames # <<>>
  /\ stage \notin {"start", "exit"} => Len(stack) > 0
  /\ FrameOnTable
  /\ Nested
  /\ BaseOK

-----------------------------------------------------------------------------
(* The operators. *)

LEMMA SchemaTypes ==
  \A p \in DOMAIN Schema :
    /\ p \in Seq(Strings)
    /\ \A i \in DOMAIN Schema[p] : Schema[p][i].key \in Strings
<1>1. STRING \subseteq Strings
  BY DEF Strings
<1>2. \A p \in Seq(STRING) : p \in Seq(Strings)
  BY <1>1, SeqMonotonic
<1> QED
  BY <1>1, <1>2, SchemaAssumption, Zenon

LEMMA FileTypes ==
  ASSUME NEW f \in Files, NEW p \in DOMAIN f.conf
  PROVE  /\ p \in Seq(Strings) /\ f.conf[p] \in Values
         /\ IsTable(f.conf[p]) => f.conf[p].at = p
         /\ Len(p) > 0 => p[1] # "other"
<1>1. STRING \subseteq Strings
  BY DEF Strings
<1>2. \A q \in Seq(STRING) : q \in Seq(Strings)
  BY <1>1, SeqMonotonic
<1>3. \A v \in [t : STRING, n : Int, at : Seq(STRING)] : v \in Values
  BY <1>1, <1>2 DEF Values
<1>4. Other.at[1] = "other"
  BY DEF Other, Tab, Value
<1>5. /\ p \in Seq(STRING) /\ f.conf[p] \in [t : STRING, n : Int, at : Seq(STRING)]
      /\ IsTable(f.conf[p]) => f.conf[p].at = p
      /\ Len(p) > 0 => p[1] # Other.at[1]
  BY FilesAssumption, Zenon
<1> QED
  BY <1>2, <1>3, <1>4, <1>5, Zenon

LEMMA AdvancedFrames ==
  ASSUME NEW fs \in Seq(FrameType), Len(fs) > 0, NEW ok \in BOOLEAN
  PROVE  LET n == Len(fs)
             gs == Advanced(fs, ok)
         IN  /\ gs \in Seq(FrameType)
             /\ Len(gs) = n
             /\ \A k \in 1..(n - 1) : gs[k] = fs[k]
             /\ gs[n].idx = fs[n].idx /\ gs[n].tab = fs[n].tab
             /\ gs[n].i = fs[n].i + 1
             /\ gs[n].ok <=> fs[n].ok /\ ok
<1> DEFINE n == Len(fs)
           e == fs[n]
           g == [idx |-> e.idx, tab |-> e.tab, i |-> e.i + 1, ok |-> e.ok /\ ok]
<1>1. n \in Nat /\ n \in 1..n /\ e \in FrameType
  BY ElementOfSeq
<1>2. e.idx \in Nat \ {0} /\ e.tab \in DOMAIN Schema /\ e.i \in Nat \ {0} /\ e.ok \in BOOLEAN
  BY <1>1 DEF FrameType
<1>3. g \in FrameType
  <2>1. e.i + 1 \in Nat \ {0}
    BY <1>2
  <2>2. (e.ok /\ ok) \in BOOLEAN
    OBVIOUS
  <2> QED
    BY <1>2, <2>1, <2>2, Zenon DEF FrameType
<1>4. Advanced(fs, ok) = [fs EXCEPT ![n] = g]
  <2>1. e = [idx |-> e.idx, tab |-> e.tab, i |-> e.i, ok |-> e.ok]
    BY <1>1 DEF FrameType
  <2>2. Advanced(fs, ok) = [[fs EXCEPT ![n] = [e EXCEPT !.i = e.i + 1]] EXCEPT ![n].ok = @ /\ ok]
    BY Zenon DEF Advanced
  <2>3. PICK a : a = [e EXCEPT !.i = e.i + 1]
    OBVIOUS
  <2>4. a.ok = e.ok /\ g = [a EXCEPT !.ok = a.ok /\ ok]
    <3>1. /\ a = [idx |-> e.idx, tab |-> e.tab, i |-> e.i + 1, ok |-> e.ok]
      BY <2>1, <2>3
    <3>2. a.ok = e.ok
      BY <3>1, Zenon
    <3>3. [a EXCEPT !.ok = a.ok /\ ok] = [idx |-> e.idx, tab |-> e.tab, i |-> e.i + 1, ok |-> a.ok /\ ok]
      BY <3>1
    <3> QED
      BY <3>2, <3>3, Zenon
  <2>5. PICK T : T = [fs EXCEPT ![n] = a]
    OBVIOUS
  <2>6. T[n] = a /\ DOMAIN T = DOMAIN fs /\ \A k \in DOMAIN fs : k # n => T[k] = fs[k]
    BY <1>1, <2>5
  <2>7. [T EXCEPT ![n].ok = @ /\ ok] = [T EXCEPT ![n] = [a EXCEPT !.ok = a.ok /\ ok]]
    BY <2>6, Zenon
  <2>8. [T EXCEPT ![n] = g] = [fs EXCEPT ![n] = g]
    BY <1>1, <2>5, <2>6
  <2> QED
    BY <2>2, <2>3, <2>4, <2>5, <2>7, <2>8, Zenon
<1>5. /\ [fs EXCEPT ![n] = g] \in Seq(FrameType)
      /\ Len([fs EXCEPT ![n] = g]) = n
      /\ \A k \in 1..n : [fs EXCEPT ![n] = g][k] = IF k = n THEN g ELSE fs[k]
  BY <1>1, <1>3, ExceptSeq
<1>6. g.idx = e.idx /\ g.tab = e.tab /\ g.i = e.i + 1 /\ g.ok = (e.ok /\ ok)
  BY Zenon
<1> HIDE DEF g
<1>7. /\ \A k \in 1..(n - 1) : k \in 1..n /\ k # n
  BY <1>1
<1> QED
  BY <1>1, <1>4, <1>5, <1>6, <1>7, Zenon

LEMMA PopSeq ==
  ASSUME NEW S, NEW s \in Seq(S), NEW n \in 0..Len(s)
  PROVE  /\ Pop(s, n) \in Seq(S)
         /\ Len(Pop(s, n)) = Len(s) - n
         /\ \A k \in 1..(Len(s) - n) : Pop(s, n)[k] = s[k]
BY DEF Pop

LEMMA PopAppend ==
  ASSUME NEW S, NEW s \in Seq(S), NEW v \in S
  PROVE  Pop(Append(s, v), 1) = s
BY DEF Pop

LEMMA PopTwo ==
  ASSUME NEW S, NEW s \in Seq(S), NEW v \in S, NEW w \in S
  PROVE  Pop(s \o <<v, w>>, 1) = Append(s, v)
<1>1. <<v, w>> \in Seq(S)
  OBVIOUS
<1>2. s \o <<v, w>> \in Seq(S)
  BY <1>1, ConcatProperties
<1>3. /\ Len(s \o <<v, w>>) = Len(s) + 2
      /\ \A k \in 1..Len(s) : (s \o <<v, w>>)[k] = s[k]
      /\ (s \o <<v, w>>)[Len(s) + 1] = v
  BY <1>1
<1>4. PICK u : u = s \o <<v, w>>
  OBVIOUS
<1>5. /\ u \in Seq(S) /\ Len(u) = Len(s) + 2 /\ \A k \in 1..Len(s) : u[k] = s[k]
      /\ u[Len(s) + 1] = v
  BY <1>2, <1>3, <1>4
<1>6. /\ Pop(u, 1) \in Seq(S)
      /\ Len(Pop(u, 1)) = Len(s) + 1
      /\ \A k \in 1..(Len(s) + 1) : Pop(u, 1)[k] = u[k]
  BY <1>5 DEF Pop
<1>7. /\ Append(s, v) \in Seq(S) /\ Len(Append(s, v)) = Len(s) + 1
      /\ \A k \in 1..(Len(s) + 1) : Append(s, v)[k] = u[k]
  BY <1>5
<1> QED
  BY <1>4, <1>6, <1>7, SeqEqual

LEMMA NilValue == Nil \in Values
<1>1. <<>> \in Seq(Strings)
  BY EmptySeq, Zenon
<1>2. 0 \in Int
  OBVIOUS
<1>3. "nil" \in Strings
  BY DEF Strings, Types
<1> QED
  BY <1>1, <1>2, <1>3, Zenon DEF Nil, Value, Values

LEMMA LookupValue ==
  ASSUME ConfOK, NEW v \in Values, NEW p
  PROVE  Lookup(v, p) \in Values
<1>1. \A q \in DOMAIN conf : conf[q] \in Values
  BY DEF ConfOK
<1> QED
  BY NilValue, <1>1, Zenon DEF Lookup

\* What validate_tab_node finds in its own table, and in the other one.
LEMMA FieldFacts ==
  ASSUME WalkInv, InField
  PROVE  /\ Len(frames) \in Nat \ {0} /\ Frame \in FrameType
         /\ Frame.idx \in 1..Len(stack) /\ stack[Frame.idx] \in Values
         /\ Frame.i \in DOMAIN Schema[Frame.tab]
         /\ Node.key \in Strings /\ FieldPath \in Seq(Strings)
         /\ Field \in Values
         /\ stack[Frame.idx].at = Frame.tab =>
              Field = IF FieldPath \in DOMAIN conf THEN conf[FieldPath] ELSE Nil
         /\ stack[Frame.idx].at # Frame.tab =>
              stack[Frame.idx].at = <<"other">> /\ Field = Nil
         /\ IsTable(Field) => Field.at = FieldPath
<1>1. frames \in Seq(FrameType) /\ frames # <<>> /\ stack \in Seq(Values)
  BY DEF WalkInv, InField
<1>2. Len(frames) \in Nat \ {0} /\ Frame \in FrameType /\ Len(frames) \in DOMAIN frames
  BY <1>1 DEF Frame
<1>3. Frame.idx \in Nat \ {0} /\ Frame.tab \in DOMAIN Schema /\ Frame.i \in Nat \ {0}
  BY <1>2 DEF FrameType
<1> DEFINE v == stack[Frame.idx]
<1>4. /\ Frame.idx \in 1..Len(stack) /\ v \in Values /\ IsTable(v)
      /\ v.at \in {Frame.tab, <<"other">>}
  BY <1>1, <1>2 DEF WalkInv, FrameOnTable, Frame, Other, Tab, Value
<1>5. Frame.i \in DOMAIN Schema[Frame.tab]
  BY <1>3, SchemaAssumption DEF InField, Nodes
<1>6. Node.key \in Strings /\ Frame.tab \in Seq(Strings)
  BY <1>3, <1>5, SchemaTypes DEF Node, Nodes
<1> DEFINE k == Node.key
<1>7. FieldPath \in Seq(Strings) /\ FieldPath = Frame.tab \o <<k>>
  BY <1>6, AppendIsConcat, AppendProperties DEF FieldPath
<1>8. ConfOK
  BY DEF WalkInv
<1>9. Field \in Values
  BY <1>4, <1>8, LookupValue DEF Field
<1>10. Field = IF v.at \o <<k>> \in DOMAIN conf THEN conf[v.at \o <<k>>] ELSE Nil
  <2>1. <<k>> # <<>>
    OBVIOUS
  <2> QED
    BY <1>4, <2>1, Zenon DEF Field, Lookup
<1>11. ~IsTable(Nil)
  BY DEF IsTable, Nil, Value
<1>12. CASE v.at = Frame.tab
  <2>1. Field = IF FieldPath \in DOMAIN conf THEN conf[FieldPath] ELSE Nil
    BY <1>7, <1>10, <1>12
  <2>2. IsTable(Field) => Field.at = FieldPath
    BY <2>1, <1>8, <1>11 DEF ConfOK
  <2> QED
    BY <1>2, <1>4, <1>5, <1>6, <1>7, <1>9, <1>12, <2>1, <2>2
<1>13. CASE v.at # Frame.tab
  <2>1. v.at = <<"other">>
    BY <1>4, <1>13
  <2>2. v.at \o <<k>> \notin DOMAIN conf
    <3>1. Len(<<"other">> \o <<k>>) = 2 /\ (<<"other">> \o <<k>>)[1] = "other"
      BY <1>6
    <3>2. PICK q : q = v.at \o <<k>>
      OBVIOUS
    <3>3. Len(q) > 0 /\ q[1] = "other"
      <4>1. q = <<"other">> \o <<k>>
        BY <2>1, <3>2
      <4> QED
        BY <3>1, <4>1
    <3>4. q \notin DOMAIN conf
      BY <3>3, <1>8 DEF ConfOK
    <3> QED
      BY <3>2, <3>4
  <2> QED
    BY <1>2, <1>4, <1>5, <1>6, <1>7, <1>9, <1>10, <1>11, <1>13, <2>1, <2>2
<1> QED
  BY <1>12, <1>13

-----------------------------------------------------------------------------
(* The walk keeps its invariant. *)

LEMMA OtherValue == Other \in Values /\ IsTable(Other) /\ Other.at = <<"other">>
<1>1. "other" \in Strings /\ "table" \in Strings
  BY DEF Strings, Types, Keys
<1>2. <<"other">> \in Seq(Strings)
  BY <1>1
<1>3. 0 \in Int
  OBVIOUS
<1> QED
  BY <1>1, <1>2, <1>3, Zenon DEF Other, Tab, Value, Values, IsTable

LEMMA OtherAt == Other.at = <<"other">> /\ (Other.at)' = <<"other">>
BY DEF Other, Tab, Value

LEMMA WalkInit ==
  ASSUME Init
  PROVE  WalkInv
<1>1. stack = <<>> /\ frames = <<>> /\ stage = "start" /\ conf = [p \in {<<>>} |-> Nil]
  BY DEF Init
<1>2. ConfOK
  <2>1. ~IsTable(Nil) /\ Nil \in Values
    BY NilValue DEF IsTable, Nil, Value
  <2> QED
    BY <1>1, <2>1, EmptySeq DEF ConfOK
<1> QED
  BY <1>1, <1>2, EmptySeq DEF WalkInv, FrameOnTable, Nested, BaseOK

LEMMA WalkLoaded ==
  ASSUME WalkInv, Loaded
  PROVE  WalkInv'
<1>1. PICK f \in Files :
        /\ conf' = f.conf
        /\ stack' = [i \in DOMAIN f.returns |-> IF f.returns[i] THEN conf'[<<>>] ELSE Other]
        /\ IF f.returns # <<>> /\ IsTable(Top(stack'))
           THEN stage' = "parse" /\ frames' = <<Entered(stack', <<>>)>>
           ELSE stage' = "exit" /\ frames' = <<>>
  BY DEF Loaded
<1>2. ConfOK'
  BY <1>1, FileTypes DEF ConfOK
<1>3. <<>> \in DOMAIN Schema /\ <<>> \in DOMAIN f.conf /\ f.returns \in Seq(BOOLEAN)
  BY ConfAssumption
<1> DEFINE n == Len(f.returns)
           root == f.conf[<<>>]
<1>4. n \in Nat /\ DOMAIN f.returns = 1..n
  BY <1>3
<1>5. root \in Values /\ (IsTable(root) => root.at = <<>>)
  BY <1>3, FileTypes
<1>6. \A i \in 1..n : stack'[i] \in {root, Other}
  BY <1>1, <1>4
<1>7. stack' \in Seq(Values) /\ Len(stack') = n
  BY <1>1, <1>4, <1>5, OtherValue, IsASeq
<1>8. BaseOK'
  <2>1. Len(stack') > 0 => stack'[1] \in {root, Other}
    BY <1>4, <1>6, <1>7
  <2> QED
    BY <1>5, <2>1, OtherValue DEF BaseOK
<1>9. CASE f.returns # <<>> /\ IsTable(Top(stack'))
  <2>1. n > 0 /\ stage' = "parse" /\ frames' = <<Entered(stack', <<>>)>> /\ IsTable(stack'[n])
    BY <1>1, <1>3, <1>7, <1>9 DEF Top
  <2> DEFINE fr == [idx |-> n, tab |-> <<>>, i |-> 1, ok |-> TRUE]
  <2>2. Entered(stack', <<>>) = fr
    BY <1>7 DEF Entered
  <2>3. fr \in FrameType
    <3>1. n \in Nat \ {0} /\ 1 \in Nat \ {0}
      BY <1>4, <2>1
    <3> QED
      BY <3>1, <1>3, Zenon DEF FrameType
  <2>4. fr.idx = n /\ fr.tab = <<>>
    BY Zenon
  <2> HIDE DEF fr
  <2>5. frames' = <<fr>> /\ frames' \in Seq(FrameType) /\ DOMAIN frames' = {1} /\ frames'[1] = fr
    BY <2>1, <2>2, <2>3
  <2>6. FrameOnTable'
    <3>1. stack'[n] \in {root, Other}
      BY <1>4, <1>6, <2>1
    <3>2. stack'[n].at \in {<<>>, Other.at}
      BY <1>5, <2>1, <3>1
    <3> QED
      BY <1>4, <1>7, <2>1, <2>4, <2>5, <3>2 DEF FrameOnTable
  <2>7. Nested'
    BY <2>5 DEF Nested
  <2> QED
    BY <1>2, <1>4, <1>7, <1>8, <2>1, <2>5, <2>6, <2>7 DEF WalkInv
<1>10. CASE ~(f.returns # <<>> /\ IsTable(Top(stack')))
  <2>1. stage' = "exit" /\ frames' = <<>>
    BY <1>1, <1>10, Zenon
  <2> QED
    BY <1>2, <1>7, <1>8, <2>1, EmptySeq DEF WalkInv, FrameOnTable, Nested
<1> QED
  BY <1>9, <1>10

\* One round of the loop over a node that is not descended into.
LEMMA FieldStep ==
  ASSUME WalkInv, CheckField
  PROVE  LET n == Len(frames) IN
         /\ frames' \in Seq(FrameType) /\ Len(frames') = n
         /\ \A k \in 1..(n - 1) : frames'[k] = frames[k]
         /\ frames'[n].idx = Frame.idx /\ frames'[n].tab = Frame.tab
         /\ frames'[n].i = Frame.i + 1
         /\ frames'[n].ok <=> Frame.ok /\ Accepts(Node, Field)
         /\ stack' \in Seq(Values)
         /\ Len(stack') = Len(stack) + (IF Node.type = "int" /\ ~IsNumber(Field) THEN 1 ELSE 0)
         /\ \A k \in 1..Len(stack) : stack'[k] = stack[k]
         /\ conf' = conf /\ stage = "parse" /\ stage' = "parse"
<1>1. InField /\ conf' = conf /\ stage = "parse" /\ stage' = "parse"
  BY DEF CheckField, InField
<1>2. frames \in Seq(FrameType) /\ stack \in Seq(Values)
  BY DEF WalkInv
<1>3. Len(frames) \in Nat \ {0} /\ Field \in Values
  BY <1>1, FieldFacts
<1>4. frames' = Advanced(frames, Accepts(Node, Field)) /\ stack' = Pop(Pushed(Field), 1)
  BY DEF CheckField
<1>5. Accepts(Node, Field) \in BOOLEAN
  BY Zenon DEF Accepts
<1>6. PICK a \in BOOLEAN : a = Accepts(Node, Field)
  BY <1>5
<1>7. frames' = Advanced(frames, a)
  BY <1>4, <1>6, Zenon
<1>8. LET n == Len(frames) IN
         /\ frames' \in Seq(FrameType) /\ Len(frames') = n
         /\ \A k \in 1..(n - 1) : frames'[k] = frames[k]
         /\ frames'[n].idx = Frame.idx /\ frames'[n].tab = Frame.tab
         /\ frames'[n].i = Frame.i + 1
         /\ frames'[n].ok <=> Frame.ok /\ a
  <2>1. Len(frames) > 0
    BY <1>3
  <2> QED
    BY <1>2, <1>7, <2>1, AdvancedFrames, Zenon DEF Frame
<1>9. /\ stack' \in Seq(Values)
      /\ Len(stack') = Len(stack) + (IF Node.type = "int" /\ ~IsNumber(Field) THEN 1 ELSE 0)
      /\ \A k \in 1..Len(stack) : stack'[k] = stack[k]
  <2>1. CASE Node.type = "int" /\ ~IsNumber(Field)
    <3>1. Num(0) \in Values
      <4>1. <<>> \in Seq(Strings)
        BY EmptySeq, Zenon
      <4>2. 0 \in Int
        OBVIOUS
      <4>3. "number" \in Strings
        BY DEF Strings, Types
      <4> QED
        BY <4>1, <4>2, <4>3, Zenon DEF Num, Value, Values
    <3>2. Pushed(Field) = stack \o <<Field, Num(0)>>
      BY <2>1, Zenon DEF Pushed
    <3>3. stack' = Append(stack, Field)
      <4>1. Pop(stack \o <<Field, Num(0)>>, 1) = Append(stack, Field)
        <5>1. PICK v \in Values, w \in Values : v = Field /\ w = Num(0)
          BY <1>3, <3>1
        <5>2. Pop(stack \o <<v, w>>, 1) = Append(stack, v)
          BY <1>2, PopTwo
        <5> QED
          BY <5>1, <5>2
      <4> QED
        BY <1>4, <3>2, <4>1
    <3> QED
      BY <1>2, <1>3, <2>1, <3>3
  <2>2. CASE ~(Node.type = "int" /\ ~IsNumber(Field))
    <3>1. Pushed(Field) = Append(stack, Field)
      BY <2>2, Zenon DEF Pushed
    <3>2. stack' = stack
      BY <1>2, <1>3, <1>4, <3>1, PopAppend, Zenon
    <3> QED
      BY <1>2, <2>2, <3>2
  <2> QED
    BY <2>1, <2>2
<1> QED
  BY <1>1, <1>6, <1>8, <1>9, Zenon

\* The call for a nested table.
LEMMA TableStep ==
  ASSUME WalkInv, CheckTable
  PROVE  LET n == Len(frames) IN
         /\ frames' \in Seq(FrameType) /\ Len(frames') = n + 1
         /\ \A k \in 1..n : frames'[k] = frames[k]
         /\ frames'[n + 1] = [idx |-> Len(stack) + 1, tab |-> FieldPath, i |-> 1, ok |-> TRUE]
         /\ stack' \in Seq(Values)
         /\ Len(stack') = Len(stack) + 1
         /\ \A k \in 1..Len(stack) : stack'[k] = stack[k]
         /\ stack'[Len(stack) + 1] = Field
         /\ IsTable(Field) /\ Field.at = FieldPath
         /\ conf' = conf /\ stage = "parse" /\ stage' = "parse"
<1>1. InField /\ Descends /\ conf' = conf /\ stage = "parse" /\ stage' = "parse"
  BY DEF CheckTable, InField
<1>2. frames \in Seq(FrameType) /\ stack \in Seq(Values)
  BY DEF WalkInv
<1>3. /\ Len(frames) \in Nat \ {0} /\ Field \in Values /\ IsTable(Field)
      /\ Field.at = FieldPath /\ FieldPath \in DOMAIN Schema
  BY <1>1, FieldFacts DEF Descends
<1>4. stack' = Append(stack, Field) /\ frames' = Append(frames, Entered(stack', FieldPath))
  BY DEF CheckTable
<1>5. /\ stack' \in Seq(Values) /\ Len(stack') = Len(stack) + 1
      /\ \A k \in 1..Len(stack) : stack'[k] = stack[k]
      /\ stack'[Len(stack) + 1] = Field
  BY <1>2, <1>3, <1>4
<1> DEFINE fr == [idx |-> Len(stack) + 1, tab |-> FieldPath, i |-> 1, ok |-> TRUE]
<1>6. Entered(stack', FieldPath) = fr
  BY <1>5 DEF Entered
<1>7. fr \in FrameType
  <2>1. Len(stack) + 1 \in Nat \ {0} /\ 1 \in Nat \ {0}
    BY <1>2
  <2> QED
    BY <1>3, <2>1, Zenon DEF FrameType
<1> HIDE DEF fr
<1>8. /\ frames' \in Seq(FrameType) /\ Len(frames') = Len(frames) + 1
      /\ \A k \in 1..Len(frames) : frames'[k] = frames[k]
      /\ frames'[Len(frames) + 1] = fr
  BY <1>2, <1>4, <1>6, <1>7
<1> QED
  BY <1>1, <1>3, <1>5, <1>8, Zenon DEF fr

\* The return from a nested table.
LEMMA ReturnStep ==
  ASSUME WalkInv, ReturnToParent
  PROVE  LET n == Len(frames) IN
         /\ n \in Nat /\ n > 1
         /\ frames' \in Seq(FrameType) /\ Len(frames') = n - 1
         /\ \A k \in 1..(n - 2) : frames'[k] = frames[k]
         /\ frames'[n - 1].idx = frames[n - 1].idx /\ frames'[n - 1].tab = frames[n - 1].tab
         /\ frames'[n - 1].i = frames[n - 1].i + 1
         /\ frames'[n - 1].ok <=> frames[n - 1].ok /\ Frame.ok
         /\ Frame.idx \in 1..Len(stack)
         /\ stack' \in Seq(Values)
         /\ Len(stack') = Len(stack) - 1
         /\ \A k \in 1..(Len(stack) - 1) : stack'[k] = stack[k]
         /\ conf' = conf /\ stage = "parse" /\ stage' = "parse"
<1>1. /\ frames \in Seq(FrameType) /\ stack \in Seq(Values) /\ Len(frames) \in Nat
      /\ Len(frames) > 1 /\ conf' = conf /\ stage = "parse" /\ stage' = "parse"
      /\ stack' = Pop(stack, 1) /\ frames' = Advanced(Pop(frames, 1), Frame.ok)
  BY DEF WalkInv, ReturnToParent, Returned
<1> DEFINE n == Len(frames)
<1>2. Frame = frames[n] /\ Frame \in FrameType /\ n \in DOMAIN frames /\ 1 \in 0..n
  BY <1>1 DEF Frame
<1>3. Frame.ok \in BOOLEAN
  BY <1>2 DEF FrameType
<1>4. Frame.idx \in 1..Len(stack)
  BY <1>1, <1>2 DEF WalkInv, FrameOnTable
<1>5. PICK fs : fs = Pop(frames, 1)
  OBVIOUS
<1>6. fs \in Seq(FrameType) /\ Len(fs) = n - 1 /\ \A k \in 1..(n - 1) : fs[k] = frames[k]
  BY <1>1, <1>2, <1>5, PopSeq, Zenon
<1>7. Len(fs) > 0 /\ n - 1 - 1 = n - 2 /\ n - 1 \in 1..(n - 1)
      /\ \A k \in 1..(n - 2) : k \in 1..(n - 1)
  BY <1>1, <1>6
<1>8. /\ frames' \in Seq(FrameType) /\ Len(frames') = Len(fs)
      /\ \A k \in 1..(Len(fs) - 1) : frames'[k] = fs[k]
      /\ frames'[Len(fs)].idx = fs[Len(fs)].idx /\ frames'[Len(fs)].tab = fs[Len(fs)].tab
      /\ frames'[Len(fs)].i = fs[Len(fs)].i + 1
      /\ frames'[Len(fs)].ok <=> fs[Len(fs)].ok /\ Frame.ok
  <2>1. PICK b \in BOOLEAN : b = Frame.ok
    BY <1>3
  <2>2. frames' = Advanced(fs, b)
    BY <1>1, <1>5, <2>1, Zenon
  <2>3. /\ frames' \in Seq(FrameType) /\ Len(frames') = Len(fs)
        /\ \A k \in 1..(Len(fs) - 1) : frames'[k] = fs[k]
        /\ frames'[Len(fs)].idx = fs[Len(fs)].idx /\ frames'[Len(fs)].tab = fs[Len(fs)].tab
        /\ frames'[Len(fs)].i = fs[Len(fs)].i + 1
        /\ frames'[Len(fs)].ok <=> fs[Len(fs)].ok /\ b
    <3>1. fs \in Seq(FrameType) /\ Len(fs) > 0 /\ b \in BOOLEAN
      BY <1>6, <1>7
    <3> QED
      BY <2>2, <3>1, AdvancedFrames, Zenon
  <2> QED
    BY <2>1, <2>3, Zenon
<1>9. /\ frames' \in Seq(FrameType) /\ Len(frames') = n - 1
      /\ \A k \in 1..(n - 2) : frames'[k] = frames[k]
      /\ frames'[n - 1].idx = frames[n - 1].idx /\ frames'[n - 1].tab = frames[n - 1].tab
      /\ frames'[n - 1].i = frames[n - 1].i + 1
      /\ frames'[n - 1].ok <=> frames[n - 1].ok /\ Frame.ok
  BY <1>6, <1>7, <1>8, Zenon
<1>10. 1 \in 0..Len(stack)
  BY <1>1, <1>4
<1>11. /\ stack' \in Seq(Values) /\ Len(stack') = Len(stack) - 1
       /\ \A k \in 1..(Len(stack) - 1) : stack'[k] = stack[k]
  BY <1>1, <1>10, PopSeq, Zenon
<1> QED
  BY <1>1, <1>4, <1>9, <1>11, Zenon

LEMMA WalkField ==
  ASSUME WalkInv, CheckField
  PROVE  WalkInv'
<1> DEFINE n == Len(frames)
<1>1. /\ frames' \in Seq(FrameType) /\ Len(frames') = n
      /\ \A k \in 1..(n - 1) : frames'[k] = frames[k]
      /\ frames'[n].idx = Frame.idx /\ frames'[n].tab = Frame.tab
      /\ stack' \in Seq(Values) /\ Len(stack') \in {Len(stack), Len(stack) + 1}
      /\ \A k \in 1..Len(stack) : stack'[k] = stack[k]
      /\ conf' = conf /\ stage = "parse" /\ stage' = "parse"
  <2>1. stack \in Seq(Values)
    BY DEF WalkInv
  <2> QED
    BY <2>1, FieldStep
<1>2. frames \in Seq(FrameType) /\ stack \in Seq(Values) /\ n \in Nat \ {0}
  BY <1>1 DEF WalkInv
<1>3. \A k \in 1..n : frames'[k].idx = frames[k].idx /\ frames'[k].tab = frames[k].tab
  BY <1>1, <1>2 DEF Frame
<1>4. FrameOnTable'
  <2>1. \A k \in 1..n : /\ frames[k].idx \in 1..Len(stack)
                        /\ IsTable(stack[frames[k].idx])
                        /\ stack[frames[k].idx].at \in {frames[k].tab, <<"other">>}
    BY <1>2, OtherAt DEF WalkInv, FrameOnTable
  <2>2. \A k \in 1..n : /\ frames'[k].idx \in 1..Len(stack')
                        /\ IsTable(stack'[frames'[k].idx])
                        /\ stack'[frames'[k].idx].at \in {frames'[k].tab, <<"other">>}
    BY <1>1, <1>2, <1>3, <2>1
  <2> QED
    BY <1>1, <2>2, OtherAt DEF FrameOnTable
<1>5. Nested'
  <2>1. \A j, k \in 1..n : j < k => frames[j].idx < frames[k].idx
    BY <1>2 DEF WalkInv, Nested
  <2>2. DOMAIN frames' = 1..n
    BY <1>1
  <2> QED
    BY <1>3, <2>1, <2>2 DEF Nested
<1>6. ConfOK' /\ BaseOK'
  BY <1>1, <1>2 DEF WalkInv, ConfOK, BaseOK, IsTable
<1> QED
  BY <1>1, <1>2, <1>4, <1>5, <1>6 DEF WalkInv

LEMMA WalkTable ==
  ASSUME WalkInv, CheckTable
  PROVE  WalkInv'
<1> DEFINE n == Len(frames)
<1>1. /\ frames' \in Seq(FrameType) /\ Len(frames') = n + 1
      /\ \A k \in 1..n : frames'[k] = frames[k]
      /\ frames'[n + 1] = [idx |-> Len(stack) + 1, tab |-> FieldPath, i |-> 1, ok |-> TRUE]
      /\ stack' \in Seq(Values) /\ Len(stack') = Len(stack) + 1
      /\ \A k \in 1..Len(stack) : stack'[k] = stack[k]
      /\ stack'[Len(stack) + 1] = Field
      /\ IsTable(Field) /\ Field.at = FieldPath
      /\ conf' = conf /\ stage = "parse" /\ stage' = "parse"
  BY TableStep
<1>2. frames \in Seq(FrameType) /\ stack \in Seq(Values) /\ n \in Nat \ {0} /\ Len(stack) \in Nat
  BY <1>1 DEF WalkInv
<1>3. frames'[n + 1].idx = Len(stack) + 1 /\ frames'[n + 1].tab = FieldPath
  BY <1>1
<1>4. FrameOnTable'
  <2> SUFFICES ASSUME NEW k \in 1..(n + 1)
               PROVE  /\ frames'[k].idx \in 1..Len(stack')
                      /\ IsTable(stack'[frames'[k].idx])
                      /\ stack'[frames'[k].idx].at \in {frames'[k].tab, <<"other">>}
    BY <1>1, <1>2, OtherAt DEF FrameOnTable
  <2>1. CASE k \in 1..n
    <3>1. /\ frames[k].idx \in 1..Len(stack)
          /\ IsTable(stack[frames[k].idx])
          /\ stack[frames[k].idx].at \in {frames[k].tab, <<"other">>}
      BY <1>2, <2>1, OtherAt DEF WalkInv, FrameOnTable
    <3> QED
      BY <1>1, <1>2, <2>1, <3>1
  <2>2. CASE k = n + 1
    BY <1>1, <1>2, <1>3, <2>2
  <2> QED
    BY <1>2, <2>1, <2>2
<1>5. Nested'
  <2>1. \A k \in 1..n : frames[k].idx \in 1..Len(stack)
    BY <1>2 DEF WalkInv, FrameOnTable
  <2>2. \A j, k \in 1..n : j < k => frames[j].idx < frames[k].idx
    BY <1>2 DEF WalkInv, Nested
  <2> QED
    BY <1>1, <1>2, <1>3, <2>1, <2>2 DEF Nested
<1>6. ConfOK' /\ BaseOK'
  <2>1. Len(stack) > 0
    BY <1>1 DEF WalkInv
  <2> QED
    BY <1>1, <1>2, <2>1 DEF WalkInv, ConfOK, BaseOK, IsTable
<1> QED
  BY <1>1, <1>2, <1>4, <1>5, <1>6 DEF WalkInv

LEMMA WalkReturn ==
  ASSUME WalkInv, ReturnToParent
  PROVE  WalkInv'
<1> DEFINE n == Len(frames)
<1>1. /\ n \in Nat /\ n > 1
      /\ frames' \in Seq(FrameType) /\ Len(frames') = n - 1
      /\ \A k \in 1..(n - 2) : frames'[k] = frames[k]
      /\ frames'[n - 1].idx = frames[n - 1].idx /\ frames'[n - 1].tab = frames[n - 1].tab
      /\ Frame.idx \in 1..Len(stack)
      /\ stack' \in Seq(Values) /\ Len(stack') = Len(stack) - 1
      /\ \A k \in 1..(Len(stack) - 1) : stack'[k] = stack[k]
      /\ conf' = conf /\ stage = "parse" /\ stage' = "parse"
  BY ReturnStep, Zenon
<1>2. frames \in Seq(FrameType) /\ stack \in Seq(Values) /\ Len(stack) \in Nat
  BY DEF WalkInv
<1>3. \A k \in 1..(n - 1) : frames'[k].idx = frames[k].idx /\ frames'[k].tab = frames[k].tab
  BY <1>1
<1>4. \A k \in 1..(n - 1) : frames[k].idx \in 1..(Len(stack) - 1)
  <2> SUFFICES ASSUME NEW k \in 1..(n - 1) PROVE frames[k].idx \in 1..(Len(stack) - 1)
    OBVIOUS
  <2>1. k \in DOMAIN frames /\ n \in DOMAIN frames /\ k < n
    BY <1>1, <1>2
  <2>2. frames[k].idx \in 1..Len(stack) /\ frames[n].idx \in 1..Len(stack)
    BY <1>2, <2>1 DEF WalkInv, FrameOnTable
  <2>3. frames[k].idx < frames[n].idx
    BY <2>1 DEF WalkInv, Nested
  <2> QED
    BY <1>2, <2>2, <2>3
<1>5. FrameOnTable'
  <2>1. \A k \in 1..(n - 1) : /\ IsTable(stack[frames[k].idx])
                              /\ stack[frames[k].idx].at \in {frames[k].tab, <<"other">>}
    <3>1. \A k \in 1..(n - 1) : k \in DOMAIN frames
      BY <1>1, <1>2
    <3> QED
      BY <3>1, OtherAt DEF WalkInv, FrameOnTable
  <2>2. \A k \in 1..(n - 1) : /\ frames'[k].idx \in 1..Len(stack')
                              /\ IsTable(stack'[frames'[k].idx])
                              /\ stack'[frames'[k].idx].at \in {frames'[k].tab, <<"other">>}
    BY <1>1, <1>2, <1>3, <1>4, <2>1
  <2>3. DOMAIN frames' = 1..(n - 1) /\ DOMAIN stack' = 1..Len(stack')
    BY <1>1, <1>2
  <2> QED
    BY <2>2, <2>3, OtherAt DEF FrameOnTable
<1>6. Nested'
  <2>1. \A j, k \in 1..(n - 1) : j < k => frames[j].idx < frames[k].idx
    <3>1. \A k \in 1..(n - 1) : k \in DOMAIN frames
      BY <1>1, <1>2
    <3> QED
      BY <3>1 DEF WalkInv, Nested
  <2>2. DOMAIN frames' = 1..(n - 1)
    BY <1>1
  <2> QED
    BY <1>3, <2>1, <2>2 DEF Nested
<1>7. Len(stack') > 0
  BY <1>1, <1>2, <1>4
<1>8. ConfOK' /\ BaseOK'
  BY <1>1, <1>2, <1>7 DEF WalkInv, ConfOK, BaseOK, IsTable
<1> QED
  BY <1>1, <1>2, <1>5, <1>6, <1>7, <1>8 DEF WalkInv

\* A step outside the walk that leaves the stack.
LEMMA WalkQuiet ==
  ASSUME WalkInv, ConfOK', stack' = stack, frames' = <<>>, stage' # "parse",
         stage' \notin {"start", "exit"} => stage \notin {"start", "exit"}
  PROVE  WalkInv'
<1>1. frames' \in Seq(FrameType) /\ DOMAIN frames' = {}
  BY EmptySeq
<1>2. FrameOnTable' /\ Nested'
  BY <1>1 DEF FrameOnTable, Nested
<1>3. BaseOK'
  BY DEF WalkInv, BaseOK, IsTable
<1> QED
  BY <1>1, <1>2, <1>3 DEF WalkInv

LEMMA NumValue ==
  ASSUME NEW n \in Int
  PROVE  Num(n) \in Values /\ ~IsTable(Num(n))
<1>1. <<>> \in Seq(Strings)
  BY EmptySeq, Zenon
<1>2. "number" \in Strings
  BY DEF Strings, Types
<1>3. Num(n) \in Values
  BY <1>1, <1>2, Zenon DEF Num, Value, Values
<1> QED
  BY <1>3 DEF Num, Value, IsTable

LEMMA BoolValue ==
  ASSUME NEW b
  PROVE  Bool(b) \in Values /\ ~IsTable(Bool(b))
<1>1. <<>> \in Seq(Strings)
  BY EmptySeq, Zenon
<1>2. "boolean" \in Strings
  BY DEF Strings, Types
<1>3. (IF b THEN 1 ELSE 0) \in Int
  OBVIOUS
<1>4. Bool(b) \in Values
  BY <1>1, <1>2, <1>3, Zenon DEF Bool, Value, Values
<1> QED
  BY <1>4 DEF Bool, Value, IsTable

\* sm3t__set_conf_value changes one value of the table at most.
LEMMA SetConf ==
  ASSUME ConfOK, NEW p, NEW v \in Values, ~IsTable(v), Set(p, v)
  PROVE  /\ ConfOK' /\ DOMAIN conf' = DOMAIN conf
         /\ lost \subseteq lost'
         /\ \A q \in DOMAIN conf : q # stack[1].at \o p => conf'[q] = conf[q]
<1>1. DOMAIN conf' = DOMAIN conf /\ lost \subseteq lost'
  BY DEF Set
<1>2. \A q \in DOMAIN conf :
        /\ conf'[q] \in {conf[q], v}
        /\ q # stack[1].at \o p => conf'[q] = conf[q]
  BY DEF Set
<1>3. ConfOK'
  BY <1>1, <1>2 DEF ConfOK, IsTable
<1> QED
  BY <1>1, <1>2, <1>3

\* main up to the call of sm3t__run_server.
LEMMA WalkConfigure ==
  ASSUME WalkInv, opts \in Opts, Configure
  PROVE  WalkInv' /\ opts' = opts
<1>1. opts.port \in Int /\ opts.mode \in Int
  <2>1. opts \in [port : Int, mode : 0..2, debug : BOOLEAN]
    BY ConfAssumption
  <2> QED
    BY <2>1
<1>2. ASSUME LoadFails
      PROVE  WalkInv' /\ opts' = opts
  <2>1. frames = <<>>
    BY <1>2 DEF LoadFails, WalkInv
  <2>2. ConfOK'
    BY <1>2 DEF LoadFails, WalkInv, ConfOK, IsTable
  <2> QED
    BY <1>2, <2>1, <2>2, WalkQuiet DEF LoadFails
<1>3. ASSUME EndParse
      PROVE  WalkInv' /\ opts' = opts
  <2>1. stage = "parse" /\ stage' \in {"options", "exit"} /\ frames' = <<>> /\ stack' = stack
    BY <1>3 DEF EndParse, Parsed
  <2>2. ConfOK'
    BY <1>3 DEF EndParse, WalkInv, ConfOK, IsTable
  <2> QED
    BY <1>3, <2>1, <2>2, WalkQuiet DEF EndParse
<1>4. ASSUME BadPort
      PROVE  WalkInv' /\ opts' = opts
  <2>1. frames = <<>>
    BY <1>4 DEF BadPort, WalkInv
  <2>2. ConfOK'
    BY <1>4 DEF BadPort, WalkInv, ConfOK, IsTable
  <2> QED
    BY <1>4, <2>1, <2>2, WalkQuiet DEF BadPort
<1>5. ASSUME SetPort \/ SetDebug \/ SetMode
      PROVE  WalkInv' /\ opts' = opts
  <2>1. /\ stage \in {"options", "debug", "mode"} /\ stage' \in {"debug", "mode", "listen"}
        /\ frames' = frames /\ stack' = stack /\ opts' = opts
    BY <1>5 DEF SetPort, SetDebug, SetMode
  <2>2. frames' = <<>>
    BY <2>1 DEF WalkInv
  <2>3. ConfOK
    BY DEF WalkInv
  <2>4. SetPort => ConfOK'
    BY <1>1, <2>3, NumValue, SetConf DEF SetPort
  <2>5. SetDebug => ConfOK'
    BY <2>3, BoolValue, SetConf DEF SetDebug
  <2>6. SetMode => ConfOK'
    BY <1>1, <2>3, NumValue, SetConf DEF SetMode
  <2>7. ConfOK'
    BY <1>5, <2>4, <2>5, <2>6
  <2> QED
    BY <2>1, <2>2, <2>7, WalkQuiet
<1>6. (Loaded \/ CheckField \/ CheckTable \/ ReturnToParent) => opts' = opts
  BY DEF Loaded, CheckField, CheckTable, ReturnToParent
<1> QED
  BY <1>2, <1>3, <1>4, <1>5, <1>6, WalkLoaded, WalkField, WalkTable, WalkReturn DEF Configure

-----------------------------------------------------------------------------
(* What the walk has decided of configuration f, and what it has left on   *)
(* the stack.                                                              *)

\* Path p is q or above it.
Above(p, q) == Len(p) <= Len(q) /\ \A k \in 1..Len(p) : q[k] = p[k]

Child(p, i) == Append(p, Schema[p][i].key)

\* What Valid asks of node i of table p, and of all nodes below it.
NodeOK(f, p, i) ==
  LET node == Schema[p][i]
      v == f[Child(p, i)]
  IN  /\ node.type \in {"boolean", "function", "table"} => v.t = node.type
      /\ node.type = "int" /\ IsNumber(v) => v.n \in node.ok

TableOK(f, q) == \A m \in DOMAIN Schema[q] : NodeOK(f, q, m)

SubtreeOK(f, p, i) ==
  /\ NodeOK(f, p, i)
  /\ \A q \in DOMAIN Schema : Above(Child(p, i), q) => TableOK(f, q)

\* The numbers that are missing, those at node i of table p or below it, and
\* those before node i of table p.
AllNodes == UNION {{p} \X DOMAIN Schema[p] : p \in DOMAIN Schema}
MissingOf(f) ==
  {n \in AllNodes : /\ Schema[n[1]][n[2]].type = "int"
                    /\ ~IsNumber(f[Child(n[1], n[2])])}
MissingIn(f, p, i) ==
  {n \in MissingOf(f) : n = <<p, i>> \/ Above(Child(p, i), n[1])}
MissingBefore(f, p, i) ==
  {n \in MissingOf(f) : \E j \in 1..(i - 1) : n \in MissingIn(f, p, j)}

\* A call has come to node i of its table, and stands for the nodes before it.
FrameDecides(fr, s, f) ==
  /\ s[fr.idx].at = fr.tab
  /\ fr.i <= Len(Schema[fr.tab]) + 1
  /\ fr.ok <=> \A j \in 1..(fr.i - 1) : SubtreeOK(f, fr.tab, j)

\* The next call is for that node.
FrameCalls(fr, next, f) ==
  /\ fr.i \in DOMAIN Schema[fr.tab]
  /\ Schema[fr.tab][fr.i].type = "table"
  /\ next.tab = Child(fr.tab, fr.i)
  /\ NodeOK(f, fr.tab, fr.i)

\* Between the index of a call's table and top, the index below the next one,
\* there is a value for each number it has found missing.
FrameCounts(fr, top, f) ==
  fr.ok => fr.idx + Cardinality(MissingBefore(f, fr.tab, fr.i)) = top

TopOf(k) == IF k = Len(frames) THEN Len(stack) ELSE frames[k + 1].idx - 1

Rooted == stack[frames[1].idx].at = <<>>

HasNodes(f) ==
  \A p \in DOMAIN Schema : \A i \in DOMAIN Schema[p] : Child(p, i) \in DOMAIN f

OnlyNumbers(i) == \A j \in 1..(i - 1) : Schema[<<>>][j].type \in {"int", "string"}

RootedInv ==
  /\ IsTable(conf[<<>>])
  /\ \A k \in DOMAIN frames :
       FrameDecides(frames[k], stack, conf) /\ FrameCounts(frames[k], TopOf(k), conf)
  /\ \A k \in 1..(Len(frames) - 1) : FrameCalls(frames[k], frames[k + 1], conf)

DecideInv ==
  stage = "parse" =>
    /\ HasNodes(conf)
    /\ frames[1].tab = <<>>
    /\ Rooted => RootedInv
    /\ ~Rooted => Len(frames) = 1 /\ (frames[1].ok => OnlyNumbers(frames[1].i))

LEMMA NodeTypes ==
  ASSUME NEW p \in DOMAIN Schema, NEW i \in DOMAIN Schema[p]
  PROVE  /\ p \in Seq(Strings) /\ Schema[p][i].key \in Strings
         /\ Child(p, i) \in Seq(Strings) /\ Len(Child(p, i)) = Len(p) + 1
         /\ \A k \in 1..Len(p) : Child(p, i)[k] = p[k]
         /\ Child(p, i)[Len(p) + 1] = Schema[p][i].key
<1>1. p \in Seq(Strings) /\ Schema[p][i].key \in Strings
  BY SchemaTypes
<1> QED
  BY <1>1, AppendProperties DEF Child

\* The tables of the schema below a node: none, unless the node is a table
\* with a schema of its own.
LEMMA BelowLeaf ==
  ASSUME NEW p \in DOMAIN Schema, NEW i \in DOMAIN Schema[p], Child(p, i) \notin DOMAIN Schema,
         NEW q \in DOMAIN Schema
  PROVE  ~Above(Child(p, i), q)
<1> SUFFICES ASSUME Above(Child(p, i), q) PROVE FALSE
  OBVIOUS
<1>1. PICK c : c = Child(p, i)
  OBVIOUS
<1>2. c \in Seq(Strings) /\ q \in Seq(Strings) /\ Len(c) \in Nat /\ Len(q) \in Nat
  BY <1>1, NodeTypes, SchemaTypes
<1>3. Len(c) <= Len(q) /\ \A k \in 1..Len(c) : q[k] = c[k]
  BY <1>1 DEF Above
<1>4. SubSeq(q, 1, Len(c)) = c
  <2>1. /\ SubSeq(q, 1, Len(c)) \in Seq(Strings) /\ Len(SubSeq(q, 1, Len(c))) = Len(c)
        /\ \A k \in 1..Len(c) : SubSeq(q, 1, Len(c))[k] = c[k]
    BY <1>2, <1>3
  <2> QED
    BY <1>2, <2>1, SeqEqual
<1>5. CASE Len(c) = Len(q)
  <2>1. q = c
    BY <1>2, <1>3, <1>5, SeqEqual
  <2> QED
    BY <1>1, <2>1
<1>6. CASE Len(c) # Len(q)
  <2>1. Len(c) \in 0..(Len(q) - 1)
    BY <1>2, <1>3, <1>6
  <2>2. SubSeq(q, 1, Len(c)) \in DOMAIN Schema
    BY <2>1, SchemaAssumption
  <2> QED
    BY <1>1, <1>4, <2>2
<1> QED
  BY <1>5, <1>6

\* ... and otherwise that table, and the tables below its nodes.
LEMMA BelowTable ==
  ASSUME NEW c \in DOMAIN Schema, NEW q \in DOMAIN Schema
  PROVE  /\ Above(c, q) <=> q = c \/ \E j \in DOMAIN Schema[c] : Above(Child(c, j), q)
         /\ \A j \in DOMAIN Schema[c] :
              Above(Child(c, j), q) <=> /\ Above(c, q) /\ Len(c) < Len(q)
                                        /\ q[Len(c) + 1] = Schema[c][j].key
<1>1. c \in Seq(Strings) /\ q \in Seq(Strings) /\ Len(c) \in Nat /\ Len(q) \in Nat
  BY SchemaTypes
<1>2. ASSUME NEW j \in DOMAIN Schema[c]
      PROVE  Above(Child(c, j), q) <=> /\ Above(c, q) /\ Len(c) < Len(q)
                                       /\ q[Len(c) + 1] = Schema[c][j].key
  <2>1. PICK d : d = Child(c, j)
    OBVIOUS
  <2>2. /\ Len(d) = Len(c) + 1 /\ \A k \in 1..Len(c) : d[k] = c[k]
        /\ d[Len(c) + 1] = Schema[c][j].key
    BY <2>1, NodeTypes
  <2>3. Above(d, q) <=> /\ Above(c, q) /\ Len(c) < Len(q)
                        /\ q[Len(c) + 1] = Schema[c][j].key
    BY <1>1, <2>2 DEF Above
  <2> QED
    BY <2>1, <2>3
<1>3. ASSUME Above(c, q), q # c
      PROVE  \E j \in DOMAIN Schema[c] : Above(Child(c, j), q)
  <2>1. Len(c) <= Len(q) /\ \A k \in 1..Len(c) : q[k] = c[k]
    BY <1>3 DEF Above
  <2>2. Len(c) # Len(q)
    BY <1>1, <1>3, <2>1, SeqEqual
  <2>3. Len(c) \in 0..(Len(q) - 1)
    BY <1>1, <2>1, <2>2
  <2>4. SubSeq(q, 1, Len(c)) = c
    <3>1. /\ SubSeq(q, 1, Len(c)) \in Seq(Strings) /\ Len(SubSeq(q, 1, Len(c))) = Len(c)
          /\ \A k \in 1..Len(c) : SubSeq(q, 1, Len(c))[k] = c[k]
      BY <1>1, <2>1
    <3> QED
      BY <1>1, <3>1, SeqEqual
  <2>5. PICK j \in DOMAIN Schema[SubSeq(q, 1, Len(c))] :
          Schema[SubSeq(q, 1, Len(c))][j].key = q[Len(c) + 1]
    BY <2>3, SchemaAssumption
  <2>6. j \in DOMAIN Schema[c] /\ Schema[c][j].key = q[Len(c) + 1]
    BY <2>4, <2>5
  <2> QED
    BY <1>1, <1>2, <1>3, <2>3, <2>6
<1>4. Above(c, c)
  BY <1>1 DEF Above
<1> QED
  BY <1>2, <1>3, <1>4

-----------------------------------------------------------------------------
(* Validity, by subtrees. *)

LEMMA SubtreeLeaf ==
  ASSUME NEW f, NEW p \in DOMAIN Schema, NEW i \in DOMAIN Schema[p],
         Child(p, i) \notin DOMAIN Schema
  PROVE  SubtreeOK(f, p, i) <=> NodeOK(f, p, i)
BY BelowLeaf DEF SubtreeOK

LEMMA SubtreeTable ==
  ASSUME NEW f, NEW p \in DOMAIN Schema, NEW i \in DOMAIN Schema[p],
         Child(p, i) \in DOMAIN Schema
  PROVE  SubtreeOK(f, p, i) <=>
           /\ NodeOK(f, p, i)
           /\ \A j \in DOMAIN Schema[Child(p, i)] : SubtreeOK(f, Child(p, i), j)
<1>1. PICK c \in DOMAIN Schema : c = Child(p, i)
  OBVIOUS
<1>2. \A q \in DOMAIN Schema :
        Above(c, q) <=> q = c \/ \E j \in DOMAIN Schema[c] : Above(Child(c, j), q)
  BY BelowTable
<1>3. SubtreeOK(f, p, i) <=>
        NodeOK(f, p, i) /\ \A q \in DOMAIN Schema : Above(c, q) => TableOK(f, q)
  BY <1>1 DEF SubtreeOK
<1>4. (\A q \in DOMAIN Schema : Above(c, q) => TableOK(f, q)) <=>
        \A j \in DOMAIN Schema[c] : SubtreeOK(f, c, j)
  <2>1. ASSUME \A q \in DOMAIN Schema : Above(c, q) => TableOK(f, q),
               NEW j \in DOMAIN Schema[c]
        PROVE  SubtreeOK(f, c, j)
    <3>1. NodeOK(f, c, j)
      BY <1>2, <2>1 DEF TableOK
    <3> QED
      BY <1>2, <2>1, <3>1 DEF SubtreeOK
  <2>2. ASSUME \A j \in DOMAIN Schema[c] : SubtreeOK(f, c, j),
               NEW q \in DOMAIN Schema, Above(c, q)
        PROVE  TableOK(f, q)
    <3>1. CASE q = c
      BY <2>2, <3>1 DEF SubtreeOK, TableOK
    <3>2. CASE \E j \in DOMAIN Schema[c] : Above(Child(c, j), q)
      BY <2>2, <3>2 DEF SubtreeOK
    <3> QED
      BY <1>2, <2>2, <3>1, <3>2
  <2> QED
    BY <2>1, <2>2
<1> QED
  BY <1>1, <1>3, <1>4

\* The walk from the root covers what Valid asks for.
LEMMA RootOK ==
  ASSUME NEW f
  PROVE  Valid(f) <=> /\ IsTable(f[<<>>])
                      /\ \A j \in DOMAIN Schema[<<>>] : SubtreeOK(f, <<>>, j)
<1>1. <<>> \in DOMAIN Schema
  BY ConfAssumption
<1>2. Valid(f) <=> /\ \A p \in DOMAIN Schema : IsTable(f[p])
                   /\ \A p \in DOMAIN Schema : TableOK(f, p)
  BY DEF Valid, TableOK, NodeOK, Child
<1>3. ASSUME \A p \in DOMAIN Schema : TableOK(f, p)
      PROVE  \A j \in DOMAIN Schema[<<>>] : SubtreeOK(f, <<>>, j)
  BY <1>1, <1>3 DEF SubtreeOK, TableOK
<1>4. ASSUME \A j \in DOMAIN Schema[<<>>] : SubtreeOK(f, <<>>, j),
             NEW q \in DOMAIN Schema
      PROVE  TableOK(f, q)
  <2>1. PICK c \in DOMAIN Schema : c = <<>>
    BY <1>1
  <2>2. Above(c, q)
    <3>1. Len(c) = 0 /\ q \in Seq(Strings) /\ Len(q) \in Nat
      BY <2>1, SchemaTypes
    <3> QED
      BY <3>1 DEF Above
  <2>3. q = c \/ \E j \in DOMAIN Schema[c] : Above(Child(c, j), q)
    BY <2>2, BelowTable
  <2>4. CASE q = c
    BY <1>4, <2>1, <2>4 DEF SubtreeOK, TableOK
  <2>5. CASE \E j \in DOMAIN Schema[c] : Above(Child(c, j), q)
    BY <1>4, <2>1, <2>5 DEF SubtreeOK
  <2> QED
    BY <2>3, <2>4, <2>5
<1>5. ASSUME \A p \in DOMAIN Schema : TableOK(f, p),
             NEW q \in DOMAIN Schema, q # <<>>
      PROVE  IsTable(f[q])
  <2>1. q \in Seq(Strings) /\ Len(q) \in Nat \ {0}
    BY <1>5, SchemaTypes
  <2> DEFINE r == SubSeq(q, 1, Len(q) - 1)
  <2>2. Len(q) - 1 \in 0..(Len(q) - 1) /\ Len(q) - 1 + 1 = Len(q)
    BY <2>1
  <2>3. r \in DOMAIN Schema /\ \E i \in DOMAIN Schema[r] : Schema[r][i].key = q[Len(q)]
    <3>1. \A k \in 0..(Len(q) - 1) :
            /\ SubSeq(q, 1, k) \in DOMAIN Schema
            /\ \E i \in DOMAIN Schema[SubSeq(q, 1, k)] :
                 Schema[SubSeq(q, 1, k)][i].key = q[k + 1]
      BY SchemaAssumption
    <3> QED
      BY <2>2, <3>1, Zenon
  <2>4. PICK i \in DOMAIN Schema[r] : Schema[r][i].key = q[Len(q)]
    BY <2>3
  <2>5. r \in Seq(Strings) /\ Len(r) = Len(q) - 1 /\ \A k \in 1..(Len(q) - 1) : r[k] = q[k]
    <3>1. PICK n \in Nat : n = Len(q) - 1
      BY <2>1
    <3>2. 1 \in 1..(Len(q) + 1) /\ n \in 0..Len(q) /\ n \in (1 - 1)..Len(q)
      BY <2>1, <3>1
    <3>3. /\ SubSeq(q, 1, n) \in Seq(Strings) /\ Len(SubSeq(q, 1, n)) = n
          /\ \A k \in 1..n : SubSeq(q, 1, n)[k] = q[k]
      BY <2>1, <3>2
    <3> QED
      BY <3>1, <3>3
  <2> HIDE DEF r
  <2>6. Child(r, i) = q
    <3>1. /\ Child(r, i) \in Seq(Strings) /\ Len(Child(r, i)) = Len(q)
          /\ \A k \in 1..(Len(q) - 1) : Child(r, i)[k] = q[k]
          /\ Child(r, i)[Len(q)] = q[Len(q)]
      BY <2>1, <2>2, <2>3, <2>4, <2>5, NodeTypes
    <3>2. \A k \in 1..Len(q) : Child(r, i)[k] = q[k]
      BY <2>1, <3>1
    <3> QED
      BY <2>1, <3>1, <3>2, SeqEqual
  <2>7. Schema[r][i].type = "table"
    <3>1. Append(r, Schema[r][i].key) \in DOMAIN Schema
      BY <2>6 DEF Child
    <3> QED
      BY <2>3, <3>1, SchemaAssumption
  <2>8. NodeOK(f, r, i)
    BY <1>5, <2>3 DEF TableOK
  <2>9. f[Child(r, i)].t = "table"
    BY <2>7, <2>8 DEF NodeOK
  <2> QED
    BY <2>6, <2>9 DEF IsTable
<1> QED
  BY <1>1, <1>2, <1>3, <1>4, <1>5

-----------------------------------------------------------------------------
(* The missing numbers, by subtrees. *)

LEMMA MissingFinite ==
  ASSUME NEW f, NEW T \in SUBSET MissingOf(f)
  PROVE  IsFiniteSet(T) /\ Cardinality(T) \in Nat
<1> DEFINE R(p) == {p} \X DOMAIN Schema[p]
           Rows == {R(p) : p \in DOMAIN Schema}
<1>1. \A p \in DOMAIN Schema : IsFiniteSet(R(p))
  <2> SUFFICES ASSUME NEW p \in DOMAIN Schema PROVE IsFiniteSet(R(p))
    OBVIOUS
  <2>1. IsFiniteSet({p})
    BY FS_Singleton
  <2>2. Len(Schema[p]) \in Int /\ 1 \in Int /\ DOMAIN Schema[p] = 1..Len(Schema[p])
    BY SchemaAssumption
  <2>3. IsFiniteSet(DOMAIN Schema[p])
    BY <2>2, FS_Interval
  <2> QED
    BY <2>1, <2>3, FS_Product
<1>2. IsFiniteSet(Rows)
  <2> DEFINE g == [p \in DOMAIN Schema |-> R(p)]
  <2>1. g \in [DOMAIN Schema -> Rows] /\ \A t \in Rows : \E p \in DOMAIN Schema : g[p] = t
    BY Zenon
  <2>2. g \in Surjection(DOMAIN Schema, Rows)
    BY <2>1, Fun_IsSurj
  <2>3. IsFiniteSet(DOMAIN Schema)
    BY SchemaAssumption
  <2> QED
    BY <2>2, <2>3, FS_Surjection
<1>3. \A S \in Rows : IsFiniteSet(S)
  BY <1>1
<1>4. IsFiniteSet(UNION Rows)
  BY <1>2, <1>3, FS_UNION
<1>5. MissingOf(f) \subseteq UNION Rows
  BY DEF MissingOf, AllNodes
<1>6. T \in SUBSET (UNION Rows)
  BY <1>5
<1> QED
  BY <1>4, <1>6, FS_Subset, FS_CardinalityType

LEMMA MissingType ==
  ASSUME NEW f, NEW n \in MissingOf(f)
  PROVE  /\ n[1] \in DOMAIN Schema /\ n[2] \in DOMAIN Schema[n[1]] /\ n = <<n[1], n[2]>>
         /\ Schema[n[1]][n[2]].type = "int" /\ ~IsNumber(f[Child(n[1], n[2])])
BY DEF MissingOf, AllNodes

LEMMA BeforeFirst ==
  ASSUME NEW f, NEW p
  PROVE  MissingBefore(f, p, 1) = {}
BY DEF MissingBefore

LEMMA BeforeNext ==
  ASSUME NEW f, NEW p, NEW i \in Nat \ {0}
  PROVE  MissingBefore(f, p, i + 1) = MissingBefore(f, p, i) \cup MissingIn(f, p, i)
<1>1. 1..(i + 1 - 1) = 1..(i - 1) \cup {i}
  OBVIOUS
<1> QED
  BY <1>1 DEF MissingBefore, MissingIn

\* No missing number is counted for two nodes.
LEMMA BeforeDisjoint ==
  ASSUME NEW f, NEW p \in DOMAIN Schema, NEW i \in DOMAIN Schema[p]
  PROVE  MissingBefore(f, p, i) \cap MissingIn(f, p, i) = {}
<1> SUFFICES ASSUME NEW n \in MissingBefore(f, p, i), n \in MissingIn(f, p, i)
             PROVE  FALSE
  OBVIOUS
<1>1. n \in MissingOf(f) /\ n[1] \in DOMAIN Schema
  BY MissingType DEF MissingIn
<1>2. PICK q \in DOMAIN Schema : q = n[1]
  BY <1>1
<1>3. PICK j \in 1..(i - 1) : n \in MissingIn(f, p, j)
  BY DEF MissingBefore
<1>4. j \in DOMAIN Schema[p] /\ j # i /\ i \in Nat
  BY SchemaAssumption
<1>5. Schema[p][i].key # Schema[p][j].key
  BY <1>4, SchemaAssumption
<1>6. p \in Seq(Strings) /\ Len(p) \in Nat
  BY SchemaTypes
<1>7. ~Above(Child(p, i), p) /\ ~Above(Child(p, j), p)
  BY <1>4, <1>6, NodeTypes DEF Above
<1>8. Above(Child(p, i), q) => q[Len(p) + 1] = Schema[p][i].key
  BY BelowTable
<1>9. Above(Child(p, j), q) => q[Len(p) + 1] = Schema[p][j].key
  BY <1>4, BelowTable
<1>10. n = <<p, i>> \/ Above(Child(p, i), q)
  BY <1>2 DEF MissingIn
<1>11. n = <<p, j>> \/ Above(Child(p, j), q)
  BY <1>2, <1>3 DEF MissingIn
<1>12. (n = <<p, i>> \/ n = <<p, j>>) => q = p
  BY <1>2
<1>13. ~(n = <<p, i>> /\ n = <<p, j>>)
  BY <1>4
<1> QED
  BY <1>5, <1>7, <1>8, <1>9, <1>10, <1>11, <1>12, <1>13

LEMMA CountNext ==
  ASSUME NEW f, NEW p \in DOMAIN Schema, NEW i \in DOMAIN Schema[p]
  PROVE  Cardinality(MissingBefore(f, p, i + 1)) =
           Cardinality(MissingBefore(f, p, i)) + Cardinality(MissingIn(f, p, i))
<1>1. i \in Nat \ {0}
  BY SchemaAssumption
<1> DEFINE A == MissingBefore(f, p, i)
           B == MissingIn(f, p, i)
<1>2. A \in SUBSET MissingOf(f) /\ B \in SUBSET MissingOf(f)
  BY DEF MissingBefore, MissingIn
<1>3. IsFiniteSet(A) /\ IsFiniteSet(B) /\ Cardinality(A) \in Nat /\ Cardinality(B) \in Nat
  BY <1>2, MissingFinite
<1>4. A \cap B = {}
  BY BeforeDisjoint
<1>5. MissingBefore(f, p, i + 1) = A \cup B
  BY <1>1, BeforeNext
<1> HIDE DEF A, B
<1>6. Cardinality(A \cup B) = Cardinality(A) + Cardinality(B) - Cardinality(A \cap B)
  BY <1>3, FS_Union
<1>7. Cardinality(A \cap B) = 0
  BY <1>4, FS_EmptySet
<1>8. Cardinality(A \cup B) = Cardinality(A) + Cardinality(B)
  BY <1>3, <1>6, <1>7
<1> QED
  BY <1>5, <1>8 DEF A, B

LEMMA CountLeaf ==
  ASSUME NEW f, NEW p \in DOMAIN Schema, NEW i \in DOMAIN Schema[p],
         Child(p, i) \notin DOMAIN Schema
  PROVE  Cardinality(MissingIn(f, p, i)) =
           IF Schema[p][i].type = "int" /\ ~IsNumber(f[Child(p, i)]) THEN 1 ELSE 0
<1>1. \A n \in MissingIn(f, p, i) : n = <<p, i>> /\ n \in MissingOf(f)
  BY MissingType, BelowLeaf DEF MissingIn
<1>2. <<p, i>> \in AllNodes
  <2>1. <<p, i>> \in {p} \X DOMAIN Schema[p]
    OBVIOUS
  <2> QED
    BY <2>1 DEF AllNodes
<1>3. CASE Schema[p][i].type = "int" /\ ~IsNumber(f[Child(p, i)])
  <2>1. <<p, i>> \in MissingIn(f, p, i)
    BY <1>2, <1>3 DEF MissingIn, MissingOf
  <2>2. MissingIn(f, p, i) = {<<p, i>>}
    BY <1>1, <2>1
  <2> QED
    BY <1>3, <2>2, FS_Singleton
<1>4. CASE ~(Schema[p][i].type = "int" /\ ~IsNumber(f[Child(p, i)]))
  <2>1. <<p, i>> \notin MissingOf(f)
    BY <1>4 DEF MissingOf
  <2>2. MissingIn(f, p, i) = {}
    BY <1>1, <2>1
  <2> QED
    BY <1>4, <2>2, FS_EmptySet
<1> QED
  BY <1>3, <1>4

\* What is missing before the end of a table is missing in it or below it.
LEMMA BeforeEnd ==
  ASSUME NEW f, NEW c \in DOMAIN Schema
  PROVE  MissingBefore(f, c, Len(Schema[c]) + 1) = {n \in MissingOf(f) : Above(c, n[1])}
<1>1. Len(Schema[c]) \in Nat /\ DOMAIN Schema[c] = 1..Len(Schema[c])
  BY SchemaAssumption
<1>2. 1..(Len(Schema[c]) + 1 - 1) = DOMAIN Schema[c]
  BY <1>1
<1>3. ASSUME NEW n \in MissingOf(f)
      PROVE  (\E j \in DOMAIN Schema[c] : n \in MissingIn(f, c, j)) <=> Above(c, n[1])
  <2>1. n[1] \in DOMAIN Schema /\ n[2] \in DOMAIN Schema[n[1]] /\ n = <<n[1], n[2]>>
    BY MissingType
  <2>2. PICK q \in DOMAIN Schema : q = n[1]
    BY <2>1
  <2>3. Above(c, q) <=> q = c \/ \E j \in DOMAIN Schema[c] : Above(Child(c, j), q)
    BY BelowTable
  <2>4. q = c <=> \E j \in DOMAIN Schema[c] : n = <<c, j>>
    BY <2>1, <2>2
  <2>5. \A j : n \in MissingIn(f, c, j) <=> n = <<c, j>> \/ Above(Child(c, j), q)
    BY <2>2 DEF MissingIn
  <2> QED
    BY <2>2, <2>3, <2>4, <2>5
<1> QED
  BY <1>2, <1>3 DEF MissingBefore

LEMMA CountTable ==
  ASSUME NEW f, NEW p \in DOMAIN Schema, NEW i \in DOMAIN Schema[p],
         Schema[p][i].type = "table", NEW c \in DOMAIN Schema, c = Child(p, i)
  PROVE  MissingIn(f, p, i) = MissingBefore(f, c, Len(Schema[c]) + 1)
<1>1. \A n \in MissingOf(f) : n # <<p, i>>
  BY MissingType
<1> QED
  BY <1>1, BeforeEnd DEF MissingIn

LEMMA CountRoot ==
  MissingBefore(conf, <<>>, Len(Schema[<<>>]) + 1) = MissingNumbers
<1>1. <<>> \in DOMAIN Schema
  BY ConfAssumption
<1>2. MissingNumbers = MissingOf(conf)
  BY DEF MissingNumbers, MissingOf, AllNodes, Lacks, Child
<1>3. \A n \in MissingOf(conf) : Above(<<>>, n[1])
  <2> SUFFICES ASSUME NEW n \in MissingOf(conf) PROVE Above(<<>>, n[1])
    OBVIOUS
  <2>1. PICK q \in DOMAIN Schema : q = n[1]
    BY MissingType
  <2>2. Len(<<>>) = 0 /\ Len(q) \in Nat
    BY SchemaTypes
  <2>3. Above(<<>>, q)
    BY <2>2 DEF Above
  <2> QED
    BY <2>1, <2>3
<1> QED
  BY <1>1, <1>2, <1>3, BeforeEnd

-----------------------------------------------------------------------------
(* The walk decides. *)

LEMMA DecideLoaded ==
  ASSUME WalkInv, Loaded
  PROVE  DecideInv'
<1>1. PICK f \in Files :
        /\ conf' = f.conf
        /\ stack' = [i \in DOMAIN f.returns |-> IF f.returns[i] THEN conf'[<<>>] ELSE Other]
        /\ IF f.returns # <<>> /\ IsTable(Top(stack'))
           THEN stage' = "parse" /\ frames' = <<Entered(stack', <<>>)>>
           ELSE stage' = "exit" /\ frames' = <<>>
  BY DEF Loaded
<1> SUFFICES ASSUME stage' = "parse"
             PROVE  /\ HasNodes(conf')
                    /\ frames'[1].tab = <<>>
                    /\ Rooted' => RootedInv'
                    /\ ~Rooted' => /\ Len(frames') = 1
                                   /\ frames'[1].ok => OnlyNumbers(frames'[1].i)
  BY DEF DecideInv
<1> DEFINE n == Len(stack')
           fr == [idx |-> n, tab |-> <<>>, i |-> 1, ok |-> TRUE]
<1>2. f.returns # <<>> /\ IsTable(Top(stack')) /\ frames' = <<fr>>
  BY <1>1 DEF Entered
<1>3. HasNodes(conf')
  BY <1>1, FilesAssumption DEF HasNodes, Child
<1>4. fr.idx = n /\ fr.tab = <<>> /\ fr.i = 1 /\ fr.ok = TRUE
  OBVIOUS
<1> HIDE DEF fr
<1>5. frames'[1] = fr /\ Len(frames') = 1 /\ DOMAIN frames' = {1}
  BY <1>2
<1>6. OnlyNumbers(fr.i)
  BY <1>4 DEF OnlyNumbers
<1>7. ASSUME Rooted' PROVE RootedInv'
  <2>1. n \in DOMAIN f.returns
    <3>1. f.returns \in Seq(BOOLEAN) /\ Len(f.returns) \in Nat \ {0}
      BY <1>2, ConfAssumption
    <3>2. stack' \in Seq(Values) /\ DOMAIN stack' = DOMAIN f.returns
      BY <1>1, WalkLoaded DEF WalkInv
    <3> QED
      BY <3>1, <3>2
  <2>2. stack'[n] \in {conf'[<<>>], Other} /\ IsTable(stack'[n]) /\ stack'[n].at = <<>>
    BY <1>1, <1>2, <1>4, <1>5, <1>7, <2>1 DEF Top, Rooted
  <2>3. IsTable(conf'[<<>>])
    BY <2>2, OtherAt
  <2>4. FrameDecides(fr, stack', conf')
    <3>1. <<>> \in DOMAIN Schema /\ Len(Schema[<<>>]) \in Nat
      BY ConfAssumption, SchemaAssumption
    <3> QED
      BY <1>4, <2>2, <3>1 DEF FrameDecides
  <2>5. FrameCounts(fr, n, conf')
    <3>1. Cardinality(MissingBefore(conf', fr.tab, fr.i)) = 0
      BY <1>4, BeforeFirst, FS_EmptySet
    <3>2. n \in Nat
      BY WalkLoaded DEF WalkInv
    <3> QED
      BY <1>4, <3>1, <3>2 DEF FrameCounts
  <2>6. TopOf(1)' = n
    BY <1>5 DEF TopOf
  <2> QED
    BY <1>5, <2>3, <2>4, <2>5, <2>6 DEF RootedInv
<1> QED
  BY <1>3, <1>4, <1>5, <1>6, <1>7

LEMMA DecideField ==
  ASSUME WalkInv, DecideInv, CheckField
  PROVE  DecideInv'
<1>0. PICK n \in Nat : n = Len(frames)
  BY DEF WalkInv
<1> DEFINE add == IF Node.type = "int" /\ ~IsNumber(Field) THEN 1 ELSE 0
<1>1. /\ frames' \in Seq(FrameType) /\ Len(frames') = n
      /\ \A k \in 1..(n - 1) : frames'[k] = frames[k]
      /\ frames'[n].idx = Frame.idx /\ frames'[n].tab = Frame.tab
      /\ frames'[n].i = Frame.i + 1
      /\ frames'[n].ok <=> Frame.ok /\ Accepts(Node, Field)
      /\ stack' \in Seq(Values)
      /\ Len(stack') = Len(stack) + add
      /\ \A k \in 1..Len(stack) : stack'[k] = stack[k]
      /\ conf' = conf /\ stage = "parse" /\ stage' = "parse"
  BY <1>0, FieldStep, Zenon
<1>2. InField /\ ~Descends
  BY DEF CheckField
<1>3. /\ n \in Nat \ {0} /\ Frame = frames[n] /\ Frame \in FrameType
      /\ Frame.idx \in 1..Len(stack) /\ stack[Frame.idx] \in Values
      /\ Frame.i \in DOMAIN Schema[Frame.tab]
      /\ Field \in Values
      /\ stack[Frame.idx].at = Frame.tab =>
           Field = IF FieldPath \in DOMAIN conf THEN conf[FieldPath] ELSE Nil
      /\ stack[Frame.idx].at # Frame.tab => stack[Frame.idx].at = <<"other">> /\ Field = Nil
  BY <1>0, <1>2, FieldFacts, Zenon DEF Frame
<1>4. PICK p \in DOMAIN Schema : p = Frame.tab
  BY <1>3 DEF FrameType
<1>5. PICK i \in DOMAIN Schema[p] : i = Frame.i
  BY <1>3, <1>4
<1>6. Node = Schema[p][i] /\ FieldPath = Child(p, i) /\ i \in Nat \ {0} /\ i <= Len(Schema[p])
  BY <1>4, <1>5, SchemaAssumption DEF Node, Nodes, FieldPath, Child
<1>7. HasNodes(conf) /\ HasNodes(conf') /\ frames[1].tab = <<>>
  BY <1>1 DEF DecideInv
<1>8. \A k \in 1..n : frames'[k].idx = frames[k].idx /\ frames'[k].tab = frames[k].tab
  BY <1>1, <1>3
<1>9. frames \in Seq(FrameType) /\ stack \in Seq(Values) /\ DOMAIN frames = 1..n /\ DOMAIN frames' = 1..n
  BY <1>0, <1>1 DEF WalkInv
<1>10. \A k \in 1..n : frames[k].idx \in 1..Len(stack)
  BY <1>9 DEF WalkInv, FrameOnTable
<1>11. Rooted' <=> Rooted
  BY <1>1, <1>3, <1>8, <1>10 DEF Rooted
<1>12. frames'[1].tab = <<>>
  BY <1>3, <1>7, <1>8
<1>13. ASSUME Rooted PROVE RootedInv'
  <2>1. RootedInv
    BY <1>1, <1>13 DEF DecideInv
  <2>2. FrameDecides(Frame, stack, conf) /\ FrameCounts(Frame, Len(stack), conf)
    BY <1>0, <1>3, <1>9, <2>1 DEF RootedInv, TopOf
  <2>3. Field = conf[Child(p, i)]
    <3>1. stack[Frame.idx].at = Frame.tab /\ Child(p, i) \in DOMAIN conf
      BY <1>7, <2>2 DEF FrameDecides, HasNodes
    <3> QED
      BY <1>3, <1>6, <3>1
  <2>4. Accepts(Node, Field) <=> NodeOK(conf, p, i)
    <3>1. Node.type \in {"int", "string", "boolean", "function", "table"}
      BY <1>6, SchemaAssumption
    <3> QED
      BY <1>6, <2>3, <3>1 DEF Accepts, NodeOK, IsTable
  <2>5. NodeOK(conf, p, i) => Child(p, i) \notin DOMAIN Schema
    <3> SUFFICES ASSUME NodeOK(conf, p, i), Child(p, i) \in DOMAIN Schema PROVE FALSE
      OBVIOUS
    <3>1. Schema[p][i].type = "table"
      BY SchemaAssumption DEF Child
    <3>2. IsTable(Field)
      BY <2>3, <3>1 DEF NodeOK, IsTable
    <3> QED
      BY <1>2, <1>6, <3>1, <3>2 DEF Descends
  <2>6. Accepts(Node, Field) <=> SubtreeOK(conf, p, i)
    BY <2>4, <2>5, SubtreeLeaf DEF SubtreeOK
  <2>7. Frame.ok <=> \A j \in 1..(i - 1) : SubtreeOK(conf, p, j)
    BY <1>4, <1>5, <2>2 DEF FrameDecides
  <2>8. frames'[n].ok <=> \A j \in 1..(i + 1 - 1) : SubtreeOK(conf, p, j)
    <3>1. 1..(i + 1 - 1) = 1..(i - 1) \cup {i}
      BY <1>6
    <3> QED
      BY <1>1, <2>6, <2>7, <3>1
  <2>9. FrameDecides(frames'[n], stack', conf')
    <3>1. stack'[frames'[n].idx].at = frames'[n].tab
      BY <1>1, <1>3, <2>2 DEF FrameDecides
    <3>2. frames'[n].tab = p /\ frames'[n].i = i + 1
      BY <1>1, <1>4, <1>5
    <3>3. i + 1 <= Len(Schema[p]) + 1
      BY <1>6, SchemaAssumption
    <3>4. frames'[n].i <= Len(Schema[frames'[n].tab]) + 1
      BY <3>2, <3>3
    <3>5. frames'[n].ok <=>
            \A j \in 1..(frames'[n].i - 1) : SubtreeOK(conf', frames'[n].tab, j)
      <4>1. (\A j \in 1..(i + 1 - 1) : SubtreeOK(conf, p, j)) <=>
              \A j \in 1..(frames'[n].i - 1) : SubtreeOK(conf', frames'[n].tab, j)
        <5>1. conf' = conf
          BY <1>1
        <5>2. 1..(i + 1 - 1) = 1..(frames'[n].i - 1)
          BY <1>6, <3>2
        <5>3. \A j : SubtreeOK(conf, p, j) <=> SubtreeOK(conf', frames'[n].tab, j)
          BY <3>2, <5>1
        <5> QED
          BY <5>2, <5>3, Zenon
      <4> QED
        BY <2>8, <4>1, Zenon
    <3> QED
      BY <3>1, <3>4, <3>5, Zenon DEF FrameDecides
  <2>10. FrameCounts(frames'[n], Len(stack'), conf')
    <3> SUFFICES ASSUME frames'[n].ok
                 PROVE  Frame.idx + Cardinality(MissingBefore(conf, p, i + 1)) = Len(stack')
      BY <1>1, <1>4, <1>5 DEF FrameCounts
    <3>1. Frame.ok /\ Child(p, i) \notin DOMAIN Schema
      BY <1>1, <2>4, <2>5
    <3>2. Cardinality(MissingBefore(conf, p, i + 1)) =
            Cardinality(MissingBefore(conf, p, i)) + Cardinality(MissingIn(conf, p, i))
      BY CountNext
    <3>3. Cardinality(MissingIn(conf, p, i)) = add
      BY <1>6, <2>3, <3>1, CountLeaf
    <3>4. Frame.idx + Cardinality(MissingBefore(conf, p, i)) = Len(stack)
      BY <1>4, <1>5, <2>2, <3>1 DEF FrameCounts
    <3>5. Cardinality(MissingBefore(conf, p, i)) \in Nat
      <4>1. MissingBefore(conf, p, i) \in SUBSET MissingOf(conf)
        BY DEF MissingBefore
      <4> QED
        BY <4>1, MissingFinite
    <3>6. Len(stack') = Len(stack) + add /\ add \in Nat /\ Frame.idx \in Nat /\ Len(stack) \in Nat
      BY <1>1, <1>3, <1>9
    <3> HIDE DEF add
    <3> QED
      BY <3>2, <3>3, <3>4, <3>5, <3>6
  <2>11. ASSUME NEW k \in 1..(n - 1)
         PROVE  /\ FrameDecides(frames'[k], stack', conf')
                /\ FrameCounts(frames'[k], TopOf(k)', conf')
    <3>1. k \in DOMAIN frames /\ k \in 1..n /\ k + 1 \in 1..n /\ k # n
      <4>1. n \in Nat \ {0} /\ DOMAIN frames = 1..n
        BY <1>3, <1>9
      <4> QED
        BY <4>1
    <3>2. FrameDecides(frames[k], stack, conf) /\ FrameCounts(frames[k], TopOf(k), conf)
      BY <2>1, <3>1 DEF RootedInv
    <3>3. TopOf(k)' = TopOf(k)
      BY <1>0, <1>1, <1>8, <3>1 DEF TopOf
    <3>4. frames'[k] = frames[k] /\ stack'[frames[k].idx] = stack[frames[k].idx]
      BY <1>1, <1>9, <1>10, <3>1
    <3>5. FrameDecides(frames[k], stack', conf)
      BY <3>2, <3>4 DEF FrameDecides
    <3> QED
      BY <1>1, <3>2, <3>3, <3>4, <3>5
  <2>12. \A k \in DOMAIN frames' :
           FrameDecides(frames'[k], stack', conf') /\ FrameCounts(frames'[k], TopOf(k)', conf')
    <3>1. TopOf(n)' = Len(stack')
      BY <1>1 DEF TopOf
    <3>2. \A k \in 1..n : k \in 1..(n - 1) \/ k = n
      BY <1>3
    <3> QED
      BY <1>9, <2>9, <2>10, <2>11, <3>1, <3>2, Zenon
  <2>13. \A k \in 1..(n - 1) : FrameCalls(frames'[k], frames'[k + 1], conf')
    <3> SUFFICES ASSUME NEW k \in 1..(n - 1)
                 PROVE  FrameCalls(frames'[k], frames'[k + 1], conf')
      OBVIOUS
    <3>1. FrameCalls(frames[k], frames[k + 1], conf) /\ k + 1 \in 1..n
      <4>1. FrameCalls(frames[k], frames[k + 1], conf)
        BY <1>0, <2>1, Zenon DEF RootedInv
      <4> QED
        BY <4>1
    <3>2. frames'[k] = frames[k] /\ frames'[k + 1].tab = frames[k + 1].tab /\ conf' = conf
      BY <1>1, <1>8, <3>1
    <3> QED
      BY <3>1, <3>2, Zenon DEF FrameCalls
  <2> QED
    BY <1>1, <2>1, <2>12, <2>13 DEF RootedInv
<1>14. ASSUME ~Rooted
       PROVE  Len(frames') = 1 /\ (frames'[1].ok => OnlyNumbers(frames'[1].i))
  <2>1. n = 1 /\ (frames[1].ok => OnlyNumbers(frames[1].i))
    BY <1>0, <1>1, <1>14 DEF DecideInv
  <2>2. Frame = frames[1] /\ p = <<>>
    BY <1>3, <1>4, <1>7, <2>1
  <2>3. Field = Nil
    BY <1>3, <1>4, <1>14, <2>2 DEF Rooted
  <2>4. Accepts(Node, Field) => Node.type \in {"int", "string"}
    BY <2>3 DEF Accepts, Nil, Value, IsTable
  <2>5. ASSUME frames'[1].ok PROVE OnlyNumbers(frames'[1].i)
    <3>1. Frame.ok /\ Node.type \in {"int", "string"}
      BY <1>1, <2>1, <2>4, <2>5
    <3>2. \A j \in 1..(i - 1) : Schema[<<>>][j].type \in {"int", "string"}
      BY <1>5, <2>1, <2>2, <3>1 DEF OnlyNumbers
    <3>3. frames'[1].i = i + 1 /\ 1..(i + 1 - 1) = 1..(i - 1) \cup {i}
      BY <1>1, <1>5, <1>6, <2>1
    <3>4. \A j \in 1..(i + 1 - 1) : Schema[<<>>][j].type \in {"int", "string"}
      BY <1>6, <2>2, <3>1, <3>2, <3>3
    <3> QED
      BY <3>3, <3>4 DEF OnlyNumbers
  <2> QED
    BY <1>1, <2>1, <2>5
<1> QED
  BY <1>1, <1>7, <1>11, <1>12, <1>13, <1>14 DEF DecideInv

LEMMA DecideTable ==
  ASSUME WalkInv, DecideInv, CheckTable
  PROVE  DecideInv'
<1>0. PICK n \in Nat : n = Len(frames)
  BY DEF WalkInv
<1>1. /\ frames' \in Seq(FrameType) /\ Len(frames') = n + 1
      /\ \A k \in 1..n : frames'[k] = frames[k]
      /\ frames'[n + 1] = [idx |-> Len(stack) + 1, tab |-> FieldPath, i |-> 1, ok |-> TRUE]
      /\ stack' \in Seq(Values) /\ Len(stack') = Len(stack) + 1
      /\ \A k \in 1..Len(stack) : stack'[k] = stack[k]
      /\ stack'[Len(stack) + 1] = Field
      /\ IsTable(Field) /\ Field.at = FieldPath
      /\ conf' = conf /\ stage = "parse" /\ stage' = "parse"
  BY <1>0, TableStep, Zenon
<1>2. InField /\ Descends
  BY DEF CheckTable
<1>3. /\ n \in Nat \ {0} /\ Frame = frames[n] /\ Frame \in FrameType
      /\ Frame.idx \in 1..Len(stack)
      /\ Frame.i \in DOMAIN Schema[Frame.tab]
      /\ stack[Frame.idx].at = Frame.tab =>
           Field = IF FieldPath \in DOMAIN conf THEN conf[FieldPath] ELSE Nil
      /\ stack[Frame.idx].at # Frame.tab => Field = Nil
  BY <1>0, <1>2, FieldFacts, Zenon DEF Frame
<1>4. PICK p \in DOMAIN Schema : p = Frame.tab
  BY <1>3 DEF FrameType
<1>5. PICK i \in DOMAIN Schema[p] : i = Frame.i
  BY <1>3, <1>4
<1>6. /\ Node = Schema[p][i] /\ FieldPath = Child(p, i) /\ Node.type = "table"
      /\ Child(p, i) \in DOMAIN Schema
  BY <1>2, <1>4, <1>5 DEF Node, Nodes, FieldPath, Child, Descends
<1>7. HasNodes(conf) /\ HasNodes(conf') /\ frames[1].tab = <<>> /\ 1 \in 1..n
  BY <1>1, <1>3 DEF DecideInv
<1>9. /\ frames \in Seq(FrameType) /\ stack \in Seq(Values) /\ Len(stack) \in Nat
      /\ DOMAIN frames = 1..n /\ DOMAIN frames' = 1..(n + 1)
  BY <1>0, <1>1 DEF WalkInv
<1>10. \A k \in 1..n : frames[k].idx \in 1..Len(stack)
  BY <1>9 DEF WalkInv, FrameOnTable
<1>11. Rooted' <=> Rooted
  BY <1>1, <1>7, <1>10 DEF Rooted
<1>12. frames'[1].tab = <<>>
  BY <1>1, <1>7
<1>13. Rooted
  <2> SUFFICES ASSUME ~Rooted PROVE FALSE
    OBVIOUS
  <2>1. n = 1
    BY <1>0, <1>1 DEF DecideInv
  <2>2. stack[Frame.idx].at # Frame.tab
    BY <1>3, <1>7, <2>1 DEF Rooted
  <2> QED
    BY <1>1, <1>3, <2>2 DEF IsTable, Nil, Value
<1>14. RootedInv
  BY <1>1, <1>13 DEF DecideInv
<1>15. FrameDecides(Frame, stack, conf) /\ FrameCounts(Frame, Len(stack), conf)
  BY <1>0, <1>3, <1>9, <1>14 DEF RootedInv, TopOf
<1> DEFINE top == frames'[n + 1]
<1>16. top.idx = Len(stack) + 1 /\ top.tab = Child(p, i) /\ top.i = 1 /\ top.ok = TRUE
  BY <1>1, <1>6
<1>17. FrameDecides(top, stack', conf')
  <2>1. Len(Schema[Child(p, i)]) \in Nat
    BY <1>6, SchemaAssumption
  <2>2. stack'[top.idx].at = top.tab
    BY <1>1, <1>6, <1>16
  <2> QED
    BY <1>16, <2>1, <2>2 DEF FrameDecides
<1>18. FrameCounts(top, Len(stack'), conf')
  <2>1. Cardinality(MissingBefore(conf', top.tab, top.i)) = 0
    BY <1>16, BeforeFirst, FS_EmptySet
  <2> QED
    BY <1>1, <1>9, <1>16, <2>1 DEF FrameCounts
<1>19. FrameCalls(frames'[n], top, conf')
  <2>1. Field = conf[Child(p, i)]
    <3>1. stack[Frame.idx].at = Frame.tab /\ Child(p, i) \in DOMAIN conf
      BY <1>7, <1>15 DEF FrameDecides, HasNodes
    <3> QED
      BY <1>3, <1>6, <3>1
  <2>2. NodeOK(conf, p, i)
    BY <1>1, <1>6, <2>1 DEF NodeOK, IsTable
  <2>3. frames'[n] = Frame /\ conf' = conf
    BY <1>1, <1>3
  <2> QED
    BY <1>4, <1>5, <1>6, <1>16, <2>2, <2>3 DEF FrameCalls
<1>20. ASSUME NEW k \in 1..n
       PROVE  /\ FrameDecides(frames'[k], stack', conf')
              /\ FrameCounts(frames'[k], TopOf(k)', conf')
  <2>1. k \in DOMAIN frames /\ k # n + 1
    BY <1>9
  <2>2. FrameDecides(frames[k], stack, conf) /\ FrameCounts(frames[k], TopOf(k), conf)
    BY <1>14, <2>1 DEF RootedInv
  <2>3. TopOf(k)' = TopOf(k)
    <3>1. CASE k = n
      <4>1. TopOf(k) = Len(stack)
        BY <1>0, <3>1 DEF TopOf
      <4>2. TopOf(k)' = frames'[n + 1].idx - 1
        BY <1>1, <2>1, <3>1 DEF TopOf
      <4> QED
        BY <1>9, <1>16, <4>1, <4>2
    <3>2. CASE k # n
      <4>1. k + 1 \in 1..n
        BY <3>2
      <4> QED
        BY <1>0, <1>1, <2>1, <3>2, <4>1 DEF TopOf
    <3> QED
      BY <3>1, <3>2
  <2>4. frames'[k] = frames[k] /\ stack'[frames[k].idx] = stack[frames[k].idx]
    BY <1>1, <1>10
  <2>5. FrameDecides(frames[k], stack', conf)
    BY <2>2, <2>4 DEF FrameDecides
  <2> QED
    BY <1>1, <2>2, <2>3, <2>4, <2>5
<1>21. \A k \in DOMAIN frames' :
         FrameDecides(frames'[k], stack', conf') /\ FrameCounts(frames'[k], TopOf(k)', conf')
  <2>1. TopOf(n + 1)' = Len(stack')
    BY <1>1 DEF TopOf
  <2>2. \A k \in 1..(n + 1) : k \in 1..n \/ k = n + 1
    OBVIOUS
  <2> QED
    BY <1>9, <1>17, <1>18, <1>20, <2>1, <2>2, Zenon
<1>22. \A k \in 1..(n + 1 - 1) : FrameCalls(frames'[k], frames'[k + 1], conf')
  <2>0. n + 1 - 1 = n
    OBVIOUS
  <2> SUFFICES ASSUME NEW k \in 1..n
               PROVE  FrameCalls(frames'[k], frames'[k + 1], conf')
    BY <2>0
  <2>1. CASE k = n
    BY <1>19, <2>1
  <2>2. CASE k # n
    <3>1. k \in 1..(n - 1) /\ k + 1 \in 1..n
      BY <2>2
    <3>2. FrameCalls(frames[k], frames[k + 1], conf)
      BY <1>0, <1>14, <3>1, Zenon DEF RootedInv
    <3>3. frames'[k] = frames[k] /\ frames'[k + 1] = frames[k + 1] /\ conf' = conf
      BY <1>1, <3>1
    <3> QED
      BY <3>2, <3>3, Zenon
  <2> QED
    BY <2>1, <2>2
<1>23. RootedInv'
  <2>1. IsTable(conf'[<<>>])
    BY <1>1, <1>14 DEF RootedInv
  <2>2. Len(frames') = n + 1
    BY <1>1
  <2> QED
    BY <1>21, <1>22, <2>1, <2>2 DEF RootedInv
<1> QED
  BY <1>1, <1>7, <1>11, <1>12, <1>13, <1>23 DEF DecideInv

LEMMA DecideReturn ==
  ASSUME WalkInv, DecideInv, ReturnToParent
  PROVE  DecideInv'
<1>0. PICK n \in Nat : n = Len(frames)
  BY DEF WalkInv
<1>1. /\ n > 1
      /\ frames' \in Seq(FrameType) /\ Len(frames') = n - 1
      /\ \A k \in 1..(n - 2) : frames'[k] = frames[k]
      /\ frames'[n - 1].idx = frames[n - 1].idx /\ frames'[n - 1].tab = frames[n - 1].tab
      /\ frames'[n - 1].i = frames[n - 1].i + 1
      /\ frames'[n - 1].ok <=> frames[n - 1].ok /\ Frame.ok
      /\ Frame.idx \in 1..Len(stack)
      /\ stack' \in Seq(Values) /\ Len(stack') = Len(stack) - 1
      /\ \A k \in 1..(Len(stack) - 1) : stack'[k] = stack[k]
      /\ conf' = conf /\ stage = "parse" /\ stage' = "parse"
  BY <1>0, ReturnStep, Zenon
<1>2. /\ frames \in Seq(FrameType) /\ stack \in Seq(Values) /\ Len(stack) \in Nat
      /\ DOMAIN frames = 1..n /\ DOMAIN frames' = 1..(n - 1) /\ Frame = frames[n]
      /\ n - 1 \in 1..n /\ 1 \in 1..(n - 1) /\ n \in 1..n
  BY <1>0, <1>1 DEF WalkInv, Frame
<1>3. \A k \in 1..(n - 1) : frames'[k].idx = frames[k].idx /\ frames'[k].tab = frames[k].tab
  BY <1>1
<1>4. \A k \in 1..(n - 1) : frames[k].idx \in 1..(Len(stack) - 1)
  <2> SUFFICES ASSUME NEW k \in 1..(n - 1) PROVE frames[k].idx \in 1..(Len(stack) - 1)
    OBVIOUS
  <2>1. k \in DOMAIN frames /\ n \in DOMAIN frames /\ k < n
    BY <1>2
  <2>2. frames[k].idx \in 1..Len(stack) /\ frames[n].idx \in 1..Len(stack)
    BY <1>2, <2>1 DEF WalkInv, FrameOnTable
  <2>3. frames[k].idx < frames[n].idx
    BY <2>1 DEF WalkInv, Nested
  <2> QED
    BY <1>2, <2>2, <2>3
<1>5. Rooted' <=> Rooted
  BY <1>1, <1>2, <1>3, <1>4 DEF Rooted
<1>6. HasNodes(conf') /\ frames'[1].tab = <<>>
  BY <1>1, <1>2, <1>3 DEF DecideInv
<1>7. Rooted
  <2>1. ~Rooted => n = 1
    BY <1>0, <1>1 DEF DecideInv
  <2> QED
    BY <1>1, <2>1
<1>8. RootedInv
  BY <1>1, <1>7 DEF DecideInv
<1> DEFINE up == frames[n - 1]
           dn == frames[n]
<1>9. /\ FrameDecides(up, stack, conf) /\ FrameCounts(up, dn.idx - 1, conf)
      /\ FrameDecides(dn, stack, conf) /\ FrameCounts(dn, Len(stack), conf)
  <2>1. TopOf(n) = Len(stack) /\ TopOf(n - 1) = dn.idx - 1
    BY <1>0 DEF TopOf
  <2> QED
    BY <1>2, <1>8, <2>1 DEF RootedInv
<1>10. FrameCalls(up, dn, conf)
  <2>1. n - 1 \in 1..(n - 1) /\ n - 1 + 1 = n
    BY <1>1
  <2> QED
    BY <1>0, <1>8, <2>1, Zenon DEF RootedInv
<1>11. up \in FrameType /\ dn \in FrameType
  BY <1>2
<1>12. PICK p \in DOMAIN Schema : p = up.tab
  BY <1>11 DEF FrameType
<1>13. PICK i \in DOMAIN Schema[p] : i = up.i
  BY <1>10, <1>12 DEF FrameCalls
<1>14. PICK c \in DOMAIN Schema : c = dn.tab
  BY <1>11 DEF FrameType
<1>15. c = Child(p, i) /\ Schema[p][i].type = "table" /\ NodeOK(conf, p, i)
  BY <1>10, <1>12, <1>13, <1>14 DEF FrameCalls
<1>16. Len(Schema[c]) \in Nat /\ i \in Nat \ {0} /\ i <= Len(Schema[p]) /\ Len(Schema[p]) \in Nat
       /\ DOMAIN Schema[c] = 1..Len(Schema[c])
  BY SchemaAssumption
<1>17. dn.i = Len(Schema[c]) + 1
  <2>1. dn.i \in Nat
    BY <1>11 DEF FrameType
  <2>2. dn.i <= Len(Schema[c]) + 1
    BY <1>9, <1>14 DEF FrameDecides
  <2>3. dn.i > Len(Schema[c])
    BY <1>2, <1>14 DEF ReturnToParent, Nodes
  <2> QED
    BY <1>16, <2>1, <2>2, <2>3
<1>18. dn.ok <=> \A j \in DOMAIN Schema[c] : SubtreeOK(conf, c, j)
  <2>1. dn.ok <=> \A j \in 1..(dn.i - 1) : SubtreeOK(conf, c, j)
    BY <1>9, <1>14 DEF FrameDecides
  <2>2. 1..(dn.i - 1) = DOMAIN Schema[c]
    BY <1>16, <1>17
  <2> QED
    BY <2>1, <2>2, Zenon
<1>19. dn.ok <=> SubtreeOK(conf, p, i)
  <2>1. SubtreeOK(conf, p, i) <=>
          NodeOK(conf, p, i) /\ \A j \in DOMAIN Schema[c] : SubtreeOK(conf, c, j)
    BY <1>15, SubtreeTable
  <2> QED
    BY <1>15, <1>18, <2>1, Zenon
<1> DEFINE new == frames'[n - 1]
<1>20. /\ new.idx = up.idx /\ new.tab = p /\ new.i = i + 1
       /\ new.ok <=> up.ok /\ dn.ok
  BY <1>1, <1>2, <1>12, <1>13
<1>21. FrameDecides(new, stack', conf')
  <2>1. new.i <= Len(Schema[new.tab]) + 1
    BY <1>16, <1>20
  <2>2. up.ok <=> \A j \in 1..(i - 1) : SubtreeOK(conf, p, j)
    BY <1>9, <1>12, <1>13 DEF FrameDecides
  <2>3. 1..(new.i - 1) = 1..(i - 1) \cup {i}
    BY <1>16, <1>20
  <2>4. new.ok <=> \A j \in 1..(new.i - 1) : SubtreeOK(conf, p, j)
    <3>1. (\A j \in 1..(new.i - 1) : SubtreeOK(conf, p, j)) <=>
            (\A j \in 1..(i - 1) : SubtreeOK(conf, p, j)) /\ SubtreeOK(conf, p, i)
      BY <2>3, Zenon
    <3> QED
      BY <1>19, <1>20, <2>2, <3>1, Zenon
  <2>5. \A j : SubtreeOK(conf, p, j) <=> SubtreeOK(conf', new.tab, j)
    BY <1>1, <1>20
  <2>6. new.ok <=> \A j \in 1..(new.i - 1) : SubtreeOK(conf', new.tab, j)
    BY <2>4, <2>5, Zenon
  <2>7. stack'[new.idx].at = new.tab
    <3>1. stack[up.idx].at = up.tab
      BY <1>9 DEF FrameDecides
    <3>2. stack'[up.idx] = stack[up.idx]
      <4>1. n - 1 \in 1..(n - 1)
        BY <1>1
      <4>2. up.idx \in 1..(Len(stack) - 1)
        BY <1>4, <4>1
      <4> QED
        BY <1>1, <4>2
    <3> QED
      BY <1>12, <1>20, <3>1, <3>2
  <2> QED
    BY <2>1, <2>6, <2>7, Zenon DEF FrameDecides
<1>22. FrameCounts(new, Len(stack'), conf')
  <2> SUFFICES ASSUME new.ok
               PROVE  up.idx + Cardinality(MissingBefore(conf, p, i + 1)) = Len(stack')
    BY <1>1, <1>20 DEF FrameCounts
  <2>1. up.ok /\ dn.ok
    BY <1>20
  <2>2. PICK a : a = Cardinality(MissingBefore(conf, p, i))
    OBVIOUS
  <2>3. PICK b : b = Cardinality(MissingBefore(conf, c, Len(Schema[c]) + 1))
    OBVIOUS
  <2>4. Cardinality(MissingBefore(conf, p, i + 1)) = a + b
    BY <1>15, <2>2, <2>3, CountNext, CountTable
  <2>5. up.idx + a = dn.idx - 1
    BY <1>9, <1>12, <1>13, <2>1, <2>2 DEF FrameCounts
  <2>6. dn.idx + b = Len(stack)
    BY <1>9, <1>14, <1>17, <2>1, <2>3 DEF FrameCounts
  <2>7. a \in Nat /\ b \in Nat
    <3>1. \A q, m : MissingBefore(conf, q, m) \in SUBSET MissingOf(conf)
      BY DEF MissingBefore
    <3> QED
      BY <2>2, <2>3, <3>1, MissingFinite
  <2>8. PICK x \in Nat, y \in Nat : x = up.idx /\ y = dn.idx
    BY <1>11 DEF FrameType
  <2>9. PICK l \in Nat : l = Len(stack)
    BY <1>2
  <2>10. Len(stack') = l - 1
    BY <1>1, <2>9
  <2>11. x + a = y - 1 /\ y + b = l
    BY <2>5, <2>6, <2>8, <2>9
  <2>12. x + (a + b) = l - 1
    BY <2>7, <2>11
  <2> QED
    BY <2>4, <2>8, <2>10, <2>12
<1>23. ASSUME NEW k \in 1..(n - 2)
       PROVE  /\ FrameDecides(frames'[k], stack', conf')
              /\ FrameCounts(frames'[k], TopOf(k)', conf')
  <2>1. /\ k \in DOMAIN frames /\ k # n /\ k # n - 1 /\ k \in 1..(n - 1)
        /\ k + 1 \in 1..(n - 1)
    BY <1>1, <1>2
  <2>2. FrameDecides(frames[k], stack, conf) /\ FrameCounts(frames[k], TopOf(k), conf)
    BY <1>8, <2>1 DEF RootedInv
  <2>3. TopOf(k)' = TopOf(k)
    BY <1>0, <1>1, <1>3, <2>1 DEF TopOf
  <2>4. frames'[k] = frames[k] /\ stack'[frames[k].idx] = stack[frames[k].idx]
    BY <1>1, <1>4, <2>1
  <2>5. FrameDecides(frames[k], stack', conf)
    BY <2>2, <2>4 DEF FrameDecides
  <2> QED
    BY <1>1, <2>2, <2>3, <2>4, <2>5
<1>24. \A k \in DOMAIN frames' :
         FrameDecides(frames'[k], stack', conf') /\ FrameCounts(frames'[k], TopOf(k)', conf')
  <2>1. TopOf(n - 1)' = Len(stack')
    BY <1>1 DEF TopOf
  <2>2. \A k \in 1..(n - 1) : k \in 1..(n - 2) \/ k = n - 1
    OBVIOUS
  <2> QED
    BY <1>2, <1>21, <1>22, <1>23, <2>1, <2>2, Zenon
<1>25. \A k \in 1..(n - 1 - 1) : FrameCalls(frames'[k], frames'[k + 1], conf')
  <2>0. n - 1 - 1 = n - 2
    OBVIOUS
  <2> SUFFICES ASSUME NEW k \in 1..(n - 2)
               PROVE  FrameCalls(frames'[k], frames'[k + 1], conf')
    BY <2>0
  <2>1. k \in 1..(n - 1) /\ k + 1 \in 1..(n - 1)
    BY <1>1
  <2>2. FrameCalls(frames[k], frames[k + 1], conf)
    BY <1>0, <1>8, <2>1, Zenon DEF RootedInv
  <2>3. frames'[k] = frames[k] /\ frames'[k + 1].tab = frames[k + 1].tab /\ conf' = conf
    BY <1>1, <1>3, <2>1
  <2> QED
    BY <2>2, <2>3, Zenon DEF FrameCalls
<1>26. RootedInv'
  <2>1. IsTable(conf'[<<>>])
    BY <1>1, <1>8 DEF RootedInv
  <2>2. Len(frames') = n - 1
    BY <1>1
  <2> QED
    BY <1>24, <1>25, <2>1, <2>2 DEF RootedInv
<1> QED
  BY <1>1, <1>5, <1>6, <1>7, <1>26 DEF DecideInv

LEMMA DecideConfigure ==
  ASSUME WalkInv, DecideInv, Configure
  PROVE  DecideInv'
<1>1. ASSUME LoadFails \/ EndParse \/ BadPort \/ SetPort \/ SetDebug \/ SetMode
      PROVE  DecideInv'
  <2>1. stage' # "parse"
    BY <1>1 DEF LoadFails, EndParse, BadPort, SetPort, SetDebug, SetMode
  <2> QED
    BY <2>1 DEF DecideInv
<1> QED
  BY <1>1, DecideLoaded, DecideField, DecideTable, DecideReturn DEF Configure

\* At the end of the walk the one frame left stands for the whole schema.
LEMMA Decided ==
  ASSUME WalkInv, DecideInv
  PROVE  ParseDecides /\ StackAfterParse
<1> SUFFICES ASSUME Parsed
             PROVE  /\ stack[Frame.idx] = Tab(<<>>) => (Frame.ok <=> Valid(conf))
                    /\ Frame.ok => Len(stack) = Frame.idx + Cardinality(MissingNumbers)
  BY DEF ParseDecides, StackAfterParse
<1>1. stage = "parse" /\ Len(frames) = 1 /\ Frame = frames[1] /\ frames \in Seq(FrameType)
  BY DEF Parsed, Frame, WalkInv
<1>2. DOMAIN frames = {1} /\ Frame \in FrameType /\ Frame.tab = <<>> /\ Frame.i \in Nat
  <2>1. DOMAIN frames = {1} /\ Frame \in FrameType
    BY <1>1
  <2> QED
    BY <1>1, <2>1 DEF DecideInv, FrameType
<1> DEFINE N == Len(Schema[<<>>])
<1>3. <<>> \in DOMAIN Schema /\ N \in Nat /\ DOMAIN Schema[<<>>] = 1..N
  BY ConfAssumption, SchemaAssumption
<1>4. Frame.i > N
  BY <1>2 DEF Parsed, Nodes
<1>5. CASE Rooted
  <2>1. RootedInv
    BY <1>1, <1>5 DEF DecideInv
  <2>2. IsTable(conf[<<>>]) /\ FrameDecides(Frame, stack, conf) /\ FrameCounts(Frame, Len(stack), conf)
    <3>1. TopOf(1) = Len(stack)
      BY <1>1 DEF TopOf
    <3> QED
      BY <1>1, <1>2, <2>1, <3>1 DEF RootedInv
  <2>3. Frame.i = N + 1
    BY <1>2, <1>3, <1>4, <2>2 DEF FrameDecides
  <2>4. Frame.ok <=> \A j \in DOMAIN Schema[<<>>] : SubtreeOK(conf, <<>>, j)
    <3>1. 1..(Frame.i - 1) = DOMAIN Schema[<<>>]
      BY <1>3, <2>3
    <3>2. Frame.ok <=> \A j \in 1..(Frame.i - 1) : SubtreeOK(conf, <<>>, j)
      BY <1>2, <2>2, Zenon DEF FrameDecides
    <3> QED
      BY <3>1, <3>2, Zenon
  <2>5. Frame.ok <=> Valid(conf)
    BY <2>2, <2>4, RootOK, Zenon
  <2>6. Frame.ok => Len(stack) = Frame.idx + Cardinality(MissingNumbers)
    <3>1. Frame.ok => Frame.idx + Cardinality(MissingBefore(conf, <<>>, N + 1)) = Len(stack)
      BY <1>2, <2>2, <2>3 DEF FrameCounts
    <3> QED
      BY <3>1, CountRoot
  <2> QED
    BY <2>5, <2>6, Zenon
<1>6. CASE ~Rooted
  <2>1. Frame.ok => OnlyNumbers(Frame.i)
    BY <1>1, <1>6 DEF DecideInv
  <2>2. ~OnlyNumbers(Frame.i)
    <3>1. PICK j \in 1..N : Schema[<<>>][j].type \notin {"int", "string"}
      BY <1>3, SchemaAssumption
    <3>2. j \in 1..(Frame.i - 1)
      BY <1>2, <1>3, <1>4
    <3> QED
      BY <3>1, <3>2 DEF OnlyNumbers
  <2>3. stack[Frame.idx] # Tab(<<>>)
    BY <1>1, <1>6 DEF Rooted, Tab, Value
  <2> QED
    BY <2>1, <2>2, <2>3, Zenon
<1> QED
  BY <1>5, <1>6
=============================================================================
