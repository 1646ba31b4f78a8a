------------------------------- MODULE Views --------------------------------
(***************************************************************************)
(* The string views of sm3t_views.c: a view is a pointer into a text and a *)
(* length, a part of a text that nobody copies.  Every function is an      *)
(* operator on views; the state machine applies the ones that return views *)
(* one after the other, as a parser would that cuts a message into pieces. *)
(*                                                                         *)
(* Lengths and offsets given by a caller are never negative.               *)
(***************************************************************************)
EXTENDS Integers, Sequences, SequencesExt

CONSTANTS
  Texts,        \* the texts that a view is made of, sequences of characters
  Delim,        \* the character that fields are split at
  UINT32_MAX,   \* the greatest number that sm3t__view_to_u32 returns
  UINT64_MOD    \* the number of values of the type it counts in

ASSUME ViewsAssumption ==
  /\ \A t \in Texts : t \in Seq(STRING)
  /\ UINT32_MAX \in Nat /\ UINT64_MOD \in Nat
  /\ UINT64_MOD > UINT32_MAX * 10 + 9

VARIABLES
  text,     \* the memory the views point into
  view,     \* the view that is worked on
  fields,   \* what the splits since the whole text have cut off
  split     \* whether only splits were made since the whole text

vars == <<text, view, fields, split>>

-----------------------------------------------------------------------------
(* Characters: some of the letters that have a case, some of the spaces. *)

ascii_tolower(cc) == CASE cc = "A" -> "a" [] cc = "B" -> "b" [] OTHER -> cc
ascii_isspace(cc) == cc \in {" ", "\t"}
Digits == <<"0", "1", "2", "3", "4", "5", "6", "7", "8", "9">>
IsDigit(cc) == \E k \in DOMAIN Digits : Digits[k] = cc
Digit(cc) == (CHOOSE k \in DOMAIN Digits : Digits[k] = cc) - 1

-----------------------------------------------------------------------------
(* Views. The first character of the text has offset 0. *)

NULL == -1
SM3T_NOT_FOUND == -1
Null == [data |-> NULL, len |-> 0]
View(data, len) == [data |-> data, len |-> len]
ViewCstr == View(0, Len(text))

At(v, k) == text[v.data + k + 1]
\* What memcmp compares: the n characters from offset k of a view.
Chars(v, k, n) == SubSeq(text, v.data + k + 1, v.data + k + n)

Empty(v) == v.data = NULL \/ v.len = 0

Slice(v, offset, len) ==
  IF v.data = NULL \/ offset >= v.len THEN Null
  ELSE View(v.data + offset, IF len > v.len - offset THEN v.len - offset ELSE len)

\* Mutant: the length stays.
SkipKeepsLen(v, n) == IF v.data = NULL \/ n >= v.len THEN Null ELSE View(v.data + n, v.len)

Skip(v, n) == IF v.data = NULL \/ n >= v.len THEN Null ELSE View(v.data + n, v.len - n)

StartsWith(v, prefix) ==
  \/ prefix.len = 0
  \/ /\ v.data # NULL /\ v.len >= prefix.len /\ prefix.data # NULL
     /\ Chars(v, 0, prefix.len) = Chars(prefix, 0, prefix.len)

EndsWith(v, suffix) ==
  \/ suffix.len = 0
  \/ /\ v.data # NULL /\ v.len >= suffix.len /\ suffix.data # NULL
     /\ Chars(v, v.len - suffix.len, suffix.len) = Chars(suffix, 0, suffix.len)

Eq(a, b) ==
  \/ Empty(a) /\ Empty(b)
  \/ /\ ~Empty(a) /\ ~Empty(b) /\ a.len = b.len
     /\ Chars(a, 0, a.len) = Chars(b, 0, b.len)

EqCase(a, b) ==
  \/ Empty(a) /\ Empty(b)
  \/ /\ ~Empty(a) /\ ~Empty(b) /\ a.len = b.len
     /\ \A k \in 0..(a.len - 1) : ascii_tolower(At(a, k)) = ascii_tolower(At(b, k))

StartsWithCase(v, prefix) ==
  \/ prefix.len = 0
  \/ /\ v.data # NULL /\ v.len >= prefix.len /\ prefix.data # NULL
     /\ \A k \in 0..(prefix.len - 1) : ascii_tolower(At(v, k)) = ascii_tolower(At(prefix, k))

\* Where an ascending loop returns, of the indices that would make it return.
FirstOf(hits) ==
  IF hits = {} THEN SM3T_NOT_FOUND ELSE CHOOSE k \in hits : \A j \in hits : k <= j

\* Mutant: the loop ends before the last place where dlm fits.
FindStopsEarly(v, dlm, start) ==
  IF v.data = NULL \/ dlm.data = NULL THEN SM3T_NOT_FOUND
  ELSE IF dlm.len = 0 THEN IF start <= v.len THEN start ELSE SM3T_NOT_FOUND
  ELSE IF start >= v.len \/ v.len - start < dlm.len THEN SM3T_NOT_FOUND
  ELSE FirstOf({k \in start..(v.len - dlm.len - 1) :
                  Chars(v, k, dlm.len) = Chars(dlm, 0, dlm.len)})

Find(v, dlm, start) ==
  IF v.data = NULL \/ dlm.data = NULL THEN SM3T_NOT_FOUND
  ELSE IF dlm.len = 0 THEN IF start <= v.len THEN start ELSE SM3T_NOT_FOUND
  ELSE IF start >= v.len \/ v.len - start < dlm.len THEN SM3T_NOT_FOUND
  ELSE FirstOf({k \in start..(v.len - dlm.len) :
                  Chars(v, k, dlm.len) = Chars(dlm, 0, dlm.len)})

FindChar(v, cc, start) ==
  IF v.data = NULL \/ start >= v.len THEN SM3T_NOT_FOUND
  ELSE FirstOf({k \in start..(v.len - 1) : At(v, k) = cc})

\* Mutant: right keeps the delimiter.
SplitKeepsDelim(v, delim) ==
  LET idx == FindChar(v, delim, 0)
  IN  IF v.data = NULL THEN [found |-> FALSE, left |-> Null, right |-> Null]
      ELSE IF idx = SM3T_NOT_FOUND THEN [found |-> FALSE, left |-> v, right |-> Null]
      ELSE [found |-> TRUE, left |-> View(v.data, idx),
            right |-> View(v.data + idx, v.len - idx)]

\* A view without data is refused and leaves left and right as they were; the
\* state machine does not split one.
Split(v, delim) ==
  LET idx == FindChar(v, delim, 0)
  IN  IF v.data = NULL THEN [found |-> FALSE, left |-> Null, right |-> Null]
      ELSE IF idx = SM3T_NOT_FOUND THEN [found |-> FALSE, left |-> v, right |-> Null]
      ELSE [found |-> TRUE, left |-> View(v.data, idx),
            right |-> IF idx + 1 >= v.len THEN Null
                      ELSE View(v.data + idx + 1, v.len - (idx + 1))]

\* The loops of the trims count once more when they meet a character that is
\* not a space, so that this character is cut off as well.
TrimLeft(v) ==
  LET stop == FirstOf({k \in 0..(v.len - 1) : ~ascii_isspace(At(v, k))})
      start == IF stop = SM3T_NOT_FOUND THEN v.len ELSE stop + 1
  IN  IF v.data = NULL \/ start >= v.len THEN Null ELSE View(v.data + start, v.len - start)

TrimRight(v) ==
  LET kept == {k \in 0..(v.len - 1) : ~ascii_isspace(At(v, k))}
      end == IF kept = {} THEN 0 ELSE CHOOSE k \in kept : \A j \in kept : j <= k
  IN  IF v.data = NULL \/ end = 0 THEN Null ELSE View(v.data, end)

Trim(v) == TrimRight(TrimLeft(v))

\* sm3t__view_to_u32: NULL stands for the answer false.
CountDigit(val, cc) ==
  LET more == (val * 10 + Digit(cc)) % UINT64_MOD
  IN  IF val = NULL \/ ~IsDigit(cc) THEN NULL ELSE IF more > UINT32_MAX THEN NULL ELSE more

\* Mutant: the bound is only looked at after the last digit.
ToU32Late(v) ==
  LET val[k \in 0..v.len] ==
        IF k = 0 THEN 0
        ELSE IF val[k - 1] = NULL \/ ~IsDigit(At(v, k - 1)) THEN NULL
        ELSE (val[k - 1] * 10 + Digit(At(v, k - 1))) % UINT64_MOD
  IN  IF Empty(v) \/ val[v.len] > UINT32_MAX THEN NULL ELSE val[v.len]

\* The value of val after each turn of the loop.
Counted(v) ==
  LET val[k \in 0..v.len] == IF k = 0 THEN 0 ELSE CountDigit(val[k - 1], At(v, k - 1))
  IN  val

ToU32(v) == IF Empty(v) THEN NULL ELSE Counted(v)[v.len]

\* sm3t__view_to_cstr: the copy, <<>> stands for NULL.
ToCstr(v) == IF Empty(v) THEN <<>> ELSE Chars(v, 0, v.len)

-----------------------------------------------------------------------------
(* A caller that cuts a text into pieces. *)

Init ==
  /\ text \in Texts
  /\ view = ViewCstr
  /\ fields = <<>>
  /\ split = TRUE

Cut(v) == view' = v /\ split' = FALSE /\ UNCHANGED <<text, fields>>

SliceView == \E offset, len \in 0..(Len(text) + 1) : Cut(Slice(view, offset, len))
SkipView == \E n \in 0..(Len(text) + 1) : Cut(Skip(view, n))
TrimView == \E v \in {TrimLeft(view), TrimRight(view), Trim(view)} : Cut(v)

SplitView ==
  /\ split /\ view.data # NULL
  /\ LET parts == Split(view, Delim)
     IN  /\ view' = parts.right
         /\ fields' = Append(fields, [chars |-> ToCstr(parts.left), found |-> parts.found])
  /\ UNCHANGED <<text, split>>

Next == SliceView \/ SkipView \/ TrimView \/ SplitView

Spec == Init /\ [][Next]_vars

-----------------------------------------------------------------------------
(* Properties. *)

\* Every variable keeps its type, and a view, however it was cut from other
\* views, is NULL or lies inside its text.
ViewInside ==
  /\ view = Null \/ (view.data >= 0 /\ view.len >= 0 /\ view.data + view.len <= Len(text))
  /\ \A k \in DOMAIN fields : fields[k].chars \in Seq(Range(text))

\* The parts of a text that other functions are asked about.
Parts == {Null} \cup {Slice(ViewCstr, d, n) : d \in 0..Len(text), n \in 0..Len(text)}

\* The functions that search agree with slice and eq: find gives the first
\* place from start on where the slice of the view equals dlm, starts_with and
\* ends_with say whether this is the first or the last place, and the functions
\* that ignore case do so for slices that eq_case takes for equal.
SearchesAgree ==
  \A p \in Parts \ {Null} : \A start \in 0..Len(text) :
    LET place(k) == p.len > 0 /\ k \in 0..(view.len - p.len) /\ Eq(Slice(view, k, p.len), p)
        found == Find(view, p, start)
    IN  /\ p.len > 0 =>
             IF found = SM3T_NOT_FOUND THEN \A k \in start..view.len : ~place(k)
             ELSE place(found) /\ found >= start /\ \A k \in start..(found - 1) : ~place(k)
        /\ p.len = 1 => FindChar(view, At(p, 0), start) = found
        /\ p.len > 0 => (StartsWith(view, p) <=> Find(view, p, 0) = 0)
        /\ p.len > 0 => (EndsWith(view, p) <=> place(view.len - p.len))
        /\ p.len > 0 => (StartsWithCase(view, p) <=>
             (p.len <= view.len /\ EqCase(Slice(view, 0, p.len), p)))

\* Cutting a text at its delimiters loses nothing: the fields so far, each with
\* the delimiter that was found behind it, and what is left are the text.
FieldsJoin ==
  split => FlattenSeq([k \in DOMAIN fields |->
                         fields[k].chars \o (IF fields[k].found THEN <<Delim>> ELSE <<>>)])
             \o ToCstr(view) = text

\* What a digit is worth at each of n places, the last place first.
Weights(n) == LET weight[k \in 0..n] == IF k = 0 THEN 1 ELSE 10 * weight[k - 1] IN weight

\* The number that the last k digits of a row are, by their places.
PlaceSums(chars) ==
  LET n == Len(chars)
      sum[k \in 0..n] ==
        IF k = 0 THEN 0 ELSE sum[k - 1] + Digit(chars[n - k + 1]) * Weights(n)[k - 1]
  IN  sum

Number(chars) == PlaceSums(chars)[Len(chars)]

\* sm3t__view_to_u32 answers exactly for the digits whose number fits in 32
\* bits, with that number, however long the row of digits is.
NumberExact ==
  LET chars == ToCstr(view)
      number == chars # <<>> /\ \A k \in DOMAIN chars : IsDigit(chars[k])
  IN  ToU32(view) = IF number THEN IF Number(chars) <= UINT32_MAX THEN Number(chars) ELSE NULL
                    ELSE NULL

=============================================================================
