---------------------------- MODULE Views_proofs ----------------------------
(***************************************************************************)
(* Proofs about Views, for every set of texts: no function returns a view  *)
(* that leaves its text, the functions that search agree with slice and    *)
(* eq, digits are counted exactly and fields join up to the text.  The     *)
(* last two need an induction: it is made with the least number that is    *)
(* not in a set (Induction), which needs no operator as a parameter.       *)
(***************************************************************************)
EXTENDS Views, SequenceTheorems, WellFoundedInduction, TLAPS

-----------------------------------------------------------------------------
(* The ends of loops. *)

\* A set of numbers has a least member.
LEMMA LeastExists ==
  ASSUME NEW S, S \subseteq Nat, S # {}
  PROVE  \E x \in S : \A y \in S : x <= y
<1>1. \E x \in S : \A y \in S : <<y, x>> \notin OpToRel(<, Nat)
  BY NatLessThanWellFounded, WFMin, Zenon
<1>2. PICK x \in S : \A y \in S : <<y, x>> \notin OpToRel(<, Nat)
  BY <1>1
<1>3. \A y \in S : ~(y < x)
  BY <1>2 DEF OpToRel
<1> QED
  BY <1>3

\* A bounded set of numbers has a greatest member.
LEMMA GreatestExists ==
  ASSUME NEW n \in Nat, NEW S, S \subseteq 0..n, S # {}
  PROVE  \E x \in S : \A y \in S : y <= x
<1> DEFINE T == {n - y : y \in S}
<1>1. T \subseteq Nat /\ T # {}
  <2>1. \A y \in S : n - y \in Nat
    OBVIOUS
  <2> QED
    BY <2>1, Zenon
<1>2. PICK z \in T : \A u \in T : z <= u
  BY <1>1, LeastExists
<1>3. PICK x \in S : z = n - x
  BY <1>2
<1>4. \A y \in S : n - x <= n - y
  BY <1>2, <1>3
<1>5. \A y \in S : y <= x
  BY <1>4
<1> QED
  BY <1>5

\* Where an ascending loop returns.
LEMMA FirstOfLeast ==
  ASSUME NEW S, S \subseteq Nat
  PROVE  /\ S = {} => FirstOf(S) = -1
         /\ S # {} => FirstOf(S) \in S /\ \A j \in S : FirstOf(S) <= j
<1>1. CASE S = {}
  BY <1>1 DEF FirstOf, SM3T_NOT_FOUND
<1>2. CASE S # {}
  <2>1. \E k \in S : \A j \in S : k <= j
    BY <1>2, LeastExists
  <2>2. FirstOf(S) = CHOOSE k \in S : \A j \in S : k <= j
    BY <1>2 DEF FirstOf
  <2> QED
    BY <1>2, <2>1, <2>2
<1> QED
  BY <1>1, <1>2

-----------------------------------------------------------------------------
(* Views inside a text of n characters. *)

Inside(v, n) ==
  \/ v = Null
  \/ \E d, l \in Nat : v = View(d, l) /\ d + l <= n

\* What the fields of a view are.
LEMMA ViewFields ==
  ASSUME NEW d, NEW l
  PROVE  View(d, l).data = d /\ View(d, l).len = l /\ Null.data = -1 /\ Null.len = 0
BY DEF View, Null, NULL

LEMMA InsideView ==
  ASSUME NEW n \in Nat, NEW d \in Nat, NEW l \in Nat, d + l <= n
  PROVE  Inside(View(d, l), n)
BY DEF Inside

LEMMA InsideNull == ASSUME NEW n PROVE Inside(Null, n)
BY DEF Inside

\* A view that is not Null.
LEMMA InsideData ==
  ASSUME NEW n \in Nat, NEW v, Inside(v, n), v.data # NULL
  PROVE  \E d, l \in Nat : v = View(d, l) /\ d + l <= n /\ v.data = d /\ v.len = l
<1>1. v # Null
  BY ViewFields DEF NULL
<1>2. PICK d, l \in Nat : v = View(d, l) /\ d + l <= n
  BY <1>1 DEF Inside
<1> QED
  BY <1>2, ViewFields

LEMMA SliceInside ==
  ASSUME NEW n \in Nat, NEW v, Inside(v, n), NEW offset \in Nat, NEW len \in Nat
  PROVE  Inside(Slice(v, offset, len), n)
<1>1. CASE v.data = NULL \/ offset >= v.len
  BY <1>1, InsideNull DEF Slice
<1>2. CASE ~(v.data = NULL \/ offset >= v.len)
  <2>1. PICK d, l \in Nat : d + l <= n /\ v.data = d /\ v.len = l
    BY <1>2, InsideData
  <2>2. PICK m \in Nat : m = (IF len > l - offset THEN l - offset ELSE len) /\ offset + m <= l
    BY <1>2, <2>1
  <2>3. Slice(v, offset, len) = View(d + offset, m)
    BY <1>2, <2>1, <2>2 DEF Slice
  <2> QED
    BY <2>1, <2>2, <2>3, InsideView
<1> QED
  BY <1>1, <1>2

LEMMA SkipInside ==
  ASSUME NEW n \in Nat, NEW v, Inside(v, n), NEW m \in Nat
  PROVE  Inside(Skip(v, m), n)
<1>1. CASE v.data = NULL \/ m >= v.len
  BY <1>1, InsideNull DEF Skip
<1>2. CASE ~(v.data = NULL \/ m >= v.len)
  <2>1. PICK d, l \in Nat : d + l <= n /\ v.data = d /\ v.len = l
    BY <1>2, InsideData
  <2>2. Skip(v, m) = View(d + m, l - m)
    BY <1>2, <2>1 DEF Skip
  <2>3. m < l
    BY <1>2, <2>1
  <2> QED
    BY <2>1, <2>2, <2>3, InsideView
<1> QED
  BY <1>1, <1>2

LEMMA TrimLeftInside ==
  ASSUME NEW n \in Nat, NEW v, Inside(v, n)
  PROVE  Inside(TrimLeft(v), n)
<1> DEFINE S == {k \in 0..(v.len - 1) : ~ascii_isspace(At(v, k))}
           start == IF FirstOf(S) = SM3T_NOT_FOUND THEN v.len ELSE FirstOf(S) + 1
<1>1. TrimLeft(v) = IF v.data = NULL \/ start >= v.len THEN Null ELSE View(v.data + start, v.len - start)
  BY Zenon DEF TrimLeft
<1>2. CASE v.data = NULL \/ start >= v.len
  BY <1>1, <1>2, InsideNull
<1>3. CASE ~(v.data = NULL \/ start >= v.len)
  <2>1. PICK d, l \in Nat : d + l <= n /\ v.data = d /\ v.len = l
    BY <1>3, InsideData
  <2>2. S \subseteq Nat
    BY <2>1
  <2>3. PICK f : f = FirstOf(S)
    OBVIOUS
  <2>4. f = -1 \/ f \in Nat
    BY <2>2, <2>3, FirstOfLeast
  <2>a. start = IF f = -1 THEN l ELSE f + 1
    BY <2>1, <2>3, Zenon DEF SM3T_NOT_FOUND
  <2> HIDE DEF start
  <2>5. PICK m \in Nat : m = start
    BY <2>a, <2>4
  <2>6. TrimLeft(v) = View(d + m, l - m) /\ m < l
    BY <1>1, <1>3, <2>1, <2>5
  <2> QED
    BY <2>1, <2>6, InsideView
<1> QED
  BY <1>2, <1>3

LEMMA TrimRightInside ==
  ASSUME NEW n \in Nat, NEW v, Inside(v, n)
  PROVE  Inside(TrimRight(v), n)
<1> DEFINE kept == {k \in 0..(v.len - 1) : ~ascii_isspace(At(v, k))}
           end == IF kept = {} THEN 0 ELSE CHOOSE k \in kept : \A j \in kept : j <= k
<1>1. TrimRight(v) = IF v.data = NULL \/ end = 0 THEN Null ELSE View(v.data, end)
  BY Zenon DEF TrimRight
<1>2. CASE v.data = NULL \/ end = 0
  BY <1>1, <1>2, InsideNull
<1>3. CASE ~(v.data = NULL \/ end = 0)
  <2>1. PICK d, l \in Nat : d + l <= n /\ v.data = d /\ v.len = l
    BY <1>3, InsideData
  <2>2. kept # {} /\ kept \subseteq 0..l
    BY <1>3, <2>1
  <2>3. \E k \in kept : \A j \in kept : j <= k
    BY <2>2, GreatestExists
  <2>4. end \in kept
    BY <2>2, <2>3
  <2>5. PICK m \in 0..(l - 1) : m = end
    BY <2>1, <2>4
  <2> HIDE DEF end
  <2>6. TrimRight(v) = View(d, m)
    BY <1>1, <1>3, <2>1, <2>5
  <2> QED
    BY <2>1, <2>5, <2>6, InsideView
<1> QED
  BY <1>2, <1>3

\* What a search for a character returns.
LEMMA FindCharRange ==
  ASSUME NEW v, NEW cc, NEW l \in Nat, v.len = l
  PROVE  FindChar(v, cc, 0) = -1 \/ FindChar(v, cc, 0) \in 0..(l - 1)
<1> DEFINE S == {k \in 0..(v.len - 1) : At(v, k) = cc}
<1>1. S \subseteq 0..(l - 1) /\ S \subseteq Nat
  OBVIOUS
<1>2. FirstOf(S) = -1 \/ FirstOf(S) \in S
  BY <1>1, FirstOfLeast
<1>3. FindChar(v, cc, 0) = -1 \/ FindChar(v, cc, 0) = FirstOf(S)
  BY Zenon DEF FindChar, SM3T_NOT_FOUND
<1> HIDE DEF S
<1> QED
  BY <1>1, <1>2, <1>3, Zenon

LEMMA SplitInside ==
  ASSUME NEW n \in Nat, NEW v, Inside(v, n), NEW c
  PROVE  Inside(Split(v, c).left, n) /\ Inside(Split(v, c).right, n)
<1> DEFINE idx == FindChar(v, c, 0)
<1>1. CASE v.data = NULL
  <2>1. Split(v, c).left = Null /\ Split(v, c).right = Null
    BY <1>1 DEF Split
  <2> QED
    BY <2>1, InsideNull
<1>2. CASE v.data # NULL /\ idx = SM3T_NOT_FOUND
  <2>1. Split(v, c).left = v /\ Split(v, c).right = Null
    BY <1>2 DEF Split
  <2> QED
    BY <2>1, InsideNull
<1>3. CASE v.data # NULL /\ idx # SM3T_NOT_FOUND
  <2>1. PICK d, l \in Nat : d + l <= n /\ v.data = d /\ v.len = l
    BY <1>3, InsideData
  <2>2. PICK x \in 0..(l - 1) : x = idx
    BY <1>3, <2>1, FindCharRange DEF SM3T_NOT_FOUND
  <2>3. /\ Split(v, c).left = View(v.data, idx)
        /\ Split(v, c).right = IF idx + 1 >= v.len THEN Null
                               ELSE View(v.data + idx + 1, v.len - (idx + 1))
    BY <1>3 DEF Split
  <2>4. /\ Split(v, c).left = View(d, x)
        /\ Split(v, c).right = IF x + 1 >= l THEN Null ELSE View(d + x + 1, l - (x + 1))
    BY <2>1, <2>2, <2>3, Zenon
  <2>5. Inside(View(d, x), n)
    BY <2>1, InsideView
  <2>6. ~(x + 1 >= l) => Inside(View(d + x + 1, l - (x + 1)), n)
    BY <2>1, InsideView
  <2> QED
    BY <2>4, <2>5, <2>6, InsideNull, Zenon
<1> QED
  BY <1>1, <1>2, <1>3

\* A copy holds characters of the text.
LEMMA CopyOfText ==
  ASSUME text \in Seq(STRING), NEW v, Inside(v, Len(text))
  PROVE  ToCstr(v) \in Seq(Range(text))
<1>1. CASE Empty(v)
  BY <1>1 DEF ToCstr
<1>2. CASE ~Empty(v)
  <2>1. PICK d, l \in Nat : d + l <= Len(text) /\ v.data = d /\ v.len = l
    BY <1>2, InsideData DEF Empty
  <2>2. ToCstr(v) = SubSeq(text, d + 0 + 1, d + 0 + l)
    BY <1>2, <2>1 DEF ToCstr, Chars
  <2>3. \A k \in (d + 0 + 1)..(d + 0 + l) : text[k] \in Range(text)
    BY <2>1 DEF Range
  <2> QED
    BY <2>1, <2>2, <2>3, SubSeqProperties
<1> QED
  BY <1>1, <1>2

-----------------------------------------------------------------------------
(* The invariant. *)

ViewInv ==
  /\ text \in Seq(STRING)
  /\ Inside(view, Len(text))
  /\ fields \in Seq([chars : Seq(Range(text)), found : BOOLEAN])

LEMMA ViewInit == Init => ViewInv
<1> SUFFICES ASSUME Init PROVE ViewInv
  OBVIOUS
<1>1. text \in Seq(STRING) /\ Len(text) \in Nat
  BY ViewsAssumption DEF Init
<1>2. Inside(view, Len(text))
  BY <1>1, InsideView DEF Init, ViewCstr
<1> QED
  BY <1>1, <1>2 DEF Init, ViewInv

\* A step that cuts the view.
LEMMA ViewCut ==
  ASSUME ViewInv, NEW v, Cut(v), Inside(v, Len(text))
  PROVE  ViewInv'
BY DEF ViewInv, Cut

LEMMA ViewStep == ViewInv /\ [Next]_vars => ViewInv'
<1> SUFFICES ASSUME ViewInv, [Next]_vars PROVE ViewInv'
  OBVIOUS
<1>1. text \in Seq(STRING) /\ Len(text) \in Nat /\ Inside(view, Len(text))
  BY DEF ViewInv
<1>2. CASE SliceView
  <2>1. PICK offset, len \in 0..(Len(text) + 1) : Cut(Slice(view, offset, len))
    BY <1>2 DEF SliceView
  <2>2. offset \in Nat /\ len \in Nat
    BY <1>1
  <2>3. Inside(Slice(view, offset, len), Len(text))
    BY <1>1, <2>2, SliceInside
  <2> QED
    BY <2>1, <2>3, ViewCut
<1>3. CASE SkipView
  <2>1. PICK n \in 0..(Len(text) + 1) : Cut(Skip(view, n))
    BY <1>3 DEF SkipView
  <2>2. Inside(Skip(view, n), Len(text))
    BY <1>1, SkipInside
  <2> QED
    BY <2>1, <2>2, ViewCut
<1>4. CASE TrimView
  <2>1. PICK v \in {TrimLeft(view), TrimRight(view), Trim(view)} : Cut(v)
    BY <1>4 DEF TrimView
  <2>2. /\ Inside(TrimLeft(view), Len(text)) /\ Inside(TrimRight(view), Len(text))
        /\ Inside(Trim(view), Len(text))
    BY <1>1, TrimLeftInside, TrimRightInside DEF Trim
  <2>3. Inside(v, Len(text))
    BY <2>2, Zenon
  <2> QED
    BY <2>1, <2>3, ViewCut
<1>5. CASE SplitView
  <2>1. PICK parts : parts = Split(view, Delim)
    OBVIOUS
  <2>2. /\ view' = parts.right /\ text' = text
        /\ fields' = Append(fields, [chars |-> ToCstr(parts.left), found |-> parts.found])
    BY <1>5, <2>1, Zenon DEF SplitView
  <2>3. Inside(parts.left, Len(text)) /\ Inside(parts.right, Len(text))
    BY <1>1, <2>1, SplitInside
  <2>4. parts.found \in BOOLEAN
    BY <2>1 DEF Split
  <2>5. ToCstr(parts.left) \in Seq(Range(text))
    BY <1>1, <2>3, CopyOfText
  <2>6. PICK R : R = [chars : Seq(Range(text)), found : BOOLEAN]
    OBVIOUS
  <2>7. PICK r \in R : r = [chars |-> ToCstr(parts.left), found |-> parts.found]
    BY <2>4, <2>5, <2>6, Zenon
  <2>8. Append(fields, r) \in Seq(R)
    BY <2>6, AppendProperties DEF ViewInv
  <2> QED
    BY <1>1, <2>2, <2>3, <2>6, <2>7, <2>8, Zenon DEF ViewInv
<1>6. CASE UNCHANGED vars
  BY <1>6 DEF ViewInv, vars
<1> QED
  BY <1>2, <1>3, <1>4, <1>5, <1>6 DEF Next

LEMMA ViewInvariant == Spec => []ViewInv
<1> QED
  BY ViewInit, ViewStep, PTL DEF Spec

LEMMA InsideHolds ==
  ASSUME ViewInv
  PROVE  ViewInside
<1>1. text \in Seq(STRING) /\ Len(text) \in Nat /\ Inside(view, Len(text))
  BY DEF ViewInv
<1>2. view = Null \/ (view.data >= 0 /\ view.len >= 0 /\ view.data + view.len <= Len(text))
  <2>1. CASE view # Null
    <3>1. PICK d, l \in Nat : view = View(d, l) /\ d + l <= Len(text)
      BY <1>1, <2>1 DEF Inside
    <3>2. view.data = d /\ view.len = l
      BY <3>1, ViewFields
    <3> QED
      BY <3>1, <3>2
  <2> QED
    BY <2>1
<1>3. \A k \in DOMAIN fields : fields[k].chars \in Seq(Range(text))
  <2>1. PICK R : R = [chars : Seq(Range(text)), found : BOOLEAN]
    OBVIOUS
  <2>2. fields \in Seq(R) /\ DOMAIN fields = 1..Len(fields)
    BY <2>1, LenProperties DEF ViewInv
  <2>3. \A k \in DOMAIN fields : fields[k] \in R
    BY <2>2, ElementOfSeq
  <2> QED
    BY <2>1, <2>3, Zenon
<1> QED
  BY <1>2, <1>3 DEF ViewInside

\* However views are cut from views by the functions of sm3t_views.c, no view
\* leaves the text it was made of, and every copy holds characters of it.
THEOREM ViewsStayInside == Spec => []ViewInside
BY ViewInvariant, InsideHolds, PTL

-----------------------------------------------------------------------------
(* Searching. The text is looked at through v, a characters in and l long, *)
(* for p, b characters in and q long.                                      *)

\* p stands at offset k of v.
Fits(a, b, q, k) == SubSeq(text, a + k + 1, a + k + q) = SubSeq(text, b + 1, b + q)

LEMMA FitsChars ==
  ASSUME NEW v, NEW p, NEW a \in Nat, NEW l \in Nat, NEW b \in Nat, NEW q \in Nat,
         v = View(a, l), p = View(b, q), NEW k \in Nat
  PROVE  Chars(v, k, q) = Chars(p, 0, q) <=> Fits(a, b, q, k)
<1>1. v.data = a /\ p.data = b
  BY ViewFields
<1>2. b + 0 + 1 = b + 1 /\ b + 0 + q = b + q
  OBVIOUS
<1> QED
  BY <1>1, <1>2, Zenon DEF Chars, Fits

\* Where the slice of v equals p.
LEMMA PlaceFits ==
  ASSUME NEW v, NEW p, NEW a \in Nat, NEW l \in Nat, NEW b \in Nat, NEW q \in Nat \ {0},
         v = View(a, l), p = View(b, q), NEW k \in 0..(l - q)
  PROVE  Eq(Slice(v, k, q), p) <=> Fits(a, b, q, k)
<1>1. v.data = a /\ v.len = l /\ p.data = b /\ p.len = q
  BY ViewFields
<1>2. Slice(v, k, q) = View(a + k, q)
  BY <1>1 DEF Slice, NULL
<1>3. View(a + k, q).data = a + k /\ View(a + k, q).len = q
  BY ViewFields
<1>4. ~Empty(View(a + k, q)) /\ ~Empty(p)
  BY <1>1, <1>3 DEF Empty, NULL
<1>5. Eq(View(a + k, q), p) <=> Chars(View(a + k, q), 0, q) = Chars(p, 0, q)
  BY <1>1, <1>3, <1>4, Zenon DEF Eq
<1>6. /\ a + k + 0 + 1 = a + k + 1 /\ a + k + 0 + q = a + k + q
      /\ b + 0 + 1 = b + 1 /\ b + 0 + q = b + q
  OBVIOUS
<1>7. Chars(View(a + k, q), 0, q) = Chars(p, 0, q) <=> Fits(a, b, q, k)
  BY <1>1, <1>3, <1>6, Zenon DEF Chars, Fits
<1> QED
  BY <1>2, <1>5, <1>7, Zenon

\* What find returns.
LEMMA FindIs ==
  ASSUME NEW v, NEW p, NEW a \in Nat, NEW l \in Nat, NEW b \in Nat, NEW q \in Nat \ {0},
         v = View(a, l), p = View(b, q), NEW start \in Nat
  PROVE  Find(v, p, start) = FirstOf({k \in start..(l - q) : Fits(a, b, q, k)})
<1>1. v.data = a /\ v.len = l /\ p.data = b /\ p.len = q
  BY ViewFields
<1>2. ~(v.data = NULL \/ p.data = NULL) /\ p.len # 0
  BY <1>1 DEF NULL
<1>3. CASE start >= l \/ l - start < q
  <2>1. start..(l - q) = {}
    BY <1>3
  <2>2. {k \in start..(l - q) : Fits(a, b, q, k)} = {}
    BY <2>1
  <2>3. Find(v, p, start) = SM3T_NOT_FOUND
    BY <1>1, <1>2, <1>3, Zenon DEF Find
  <2> QED
    BY <2>2, <2>3, Zenon DEF FirstOf
<1>4. CASE ~(start >= l \/ l - start < q)
  <2>1. Find(v, p, start) = FirstOf({k \in start..(l - q) : Chars(v, k, q) = Chars(p, 0, q)})
    BY <1>1, <1>2, <1>4, Zenon DEF Find
  <2>2. \A k \in start..(l - q) : Chars(v, k, q) = Chars(p, 0, q) <=> Fits(a, b, q, k)
    <3>1. \A k \in start..(l - q) : k \in Nat
      OBVIOUS
    <3> QED
      BY <3>1, FitsChars
  <2>3. {k \in start..(l - q) : Chars(v, k, q) = Chars(p, 0, q)}
          = {k \in start..(l - q) : Fits(a, b, q, k)}
    BY <2>2, Zenon
  <2> QED
    BY <2>1, <2>3, Zenon
<1> QED
  BY <1>3, <1>4

\* One character fits if it is the same.
LEMMA FitsOne ==
  ASSUME text \in Seq(STRING), NEW a \in Nat, NEW b \in Nat, NEW k \in Nat,
         a + k < Len(text), b < Len(text)
  PROVE  Fits(a, b, 1, k) <=> text[a + k + 1] = text[b + 1]
<1>1. Len(text) \in Nat
  OBVIOUS
<1>2. PICK x \in 1..Len(text), y \in 1..Len(text) : x = a + k + 1 /\ y = b + 1
  BY <1>1
<1>3. ASSUME NEW z \in 1..Len(text)
      PROVE  SubSeq(text, z, z) = <<text[z]>>
  <2>1. z \in Int /\ \A j \in z..z : text[j] \in STRING
    OBVIOUS
  <2>2. PICK s : s = SubSeq(text, z, z)
    OBVIOUS
  <2>3. PICK m \in Int, n \in Int : m = z /\ n = z
    OBVIOUS
  <2>a. \A j \in m..n : text[j] \in STRING
    BY <2>1, <2>3
  <2>b. /\ s \in Seq(STRING) /\ Len(s) = IF m <= n THEN n - m + 1 ELSE 0
        /\ \A j \in 1..(n - m + 1) : s[j] = text[m + j - 1]
    <3>1. s = SubSeq(text, m, n)
      BY <2>2, <2>3
    <3> QED
      BY <2>a, <3>1, SubSeqProperties
  <2>4. Len(s) = 1 /\ s[1] = text[z]
    <3>1. m <= n /\ n - m + 1 = 1 /\ 1 \in 1..(n - m + 1) /\ m + 1 - 1 = z
      BY <2>3
    <3> QED
      BY <2>b, <3>1, Zenon
  <2>5. s = <<text[z]>>
    BY <2>b, <2>4
  <2> QED
    BY <2>2, <2>5
<1>4. Fits(a, b, 1, k) <=> SubSeq(text, x, x) = SubSeq(text, y, y)
  BY <1>2, Zenon DEF Fits
<1>5. <<text[x]>> = <<text[y]>> <=> text[x] = text[y]
  OBVIOUS
<1> QED
  BY <1>2, <1>3, <1>4, <1>5, Zenon

\* The parts of the text that are searched for.
LEMMA PartIs ==
  ASSUME text \in Seq(STRING), NEW p \in Parts \ {Null}
  PROVE  \E b, q \in Nat : p = View(b, q) /\ b + q <= Len(text) /\ p.data = b /\ p.len = q
<1>1. Len(text) \in Nat
  OBVIOUS
<1>2. PICK d, n \in 0..Len(text) : p = Slice(ViewCstr, d, n)
  BY DEF Parts
<1>3. d \in Nat /\ n \in Nat
  BY <1>1
<1>4. Inside(ViewCstr, Len(text))
  BY <1>1, InsideView DEF ViewCstr
<1>5. Inside(p, Len(text))
  BY <1>1, <1>2, <1>3, <1>4, SliceInside
<1>6. PICK b, q \in Nat : p = View(b, q) /\ b + q <= Len(text)
  BY <1>5 DEF Inside
<1> QED
  BY <1>6, ViewFields

\* A view without data holds nothing, and nothing is found in it.
LEMMA NullSearched ==
  ASSUME NEW p, NEW b \in Nat, NEW q \in Nat \ {0}, p = View(b, q)
  PROVE  /\ \A start : Find(Null, p, start) = -1
         /\ \A cc, start : FindChar(Null, cc, start) = -1
         /\ ~StartsWith(Null, p) /\ ~EndsWith(Null, p) /\ ~StartsWithCase(Null, p)
<1>1. Null.data = NULL /\ Null.len = 0 /\ p.len = q /\ q # 0
  BY ViewFields DEF NULL
<1> QED
  BY <1>1, Zenon DEF Find, FindChar, StartsWith, EndsWith, StartsWithCase, SM3T_NOT_FOUND

\* Where a part has one character, find and find_char look for the same places.
LEMMA CharSearched ==
  ASSUME text \in Seq(STRING), NEW v, NEW p,
         NEW a \in Nat, NEW l \in Nat, NEW b \in Nat,
         v = View(a, l), p = View(b, 1), a + l <= Len(text), b + 1 <= Len(text),
         NEW start \in Nat
  PROVE  FindChar(v, At(p, 0), start) = Find(v, p, start)
<1>0. v.data = a /\ v.len = l /\ p.data = b /\ v.data # NULL
  BY ViewFields DEF NULL
<1>1. Find(v, p, start) = FirstOf({k \in start..(l - 1) : Fits(a, b, 1, k)})
  BY FindIs
<1>2. \A k \in start..(l - 1) : Fits(a, b, 1, k) <=> At(v, k) = At(p, 0)
  <2>1. \A k \in start..(l - 1) : Fits(a, b, 1, k) <=> text[a + k + 1] = text[b + 1]
    <3>1. Len(text) \in Nat /\ b < Len(text)
      OBVIOUS
    <3>2. \A k \in start..(l - 1) : k \in Nat /\ a + k < Len(text)
      BY <3>1
    <3> QED
      BY <3>1, <3>2, FitsOne
  <2>2. b + 0 + 1 = b + 1
    OBVIOUS
  <2> QED
    BY <1>0, <2>1, <2>2, Zenon DEF At
<1>3. CASE start >= l
  <2>1. start..(l - 1) = {}
    BY <1>3
  <2>2. {k \in start..(l - 1) : Fits(a, b, 1, k)} = {}
    BY <2>1
  <2>3. FindChar(v, At(p, 0), start) = SM3T_NOT_FOUND
    BY <1>0, <1>3, Zenon DEF FindChar
  <2> QED
    BY <1>1, <2>2, <2>3, Zenon DEF FirstOf
<1>4. CASE ~(start >= l)
  <2>1. FindChar(v, At(p, 0), start) = FirstOf({k \in start..(l - 1) : At(v, k) = At(p, 0)})
    BY <1>0, <1>4, Zenon DEF FindChar
  <2>2. {k \in start..(l - 1) : At(v, k) = At(p, 0)} = {k \in start..(l - 1) : Fits(a, b, 1, k)}
    BY <1>2, Zenon
  <2> QED
    BY <1>1, <2>1, <2>2, Zenon
<1> QED
  BY <1>3, <1>4

\* The other functions on a view with data.
LEMMA DataSearched ==
  ASSUME text \in Seq(STRING), NEW v, NEW p,
         NEW a \in Nat, NEW l \in Nat, NEW b \in Nat, NEW q \in Nat \ {0},
         v = View(a, l), p = View(b, q), a + l <= Len(text), b + q <= Len(text)
  PROVE  /\ StartsWith(v, p) <=> Find(v, p, 0) = 0
         /\ EndsWith(v, p) <=> q <= l /\ Fits(a, b, q, l - q)
         /\ StartsWithCase(v, p) <=> q <= l /\ EqCase(Slice(v, 0, q), p)
<1>1. /\ v.data = a /\ v.len = l /\ p.data = b /\ p.len = q
      /\ v.data # NULL /\ p.data # NULL /\ p.len # 0
  BY ViewFields DEF NULL
<1>2. StartsWith(v, p) <=> Find(v, p, 0) = 0
  <2> DEFINE S == {k \in 0..(l - q) : Fits(a, b, q, k)}
  <2>1. Find(v, p, 0) = FirstOf(S)
    BY FindIs
  <2>2. StartsWith(v, p) <=> l >= q /\ Fits(a, b, q, 0)
    <3>1. Chars(v, 0, q) = Chars(p, 0, q) <=> Fits(a, b, q, 0)
      BY FitsChars
    <3> QED
      BY <1>1, <3>1, Zenon DEF StartsWith
  <2>3. l >= q /\ Fits(a, b, q, 0) <=> 0 \in S
    <3>1. 0 \in 0..(l - q) <=> l >= q
      OBVIOUS
    <3> QED
      BY <3>1, Zenon
  <2>4. S \subseteq Nat
    OBVIOUS
  <2> HIDE DEF S
  <2>5. FirstOf(S) = 0 <=> 0 \in S
    <3>1. CASE S = {}
      <4>1. FirstOf(S) = -1
        BY <2>4, <3>1, FirstOfLeast
      <4> QED
        BY <3>1, <4>1
    <3>2. CASE S # {}
      <4>1. PICK f : f = FirstOf(S)
        OBVIOUS
      <4>2. f \in S /\ \A j \in S : f <= j
        BY <2>4, <3>2, <4>1, FirstOfLeast
      <4>3. f = 0 <=> 0 \in S
        BY <2>4, <4>2
      <4> QED
        BY <4>1, <4>3
    <3> QED
      BY <3>1, <3>2
  <2> QED
    BY <2>1, <2>2, <2>3, <2>5, Zenon
<1>3. EndsWith(v, p) <=> q <= l /\ Fits(a, b, q, l - q)
  <2>1. EndsWith(v, p) <=> l >= q /\ Chars(v, l - q, q) = Chars(p, 0, q)
    BY <1>1, Zenon DEF EndsWith
  <2>2. l >= q => (Chars(v, l - q, q) = Chars(p, 0, q) <=> Fits(a, b, q, l - q))
    <3>1. l >= q => l - q \in Nat
      OBVIOUS
    <3> QED
      BY <3>1, FitsChars
  <2>3. l >= q <=> q <= l
    OBVIOUS
  <2> QED
    BY <2>1, <2>2, <2>3, Zenon
<1>4. StartsWithCase(v, p) <=> q <= l /\ EqCase(Slice(v, 0, q), p)
  <2> DEFINE Same == \A k \in 0..(q - 1) : ascii_tolower(At(v, k)) = ascii_tolower(At(p, k))
  <2>1. StartsWithCase(v, p) <=> l >= q /\ Same
    BY <1>1, Zenon DEF StartsWithCase
  <2>2. ASSUME q <= l
        PROVE  EqCase(Slice(v, 0, q), p) <=> Same
    <3>1. Slice(v, 0, q) = View(a, q)
      BY <1>1, <2>2 DEF Slice
    <3>2. PICK w : w = View(a, q) /\ w.data = a /\ w.len = q
      BY ViewFields
    <3>3. ~Empty(w) /\ ~Empty(p)
      BY <1>1, <3>2 DEF Empty, NULL
    <3>4. \A k : At(w, k) = At(v, k)
      BY <1>1, <3>2, Zenon DEF At
    <3>5. EqCase(w, p) <=> \A k \in 0..(q - 1) : ascii_tolower(At(w, k)) = ascii_tolower(At(p, k))
      BY <1>1, <3>2, <3>3, Zenon DEF EqCase
    <3>6. EqCase(w, p) <=> Same
      BY <3>4, <3>5, Zenon
    <3> QED
      BY <3>1, <3>2, <3>6, Zenon
  <2>3. l >= q <=> q <= l
    OBVIOUS
  <2> QED
    BY <2>1, <2>2, <2>3, Zenon
<1> QED
  BY <1>2, <1>3, <1>4, Zenon

LEMMA SearchesHold ==
  ASSUME ViewInv
  PROVE  SearchesAgree
<1>1. text \in Seq(STRING) /\ Len(text) \in Nat /\ Inside(view, Len(text))
  BY DEF ViewInv
<1> SUFFICES
      ASSUME NEW p \in Parts \ {Null}, NEW start \in 0..Len(text)
      PROVE  LET place(k) == p.len > 0 /\ k \in 0..(view.len - p.len)
                               /\ Eq(Slice(view, k, p.len), p)
                 found == Find(view, p, start)
             IN  /\ p.len > 0 =>
                      IF found = SM3T_NOT_FOUND THEN \A k \in start..view.len : ~place(k)
                      ELSE place(found) /\ found >= start /\ \A k \in start..(found - 1) : ~place(k)
                 /\ p.len = 1 => FindChar(view, At(p, 0), start) = found
                 /\ p.len > 0 => (StartsWith(view, p) <=> Find(view, p, 0) = 0)
                 /\ p.len > 0 => (EndsWith(view, p) <=> place(view.len - p.len))
                 /\ p.len > 0 => (StartsWithCase(view, p) <=>
                      (p.len <= view.len /\ EqCase(Slice(view, 0, p.len), p)))
  BY Zenon DEF SearchesAgree
<1> DEFINE place(k) == p.len > 0 /\ k \in 0..(view.len - p.len)
                         /\ Eq(Slice(view, k, p.len), p)
           found == Find(view, p, start)
<1>2. start \in Nat
  BY <1>1
<1>3. PICK b, q \in Nat : p = View(b, q) /\ b + q <= Len(text) /\ p.data = b /\ p.len = q
  BY <1>1, PartIs
<1>4. SUFFICES ASSUME q > 0
      PROVE  /\ IF found = SM3T_NOT_FOUND THEN \A k \in start..view.len : ~place(k)
                ELSE place(found) /\ found >= start /\ \A k \in start..(found - 1) : ~place(k)
             /\ q = 1 => FindChar(view, At(p, 0), start) = found
             /\ StartsWith(view, p) <=> Find(view, p, 0) = 0
             /\ EndsWith(view, p) <=> place(view.len - q)
             /\ StartsWithCase(view, p) <=> (q <= view.len /\ EqCase(Slice(view, 0, q), p))
  <2>1. p.len > 0 => q > 0
    BY <1>3
  <2>2. p.len = 1 => q > 0 /\ q = 1
    BY <1>3
  <2> QED
    BY <1>3, <1>4, <2>1, <2>2, Zenon
<1>5. q \in Nat \ {0} /\ p.len = q /\ p.len > 0
  BY <1>3, <1>4
<1>6. CASE view = Null
  <2>1. view.data = NULL /\ view.len = 0
    BY <1>6, ViewFields DEF NULL
  <2>2. \A k : ~place(k)
    <3>1. 0..(view.len - p.len) = {}
      BY <1>5, <2>1
    <3> QED
      BY <3>1, Zenon
  <2>3. /\ Find(view, p, start) = -1 /\ Find(view, p, 0) = -1
        /\ FindChar(view, At(p, 0), start) = -1
        /\ ~StartsWith(view, p) /\ ~EndsWith(view, p) /\ ~StartsWithCase(view, p)
    BY <1>3, <1>5, <1>6, NullSearched
  <2>4. Find(view, p, 0) # 0 /\ ~(q <= view.len)
    BY <1>5, <2>1, <2>3
  <2> HIDE DEF place
  <2> QED
    BY <2>2, <2>3, <2>4, Zenon DEF SM3T_NOT_FOUND
<1>7. CASE view # Null
  <2>1. PICK a, l \in Nat : view = View(a, l) /\ a + l <= Len(text)
    BY <1>1, <1>7 DEF Inside
  <2>2. view.data = a /\ view.len = l
    BY <2>1, ViewFields
  <2>3. \A k : place(k) <=> k \in 0..(l - q) /\ Fits(a, b, q, k)
    <3>1. \A k \in 0..(l - q) : Eq(Slice(view, k, q), p) <=> Fits(a, b, q, k)
      BY <1>3, <1>5, <2>1, PlaceFits
    <3> QED
      BY <1>5, <2>2, <3>1, Zenon
  <2> HIDE DEF place
  <2> DEFINE S == {k \in start..(l - q) : Fits(a, b, q, k)}
  <2>4. found = FirstOf(S)
    BY <1>2, <1>3, <1>5, <2>1, FindIs
  <2>5. S \subseteq Nat
    BY <1>2
  <2>6. IF found = SM3T_NOT_FOUND THEN \A k \in start..view.len : ~place(k)
        ELSE place(found) /\ found >= start /\ \A k \in start..(found - 1) : ~place(k)
    <3>1. CASE S = {}
      <4>1. found = SM3T_NOT_FOUND
        BY <2>4, <3>1, Zenon DEF FirstOf
      <4>2. \A k \in start..view.len : k \in 0..(l - q) => k \in start..(l - q)
        BY <1>2, <1>5, <2>2
      <4>3. \A k \in start..view.len : ~place(k)
        BY <2>3, <3>1, <4>2, Zenon
      <4> QED
        BY <4>1, <4>3, Zenon
    <3>2. CASE S # {}
      <4>1. found \in S /\ \A j \in S : found <= j
        BY <2>4, <2>5, <3>2, FirstOfLeast
      <4>2. PICK f : f = found
        OBVIOUS
      <4>3. f \in start..(l - q) /\ Fits(a, b, q, f) /\ \A j \in S : f <= j
        BY <4>1, <4>2, Zenon
      <4> HIDE DEF found
      <4>4. f \in 0..(l - q) /\ f >= start /\ f # -1
        BY <1>2, <4>3
      <4>5. \A k \in start..(f - 1) : k \in start..(l - q) /\ ~(f <= k)
        BY <1>2, <4>3
      <4>6. \A k \in start..(f - 1) : ~place(k)
        BY <2>3, <4>3, <4>5, Zenon
      <4>7. place(f)
        BY <2>3, <4>3, <4>4, Zenon
      <4> QED
        BY <4>2, <4>4, <4>6, <4>7, Zenon DEF SM3T_NOT_FOUND
    <3> QED
      BY <3>1, <3>2
  <2>7. /\ q = 1 => FindChar(view, At(p, 0), start) = found
        /\ StartsWith(view, p) <=> Find(view, p, 0) = 0
        /\ EndsWith(view, p) <=> q <= l /\ Fits(a, b, q, l - q)
        /\ StartsWithCase(view, p) <=> q <= l /\ EqCase(Slice(view, 0, q), p)
    <3> HIDE DEF S
    <3>1. /\ text \in Seq(STRING) /\ start \in Nat /\ q \in Nat \ {0}
          /\ view = View(a, l) /\ p = View(b, q)
          /\ a + l <= Len(text) /\ b + q <= Len(text)
      BY <1>1, <1>2, <1>3, <1>5, <2>1, Zenon
    <3>2. q = 1 => FindChar(view, At(p, 0), start) = Find(view, p, start)
      BY <3>1, CharSearched
    <3>3. StartsWith(view, p) <=> Find(view, p, 0) = 0
      BY <3>1, DataSearched
    <3>4. EndsWith(view, p) <=> q <= l /\ Fits(a, b, q, l - q)
      BY <3>1, DataSearched
    <3>5. StartsWithCase(view, p) <=> q <= l /\ EqCase(Slice(view, 0, q), p)
      BY <3>1, DataSearched
    <3> QED
      BY <3>2, <3>3, <3>4, <3>5, Zenon
  <2>8. EndsWith(view, p) <=> place(view.len - q)
    <3>1. l - q \in 0..(l - q) <=> q <= l
      BY <1>5
    <3> QED
      BY <2>2, <2>3, <2>7, <3>1, Zenon
  <2> HIDE DEF S, found
  <2> QED
    BY <2>2, <2>6, <2>7, <2>8, Zenon
<1> QED
  BY <1>6, <1>7

\* The functions that search agree with slice and eq on every view that can be
\* cut from a text, wherever it lies: find returns the first place and no place
\* is passed over, and the tests of both ends look at the first and last place.
THEOREM SearchesFindPlaces == Spec => []SearchesAgree
BY ViewInvariant, SearchesHold, PTL

-----------------------------------------------------------------------------
(* Induction, and what a recursive function is. *)

\* A set that has 0 and with every number below n the next has 0..n.
LEMMA Induction ==
  ASSUME NEW n \in Nat, NEW S, 0 \in S, \A k \in 1..n : k - 1 \in S => k \in S
  PROVE  0..n \subseteq S
<1> DEFINE Out == {k \in 0..n : k \notin S}
<1>1. SUFFICES ASSUME Out # {} PROVE FALSE
  OBVIOUS
<1>2. Out \subseteq Nat
  OBVIOUS
<1>3. PICK x \in Out : \A y \in Out : x <= y
  BY <1>1, <1>2, LeastExists
<1>4. x \in 1..n /\ x - 1 \in 0..n
  BY <1>3
<1>5. x - 1 \in S
  BY <1>3, <1>4
<1> QED
  BY <1>3, <1>4, <1>5

\* Every value of f after the first, b, is computed by G from the one before.
Computes(f, n, T, b, G) ==
  f \in [0..n -> T] /\ f[0] = b /\ \A k \in 1..n : f[k] = G[k][f[k - 1]]

\* A function that is computed step by step exists.
LEMMA Recursion ==
  ASSUME NEW n \in Nat, NEW T, NEW b \in T, NEW G \in [1..n -> [T -> T]]
  PROVE  \E f : Computes(f, n, T, b, G)
<1> DEFINE Starts(f, m) == Computes(f, m, T, b, G)
           S == {m \in 0..n : \E f : Starts(f, m)}
<1>1. 0 \in S
  <2>1. Starts([k \in 0..0 |-> b], 0) /\ 0 \in 0..n
    BY DEF Computes
  <2> HIDE DEF Starts
  <2> QED
    BY <2>1
<1>2. ASSUME NEW m \in 1..n, m - 1 \in S
      PROVE  m \in S
  <2>1. PICK f : Starts(f, m - 1)
    BY <1>2
  <2> DEFINE g == [k \in 0..m |-> IF k = m THEN G[m][f[m - 1]] ELSE f[k]]
  <2>2. m - 1 \in 0..(m - 1) /\ f[m - 1] \in T
    BY <2>1 DEF Computes
  <2>3. G[m][f[m - 1]] \in T
    BY <2>2
  <2>4. g \in [0..m -> T]
    BY <2>1, <2>3 DEF Computes
  <2>5. ASSUME NEW k \in 1..m PROVE g[k] = G[k][g[k - 1]]
    <3>1. k - 1 \in 0..m /\ k - 1 # m /\ k \in 0..m
      OBVIOUS
    <3>2. g[k - 1] = f[k - 1]
      BY <3>1
    <3>3. CASE k = m
      BY <3>1, <3>2, <3>3
    <3>4. CASE k # m
      <4>1. k \in 1..(m - 1)
        BY <3>4
      <4>2. g[k] = f[k]
        BY <3>1, <3>4
      <4> QED
        BY <2>1, <3>2, <4>1, <4>2 DEF Computes
    <3> QED
      BY <3>3, <3>4
  <2>6. g[0] = b
    BY <2>1 DEF Computes
  <2>7. Starts(g, m)
    BY <2>4, <2>5, <2>6 DEF Computes
  <2>8. m \in 0..n
    OBVIOUS
  <2> HIDE DEF Starts, g
  <2> QED
    BY <2>7, <2>8
<1> HIDE DEF S
<1>3. 0..n \subseteq S
  BY <1>1, <1>2, Induction
<1>4. n \in S
  BY <1>3
<1> QED
  BY <1>4 DEF S

-----------------------------------------------------------------------------
(* Numbers. *)

LEMMA DigitRange ==
  ASSUME NEW cc, IsDigit(cc)
  PROVE  Digit(cc) \in 0..9
<1>1. DOMAIN Digits = 1..10
  BY DEF Digits
<1> DEFINE d == CHOOSE k \in DOMAIN Digits : Digits[k] = cc
<1>2. d \in DOMAIN Digits
  BY Zenon DEF IsDigit
<1>3. Digit(cc) = d - 1
  BY DEF Digit
<1> HIDE DEF d
<1> QED
  BY <1>1, <1>2, <1>3

\* The loop of sm3t__view_to_u32, turn by turn.
LEMMA CountedIs ==
  ASSUME NEW v, v.len \in Nat
  PROVE  /\ Counted(v)[0] = 0
         /\ \A k \in 1..v.len : Counted(v)[k] = CountDigit(Counted(v)[k - 1], At(v, k - 1))
<1> DEFINE n == v.len
           G == [k \in 1..n |-> [i \in Int |-> CountDigit(i, At(v, k - 1))]]
           Solves(f) == f = [k \in 0..n |-> IF k = 0 THEN 0 ELSE CountDigit(f[k - 1], At(v, k - 1))]
<1>1. \A i \in Int : \A cc : CountDigit(i, cc) \in Int
  <2>1. SUFFICES ASSUME NEW i \in Int, NEW cc PROVE CountDigit(i, cc) \in Int
    OBVIOUS
  <2>2. CASE IsDigit(cc)
    <3>1. (i * 10 + Digit(cc)) % UINT64_MOD \in Int
      BY <2>2, DigitRange, ViewsAssumption
    <3> QED
      BY <3>1 DEF CountDigit, NULL
  <2>3. CASE ~IsDigit(cc)
    BY <2>3 DEF CountDigit, NULL
  <2> QED
    BY <2>2, <2>3
<1>2. PICK T : T = Int
  OBVIOUS
<1>3. PICK f \in [0..n -> Int] : f[0] = 0 /\ \A k \in 1..n : f[k] = G[k][f[k - 1]]
  <2>1. n \in Nat /\ 0 \in T /\ G \in [1..n -> [T -> T]]
    BY <1>1, <1>2
  <2> HIDE DEF n, G
  <2>2. \E f : Computes(f, n, T, 0, G)
    BY <2>1, Recursion, Zenon
  <2> QED
    BY <1>2, <2>2 DEF Computes
<1>4. \A k \in 1..n : f[k] = CountDigit(f[k - 1], At(v, k - 1))
  <2>1. ASSUME NEW k \in 1..n PROVE f[k] = CountDigit(f[k - 1], At(v, k - 1))
    <3>1. f[k - 1] \in Int
      BY <1>3
    <3> QED
      BY <1>3, <3>1
  <2> QED
    BY <2>1
<1>5. Solves(f)
  <2>1. ASSUME NEW k \in 0..n
        PROVE  f[k] = IF k = 0 THEN 0 ELSE CountDigit(f[k - 1], At(v, k - 1))
    BY <1>3, <1>4
  <2> QED
    BY <1>3, <2>1
<1>6. Counted(v) = CHOOSE g : Solves(g)
  BY DEF Counted
<1>7. Solves(Counted(v))
  <2> HIDE DEF Solves
  <2> QED
    BY <1>5, <1>6
<1> QED
  BY <1>7

\* d are n digits: h counts them from the left, w is the worth of their places
\* and s adds them up from the right.
IsCount(h, d, n) ==
  h \in [0..n -> Nat] /\ h[0] = 0 /\ \A k \in 1..n : h[k] = 10 * h[k - 1] + d[k]
IsWeight(w, n) ==
  w \in [0..n -> Nat] /\ w[0] = 1 /\ \A k \in 1..n : w[k] = 10 * w[k - 1]
IsSum(s, d, w, n) ==
  s \in [0..n -> Nat] /\ s[0] = 0 /\ \A k \in 1..n : s[k] = s[k - 1] + d[n - k + 1] * w[k - 1]

LEMMA WeightsAre ==
  ASSUME NEW n \in Nat
  PROVE  IsWeight(Weights(n), n)
<1> DEFINE G == [k \in 1..n |-> [i \in Nat |-> 10 * i]]
           Solves(f) == f = [k \in 0..n |-> IF k = 0 THEN 1 ELSE 10 * f[k - 1]]
<1>1. PICK T : T = Nat
  OBVIOUS
<1>2. PICK f \in [0..n -> Nat] : f[0] = 1 /\ \A k \in 1..n : f[k] = G[k][f[k - 1]]
  <2>1. n \in Nat /\ 1 \in T /\ G \in [1..n -> [T -> T]]
    BY <1>1
  <2> HIDE DEF G
  <2>2. \E f : Computes(f, n, T, 1, G)
    BY <2>1, Recursion, Zenon
  <2> QED
    BY <1>1, <2>2 DEF Computes
<1>3. \A k \in 0..n : f[k] = IF k = 0 THEN 1 ELSE 10 * f[k - 1]
  <2>1. ASSUME NEW k \in 1..n PROVE f[k] = 10 * f[k - 1]
    <3>1. f[k - 1] \in Nat
      BY <1>2
    <3> QED
      BY <1>2, <3>1
  <2> QED
    BY <1>2, <2>1
<1>4. Solves(f)
  BY <1>2, <1>3
<1>5. Weights(n) = CHOOSE g : Solves(g)
  BY DEF Weights
<1>6. PICK w : w = Weights(n)
  OBVIOUS
<1>7. Solves(w)
  <2> HIDE DEF Solves
  <2> QED
    BY <1>4, <1>5, <1>6
<1> DEFINE S == {k \in 0..n : w[k] \in Nat}
<1>8. 0..n \subseteq S
  <2>1. 0 \in S
    BY <1>7
  <2>2. ASSUME NEW k \in 1..n, k - 1 \in S PROVE k \in S
    <3>1. w[k] = 10 * w[k - 1] /\ w[k - 1] \in Nat
      BY <1>7, <2>2
    <3> QED
      BY <3>1
  <2> HIDE DEF S
  <2> QED
    BY <2>1, <2>2, Induction
<1>9. w \in [0..n -> Nat]
  BY <1>7, <1>8
<1>10. IsWeight(w, n)
  BY <1>7, <1>9 DEF IsWeight
<1> QED
  BY <1>6, <1>10

LEMMA PlaceSumsAre ==
  ASSUME NEW n \in Nat, NEW chars, Len(chars) = n,
         NEW d \in [1..n -> Nat], \A k \in 1..n : d[k] = Digit(chars[k])
  PROVE  IsSum(PlaceSums(chars), d, Weights(n), n)
<1> DEFINE add(k) == d[n - k + 1] * Weights(n)[k - 1]
           G == [k \in 1..n |-> [i \in Nat |-> i + add(k)]]
           Solves(f) == f = [k \in 0..n |-> IF k = 0 THEN 0 ELSE f[k - 1] + add(k)]
<1>1. PICK T : T = Nat
  OBVIOUS
<1>2. \A k \in 1..n : add(k) \in Nat
  <2>1. SUFFICES ASSUME NEW k \in 1..n PROVE add(k) \in Nat
    OBVIOUS
  <2>2. n - k + 1 \in 1..n /\ k - 1 \in 0..n
    OBVIOUS
  <2>3. d[n - k + 1] \in Nat /\ Weights(n)[k - 1] \in Nat
    BY <2>2, WeightsAre DEF IsWeight
  <2>4. \A x, y \in Nat : x * y \in Nat
    OBVIOUS
  <2> QED
    BY <2>3, <2>4
<1> HIDE DEF add
<1>3. PICK f \in [0..n -> Nat] : f[0] = 0 /\ \A k \in 1..n : f[k] = G[k][f[k - 1]]
  <2>1. n \in Nat /\ 0 \in T /\ G \in [1..n -> [T -> T]]
    BY <1>1, <1>2
  <2> HIDE DEF G
  <2>2. \E f : Computes(f, n, T, 0, G)
    BY <2>1, Recursion, Zenon
  <2> QED
    BY <1>1, <2>2 DEF Computes
<1>4. \A k \in 0..n : f[k] = IF k = 0 THEN 0 ELSE f[k - 1] + add(k)
  <2>1. ASSUME NEW k \in 1..n PROVE f[k] = f[k - 1] + add(k)
    <3>1. f[k - 1] \in Nat
      BY <1>3
    <3> QED
      BY <1>3, <3>1
  <2> QED
    BY <1>3, <2>1
<1>5. Solves(f)
  BY <1>3, <1>4
<1>6. PlaceSums(chars) = CHOOSE g : Solves(g)
  <2>1. \A k \in 0..n : k # 0 => n - k + 1 \in 1..n
    OBVIOUS
  <2>2. \A k \in 0..n : k # 0 => add(k) = Digit(chars[n - k + 1]) * Weights(n)[k - 1]
    BY <2>1, Zenon DEF add
  <2>3. PlaceSums(chars) = CHOOSE g : g = [k \in 0..n |-> IF k = 0 THEN 0 ELSE
                                 g[k - 1] + Digit(chars[n - k + 1]) * Weights(n)[k - 1]]
    BY DEF PlaceSums
  <2>4. \A g : Solves(g) <=> g = [k \in 0..n |-> IF k = 0 THEN 0 ELSE
                                 g[k - 1] + Digit(chars[n - k + 1]) * Weights(n)[k - 1]]
    BY <2>2
  <2> HIDE DEF Solves
  <2> QED
    BY <2>3, <2>4
<1>7. PICK s : s = PlaceSums(chars)
  OBVIOUS
<1>8. Solves(s)
  <2> HIDE DEF Solves
  <2> QED
    BY <1>5, <1>6, <1>7
<1> DEFINE S == {k \in 0..n : s[k] \in Nat}
<1>9. 0..n \subseteq S
  <2>1. 0 \in S
    BY <1>8
  <2>2. ASSUME NEW k \in 1..n, k - 1 \in S PROVE k \in S
    <3>1. s[k] = s[k - 1] + add(k) /\ s[k - 1] \in Nat
      BY <1>8, <2>2
    <3> QED
      BY <1>2, <3>1
  <2> HIDE DEF S
  <2> QED
    BY <2>1, <2>2, Induction
<1>10. s \in [0..n -> Nat]
  BY <1>8, <1>9
<1>11. \A k \in 1..n : s[k] = s[k - 1] + add(k)
  BY <1>8
<1>12. IsSum(s, d, Weights(n), n)
  <2>1. s[0] = 0
    BY <1>8
  <2> QED
    BY <1>10, <1>11, <2>1, Zenon DEF IsSum, add
<1> QED
  BY <1>7, <1>12

LEMMA Distributes ==
  ASSUME NEW a \in Nat, NEW x \in Nat, NEW y \in Nat, NEW z \in Nat
  PROVE  a * (10 * y) + (z + x * y) = (10 * a + x) * y + z
OBVIOUS

\* Counting digits from the left is adding them up by their places.
LEMMA Horner ==
  ASSUME NEW n \in Nat, NEW d \in [1..n -> Nat], NEW h, NEW w, NEW s,
         IsCount(h, d, n), IsWeight(w, n), IsSum(s, d, w, n)
  PROVE  h[n] = s[n]
<1> DEFINE S == {k \in 0..n : h[n - k] * w[k] + s[k] = h[n]}
<1>1. 0 \in S
  <2>1. n - 0 = n /\ h[n] \in Nat /\ w[0] = 1 /\ s[0] = 0
    BY DEF IsCount, IsWeight, IsSum
  <2>2. h[n - 0] * w[0] + s[0] = h[n]
    BY <2>1
  <2> QED
    BY <2>2
<1>2. ASSUME NEW k \in 1..n, k - 1 \in S
      PROVE  k \in S
  <2>1. n - (k - 1) = n - k + 1 /\ n - k + 1 \in 1..n /\ (n - k + 1) - 1 = n - k /\ n - k \in 0..n
    OBVIOUS
  <2>2. h[n - k] \in Nat /\ d[n - k + 1] \in Nat
    BY <2>1 DEF IsCount
  <2>3. w[k - 1] \in Nat
    BY DEF IsWeight
  <2>4. s[k - 1] \in Nat
    BY DEF IsSum
  <2>5. h[n - k + 1] = 10 * h[n - k] + d[n - k + 1]
    BY <2>1, Zenon DEF IsCount
  <2>6. w[k] = 10 * w[k - 1]
    BY DEF IsWeight
  <2>7. s[k] = s[k - 1] + d[n - k + 1] * w[k - 1]
    BY Zenon DEF IsSum
  <2>8. h[n - k + 1] * w[k - 1] + s[k - 1] = h[n]
    <3>1. h[n - (k - 1)] * w[k - 1] + s[k - 1] = h[n]
      BY <1>2, Zenon
    <3> QED
      BY <2>1, <3>1, Zenon
  <2>9. h[n - k] * w[k] + s[k] = h[n]
    <3>1. PICK a \in Nat, x \in Nat, y \in Nat, z \in Nat :
            a = h[n - k] /\ x = d[n - k + 1] /\ y = w[k - 1] /\ z = s[k - 1]
      BY <2>2, <2>3, <2>4, Zenon
    <3>2. a * (10 * y) + (z + x * y) = (10 * a + x) * y + z
      BY Distributes
    <3>3. h[n - k] * w[k] + s[k] = a * (10 * y) + (z + x * y)
      BY <2>6, <2>7, <3>1, Zenon
    <3>4. (10 * a + x) * y + z = h[n]
      BY <2>5, <2>8, <3>1, Zenon
    <3> QED
      BY <3>2, <3>3, <3>4, Zenon
  <2> QED
    BY <2>9
<1> HIDE DEF S
<1>3. n \in S
  <2>1. 0..n \subseteq S
    BY <1>1, <1>2, Induction
  <2> QED
    BY <2>1
<1>4. h[n - n] * w[n] + s[n] = h[n]
  BY <1>3 DEF S
<1>5. n - n = 0 /\ h[0] = 0 /\ w[n] \in Nat /\ s[n] \in Nat
  BY DEF IsCount, IsWeight, IsSum
<1> QED
  BY <1>4, <1>5

LEMMA SmallMod ==
  ASSUME NEW m \in Nat, NEW a \in 0..(m - 1)
  PROVE  a % m = a
OBVIOUS

\* The loop counts the digits as long as their number fits, and answers false
\* as soon as it does not, or at the first character that is no digit.
LEMMA CountsDigits ==
  ASSUME NEW v, NEW n \in Nat, v.len = n, NEW d \in [1..n -> 0..9],
         \A k \in 1..n : IsDigit(At(v, k - 1)) /\ d[k] = Digit(At(v, k - 1)),
         NEW h, IsCount(h, d, n)
  PROVE  Counted(v)[n] = IF h[n] <= UINT32_MAX THEN h[n] ELSE NULL
<1> DEFINE S == {k \in 0..n : Counted(v)[k] = IF h[k] <= UINT32_MAX THEN h[k] ELSE NULL}
<1>1. 0 \in S
  <2>1. Counted(v)[0] = 0 /\ h[0] = 0 /\ 0 <= UINT32_MAX
    BY CountedIs, ViewsAssumption DEF IsCount
  <2> QED
    BY <2>1
<1>2. ASSUME NEW k \in 1..n, k - 1 \in S
      PROVE  k \in S
  <2>1. Counted(v)[k] = CountDigit(Counted(v)[k - 1], At(v, k - 1))
    BY CountedIs
  <2>2. PICK x \in 0..9 : x = d[k] /\ x = Digit(At(v, k - 1))
    BY Zenon
  <2>3. PICK i \in Nat : i = h[k - 1] /\ h[k] = 10 * i + x
    <3>1. h[k - 1] \in Nat
      BY DEF IsCount
    <3>2. h[k] = 10 * h[k - 1] + d[k]
      BY Zenon DEF IsCount
    <3> QED
      BY <2>2, <3>1, <3>2, Zenon
  <2>4. Counted(v)[k - 1] = IF i <= UINT32_MAX THEN i ELSE NULL
    BY <1>2, <2>3, Zenon
  <2>5. IsDigit(At(v, k - 1))
    OBVIOUS
  <2>6. CASE i <= UINT32_MAX
    <3>1. i * 10 + x = 10 * i + x /\ i * 10 + x \in 0..(UINT64_MOD - 1)
      BY <2>6, ViewsAssumption
    <3>2. (i * 10 + x) % UINT64_MOD = 10 * i + x
      BY <3>1, SmallMod, ViewsAssumption, Zenon
    <3>3. Counted(v)[k - 1] = i /\ i # NULL
      BY <2>4, <2>6 DEF NULL
    <3>4. Counted(v)[k] = IF (i * 10 + x) % UINT64_MOD > UINT32_MAX THEN NULL
                          ELSE (i * 10 + x) % UINT64_MOD
      BY <2>1, <2>2, <2>5, <3>3, Zenon DEF CountDigit
    <3>5. 10 * i + x > UINT32_MAX <=> ~(10 * i + x <= UINT32_MAX)
      BY ViewsAssumption
    <3>6. Counted(v)[k] = IF h[k] <= UINT32_MAX THEN h[k] ELSE NULL
      BY <2>3, <3>2, <3>4, <3>5, Zenon
    <3> QED
      BY <3>6
  <2>7. CASE ~(i <= UINT32_MAX)
    <3>1. Counted(v)[k] = NULL
      BY <2>1, <2>4, <2>7, Zenon DEF CountDigit
    <3>2. ~(h[k] <= UINT32_MAX)
      BY <2>3, <2>7, ViewsAssumption
    <3> QED
      BY <3>1, <3>2
  <2> QED
    BY <2>6, <2>7
<1> HIDE DEF S
<1>3. 0..n \subseteq S
  BY <1>1, <1>2, Induction
<1>4. n \in S
  BY <1>3
<1> QED
  BY <1>4 DEF S

LEMMA StopsAtLetter ==
  ASSUME NEW v, NEW n \in Nat, v.len = n, NEW j \in 1..n, ~IsDigit(At(v, j - 1))
  PROVE  Counted(v)[n] = NULL
<1> DEFINE S == {k \in 0..n : k >= j => Counted(v)[k] = NULL}
<1>1. 0 \in S
  OBVIOUS
<1>2. ASSUME NEW k \in 1..n, k - 1 \in S
      PROVE  k \in S
  <2>1. Counted(v)[k] = CountDigit(Counted(v)[k - 1], At(v, k - 1))
    BY CountedIs
  <2>2. CASE k = j
    <3>1. Counted(v)[k] = NULL
      BY <2>1, <2>2, Zenon DEF CountDigit
    <3> QED
      BY <3>1
  <2>3. CASE k # j
    <3>1. k >= j => k - 1 >= j
      BY <2>3
    <3>2. k >= j => Counted(v)[k - 1] = NULL
      BY <1>2, <3>1, Zenon
    <3>3. k >= j => Counted(v)[k] = NULL
      BY <2>1, <3>2, Zenon DEF CountDigit
    <3>4. k \in 0..n
      OBVIOUS
    <3> QED
      BY <3>3, <3>4, Zenon
  <2> QED
    BY <2>2, <2>3
<1> HIDE DEF S
<1>3. 0..n \subseteq S
  BY <1>1, <1>2, Induction
<1>4. n \in S /\ n >= j
  BY <1>3
<1> QED
  BY <1>4 DEF S

LEMMA CountExists ==
  ASSUME NEW n \in Nat, NEW d \in [1..n -> 0..9]
  PROVE  \E h : IsCount(h, d, n)
<1> DEFINE G == [k \in 1..n |-> [i \in Nat |-> 10 * i + d[k]]]
<1>1. PICK T : T = Nat
  OBVIOUS
<1>2. n \in Nat /\ 0 \in T /\ G \in [1..n -> [T -> T]]
  BY <1>1
<1>3. PICK h : Computes(h, n, T, 0, G)
  <2> HIDE DEF G
  <2> QED
    BY <1>2, Recursion, Zenon
<1>4. h \in [0..n -> Nat] /\ h[0] = 0 /\ \A k \in 1..n : h[k] = G[k][h[k - 1]]
  BY <1>1, <1>3 DEF Computes
<1>5. ASSUME NEW k \in 1..n PROVE h[k] = 10 * h[k - 1] + d[k]
  <2>1. h[k - 1] \in Nat
    BY <1>4
  <2> QED
    BY <1>4, <2>1
<1>6. IsCount(h, d, n)
  BY <1>4, <1>5, Zenon DEF IsCount
<1> QED
  BY <1>6

LEMMA NumberHolds ==
  ASSUME ViewInv
  PROVE  NumberExact
<1> DEFINE chars == ToCstr(view)
           number == chars # <<>> /\ \A k \in DOMAIN chars : IsDigit(chars[k])
<1>1. SUFFICES ToU32(view) = IF number THEN IF Number(chars) <= UINT32_MAX THEN Number(chars) ELSE NULL
                             ELSE NULL
  BY Zenon DEF NumberExact
<1>2. CASE Empty(view)
  BY <1>2, Zenon DEF ToU32, ToCstr
<1>3. CASE ~Empty(view)
  <2>1. PICK a, n \in Nat : a + n <= Len(text) /\ view.data = a /\ view.len = n
    BY <1>3, InsideData DEF Empty, ViewInv
  <2>2. n > 0 /\ text \in Seq(STRING) /\ Len(text) \in Nat
    BY <1>3, <2>1 DEF Empty, ViewInv
  <2>3. PICK cs : cs = chars
    OBVIOUS
  <2>4. cs = SubSeq(text, a + 0 + 1, a + 0 + n)
    BY <1>3, <2>1, <2>3 DEF ToCstr, Chars
  <2>5. \A k \in (a + 0 + 1)..(a + 0 + n) : text[k] \in STRING
    BY <2>1, <2>2
  <2>6. cs \in Seq(STRING) /\ Len(cs) = n /\ \A k \in 1..n : cs[k] = text[a + 0 + 1 + k - 1]
    BY <2>2, <2>4, <2>5, SubSeqProperties
  <2>7. DOMAIN cs = 1..n /\ cs # <<>>
    BY <2>2, <2>6
  <2>8. \A k \in 1..n : cs[k] = At(view, k - 1)
    <3>1. \A k \in 1..n : a + 0 + 1 + k - 1 = a + (k - 1) + 1
      OBVIOUS
    <3> QED
      BY <2>1, <2>6, <3>1, Zenon DEF At
  <2>9. ToU32(view) = Counted(view)[n]
    BY <1>3, <2>1 DEF ToU32
  <2>10. CASE \A k \in 1..n : IsDigit(cs[k])
    <3> DEFINE d == [k \in 1..n |-> Digit(cs[k])]
    <3>1. d \in [1..n -> 0..9]
      BY <2>10, DigitRange
    <3>2. d \in [1..n -> Nat] /\ \A k \in 1..n : d[k] = Digit(cs[k])
      BY <3>1
    <3>3. \A k \in 1..n : IsDigit(At(view, k - 1)) /\ d[k] = Digit(At(view, k - 1))
      BY <2>8, <2>10, <3>2, Zenon
    <3> HIDE DEF d
    <3>4. PICK h : IsCount(h, d, n)
      BY <3>1, CountExists
    <3>5. Counted(view)[n] = IF h[n] <= UINT32_MAX THEN h[n] ELSE NULL
      BY <2>1, <3>1, <3>3, <3>4, CountsDigits
    <3>6. IsWeight(Weights(n), n)
      BY WeightsAre
    <3>7. IsSum(PlaceSums(cs), d, Weights(n), n)
      BY <2>6, <3>2, PlaceSumsAre
    <3>8. h[n] = PlaceSums(cs)[n]
      BY <3>2, <3>4, <3>6, <3>7, Horner
    <3>9. Number(cs) = h[n]
      BY <2>6, <3>8 DEF Number
    <3> QED
      BY <2>3, <2>7, <2>9, <2>10, <3>5, <3>9, Zenon
  <2>11. CASE ~\A k \in 1..n : IsDigit(cs[k])
    <3>1. PICK j \in 1..n : ~IsDigit(At(view, j - 1))
      BY <2>8, <2>11, Zenon
    <3>2. Counted(view)[n] = NULL
      BY <2>1, <3>1, StopsAtLetter
    <3> QED
      BY <2>3, <2>7, <2>9, <2>11, <3>2, Zenon
  <2> QED
    BY <2>10, <2>11
<1> QED
  BY <1>2, <1>3

\* sm3t__view_to_u32 returns the number a view's digits are, for rows of digits
\* of any length, and false for every other view: the check in the loop comes
\* early enough that the 64-bit value never wraps.
THEOREM NumbersAreExact == Spec => []NumberExact
BY ViewInvariant, NumberHolds, PTL

-----------------------------------------------------------------------------
(* Fields. *)

\* f joins a row of n sequences, one after the other.
IsJoin(f, ss, n, Q) ==
  f \in [0..n -> Q] /\ f[0] = <<>> /\ \A k \in 1..n : f[k] = f[k - 1] \o ss[k]

LEMMA JoinExists ==
  ASSUME NEW T, NEW n \in Nat, NEW ss \in [1..n -> Seq(T)]
  PROVE  \E f : IsJoin(f, ss, n, Seq(T))
<1>1. PICK Q : Q = Seq(T)
  OBVIOUS
<1> DEFINE G == [k \in 1..n |-> [q \in Q |-> q \o ss[k]]]
<1>2. <<>> \in Q /\ G \in [1..n -> [Q -> Q]]
  <2>1. \A q \in Q, k \in 1..n : q \o ss[k] \in Q
    BY <1>1, ConcatProperties
  <2> QED
    BY <1>1, <2>1
<1>3. PICK f : Computes(f, n, Q, <<>>, G)
  <2> HIDE DEF G
  <2> QED
    BY <1>2, Recursion, Zenon
<1>4. f \in [0..n -> Q] /\ f[0] = <<>> /\ \A k \in 1..n : f[k] = G[k][f[k - 1]]
  BY <1>3, Zenon DEF Computes
<1>5. ASSUME NEW k \in 1..n PROVE f[k] = f[k - 1] \o ss[k]
  <2>1. k - 1 \in 0..n
    OBVIOUS
  <2>2. f[k - 1] \in Q
    BY <1>4, <2>1
  <2> QED
    BY <1>4, <2>2
<1>6. IsJoin(f, ss, n, Seq(T))
  BY <1>1, <1>4, <1>5, Zenon DEF IsJoin
<1> QED
  BY <1>6

\* FlattenSeq joins.
LEMMA FlattenJoins ==
  ASSUME NEW T, NEW n \in Nat, NEW ss \in [1..n -> Seq(T)], Len(ss) = n,
         NEW f, IsJoin(f, ss, n, Seq(T))
  PROVE  FlattenSeq(ss) = f[n]
<1>1. CASE n = 0
  <2>1. ss = <<>>
    BY <1>1
  <2>2. FlattenSeq(ss) = ss
    BY <1>1, Zenon DEF FlattenSeq
  <2> QED
    BY <1>1, <2>1, <2>2 DEF IsJoin
<1>2. CASE n # 0
  <2> DEFINE Solves(g) == g = [i \in 1..n |-> IF i = 1 THEN ss[i] ELSE g[i - 1] \o ss[i]]
             e == [i \in 1..n |-> f[i]]
  <2>1. f[0] = <<>> /\ f \in [0..n -> Seq(T)]
    BY DEF IsJoin
  <2>2. \A k \in 1..n : f[k] = f[k - 1] \o ss[k]
    BY Zenon DEF IsJoin
  <2>3. f[1] = ss[1]
    <3>1. 1 \in 1..n /\ 1 - 1 = 0 /\ ss[1] \in Seq(T)
      BY <1>2
    <3>2. <<>> \o ss[1] = ss[1]
      BY <3>1, ConcatEmptySeq
    <3> QED
      BY <2>1, <2>2, <3>1, <3>2, Zenon
  <2>4. Solves(e)
    <3>1. ASSUME NEW i \in 1..n PROVE e[i] = IF i = 1 THEN ss[i] ELSE e[i - 1] \o ss[i]
      <4>1. CASE i = 1
        BY <2>3, <4>1
      <4>2. CASE i # 1
        <5>1. i - 1 \in 1..n
          BY <4>2
        <5> QED
          BY <2>2, <4>2, <5>1, Zenon
      <4> QED
        BY <4>1, <4>2
    <3> QED
      BY <3>1
  <2>5. FlattenSeq(ss) = (CHOOSE g : Solves(g))[n]
    BY <1>2 DEF FlattenSeq
  <2>6. PICK g : g = CHOOSE h : Solves(h)
    OBVIOUS
  <2>7. Solves(g)
    <3> HIDE DEF Solves, e
    <3> QED
      BY <2>4, <2>6
  <2> DEFINE S == {k \in 0..n : k = 0 \/ g[k] = f[k]}
  <2>8. 0..n \subseteq S
    <3>1. 0 \in S
      OBVIOUS
    <3>2. ASSUME NEW k \in 1..n, k - 1 \in S
          PROVE  k \in S
      <4>1. g[k] = IF k = 1 THEN ss[k] ELSE g[k - 1] \o ss[k]
        BY <2>7, Zenon
      <4>2. k \in 0..n /\ (k # 1 => k - 1 # 0)
        OBVIOUS
      <4>3. k # 1 => g[k - 1] = f[k - 1]
        BY <3>2, <4>2, Zenon
      <4>4. g[k] = f[k]
        BY <2>2, <2>3, <4>1, <4>3, Zenon
      <4> QED
        BY <4>2, <4>4, Zenon
    <3> HIDE DEF S
    <3> QED
      BY <3>1, <3>2, Induction
  <2>9. n \in S
    BY <2>8
  <2> QED
    BY <1>2, <2>5, <2>6, <2>9, Zenon
<1> QED
  BY <1>1, <1>2

LEMMA FlattenAppend ==
  ASSUME NEW T, NEW ss \in Seq(Seq(T)), NEW p \in Seq(T)
  PROVE  /\ FlattenSeq(ss) \in Seq(T)
         /\ FlattenSeq(Append(ss, p)) = FlattenSeq(ss) \o p
<1>1. PICK Q : Q = Seq(T)
  OBVIOUS
<1>2. PICK n \in Nat : n = Len(ss)
  BY LenProperties
<1>3. PICK tt : tt = Append(ss, p)
  OBVIOUS
<1>4. ss \in [1..n -> Q] /\ n + 1 \in Nat /\ Q = Seq(T)
  BY <1>1, <1>2, LenProperties
<1>5. tt \in Seq(Q) /\ Len(tt) = n + 1 /\ tt[n + 1] = p /\ \A k \in 1..n : tt[k] = ss[k]
  BY <1>1, <1>2, <1>3, AppendProperties
<1>6. tt \in [1..(n + 1) -> Q]
  BY <1>5, LenProperties
<1>7. PICK f : IsJoin(f, tt, n + 1, Q)
  BY <1>4, <1>6, JoinExists, Zenon
<1>8. f \in [0..(n + 1) -> Q] /\ f[0] = <<>> /\ \A k \in 1..(n + 1) : f[k] = f[k - 1] \o tt[k]
  BY <1>7, Zenon DEF IsJoin
<1> DEFINE e == [k \in 0..n |-> f[k]]
<1>9. IsJoin(e, ss, n, Q)
  <2>1. e \in [0..n -> Q] /\ e[0] = <<>>
    BY <1>8
  <2>2. ASSUME NEW k \in 1..n PROVE e[k] = e[k - 1] \o ss[k]
    <3>1. k \in 0..n /\ k - 1 \in 0..n /\ k \in 1..(n + 1)
      OBVIOUS
    <3> QED
      BY <1>5, <1>8, <3>1, Zenon
  <2> HIDE DEF e
  <2> QED
    BY <2>1, <2>2, Zenon DEF IsJoin
<1>10. FlattenSeq(ss) = e[n]
  <2> HIDE DEF e
  <2> QED
    BY <1>2, <1>4, <1>9, FlattenJoins, Zenon
<1>11. FlattenSeq(tt) = f[n + 1]
  BY <1>4, <1>5, <1>6, <1>7, FlattenJoins, Zenon
<1>12. n \in 0..n /\ n + 1 \in 1..(n + 1) /\ n + 1 - 1 = n /\ n \in 0..(n + 1)
  OBVIOUS
<1>13. f[n + 1] = f[n] \o p /\ e[n] = f[n] /\ f[n] \in Q
  <2>1. \A k \in 1..(n + 1) : f[k] = f[k - 1] \o tt[k]
    BY <1>8, Zenon
  <2>2. f[n + 1] = f[n] \o tt[n + 1]
    <3>1. PICK m \in 1..(n + 1) : m = n + 1 /\ m - 1 = n
      BY <1>12
    <3>2. f[m] = f[m - 1] \o tt[m]
      BY <2>1, Zenon
    <3> QED
      BY <3>1, <3>2, Zenon
  <2>3. e[n] = f[n] /\ f[n] \in Q
    BY <1>8, <1>12
  <2> QED
    BY <1>5, <1>12, <2>2, <2>3, Zenon
<1> QED
  BY <1>3, <1>4, <1>10, <1>11, <1>13, Zenon

\* A copy of a view is its part of the text, also when nothing is in it.
LEMMA CopyIs ==
  ASSUME text \in Seq(STRING), NEW a \in Nat, NEW l \in Nat, a + l <= Len(text)
  PROVE  ToCstr(View(a, l)) = SubSeq(text, a + 1, a + l)
<1>1. View(a, l).data = a /\ View(a, l).len = l /\ a + 0 + 1 = a + 1 /\ a + 0 + l = a + l
  BY ViewFields
<1>2. CASE l = 0
  <2>1. ToCstr(View(a, l)) = <<>>
    BY <1>1, <1>2 DEF ToCstr, Empty
  <2>2. SubSeq(text, a + 1, a + l) = <<>>
    BY <1>2, SubSeqEmpty
  <2> QED
    BY <2>1, <2>2
<1>3. CASE l # 0
  <2>1. ~Empty(View(a, l))
    BY <1>1, <1>3 DEF Empty, NULL
  <2> QED
    BY <1>1, <2>1, Zenon DEF ToCstr, Chars
<1> QED
  BY <1>2, <1>3

\* The piece of the text that a split takes off.
Piece(r) == r.chars \o (IF r.found THEN <<Delim>> ELSE <<>>)

\* A split cuts a view into its two parts and the delimiter.
LEMMA SplitJoins ==
  ASSUME text \in Seq(STRING), NEW v, Inside(v, Len(text)), v.data # NULL,
         NEW parts, parts = Split(v, Delim),
         NEW r, r = [chars |-> ToCstr(parts.left), found |-> parts.found]
  PROVE  Piece(r) \in Seq(STRING) /\ Piece(r) \o ToCstr(parts.right) = ToCstr(v)
<1> DEFINE idx == FindChar(v, Delim, 0)
<1>1. PICK a, l \in Nat : v = View(a, l) /\ a + l <= Len(text) /\ v.data = a /\ v.len = l
  <2>1. Len(text) \in Nat
    BY LenProperties
  <2> QED
    BY <2>1, InsideData
<1>2. ToCstr(v) = SubSeq(text, a + 1, a + l)
  BY <1>1, CopyIs
<1>3. ToCstr(v) \in Seq(STRING)
  <2>1. \A k \in (a + 1)..(a + l) : text[k] \in STRING
    BY <1>1
  <2> QED
    BY <1>2, <2>1, SubSeqProperties
<1>4. ToCstr(Null) = <<>>
  BY ViewFields DEF ToCstr, Empty
<1>5. CASE idx = SM3T_NOT_FOUND
  <2>1. parts.left = v /\ parts.right = Null /\ parts.found = FALSE
    BY <1>5 DEF Split
  <2>2. Piece(r) = ToCstr(v) \o <<>>
    BY <2>1, Zenon DEF Piece
  <2> QED
    BY <1>3, <1>4, <2>1, <2>2, ConcatEmptySeq
<1>6. CASE idx # SM3T_NOT_FOUND
  <2>1. PICK x \in 0..(l - 1) : x = idx
    BY <1>1, <1>6, FindCharRange DEF SM3T_NOT_FOUND
  <2>2. text[a + x + 1] = Delim
    <3> DEFINE S == {k \in 0..(v.len - 1) : At(v, k) = Delim}
    <3>1. S \subseteq Nat
      BY <1>1
    <3>2. idx = FirstOf(S)
      BY <1>6, Zenon DEF FindChar
    <3>3. FirstOf(S) = -1 \/ FirstOf(S) \in S
      BY <3>1, FirstOfLeast
    <3>4. x \in S
      BY <1>6, <2>1, <3>2, <3>3, Zenon DEF SM3T_NOT_FOUND
    <3> QED
      BY <1>1, <3>4 DEF At
  <2>3. /\ parts.found = TRUE
        /\ parts.left = View(a, x)
        /\ parts.right = IF x + 1 >= l THEN Null ELSE View(a + x + 1, l - (x + 1))
    BY <1>1, <1>6, <2>1, Zenon DEF Split
  <2>4. ToCstr(parts.left) = SubSeq(text, a + 1, a + x)
    <3>1. x \in Nat /\ a + x <= Len(text)
      BY <1>1
    <3>2. ToCstr(View(a, x)) = SubSeq(text, a + 1, a + x)
      BY <3>1, CopyIs
    <3> QED
      BY <2>3, <3>2, Zenon
  <2>5. ToCstr(parts.right) = SubSeq(text, a + x + 1 + 1, a + l)
    <3>1. CASE x + 1 >= l
      <4>1. SubSeq(text, a + x + 1 + 1, a + l) = <<>>
        BY <1>1, <2>1, <3>1, SubSeqEmpty
      <4> QED
        BY <1>4, <2>3, <3>1, <4>1
    <3>2. CASE ~(x + 1 >= l)
      <4>1. l - (x + 1) \in Nat /\ a + x + 1 \in Nat /\ a + x + 1 + (l - (x + 1)) = a + l
        BY <1>1, <3>2
      <4> QED
        BY <1>1, <2>3, <3>2, <4>1, CopyIs
    <3> QED
      BY <3>1, <3>2
  <2>6. a + x + 1 \in 1..Len(text) /\ text[a + x + 1] \in STRING
    BY <1>1, <2>1
  <2>7. <<Delim>> = SubSeq(text, a + x + 1, a + x + 1)
    BY <2>2, <2>6
  <2>8. Piece(r) = SubSeq(text, a + 1, a + x) \o SubSeq(text, a + x + 1, a + x + 1)
    BY <2>3, <2>4, <2>7, Zenon DEF Piece
  <2>9. Piece(r) = SubSeq(text, a + 1, a + x + 1)
    <3>1. a + 1 \in 1..(Len(text) + 1) /\ a + x \in (a + 1 - 1)..Len(text) /\ a + x + 1 \in (a + x)..Len(text)
      BY <1>1
    <3> QED
      BY <2>8, <3>1, ConcatAdjacentSubSeq
  <2>10. SubSeq(text, a + 1, a + x + 1) \o SubSeq(text, a + x + 1 + 1, a + l) = SubSeq(text, a + 1, a + l)
    <3>1. /\ a + 1 \in 1..(Len(text) + 1) /\ a + x + 1 \in (a + 1 - 1)..Len(text)
          /\ a + l \in (a + x + 1)..Len(text)
      BY <1>1
    <3> QED
      BY <3>1, ConcatAdjacentSubSeq
  <2>11. Piece(r) \in Seq(STRING)
    <3>1. a + 1 \in Int /\ a + x + 1 \in Int /\ \A k \in (a + 1)..(a + x + 1) : text[k] \in STRING
      BY <1>1
    <3>2. SubSeq(text, a + 1, a + x + 1) \in Seq(STRING)
      BY <3>1, SubSeqProperties, Zenon
    <3> QED
      BY <2>9, <3>2
  <2> QED
    BY <1>2, <2>5, <2>9, <2>10, <2>11, Zenon
<1> QED
  BY <1>5, <1>6

Pieces == [k \in DOMAIN fields |-> Piece(fields[k])]

\* Between two splits: the pieces are characters and join up with the rest.
JoinInv ==
  /\ Pieces \in Seq(Seq(STRING))
  /\ split => FlattenSeq(Pieces) \o ToCstr(view) = text

LEMMA JoinInit == Init => JoinInv
<1> SUFFICES ASSUME Init PROVE JoinInv
  OBVIOUS
<1>1. text \in Seq(STRING) /\ Len(text) \in Nat
  BY ViewsAssumption DEF Init
<1>2. Pieces = <<>>
  BY DEF Init, Pieces
<1>3. FlattenSeq(<<>>) = <<>>
  BY DEF FlattenSeq
<1>4. ToCstr(view) = SubSeq(text, 0 + 1, 0 + Len(text))
  BY <1>1, CopyIs DEF Init, ViewCstr
<1>5. SubSeq(text, 1, Len(text)) = text
  BY <1>1, SubSeqFull
<1>6. <<>> \o text = text
  BY <1>1, ConcatEmptySeq
<1>7. 0 + 1 = 1 /\ 0 + Len(text) = Len(text)
  BY <1>1
<1>8. FlattenSeq(Pieces) \o ToCstr(view) = text
  BY <1>2, <1>3, <1>4, <1>5, <1>6, <1>7, Zenon
<1> QED
  BY <1>2, <1>8 DEF JoinInv

LEMMA JoinStep == ViewInv /\ JoinInv /\ [Next]_vars => JoinInv'
<1> SUFFICES ASSUME ViewInv, JoinInv, [Next]_vars PROVE JoinInv'
  OBVIOUS
<1>1. ASSUME NEW v, Cut(v) PROVE JoinInv'
  BY <1>1 DEF JoinInv, Pieces, Cut, Piece
<1>2. CASE SliceView
  BY <1>1, <1>2 DEF SliceView
<1>3. CASE SkipView
  BY <1>1, <1>3 DEF SkipView
<1>4. CASE TrimView
  BY <1>1, <1>4 DEF TrimView
<1>5. CASE SplitView
  <2>1. PICK parts : parts = Split(view, Delim)
    OBVIOUS
  <2>2. PICK r : r = [chars |-> ToCstr(parts.left), found |-> parts.found]
    OBVIOUS
  <2>3. /\ split /\ view.data # NULL
        /\ view' = parts.right /\ fields' = Append(fields, r)
        /\ text' = text /\ split' = split
    BY <1>5, <2>1, <2>2, Zenon DEF SplitView
  <2>4. text \in Seq(STRING) /\ Inside(view, Len(text))
    BY DEF ViewInv
  <2>5. Piece(r) \in Seq(STRING) /\ Piece(r) \o ToCstr(parts.right) = ToCstr(view)
    BY <2>1, <2>2, <2>3, <2>4, SplitJoins
  <2>6. Pieces \in Seq(Seq(STRING)) /\ FlattenSeq(Pieces) \o ToCstr(view) = text
    BY <2>3 DEF JoinInv
  <2>7. Pieces' = Append(Pieces, Piece(r))
    <3>1. PICK F : fields \in Seq(F)
      BY DEF ViewInv
    <3>2. fields \in Seq(F \cup {r})
      BY <3>1, SeqMonotonic
    <3>3. DOMAIN fields = 1..Len(fields) /\ Len(fields) \in Nat
      BY <3>1, LenProperties
    <3>4. /\ fields' \in Seq(F \cup {r}) /\ Len(fields') = Len(fields) + 1
          /\ \A k \in 1..Len(fields) : fields'[k] = fields[k]
          /\ fields'[Len(fields) + 1] = r
      BY <2>3, <3>2, AppendProperties
    <3>5. DOMAIN fields' = 1..(Len(fields) + 1)
      BY <3>4, LenProperties
    <3>6. Pieces' = [k \in 1..(Len(fields) + 1) |-> Piece(fields'[k])]
      BY <3>5 DEF Pieces, Piece
    <3>7. Pieces = [k \in 1..Len(fields) |-> Piece(fields[k])]
      BY <3>3 DEF Pieces
    <3>8. Len(Pieces) = Len(fields)
      BY <3>3, <3>7
    <3> DEFINE A == Append(Pieces, Piece(r))
    <3>9. /\ A \in Seq(Seq(STRING)) /\ Len(A) = Len(fields) + 1
          /\ \A k \in 1..Len(fields) : A[k] = Pieces[k]
          /\ A[Len(fields) + 1] = Piece(r)
      BY <2>5, <2>6, <3>8, AppendProperties
    <3>10. A = [k \in 1..(Len(fields) + 1) |-> A[k]]
      <4>1. PICK B : B = A
        OBVIOUS
      <4> HIDE DEF A
      <4>2. B \in [1..(Len(fields) + 1) -> Seq(STRING)]
        BY <3>9, <4>1, LenProperties
      <4>3. B = [k \in 1..(Len(fields) + 1) |-> B[k]]
        BY <4>2
      <4> QED
        BY <4>1, <4>3
    <3> HIDE DEF A
    <3>11. \A k \in 1..(Len(fields) + 1) : k \in 1..Len(fields) \/ k = Len(fields) + 1
      BY <3>3
    <3>12. \A k \in 1..(Len(fields) + 1) : A[k] = Piece(fields'[k])
      BY <3>4, <3>7, <3>9, <3>11, Zenon
    <3>13. A = Pieces'
      BY <3>6, <3>10, <3>12, Zenon
    <3> QED
      BY <3>13 DEF A
  <2>8. FlattenSeq(Pieces) \in Seq(STRING) /\ FlattenSeq(Pieces') = FlattenSeq(Pieces) \o Piece(r)
    BY <2>5, <2>6, <2>7, FlattenAppend
  <2>9. Pieces' \in Seq(Seq(STRING))
    BY <2>5, <2>6, <2>7, AppendProperties
  <2>10. ToCstr(parts.right) \in Seq(STRING)
    <3>1. Len(text) \in Nat
      BY <2>4, LenProperties
    <3>2. Inside(parts.right, Len(text))
      BY <2>1, <2>4, <3>1, SplitInside
    <3>3. ToCstr(parts.right) \in Seq(Range(text))
      BY <2>4, <3>2, CopyOfText
    <3>4. Range(text) \subseteq STRING
      BY <2>4 DEF Range
    <3> QED
      BY <3>3, <3>4, SeqMonotonic
  <2>11. (FlattenSeq(Pieces) \o Piece(r)) \o ToCstr(parts.right) = text
    <3>1. (FlattenSeq(Pieces) \o Piece(r)) \o ToCstr(parts.right)
            = FlattenSeq(Pieces) \o (Piece(r) \o ToCstr(parts.right))
      <4>1. PICK s \in Seq(STRING), t \in Seq(STRING), u \in Seq(STRING) :
              s = FlattenSeq(Pieces) /\ t = Piece(r) /\ u = ToCstr(parts.right)
        BY <2>5, <2>8, <2>10, Zenon
      <4>2. (s \o t) \o u = s \o (t \o u)
        BY ConcatAssociative
      <4> QED
        BY <4>1, <4>2, Zenon
    <3> QED
      BY <2>5, <2>6, <3>1, Zenon
  <2>12. ToCstr(view)' = ToCstr(parts.right)
    BY <2>3 DEF ToCstr, Chars, Empty
  <2>13. FlattenSeq(Pieces)' = FlattenSeq(Pieces')
    BY DEF FlattenSeq
  <2>14. (FlattenSeq(Pieces) \o ToCstr(view))' = text'
    BY <2>3, <2>8, <2>11, <2>12, <2>13, Zenon
  <2> QED
    BY <2>9, <2>14 DEF JoinInv
<1>6. CASE UNCHANGED vars
  BY <1>6 DEF JoinInv, Pieces, Piece, vars, ToCstr, Chars, Empty
<1> QED
  BY <1>2, <1>3, <1>4, <1>5, <1>6 DEF Next

LEMMA JoinHolds == ASSUME JoinInv PROVE FieldsJoin
<1>1. Pieces = [k \in DOMAIN fields |->
                  fields[k].chars \o (IF fields[k].found THEN <<Delim>> ELSE <<>>)]
  BY DEF Pieces, Piece
<1> QED
  BY <1>1, Zenon DEF JoinInv, FieldsJoin

\* However often a text is split at its delimiters, the fields, each with the
\* delimiter behind it, and what is left are the text: sm3t__view_split neither
\* loses nor repeats a character.
THEOREM FieldsAreTheText == Spec => []FieldsJoin
<1>1. Init => JoinInv
  BY JoinInit
<1>2. ViewInv /\ JoinInv /\ [Next]_vars => JoinInv'
  BY JoinStep
<1>3. JoinInv => FieldsJoin
  BY JoinHolds
<1> QED
  BY <1>1, <1>2, <1>3, ViewInvariant, PTL DEF Spec

=============================================================================
