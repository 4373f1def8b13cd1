-------------------------- MODULE TextLinesProofs --------------------------
(***************************************************************************)
(* Theorems about the keys of the two editors, for every alphabet and every*)
(* limit on lines and files: no key leaves the arrays, and Backspace takes *)
(* back what was just typed.                                               *)
(***************************************************************************)
EXTENDS TextLines, SequenceTheorems, WellFoundedInduction, TLAPS

-----------------------------------------------------------------------------
(* Pieces of sequences.                                                    *)

\* A part of a sequence.
LEMMA Part ==
  ASSUME NEW S, NEW s \in Seq(S), NEW m \in Nat \ {0}, NEW n \in 0..Len(s)
  PROVE  /\ SubSeq(s, m, n) \in Seq(S)
         /\ Len(SubSeq(s, m, n)) = IF m <= n THEN n - m + 1 ELSE 0
         /\ \A i \in 1..n - m + 1 : SubSeq(s, m, n)[i] = s[m + i - 1]
<1>1. m \in Int /\ n \in Int /\ Len(s) \in Nat
  BY LenProperties
<1>2. \A i \in m..n : s[i] \in S
  BY <1>1, ElementOfSeq
<1>. QED BY <1>1, <1>2, SubSeqProperties

\* A sequence of one element.
LEMMA One ==
  ASSUME NEW S, NEW e \in S
  PROVE  <<e>> \in Seq(S) /\ Len(<<e>>) = 1 /\ <<e>>[1] = e
  OBVIOUS

\* A search from below finds the first match.
LEMMA FirstMatch ==
  ASSUME NEW T, T \subseteq Nat, T # {}
  PROVE  \E x \in T : \A y \in T : x <= y
<1>. DEFINE R == OpToRel(<, Nat)
<1>1. IsWellFoundedOn(R, Nat)
  BY NatLessThanWellFounded
<1>2. \A x, y \in Nat : x < y => <<x, y>> \in R
  BY DEF OpToRel
<1>. HIDE DEF R
<1>3. PICK x \in T : \A y \in T : <<y, x>> \notin R
  BY <1>1, WFMin
<1>4. \A y \in T : x <= y
  <2>. TAKE y \in T
  <2>1. x \in Nat /\ y \in Nat /\ ~(y < x)
    BY <1>2, <1>3
  <2>. QED BY <2>1
<1>. QED BY <1>4

\* Induction up to a number.
LEMMA Steps ==
  ASSUME NEW b \in Nat, NEW T, 0 \in T, \A n \in 0..b - 1 : n \in T => n + 1 \in T
  PROVE  b \in T
<1>. DEFINE U == {n \in 0..b : n \notin T}
<1>. SUFFICES ASSUME U # {} PROVE FALSE
  OBVIOUS
<1>1. PICK u \in U : \A t \in U : u <= t
  <2>1. U \subseteq Nat
    OBVIOUS
  <2>. HIDE DEF U
  <2>. QED BY <2>1, FirstMatch
<1>2. u # 0 /\ u - 1 \in 0..b - 1 /\ u - 1 \notin U
  BY <1>1
<1>. QED BY <1>1, <1>2

Spliced(s, p, m, q) == SubSeq(s, 1, p) \o m \o SubSeq(s, q, Len(s))
Without(s, p) == SubSeq(s, 1, p) \o SubSeq(s, p + 2, Len(s))

\* Where the elements of the old sequence and of the new part are in the new one.
Replaces(t, s, p, m, q) ==
  /\ \A i \in 1..p : t[i] = s[i]
  /\ \A i \in 1..Len(m) : t[p + i] = m[i]
  /\ \A i \in q..Len(s) : t[p + Len(m) + i + 1 - q] = s[i]

\* A sequence with the elements p + 1 .. q - 1 replaced by those of m.
LEMMA Splicing ==
  ASSUME NEW S, NEW s \in Seq(S), NEW m \in Seq(S),
         NEW p \in 0..Len(s), NEW q \in p + 1..Len(s) + 1
  PROVE  /\ Spliced(s, p, m, q) \in Seq(S)
         /\ Len(Spliced(s, p, m, q)) = p + Len(m) + Len(s) + 1 - q
         /\ Replaces(Spliced(s, p, m, q), s, p, m, q)
<1>. DEFINE n == Len(s)
            k == Len(m)
            a == SubSeq(s, 1, p)
            b == SubSeq(s, q, Len(s))
            am == a \o m
            t == Spliced(s, p, m, q)
<1>1. n \in Nat /\ k \in Nat /\ p \in Nat /\ p <= n /\ q \in Nat \ {0} /\ p < q /\ q <= n + 1
  BY LenProperties
<1>2. a \in Seq(S) /\ Len(a) = p /\ \A i \in 1..p : a[i] = s[i]
  BY <1>1, Part
<1>3. /\ b \in Seq(S) /\ Len(b) = n + 1 - q
      /\ \A i \in 1..n + 1 - q : b[i] = s[q + i - 1]
  BY <1>1, Part
<1>. HIDE DEF a, b
<1>4. /\ am \in Seq(S) /\ Len(am) = p + k
      /\ \A i \in 1..p + k : am[i] = IF i <= p THEN a[i] ELSE m[i - p]
  BY <1>1, <1>2, ConcatProperties
<1>. HIDE DEF am
<1>5. /\ t \in Seq(S) /\ Len(t) = p + k + (n + 1 - q)
      /\ \A i \in 1..p + k + (n + 1 - q) :
           t[i] = IF i <= p + k THEN am[i] ELSE b[i - (p + k)]
  <2>1. t = am \o b
    BY DEF am, a, b, Spliced
  <2>2. /\ am \o b \in Seq(S) /\ Len(am \o b) = Len(am) + Len(b)
        /\ \A i \in 1..Len(am) + Len(b) :
             (am \o b)[i] = IF i <= Len(am) THEN am[i] ELSE b[i - Len(am)]
    BY <1>3, <1>4, ConcatProperties
  <2>. HIDE DEF t, n, k
  <2>. QED BY <1>3, <1>4, <2>1, <2>2
<1>. HIDE DEF t, n, k
<1>6. \A i \in 1..p : t[i] = s[i]
  <2>. TAKE i \in 1..p
  <2>1. t[i] = am[i] /\ am[i] = a[i]
    BY <1>1, <1>4, <1>5
  <2>. QED BY <1>2, <2>1
<1>7. \A i \in 1..k : t[p + i] = m[i]
  <2>. TAKE i \in 1..k
  <2>1. t[p + i] = am[p + i]
    BY <1>1, <1>5
  <2>2. am[p + i] = m[(p + i) - p] /\ (p + i) - p = i
    BY <1>1, <1>4
  <2>. QED BY <2>1, <2>2
<1>8. \A i \in q..n : t[p + k + i + 1 - q] = s[i]
  <2>. TAKE i \in q..n
  <2>. DEFINE j == i + 1 - q
  <2>1. j \in 1..n + 1 - q /\ q + j - 1 = i /\ p + k + i + 1 - q = p + k + j
    BY <1>1
  <2>. HIDE DEF j
  <2>2. t[p + k + j] = b[(p + k + j) - (p + k)] /\ (p + k + j) - (p + k) = j
    BY <1>1, <1>5, <2>1
  <2>. QED BY <1>3, <2>1, <2>2
<1>9. p + k + (n + 1 - q) = p + k + n + 1 - q
  BY <1>1
<1>10. Replaces(t, s, p, m, q)
  BY <1>6, <1>7, <1>8 DEF Replaces, n, k
<1>. QED BY <1>5, <1>9, <1>10 DEF t, n, k

\* A sequence without its element p + 1.
LEMMA Dropped ==
  ASSUME NEW S, NEW s \in Seq(S), NEW p \in 0..Len(s) - 1
  PROVE  /\ Without(s, p) \in Seq(S) /\ Len(Without(s, p)) = Len(s) - 1
         /\ \A i \in 1..p : Without(s, p)[i] = s[i]
         /\ \A i \in p + 1..Len(s) - 1 : Without(s, p)[i] = s[i + 1]
<1>. DEFINE n == Len(s)
            a == SubSeq(s, 1, p)
            b == SubSeq(s, p + 2, Len(s))
            t == Without(s, p)
<1>1. n \in Nat /\ p \in Nat /\ p < n
  BY LenProperties
<1>2. a \in Seq(S) /\ Len(a) = p /\ \A i \in 1..p : a[i] = s[i]
  BY <1>1, Part
<1>3. /\ b \in Seq(S) /\ Len(b) = n - p - 1
      /\ \A i \in 1..n - p - 1 : b[i] = s[p + 1 + i]
  BY <1>1, Part
<1>. HIDE DEF a, b
<1>4. /\ t \in Seq(S) /\ Len(t) = n - 1
      /\ \A i \in 1..n - 1 : t[i] = IF i <= p THEN a[i] ELSE b[i - p]
  <2>1. t = a \o b
    BY DEF a, b, Without
  <2>2. /\ a \o b \in Seq(S) /\ Len(a \o b) = Len(a) + Len(b)
        /\ \A i \in 1..Len(a) + Len(b) :
             (a \o b)[i] = IF i <= Len(a) THEN a[i] ELSE b[i - Len(a)]
    BY <1>2, <1>3, ConcatProperties
  <2>3. Len(a) + Len(b) = n - 1
    BY <1>1, <1>2, <1>3
  <2>. HIDE DEF t, n
  <2>. QED BY <1>2, <2>1, <2>2, <2>3
<1>. HIDE DEF t, n
<1>5. \A i \in p + 1..n - 1 : t[i] = s[i + 1]
  <2>. TAKE i \in p + 1..n - 1
  <2>1. t[i] = b[i - p]
    BY <1>1, <1>4
  <2>2. i - p \in 1..n - p - 1 /\ p + 1 + (i - p) = i + 1
    BY <1>1
  <2>. QED BY <1>3, <2>1, <2>2
<1>6. \A i \in 1..p : t[i] = s[i]
  BY <1>1, <1>2, <1>4
<1>. QED BY <1>4, <1>5, <1>6 DEF t, n

-----------------------------------------------------------------------------
(* Lines and texts stay within their arrays.                               *)

LEMMA LineFacts ==
  ASSUME NEW l \in Line
  PROVE  l \in Seq(Chars) /\ Len(l) \in Nat /\ Len(l) < EDIT_LINE_MAX
  BY LenProperties DEF Line

LEMMA TextFacts ==
  ASSUME NEW t \in Text
  PROVE  /\ t \in Seq(Line) /\ Len(t) \in Nat /\ Len(t) >= 1 /\ Len(t) <= EDIT_LINES_MAX
         /\ \A y \in 1..Len(t) : t[y] \in Line
<1>1. t \in Seq(Line) /\ Len(t) \in 1..EDIT_LINES_MAX
  BY DEF Text
<1>2. Len(t) \in Nat /\ \A y \in 1..Len(t) : t[y] \in Line
  BY <1>1, LenProperties, ElementOfSeq
<1>. QED BY <1>1, <1>2, LimitsAssumption

\* What is needed of an edit whose cursor is on its text.
LEMMA EditFacts ==
  ASSUME NEW e \in Edit, OnText(e)
  PROVE  /\ e.text \in Text /\ e.cy \in Nat /\ e.cx \in Nat
         /\ e.cy + 1 \in 1..Len(e.text)
         /\ LineAt(e) \in Line
         /\ e.cx \in 0..Len(LineAt(e))
<1>1. e.text \in Text /\ e.cy \in Nat /\ e.cx \in Nat
  BY DEF Edit
<1>2. e.cy + 1 \in 1..Len(e.text)
  BY <1>1, TextFacts DEF OnText
<1>3. LineAt(e) \in Line
  BY <1>1, <1>2, TextFacts DEF LineAt
<1>. QED BY <1>1, <1>2, <1>3, LineFacts DEF OnText, LineAt

\* A character goes into a line that has room for it.
LEMMA CharInserted ==
  ASSUME NEW l \in Line, NEW pos \in 0..Len(l), NEW c \in Chars
  PROVE  WithChar(l, pos, c) \in Line
<1>. DEFINE t == Spliced(l, pos, <<c>>, pos + 1)
<1>1. l \in Seq(Chars) /\ Len(l) \in Nat /\ Len(l) < EDIT_LINE_MAX
  BY LineFacts
<1>2. <<c>> \in Seq(Chars) /\ Len(<<c>>) = 1
  BY One
<1>3. pos + 1 \in pos + 1..Len(l) + 1
  BY <1>1
<1>4. t \in Seq(Chars) /\ Len(t) = pos + Len(<<c>>) + Len(l) + 1 - (pos + 1)
  BY <1>1, <1>2, <1>3, Splicing
<1>. HIDE DEF t
<1>5. Len(t) = Len(l) + 1
  BY <1>1, <1>2, <1>4
<1>6. CASE Len(l) >= EDIT_LINE_MAX - 1
  BY <1>6 DEF WithChar
<1>7. CASE ~(Len(l) >= EDIT_LINE_MAX - 1)
  <2>1. WithChar(l, pos, c) = t
    BY <1>7 DEF WithChar, t, Spliced
  <2>2. Len(t) < EDIT_LINE_MAX
    BY <1>1, <1>5, <1>7, LimitsAssumption
  <2>. QED BY <1>4, <2>1, <2>2 DEF Line
<1>. QED BY <1>6, <1>7

\* A character is taken out of a line.
LEMMA CharDeleted ==
  ASSUME NEW l \in Line, NEW pos \in 0..Len(l) - 1
  PROVE  WithoutChar(l, pos) \in Line /\ Len(WithoutChar(l, pos)) = Len(l) - 1
<1>1. l \in Seq(Chars) /\ Len(l) \in Nat /\ Len(l) < EDIT_LINE_MAX
  BY LineFacts
<1>2. WithoutChar(l, pos) = Without(l, pos)
  BY DEF WithoutChar, Without
<1>3. Without(l, pos) \in Seq(Chars) /\ Len(Without(l, pos)) = Len(l) - 1
  BY <1>1, Dropped
<1>4. Len(l) - 1 < EDIT_LINE_MAX
  BY <1>1, LimitsAssumption
<1>. QED BY <1>2, <1>3, <1>4 DEF Line

\* Both halves of a line are lines.
LEMMA HalfLines ==
  ASSUME NEW l \in Line, NEW cx \in 0..Len(l)
  PROVE  /\ SubSeq(l, 1, cx) \in Line /\ Len(SubSeq(l, 1, cx)) = cx
         /\ SubSeq(l, cx + 1, Len(l)) \in Line
         /\ Len(SubSeq(l, cx + 1, Len(l))) = Len(l) - cx
<1>1. l \in Seq(Chars) /\ Len(l) \in Nat /\ Len(l) < EDIT_LINE_MAX
  BY LineFacts
<1>2. SubSeq(l, 1, cx) \in Seq(Chars) /\ Len(SubSeq(l, 1, cx)) = cx
  BY <1>1, Part
<1>3. /\ SubSeq(l, cx + 1, Len(l)) \in Seq(Chars)
      /\ Len(SubSeq(l, cx + 1, Len(l))) = Len(l) - cx
  BY <1>1, Part
<1>4. cx < EDIT_LINE_MAX /\ Len(l) - cx < EDIT_LINE_MAX
  BY <1>1, LimitsAssumption
<1>. QED BY <1>2, <1>3, <1>4 DEF Line

\* A text with one of its lines exchanged.
LEMMA LineExchanged ==
  ASSUME NEW e \in Edit, OnText(e), NEW l \in Line
  PROVE  /\ WithLine(e, l) \in Edit
         /\ WithLine(e, l).cy = e.cy /\ WithLine(e, l).cx = e.cx
         /\ Len(WithLine(e, l).text) = Len(e.text)
         /\ WithLine(e, l).text = [e.text EXCEPT ![e.cy + 1] = l]
<1>. DEFINE t == [e.text EXCEPT ![e.cy + 1] = l]
<1>1. e.text \in Text /\ e.cy + 1 \in 1..Len(e.text)
  BY EditFacts
<1>2. t \in Seq(Line) /\ Len(t) = Len(e.text)
  BY <1>1, TextFacts, ExceptSeq
<1>3. t \in Text
  BY <1>1, <1>2 DEF Text
<1>4. WithLine(e, l) = [e EXCEPT !.text = t, !.dirty = TRUE]
  BY DEF WithLine, Edit
<1>. QED BY <1>2, <1>3, <1>4 DEF Edit

\* Two lines that fit into one.
LEMMA LinesJoined ==
  ASSUME NEW t \in Text, NEW y \in 0..Len(t) - 2, Joins(t, y)
  PROVE  Join(t, y) \in Text /\ Len(Join(t, y)) = Len(t) - 1
<1>. DEFINE l == t[y + 1] \o t[y + 2]
            m == <<l>>
            j == Spliced(t, y, m, y + 3)
<1>1. /\ t \in Seq(Line) /\ Len(t) \in Nat /\ Len(t) <= EDIT_LINES_MAX
      /\ y + 1 \in 1..Len(t) /\ y + 2 \in 1..Len(t) /\ y + 3 \in y + 1..Len(t) + 1
      /\ y \in 0..Len(t) /\ Len(t) - 1 \in 1..EDIT_LINES_MAX
  BY TextFacts, LimitsAssumption
<1>2. t[y + 1] \in Line /\ t[y + 2] \in Line
  BY <1>1, TextFacts
<1>3. l \in Line
  <2>1. t[y + 1] \in Seq(Chars) /\ t[y + 2] \in Seq(Chars)
    BY <1>2, LineFacts
  <2>2. l \in Seq(Chars) /\ Len(l) = Len(t[y + 1]) + Len(t[y + 2])
    BY <2>1, ConcatProperties
  <2>. QED BY <2>2 DEF Joins, Line
<1>. HIDE DEF l
<1>4. m \in Seq(Line) /\ Len(m) = 1
  BY <1>3, One
<1>5. Join(t, y) = j
  BY DEF Join, Spliced, l
<1>. HIDE DEF m
<1>. HIDE DEF j
<1>6. j \in Seq(Line) /\ Len(j) = y + Len(m) + Len(t) + 1 - (y + 3)
  <2>. DEFINE q == y + 3
  <2>1. t \in Seq(Line) /\ m \in Seq(Line) /\ y \in 0..Len(t) /\ q \in y + 1..Len(t) + 1
    BY <1>1, <1>4
  <2>. HIDE DEF q
  <2>2. /\ Spliced(t, y, m, q) \in Seq(Line)
        /\ Len(Spliced(t, y, m, q)) = y + Len(m) + Len(t) + 1 - q
    BY <2>1, Splicing
  <2>. QED BY <2>2 DEF j, q
<1>7. Len(j) = Len(t) - 1
  BY <1>1, <1>4, <1>6
<1>. QED BY <1>1, <1>5, <1>6, <1>7 DEF Text

\* A line cut in two.
LEMMA LineSplit ==
  ASSUME NEW e \in Edit, OnText(e), Len(e.text) < EDIT_LINES_MAX
  PROVE  Split(e).text \in Text /\ Len(Split(e).text) = Len(e.text) + 1
<1>. DEFINE h == SubSeq(LineAt(e), 1, e.cx)
            r == SubSeq(LineAt(e), e.cx + 1, Len(LineAt(e)))
            m == <<h, r>>
            t == Spliced(e.text, e.cy, m, e.cy + 2)
<1>1. e.text \in Text /\ LineAt(e) \in Line /\ e.cx \in 0..Len(LineAt(e))
  BY EditFacts
<1>2. h \in Line /\ r \in Line
  BY <1>1, HalfLines
<1>3. /\ e.text \in Seq(Line) /\ Len(e.text) \in Nat /\ e.cy \in 0..Len(e.text)
      /\ e.cy + 2 \in e.cy + 1..Len(e.text) + 1 /\ e.cy \in Nat
      /\ Len(e.text) + 1 \in 1..EDIT_LINES_MAX
  BY EditFacts, TextFacts, LimitsAssumption
<1>4. Split(e).text = t
  BY DEF Split, Spliced
<1>. HIDE DEF h, r
<1>5. m \in Seq(Line) /\ Len(m) = 2
  BY <1>2
<1>. HIDE DEF m
<1>. HIDE DEF t
<1>6. t \in Seq(Line) /\ Len(t) = e.cy + Len(m) + Len(e.text) + 1 - (e.cy + 2)
  <2>. DEFINE x == e.text
              y == e.cy
              q == e.cy + 2
  <2>1. x \in Seq(Line) /\ m \in Seq(Line) /\ y \in 0..Len(x) /\ q \in y + 1..Len(x) + 1
    BY <1>3, <1>5
  <2>. HIDE DEF x, y, q
  <2>2. /\ Spliced(x, y, m, q) \in Seq(Line)
        /\ Len(Spliced(x, y, m, q)) = y + Len(m) + Len(x) + 1 - q
    BY <2>1, Splicing
  <2>. QED BY <2>2 DEF t, q, x, y
<1>7. Len(t) = Len(e.text) + 1
  BY <1>3, <1>5, <1>6
<1>. QED BY <1>3, <1>4, <1>6, <1>7 DEF Text

-----------------------------------------------------------------------------
(* What the keys do.                                                       *)

\* An edit by its fields.
LEMMA EditFields ==
  ASSUME NEW e \in Edit
  PROVE  e = [text |-> e.text, cy |-> e.cy, cx |-> e.cx, dirty |-> e.dirty]
  BY DEF Edit

\* The cursor is put back on whatever text is under it.
LEMMA Clamped ==
  ASSUME NEW e \in Edit
  PROVE  /\ Clamp(e) \in Edit /\ OnText(Clamp(e))
         /\ Clamp(e).text = e.text /\ Clamp(e).dirty = e.dirty
<1>. DEFINE cy == AtMost(e.cy, Len(e.text) - 1)
            cx == AtMost(e.cx, Len(e.text[cy + 1]))
<1>1. e.text \in Text /\ e.cy \in Nat /\ e.cx \in Nat
  BY DEF Edit
<1>2. Len(e.text) \in Nat /\ Len(e.text) >= 1
  BY <1>1, TextFacts
<1>3. cy \in Nat /\ cy < Len(e.text) /\ cy + 1 \in 1..Len(e.text)
  BY <1>1, <1>2 DEF AtMost
<1>4. Len(e.text[cy + 1]) \in Nat
  BY <1>1, <1>3, TextFacts, LineFacts
<1>5. cx \in Nat /\ cx <= Len(e.text[cy + 1])
  BY <1>1, <1>4 DEF AtMost
<1>6. Clamp(e) = [e EXCEPT !.cy = cy, !.cx = cx]
  BY DEF Clamp, Edit
<1>. HIDE DEF cy, cx
<1>. QED BY <1>1, <1>3, <1>5, <1>6 DEF Edit, OnText

\* A cursor that is on the text stays where it is.
LEMMA ClampedOnText ==
  ASSUME NEW e \in Edit, OnText(e)
  PROVE  Clamp(e) = e
<1>1. AtMost(e.cy, Len(e.text) - 1) = e.cy
  BY EditFacts, TextFacts DEF AtMost
<1>2. AtMost(e.cx, Len(e.text[e.cy + 1])) = e.cx
  BY EditFacts, LineFacts DEF AtMost, LineAt
<1>. QED BY <1>1, <1>2 DEF Clamp, Edit

\* A view that is scrolled has the cursor in it.
LEMMA ScrolledToCursor ==
  ASSUME NEW first \in Nat, NEW place \in Nat, NEW size \in Nat \ {0}
  PROVE  /\ Scrolled(first, place, size) \in Nat
         /\ place \in Scrolled(first, place, size)..Scrolled(first, place, size) + size - 1
         /\ Scrolled(first, place, size) <= first \/ Scrolled(first, place, size) <= place
  BY DEF Scrolled

\* A key that is not a character keeps text and cursor inside the arrays.
LEMMA ControlsKeepLimits ==
  ASSUME NEW e \in Edit, OnText(e), NEW key \in MoveKeys \cup EditKeys
  PROVE  AfterControl(e, key) \in Edit
<1>. DEFINE l == LineAt(e)
<1>1. /\ e.text \in Text /\ e.cy \in Nat /\ e.cx \in Nat
      /\ e.cy + 1 \in 1..Len(e.text) /\ l \in Line /\ e.cx \in 0..Len(l)
  BY EditFacts
<1>2. Len(e.text) \in Nat /\ Len(l) \in Nat
  BY <1>1, TextFacts, LineFacts
<1>3. e.cy > 0 => Len(e.text[e.cy]) \in Nat
  BY <1>1, <1>2, TextFacts, LineFacts
<1>. HIDE DEF l
<1>4. CASE key \in MoveKeys
  <2>0. \A y, x \in Nat : [e EXCEPT !.cy = y, !.cx = x] \in Edit
    BY DEF Edit
  <2>1. Up(e) \in Edit /\ Down(e) \in Edit
    BY <1>1, <1>2 DEF Up, Down, Edit
  <2>2. Left(e) \in Edit
    <3>1. e.cx > 0 => [e EXCEPT !.cx = @ - 1] \in Edit
      BY <1>1 DEF Edit
    <3>2. e.cy > 0 => [e EXCEPT !.cy = @ - 1, !.cx = Len(e.text[e.cy])] \in Edit
      <4>1. e.cy > 0 => e.cy - 1 \in Nat /\ Len(e.text[e.cy]) \in Nat
        BY <1>1, <1>3
      <4>. QED BY <2>0, <4>1
    <3>. QED BY <3>1, <3>2 DEF Left
  <2>3. Right(e) \in Edit
    <3>1. [e EXCEPT !.cx = @ + 1] \in Edit
      BY <1>1 DEF Edit
    <3>2. [e EXCEPT !.cy = @ + 1, !.cx = 0] \in Edit
      <4>1. e.cy + 1 \in Nat /\ 0 \in Nat
        BY <1>1
      <4>. QED BY <2>0, <4>1
    <3>. QED BY <3>1, <3>2 DEF Right
  <2>4. [e EXCEPT !.cx = 0] \in Edit /\ [e EXCEPT !.cx = Len(l)] \in Edit
    BY <1>2 DEF Edit
  <2>5. Moved(e, key) \in Edit
    BY <1>4, <2>1, <2>2, <2>3, <2>4 DEF Moved, MoveKeys, l
  <2>. QED BY <1>4, <2>5 DEF AfterControl, MoveKeys
<1>5. CASE key = "ENTER"
  <2>1. CASE Len(e.text) < EDIT_LINES_MAX
    <3>1. Split(e).text \in Text
      BY <2>1, LineSplit
    <3>2. Split(e) = [text |-> Split(e).text, cy |-> e.cy + 1, cx |-> 0, dirty |-> TRUE]
      BY <2>1 DEF Split
    <3>3. \A t \in Text : [text |-> t, cy |-> e.cy + 1, cx |-> 0, dirty |-> TRUE] \in Edit
      BY <1>1 DEF Edit
    <3>4. Split(e) \in Edit
      BY <3>1, <3>2, <3>3
    <3>. QED BY <1>5, <3>4 DEF AfterControl, MoveKeys
  <2>2. CASE ~(Len(e.text) < EDIT_LINES_MAX)
    BY <1>5, <2>2 DEF Split, AfterControl, MoveKeys
  <2>. QED BY <2>1, <2>2
<1>6. CASE key = "BS"
  <2>1. CASE e.cx > 0
    <3>1. WithoutChar(l, e.cx - 1) \in Line
      BY <1>1, <1>2, <2>1, CharDeleted
    <3>2. /\ WithLine(e, WithoutChar(l, e.cx - 1)) \in Edit
          /\ WithLine(e, WithoutChar(l, e.cx - 1)).cx = e.cx
      BY <3>1, LineExchanged
    <3>3. [WithLine(e, WithoutChar(l, e.cx - 1)) EXCEPT !.cx = @ - 1] \in Edit
      BY <1>1, <2>1, <3>2 DEF Edit
    <3>. QED BY <1>6, <2>1, <3>3 DEF Backspace, AfterControl, MoveKeys, l
  <2>2. CASE ~(e.cx > 0) /\ e.cy > 0 /\ Joins(e.text, e.cy - 1)
    <3>1. Join(e.text, e.cy - 1) \in Text
      BY <1>1, <1>2, <2>2, LinesJoined
    <3>2. Backspace(e) = [text |-> Join(e.text, e.cy - 1), cy |-> e.cy - 1,
                          cx |-> Len(e.text[e.cy]), dirty |-> TRUE]
      BY <2>2 DEF Backspace
    <3>. QED BY <1>1, <1>3, <1>6, <2>2, <3>1, <3>2 DEF Edit, AfterControl, MoveKeys
  <2>3. CASE ~(e.cx > 0) /\ ~(e.cy > 0 /\ Joins(e.text, e.cy - 1))
    BY <1>6, <2>3 DEF Backspace, AfterControl, MoveKeys
  <2>. QED BY <2>1, <2>2, <2>3
<1>7. CASE key = "DELETE"
  <2>1. CASE e.cx < Len(l)
    <3>1. WithoutChar(l, e.cx) \in Line
      BY <1>1, <1>2, <2>1, CharDeleted
    <3>2. WithLine(e, WithoutChar(l, e.cx)) \in Edit
      BY <3>1, LineExchanged
    <3>. QED BY <1>7, <2>1, <3>2 DEF Delete, AfterControl, MoveKeys, l
  <2>2. CASE ~(e.cx < Len(l)) /\ e.cy + 1 < Len(e.text) /\ Joins(e.text, e.cy)
    <3>1. Join(e.text, e.cy) \in Text
      BY <1>1, <1>2, <2>2, LinesJoined
    <3>2. Delete(e) = [e EXCEPT !.text = Join(e.text, e.cy), !.dirty = TRUE]
      BY <2>2 DEF Delete, l
    <3>. QED BY <1>7, <3>1, <3>2 DEF Edit, AfterControl, MoveKeys
  <2>3. CASE ~(e.cx < Len(l)) /\ ~(e.cy + 1 < Len(e.text) /\ Joins(e.text, e.cy))
    BY <1>7, <2>3 DEF Delete, AfterControl, MoveKeys, l
  <2>. QED BY <2>1, <2>2, <2>3
<1>. QED BY <1>4, <1>5, <1>6, <1>7 DEF EditKeys

\* A character, fit it or not.
LEMMA CharKeepsLimits ==
  ASSUME NEW e \in Edit, OnText(e), NEW c \in Chars
  PROVE  LET w == WithLine(e, WithChar(LineAt(e), e.cx, c)) IN
         /\ CharTyped(e, c) \in Edit /\ CharTyped(e, c).dirty
         /\ w \in Edit /\ CharTyped(e, c).text = w.text
<1>. DEFINE l == WithChar(LineAt(e), e.cx, c)
            w == WithLine(e, l)
<1>1. e.cx \in Nat /\ LineAt(e) \in Line /\ e.cx \in 0..Len(LineAt(e))
  BY EditFacts
<1>2. l \in Line
  BY <1>1, CharInserted
<1>3. w \in Edit /\ w.cx = e.cx
  BY <1>2, LineExchanged
<1>4. w.dirty
  BY DEF WithLine, Edit
<1>5. CharTyped(e, c) = [w EXCEPT !.cx = @ + 1]
  BY DEF CharTyped
<1>. HIDE DEF w
<1>. QED BY <1>1, <1>3, <1>4, <1>5 DEF Edit, w

\* No key, a character or not, leaves the arrays of the editor
\* (src/shell.c:990-1083, src/gui.c:286), whatever their sizes.
THEOREM KeysKeepLimits ==
  ASSUME NEW e \in Edit, OnText(e), NEW key \in Chars \cup MoveKeys \cup EditKeys
  PROVE  AfterKey(e, key) \in Edit
<1>1. CASE key \in Chars
  BY <1>1, CharKeepsLimits DEF AfterKey
<1>2. CASE key \notin Chars
  BY <1>2, ControlsKeepLimits DEF AfterKey
<1>. QED BY <1>1, <1>2

LEMMA ControlsMark ==
  ASSUME NEW e \in Edit, NEW key \in MoveKeys \cup EditKeys, ~AfterControl(e, key).dirty
  PROVE  AfterControl(e, key).text = e.text /\ ~e.dirty
<1>1. CASE key \in MoveKeys
  <2>1. AfterControl(e, key) = Moved(e, key)
    BY <1>1 DEF AfterControl, MoveKeys
  <2>2. Moved(e, key).text = e.text /\ Moved(e, key).dirty = e.dirty
    BY <1>1 DEF MoveKeys, Moved, Up, Down, Left, Right, Edit
  <2>. QED BY <2>1, <2>2
<1>2. CASE key = "ENTER"
  BY <1>2 DEF AfterControl, MoveKeys, Split
<1>3. CASE key = "BS"
  <2>1. \A l : WithLine(e, l).dirty = TRUE /\ DOMAIN WithLine(e, l) = DOMAIN e
    BY DEF WithLine, Edit
  <2>2. AfterControl(e, key) = Backspace(e)
    BY <1>3 DEF AfterControl, MoveKeys
  <2>. QED BY <2>1, <2>2 DEF Backspace, Edit
<1>4. CASE key = "DELETE"
  <2>1. AfterControl(e, key) = Delete(e)
    BY <1>4 DEF AfterControl, MoveKeys
  <2>. QED BY <2>1 DEF Delete, WithLine, Edit
<1>. QED BY <1>1, <1>2, <1>3, <1>4 DEF EditKeys

\* A key that leaves the modified flag off leaves the text alone.
LEMMA CleanMeansUnchanged ==
  ASSUME NEW e \in Edit, OnText(e), NEW key \in Chars \cup MoveKeys \cup EditKeys,
         ~AfterKey(e, key).dirty
  PROVE  AfterKey(e, key).text = e.text /\ ~e.dirty
<1>1. CASE key \in Chars
  BY <1>1, CharKeepsLimits DEF AfterKey
<1>2. CASE key \notin Chars
  BY <1>2, ControlsMark DEF AfterKey
<1>. QED BY <1>1, <1>2

-----------------------------------------------------------------------------
(* One character more or less.                                             *)

\* s is t with one element put in somewhere.
OneMore(S, s, t) == \E a \in Seq(S), c \in S, b \in Seq(S) : s = a \o (<<c>> \o b) /\ t = a \o b

\* An element taken out from between two parts.
LEMMA TakenOut ==
  ASSUME NEW S, NEW a \in Seq(S), NEW c \in S, NEW b \in Seq(S)
  PROVE  /\ Without(a \o (<<c>> \o b), Len(a)) = a \o b
         /\ Len(a) + 1 \in DOMAIN (a \o (<<c>> \o b))
         /\ Len(a) \in Nat
<1>. DEFINE m == <<c>> \o b
            s == a \o m
            t == a \o b
            p == Len(a)
            q == Len(b)
<1>2. /\ a \in Seq(S) /\ b \in Seq(S) /\ m \in Seq(S) /\ p \in Nat /\ q \in Nat
      /\ Len(m) = q + 1 /\ \A i \in 1..q : m[i + 1] = b[i]
  <2>1. <<c>> \in Seq(S) /\ Len(<<c>>) = 1
    BY One
  <2>2. /\ m \in Seq(S) /\ Len(m) = Len(<<c>>) + Len(b)
        /\ \A i \in 1..Len(<<c>>) + Len(b) :
             m[i] = IF i <= Len(<<c>>) THEN <<c>>[i] ELSE b[i - Len(<<c>>)]
    BY <2>1, ConcatProperties
  <2>. HIDE DEF m
  <2>3. p \in Nat /\ q \in Nat
    BY LenProperties
  <2>4. ASSUME NEW i \in 1..q PROVE m[i + 1] = b[i]
    <3>1. i + 1 \in 1..1 + Len(b) /\ ~(i + 1 <= 1) /\ (i + 1) - 1 = i
      BY <2>3
    <3>. QED BY <2>1, <2>2, <3>1
  <2>. QED BY <2>1, <2>2, <2>3, <2>4
<1>. HIDE DEF m
<1>3. /\ s \in Seq(S) /\ Len(s) = p + q + 1
      /\ \A i \in 1..p : s[i] = a[i]
      /\ \A i \in 1..q : s[p + 1 + i] = b[i]
  <2>1. /\ s \in Seq(S) /\ Len(s) = Len(a) + Len(m)
        /\ \A i \in 1..Len(a) + Len(m) : s[i] = IF i <= Len(a) THEN a[i] ELSE m[i - Len(a)]
    BY <1>2, ConcatProperties DEF m
  <2>2. \A i \in 1..p : s[i] = a[i]
    BY <1>2, <2>1
  <2>3. ASSUME NEW i \in 1..q PROVE s[p + 1 + i] = b[i]
    <3>1. p + 1 + i \in 1..p + (q + 1) /\ ~(p + 1 + i <= p) /\ (p + 1 + i) - p = i + 1
      BY <1>2
    <3>2. s[p + 1 + i] = m[i + 1]
      BY <1>2, <2>1, <3>1
    <3>. QED BY <1>2, <3>2
  <2>. QED BY <1>2, <2>1, <2>2, <2>3
<1>4. /\ t \in Seq(S) /\ Len(t) = p + q
      /\ \A i \in 1..p + q : t[i] = IF i <= p THEN a[i] ELSE b[i - p]
  BY <1>2, ConcatProperties
<1>. HIDE DEF p, q, s, t
<1>5. p + 1 \in DOMAIN s /\ p \in 0..Len(s) - 1
  BY <1>2, <1>3, LenProperties
<1>6. Without(s, p) = t
  <2>. DEFINE r == Without(s, p)
  <2>1. /\ r \in Seq(S) /\ Len(r) = Len(s) - 1
        /\ \A i \in 1..p : r[i] = s[i]
        /\ \A i \in p + 1..Len(s) - 1 : r[i] = s[i + 1]
    BY <1>3, <1>5, Dropped
  <2>. HIDE DEF r
  <2>2. ASSUME NEW i \in 1..p + q PROVE r[i] = t[i]
    <3>1. CASE i <= p
      <4>1. i \in 1..p
        BY <1>2, <3>1
      <4>2. r[i] = a[i]
        BY <1>3, <2>1, <4>1
      <4>. QED BY <1>4, <3>1, <4>2
    <3>2. CASE ~(i <= p)
      <4>1. i \in p + 1..Len(s) - 1 /\ i - p \in 1..q /\ p + 1 + (i - p) = i + 1
        BY <1>2, <1>3, <3>2
      <4>2. r[i] = s[i + 1] /\ s[i + 1] = b[i - p]
        BY <1>3, <2>1, <4>1
      <4>. QED BY <1>4, <3>2, <4>2
    <3>. QED BY <3>1, <3>2
  <2>3. Len(r) = p + q
    BY <1>2, <1>3, <2>1
  <2>4. r = t
    BY <1>4, <2>1, <2>2, <2>3, SeqEqual
  <2>. QED BY <2>4 DEF r
<1>. QED BY <1>2, <1>5, <1>6 DEF p, s, t, m

\* What OneLess asks for.
LEMMA OneMoreRemoved ==
  ASSUME NEW S, NEW s, NEW t, OneMore(S, s, t)
  PROVE  FT!OneLess(s, t)
<1>1. PICK a \in Seq(S), c \in S, b \in Seq(S) : s = a \o (<<c>> \o b) /\ t = a \o b
  BY DEF OneMore
<1>. DEFINE p == Len(a)
            k == p + 1
<1>2. Without(s, p) = t /\ k \in DOMAIN s /\ p \in Nat
  <2>1. /\ Without(a \o (<<c>> \o b), Len(a)) = a \o b
        /\ Len(a) + 1 \in DOMAIN (a \o (<<c>> \o b))
        /\ Len(a) \in Nat
    BY TakenOut
  <2>. QED BY <1>1, <2>1
<1>3. k - 1 = p /\ k + 1 = p + 2
  BY <1>2
<1>. HIDE DEF p, k
<1>4. FT!RemoveAt(s, k) = SubSeq(s, 1, k - 1) \o SubSeq(s, k + 1, Len(s))
  BY DEF FT!RemoveAt
<1>5. FT!RemoveAt(s, k) = t
  BY <1>2, <1>3, <1>4 DEF Without
<1>. QED BY <1>2, <1>5 DEF FT!OneLess

\* The difference stays when the same text is added behind it.
LEMMA SameBehind ==
  ASSUME NEW S, NEW s, NEW t, OneMore(S, s, t), NEW x \in Seq(S)
  PROVE  OneMore(S, s \o x, t \o x)
<1>1. PICK a \in Seq(S), c \in S, b \in Seq(S) : s = a \o (<<c>> \o b) /\ t = a \o b
  BY DEF OneMore
<1>. DEFINE o == <<c>>
            bx == b \o x
<1>2. o \in Seq(S) /\ o \o b \in Seq(S) /\ bx \in Seq(S)
  BY One, ConcatProperties
<1>3. s \o x = a \o (o \o bx)
  <2>. HIDE DEF o
  <2>1. s \o x = a \o ((o \o b) \o x)
    BY <1>1, <1>2, ConcatAssociative DEF o
  <2>2. (o \o b) \o x = o \o (b \o x)
    BY <1>1, <1>2, ConcatAssociative
  <2>. QED BY <2>1, <2>2
<1>4. t \o x = a \o bx
  BY <1>1, ConcatAssociative
<1>. HIDE DEF bx
<1>. QED BY <1>2, <1>3, <1>4, Zenon DEF OneMore

\* It stays when the same text is put before it.
LEMMA SameBefore ==
  ASSUME NEW S, NEW s, NEW t, OneMore(S, s, t), NEW x \in Seq(S)
  PROVE  OneMore(S, x \o s, x \o t)
<1>1. PICK a \in Seq(S), c \in S, b \in Seq(S) : s = a \o (<<c>> \o b) /\ t = a \o b
  BY DEF OneMore
<1>. DEFINE o == <<c>>
            xa == x \o a
<1>2. o \in Seq(S) /\ o \o b \in Seq(S) /\ xa \in Seq(S)
  BY One, ConcatProperties
<1>3. x \o s = xa \o (o \o b)
  <2>. DEFINE m == o \o b
  <2>1. m \in Seq(S) /\ s = a \o m
    BY <1>1, <1>2
  <2>. HIDE DEF m
  <2>2. x \o s = xa \o m
    <3>1. x \in Seq(S) /\ a \in Seq(S) /\ m \in Seq(S)
      BY <1>1, <2>1
    <3>2. (x \o a) \o m = x \o (a \o m)
      BY <3>1, ConcatAssociative, SMTT(20)
    <3>. QED BY <2>1, <3>2
  <2>. QED BY <2>2 DEF m
<1>4. x \o t = xa \o b
  BY <1>1, ConcatAssociative
<1>. HIDE DEF xa
<1>. QED BY <1>2, <1>3, <1>4, Zenon DEF OneMore

\* A character put into a line, or taken out of it.
LEMMA CharPlace ==
  ASSUME NEW S, NEW l \in Seq(S), NEW p \in 0..Len(l), NEW c \in S
  PROVE  LET w == SubSeq(l, 1, p) \o <<c>> \o SubSeq(l, p + 1, Len(l))
         IN  OneMore(S, w, l) /\ Without(w, p) = l
<1>. DEFINE w == SubSeq(l, 1, p) \o <<c>> \o SubSeq(l, p + 1, Len(l))
            a == SubSeq(l, 1, p)
            b == SubSeq(l, p + 1, Len(l))
            o == <<c>>
<1>1. Len(l) \in Nat
  BY LenProperties
<1>2. a \in Seq(S) /\ b \in Seq(S) /\ o \in Seq(S) /\ Len(a) = p
  BY <1>1, Part, One
<1>3. l = a \o b
  <2>. DEFINE n == Len(l)
  <2>1. 1 \in 1..Len(l) + 1 /\ p \in 1 - 1..Len(l) /\ n \in p..Len(l)
    BY <1>1
  <2>2. SubSeq(l, 1, p) \o SubSeq(l, p + 1, n) = SubSeq(l, 1, n)
    <3>. HIDE DEF n
    <3>. QED BY <2>1, ConcatAdjacentSubSeq
  <2>. QED BY <2>2, SubSeqFull
<1>4. w = a \o (o \o b)
  <2>1. w = (a \o o) \o b
    OBVIOUS
  <2>. HIDE DEF o, a, b
  <2>2. (a \o o) \o b = a \o (o \o b)
    BY <1>2, ConcatAssociative
  <2>. QED BY <2>1, <2>2
<1>. HIDE DEF a, b, w
<1>5. OneMore(S, w, l)
  BY <1>2, <1>3, <1>4, Zenon DEF OneMore
<1>6. Without(w, Len(a)) = l
  <2>1. Without(a \o (<<c>> \o b), Len(a)) = a \o b
    BY <1>2, TakenOut
  <2>. QED BY <1>3, <1>4, <2>1
<1>. QED BY <1>2, <1>5, <1>6 DEF w

LEMMA CharLess ==
  ASSUME NEW S, NEW l \in Seq(S), NEW p \in 0..Len(l) - 1
  PROVE  OneMore(S, l, Without(l, p))
<1>. DEFINE a == SubSeq(l, 1, p)
            b == SubSeq(l, p + 2, Len(l))
            c == l[p + 1]
<1>1. Len(l) \in Nat /\ p + 1 \in 1..Len(l) /\ p + 1 + 1 = p + 2 /\ p \in 0..Len(l)
  BY LenProperties
<1>2. a \in Seq(S) /\ b \in Seq(S) /\ c \in S
  BY <1>1, Part, ElementOfSeq
<1>3. SubSeq(l, p + 1, Len(l)) = <<c>> \o b
  BY <1>1, SubSeqRecursiveFirst
<1>4. l = a \o (<<c>> \o b)
  <2>1. a \o SubSeq(l, p + 1, Len(l)) = l
    BY <1>1, ConcatAdjacentSubSeq, SubSeqFull
  <2>. HIDE DEF a, b, c
  <2>. QED BY <1>3, <2>1
<1>5. Without(l, p) = a \o b
  BY DEF Without
<1>. HIDE DEF a, b, c
<1>. QED BY <1>2, <1>4, <1>5, Zenon DEF OneMore

-----------------------------------------------------------------------------
(* The text as one string.                                                 *)

Letters == Chars \cup {NewLine}

\* f[i] is the string of the first i lines of t.
UpTo(f, t) ==
  /\ f \in [1..Len(t) -> Seq(Letters)]
  /\ f[1] = t[1]
  /\ \A i \in 2..Len(t) : f[i] = f[i - 1] \o (<<NewLine>> \o t[i])

LEMMA LineLetters ==
  ASSUME NEW l \in Line
  PROVE  l \in Seq(Letters) /\ <<NewLine>> \in Seq(Letters)
         /\ <<NewLine>> \o l \in Seq(Letters)
<1>1. l \in Seq(Chars)
  BY LineFacts
<1>2. Seq(Chars) \subseteq Seq(Letters)
  BY DEF Letters
<1>3. <<NewLine>> \in Seq(Letters)
  BY One DEF Letters
<1>. QED BY <1>1, <1>2, <1>3, ConcatProperties

\* The string of a text grows line by line.
LEMMA FlatUpTo ==
  ASSUME NEW t \in Text
  PROVE  \E f : UpTo(f, t) /\ FT!Flat(t) = f[Len(t)]
<1>. DEFINE n == Len(t)
            p == [i \in DOMAIN t |-> IF i = 1 THEN t[i] ELSE <<NewLine>> \o t[i]]
            Flattens(g, k) == g = [i \in 1..k |-> IF i = 1 THEN p[i] ELSE g[i - 1] \o p[i]]
            T == {k \in 0..n : \E g : Flattens(g, k)}
            F == CHOOSE g : Flattens(g, Len(p))
<1>1. n \in Nat /\ n >= 1 /\ DOMAIN t = 1..n /\ \A i \in 1..n : t[i] \in Line
  BY TextFacts, LenProperties
<1>2. /\ Len(p) = n /\ DOMAIN p = 1..n /\ p[1] = t[1]
      /\ \A i \in 2..n : p[i] = <<NewLine>> \o t[i]
  BY <1>1
<1>3. \A i \in 1..n : p[i] \in Seq(Letters)
  BY <1>1, LineLetters
<1>4. FT!Flat(t) = FT!FlattenSeq(p)
  BY DEF FT!Flat
<1>. HIDE DEF p
<1>5. FT!FlattenSeq(p) = F[n]
  BY <1>1, <1>2 DEF FT!FlattenSeq
<1>. HIDE DEF n
<1>6. 0 \in T
  <2>. DEFINE g == [i \in 1..0 |-> p[i]]
  <2>1. Flattens(g, 0)
    OBVIOUS
  <2>2. 0 \in 0..n
    BY <1>1
  <2>. HIDE DEF g, Flattens
  <2>. QED BY <2>1, <2>2, Zenon
<1>7. ASSUME NEW k \in 0..n - 1, k \in T PROVE k + 1 \in T
  <2>1. PICK g : Flattens(g, k)
    BY <1>7
  <2>. DEFINE h == [i \in 1..k + 1 |->
                      IF i = k + 1 THEN IF i = 1 THEN p[i] ELSE g[k] \o p[i] ELSE g[i]]
  <2>2. Flattens(h, k + 1)
    <3>1. ASSUME NEW i \in 1..k + 1
          PROVE  h[i] = IF i = 1 THEN p[i] ELSE h[i - 1] \o p[i]
      <4>1. CASE i = k + 1
        <5>1. i # 1 => h[i - 1] = g[k]
          BY <1>1, <4>1
        <5>. QED BY <4>1, <5>1
      <4>2. CASE i # k + 1
        <5>1. i \in 1..k /\ h[i] = g[i] /\ (i # 1 => i - 1 \in 1..k /\ h[i - 1] = g[i - 1])
          BY <1>1, <4>2
        <5>2. g[i] = IF i = 1 THEN p[i] ELSE g[i - 1] \o p[i]
          BY <2>1, <5>1
        <5>. HIDE DEF h
        <5>. QED BY <5>1, <5>2
      <4>. QED BY <4>1, <4>2
    <3>. QED BY <3>1
  <2>3. k + 1 \in 0..n
    BY <1>1
  <2>. HIDE DEF h, Flattens
  <2>. QED BY <2>2, <2>3, Zenon
<1>8. n \in T
  <2>. HIDE DEF T
  <2>. QED BY <1>1, <1>6, <1>7, Steps
<1>9. Flattens(F, n)
  <2>1. \E g : Flattens(g, Len(p))
    BY <1>2, <1>8
  <2>. HIDE DEF Flattens
  <2>2. Flattens(F, Len(p))
    BY <2>1
  <2>. QED BY <1>2, <2>2
<1>. HIDE DEF F
<1>10. /\ DOMAIN F = 1..n /\ F[1] = p[1]
       /\ \A i \in 2..n : F[i] = F[i - 1] \o p[i]
       /\ F = [i \in 1..n |-> F[i]]
  <2>1. \A i \in 1..n : F[i] = IF i = 1 THEN p[i] ELSE F[i - 1] \o p[i]
    BY <1>9
  <2>2. \A i \in 2..n : i \in 1..n /\ i # 1
    BY <1>1
  <2>3. 1 \in 1..n
    BY <1>1
  <2>4. DOMAIN F = 1..n /\ F = [i \in 1..n |-> F[i]]
    BY <1>9
  <2>. HIDE DEF Flattens
  <2>. QED BY <2>1, <2>2, <2>3, <2>4
<1>11. \A i \in 1..n : F[i] \in Seq(Letters)
  <2>. DEFINE U == {k \in 0..n : k = 0 \/ F[k] \in Seq(Letters)}
  <2>1. 0 \in U
    BY <1>1
  <2>2. ASSUME NEW k \in 0..n - 1, k \in U PROVE k + 1 \in U
    <3>1. CASE k = 0
      BY <1>1, <1>3, <1>10, <3>1
    <3>2. CASE k # 0
      <4>1. k + 1 \in 2..n /\ k + 1 \in 1..n /\ (k + 1) - 1 = k /\ F[k] \in Seq(Letters)
        BY <1>1, <2>2, <3>2
      <4>2. F[k + 1] = F[k] \o p[k + 1]
        BY <1>10, <4>1
      <4>3. F[k + 1] \in Seq(Letters)
        BY <1>3, <4>1, <4>2, ConcatProperties
      <4>. QED BY <1>1, <4>1, <4>3
    <3>. QED BY <3>1, <3>2
  <2>. HIDE DEF U
  <2>3. ASSUME NEW b \in 1..n PROVE b \in U
    <3>1. b \in Nat /\ \A k \in 0..b - 1 : k \in 0..n - 1
      BY <1>1
    <3>. QED BY <2>1, <2>2, <3>1, Steps
  <2>. QED BY <2>3 DEF U
<1>12. UpTo(F, t)
  BY <1>2, <1>10, <1>11 DEF UpTo, n
<1>. QED BY <1>4, <1>5, <1>12 DEF n

\* The string up to a line is that up to the line before it, newline and line.
LEMMA LineUpTo ==
  ASSUME NEW t, NEW f, UpTo(f, t), NEW i \in 2..Len(t)
  PROVE  f[i] = f[i - 1] \o (<<NewLine>> \o t[i])
BY Zenon DEF UpTo

\* Texts that begin with the same lines have the same string up to there.
LEMMA SameStart ==
  ASSUME NEW s \in Text, NEW t \in Text, NEW f, NEW g, UpTo(f, s), UpTo(g, t),
         NEW y \in 1..Len(s), y <= Len(t), \A i \in 1..y : t[i] = s[i]
  PROVE  g[y] = f[y]
<1>. DEFINE T == {k \in 0..y - 1 : g[k + 1] = f[k + 1]}
<1>1. Len(s) \in Nat /\ Len(t) \in Nat /\ y - 1 \in Nat /\ y - 1 + 1 = y
  BY TextFacts
<1>2. 0 \in T
  BY <1>1 DEF UpTo
<1>3. ASSUME NEW k \in 0..(y - 1) - 1, k \in T PROVE k + 1 \in T
  <2>. DEFINE i == k + 1 + 1
  <2>1. i \in 2..Len(s) /\ i \in 2..Len(t) /\ i \in 1..y /\ i - 1 = k + 1 /\ k + 1 \in 0..y - 1
    BY <1>1
  <2>2. g[k + 1] = f[k + 1]
    BY <1>3
  <2>. HIDE DEF i
  <2>3. /\ f[i] = f[k + 1] \o (<<NewLine>> \o s[i])
        /\ g[i] = g[k + 1] \o (<<NewLine>> \o t[i])
    <3>1. f[i] = f[i - 1] \o (<<NewLine>> \o s[i])
      BY <2>1, LineUpTo, Zenon
    <3>2. g[i] = g[i - 1] \o (<<NewLine>> \o t[i])
      BY <2>1, LineUpTo, Zenon
    <3>. QED BY <2>1, <3>1, <3>2, Zenon
  <2>4. g[i] = f[i]
    BY <2>1, <2>2, <2>3, Zenon
  <2>. QED BY <2>1, <2>4 DEF i
<1>. HIDE DEF T
<1>4. y - 1 \in T
  BY <1>1, <1>2, <1>3, Steps
<1>. QED BY <1>1, <1>4 DEF T

\* One character more up to a line stays one character more when the lines
\* that follow are the same.
LEMMA SameEnd ==
  ASSUME NEW s \in Text, NEW t \in Text, NEW f, NEW g, UpTo(f, s), UpTo(g, t),
         NEW y \in 1..Len(s), NEW d \in Nat, Len(t) = Len(s) + d,
         \A i \in y + 1..Len(s) : t[i + d] = s[i],
         OneMore(Letters, g[y + d], f[y])
  PROVE  OneMore(Letters, g[Len(t)], f[Len(s)])
<1>. DEFINE n == Len(s) - y
            T == {k \in 0..n : OneMore(Letters, g[y + d + k], f[y + k])}
<1>1. Len(s) \in Nat /\ n \in Nat /\ y + n = Len(s) /\ y + d + n = Len(t)
  BY TextFacts
<1>. HIDE DEF n
<1>2. 0 \in T
  BY <1>1
<1>3. ASSUME NEW k \in 0..n - 1, k \in T PROVE k + 1 \in T
  <2>. DEFINE i == y + k + 1
              j == y + d + k + 1
              x == <<NewLine>> \o s[i]
              sk == f[y + k]
              tk == g[y + d + k]
  <2>1. /\ i \in 2..Len(s) /\ j \in 2..Len(t) /\ i \in y + 1..Len(s) /\ j = i + d
        /\ i - 1 = y + k /\ j - 1 = y + d + k /\ i \in 1..Len(s)
        /\ k + 1 \in 0..n /\ y + (k + 1) = i /\ y + d + (k + 1) = j
    BY <1>1
  <2>. HIDE DEF i, j
  <2>2. f[i] = sk \o x /\ g[j] = tk \o x
    <3>1. f[i] = f[i - 1] \o (<<NewLine>> \o s[i])
      BY <2>1, LineUpTo, Zenon
    <3>2. g[j] = g[j - 1] \o (<<NewLine>> \o t[j])
      BY <2>1, LineUpTo, Zenon
    <3>3. t[j] = s[i]
      BY <2>1
    <3>. QED BY <2>1, <3>1, <3>2, <3>3, Zenon
  <2>3. x \in Seq(Letters)
    BY <2>1, TextFacts, LineLetters
  <2>4. OneMore(Letters, tk, sk)
    BY <1>3
  <2>. HIDE DEF x, sk, tk
  <2>5. OneMore(Letters, tk \o x, sk \o x)
    BY <2>3, <2>4, SameBehind
  <2>. QED BY <2>1, <2>2, <2>5
<1>4. n \in T
  <2>. HIDE DEF T
  <2>. QED BY <1>1, <1>2, <1>3, Steps
<1>. QED BY <1>1, <1>4

\* The string up to a line that is not the first.
LEMMA UpToLine ==
  ASSUME NEW t \in Text, NEW f, UpTo(f, t), NEW y \in 2..Len(t)
  PROVE  /\ f[y] = f[y - 1] \o (<<NewLine>> \o t[y])
         /\ y - 1 \in 1..Len(t) /\ f[y - 1] \in Seq(Letters)
<1>1. Len(t) \in Nat
  BY TextFacts
<1>2. y - 1 \in 1..Len(t)
  BY <1>1
<1>. QED BY <1>2 DEF UpTo

LEMMA Regrouped ==
  ASSUME NEW S, NEW w \in Seq(S), NEW o \in Seq(S), NEW a \in Seq(S), NEW b \in Seq(S)
  PROVE  w \o (o \o (a \o b)) = (w \o (o \o a)) \o b
<1>1. (o \o a) \o b = o \o (a \o b)
  BY ConcatAssociative, SMTT(60)
<1>2. o \o a \in Seq(S)
  BY ConcatProperties
<1>3. (w \o (o \o a)) \o b = w \o ((o \o a) \o b)
  BY ConcatAssociative, <1>2, SMTT(60)
<1>. QED BY <1>1, <1>3, Zenon

\* A text is one character longer when one of its lines is.
LEMMA LineLonger ==
  ASSUME NEW s \in Text, NEW t \in Text, Len(t) = Len(s), NEW y \in 1..Len(s),
         \A i \in 1..Len(s) : i # y => t[i] = s[i],
         OneMore(Letters, t[y], s[y])
  PROVE  FT!OneLess(FT!Flat(t), FT!Flat(s))
<1>1. PICK f : UpTo(f, s) /\ FT!Flat(s) = f[Len(s)]
  BY FlatUpTo
<1>2. PICK g : UpTo(g, t) /\ FT!Flat(t) = g[Len(t)]
  BY FlatUpTo
<1>3. Len(s) \in Nat /\ y \in 1..Len(t)
  BY TextFacts
<1>4. y >= 1 /\ y \in Nat /\ (y > 1 => y \in 2..Len(s) /\ y \in 2..Len(t))
  BY <1>3
<1>5. OneMore(Letters, g[y], f[y])
  <2>1. CASE y = 1
    BY <1>1, <1>2, <2>1 DEF UpTo
  <2>2. CASE y > 1
    <3>. DEFINE o == <<NewLine>>
                w == f[y - 1]
    <3>0. o \in Seq(Letters)
      BY One DEF Letters
    <3>1. f[y] = w \o (o \o s[y]) /\ w \in Seq(Letters) /\ y - 1 \in 1..Len(s)
      BY <1>1, <1>4, <2>2, UpToLine
    <3>2. g[y] = g[y - 1] \o (o \o t[y])
      BY <1>2, <1>4, <2>2, UpToLine
    <3>3. g[y - 1] = f[y - 1]
      <4>. DEFINE k == y - 1
      <4>1. k \in 1..Len(s) /\ k <= Len(t) /\ \A i \in 1..k : t[i] = s[i]
        BY <1>3, <3>1
      <4>. HIDE DEF k
      <4>2. g[k] = f[k]
        BY <1>1, <1>2, <4>1, SameStart
      <4>. QED BY <4>2 DEF k
    <3>. HIDE DEF o, w
    <3>4. OneMore(Letters, o \o t[y], o \o s[y])
      BY <3>0, SameBefore
    <3>5. OneMore(Letters, w \o (o \o t[y]), w \o (o \o s[y]))
      BY <3>1, <3>4, SameBefore
    <3>. QED BY <3>1, <3>2, <3>3, <3>5 DEF w
  <2>. QED BY <1>4, <2>1, <2>2
<1>6. OneMore(Letters, g[Len(t)], f[Len(s)])
  <2>1. /\ y + 0 = y /\ Len(t) = Len(s) + 0 /\ 0 \in Nat
        /\ \A i \in y + 1..Len(s) : t[i + 0] = s[i]
    BY <1>3
  <2>2. OneMore(Letters, g[y + 0], f[y])
    BY <1>5, <2>1
  <2>. QED BY <1>1, <1>2, <2>1, <2>2, SameEnd
<1>. QED BY <1>1, <1>2, <1>6, OneMoreRemoved

\* A line cut in two has one line end more.
LEMMA LineCut ==
  ASSUME NEW s \in Text, NEW t \in Text, Len(t) = Len(s) + 1, NEW y \in 1..Len(s),
         \A i \in 1..y - 1 : t[i] = s[i],
         \A i \in y + 1..Len(s) : t[i + 1] = s[i],
         s[y] = t[y] \o t[y + 1]
  PROVE  FT!OneLess(FT!Flat(t), FT!Flat(s))
<1>1. PICK f : UpTo(f, s) /\ FT!Flat(s) = f[Len(s)]
  BY FlatUpTo
<1>2. PICK g : UpTo(g, t) /\ FT!Flat(t) = g[Len(t)]
  BY FlatUpTo
<1>. DEFINE o == <<NewLine>>
            a == t[y]
            b == t[y + 1]
            z == y + 1
<1>3. Len(s) \in Nat /\ y \in 1..Len(t) /\ z \in 1..Len(t) /\ z > 1 /\ z - 1 = y
  BY TextFacts
<1>4. /\ a \in Seq(Letters) /\ b \in Seq(Letters) /\ o \in Seq(Letters)
      /\ o \o b \in Seq(Letters) /\ g[y] \in Seq(Letters) /\ o \o a \in Seq(Letters)
  <2>1. a \in Line /\ b \in Line
    BY <1>3, TextFacts
  <2>2. g[y] \in Seq(Letters)
    BY <1>2, <1>3 DEF UpTo
  <2>. HIDE DEF a, b
  <2>. QED BY <2>1, <2>2, LineLetters
<1>5. g[z] = g[y] \o (o \o b)
  <2>. HIDE DEF z
  <2>1. b = t[z]
    BY DEF z
  <2>2. z \in 2..Len(t)
    BY <1>3
  <2>. HIDE DEF b
  <2>3. g[z] = g[z - 1] \o (o \o t[z])
    BY <1>2, <2>2, UpToLine
  <2>. QED BY <1>3, <2>1, <2>3
<1>6. y >= 1 /\ y \in Nat /\ (y > 1 => y \in 2..Len(s) /\ y \in 2..Len(t))
  BY <1>3
<1>7. f[y] = g[y] \o b
  <2>1. CASE y = 1
    BY <1>1, <1>2, <2>1 DEF UpTo
  <2>2. CASE y > 1
    <3>. DEFINE w == f[y - 1]
                ab == a \o b
    <3>1. f[y] = w \o (o \o s[y]) /\ w \in Seq(Letters) /\ y - 1 \in 1..Len(s)
      BY <1>1, <1>6, <2>2, UpToLine
    <3>2. g[y] = g[y - 1] \o (o \o a)
      BY <1>2, <1>6, <2>2, UpToLine
    <3>3. g[y - 1] = f[y - 1]
      <4>. DEFINE k == y - 1
      <4>1. k \in 1..Len(s) /\ k <= Len(t) /\ \A i \in 1..k : t[i] = s[i]
        BY <1>3, <3>1
      <4>. HIDE DEF k
      <4>2. g[k] = f[k]
        BY <1>1, <1>2, <4>1, SameStart
      <4>. QED BY <4>2 DEF k
    <3>. HIDE DEF o, w, a, b
    <3>4. w \o (o \o (a \o b)) = (w \o (o \o a)) \o b
      <4>1. /\ w \in Seq(Letters) /\ o \in Seq(Letters)
            /\ a \in Seq(Letters) /\ b \in Seq(Letters)
        BY <1>4, <3>1
      <4>. QED BY <4>1, Regrouped, SMTT(60)
    <3>6. s[y] = a \o b
      BY DEF a, b
    <3>. QED BY <3>1, <3>2, <3>3, <3>4, <3>6 DEF w
  <2>3. y = 1 \/ y > 1
    BY <1>6
  <2>. QED BY <2>1, <2>2, <2>3, Zenon
<1>8. OneMore(Letters, g[z], f[y])
  <2>1. NewLine \in Letters
    BY DEF Letters
  <2>. HIDE DEF b, z
  <2>. QED BY <1>4, <1>5, <1>7, <2>1, Zenon DEF OneMore
<1>9. OneMore(Letters, g[Len(t)], f[Len(s)])
  <2>. DEFINE d == 1
  <2>1. /\ y + d = z /\ Len(t) = Len(s) + d /\ d \in Nat
        /\ \A i \in y + 1..Len(s) : t[i + d] = s[i]
    BY <1>3
  <2>. HIDE DEF d, z
  <2>2. OneMore(Letters, g[y + d], f[y])
    BY <1>8, <2>1
  <2>. QED BY <1>1, <1>2, <2>1, <2>2, SameEnd
<1>. QED BY <1>1, <1>2, <1>9, OneMoreRemoved

\* A text is a string of characters and line ends; the empty text is the empty one.
LEMMA FlatIsString ==
  ASSUME NEW t \in Text
  PROVE  FT!Flat(t) \in Seq(Letters)
<1>1. PICK f : UpTo(f, t) /\ FT!Flat(t) = f[Len(t)]
  BY FlatUpTo
<1>2. Len(t) \in 1..Len(t)
  BY TextFacts
<1>. QED BY <1>1, <1>2 DEF UpTo

LEMMA EmptyIsText == EmptyText \in Text
<1>1. << >> \in Line
  BY LimitsAssumption DEF Line
<1>2. EmptyText \in Seq(Line) /\ Len(EmptyText) = 1
  BY <1>1, One DEF EmptyText
<1>3. 1 \in 1..EDIT_LINES_MAX
  BY LimitsAssumption
<1>. QED BY <1>2, <1>3 DEF Text

LEMMA EmptyFlat == FT!Flat(EmptyText) = << >>
<1>1. PICK f : UpTo(f, EmptyText) /\ FT!Flat(EmptyText) = f[Len(EmptyText)]
  BY FlatUpTo, EmptyIsText
<1>2. Len(EmptyText) = 1 /\ EmptyText[1] = << >>
  BY DEF EmptyText
<1>. QED BY <1>1, <1>2 DEF UpTo

-----------------------------------------------------------------------------
(* A key changes the string by one character.                              *)

\* A line of a text exchanged for one that is a character longer or shorter.
LEMMA LineExchangedFlat ==
  ASSUME NEW e \in Edit, OnText(e), NEW l \in Line
  PROVE  LET t == WithLine(e, l).text IN
         /\ l = LineAt(e) => t = e.text
         /\ OneMore(Letters, l, LineAt(e)) => FT!OneLess(FT!Flat(t), FT!Flat(e.text))
         /\ OneMore(Letters, LineAt(e), l) => FT!OneLess(FT!Flat(e.text), FT!Flat(t))
<1>. DEFINE s == e.text
            y == e.cy + 1
            t == WithLine(e, l).text
<1>1. s \in Text /\ y \in 1..Len(s) /\ s[y] = LineAt(e)
  BY EditFacts DEF LineAt
<1>2. WithLine(e, l) \in Edit /\ Len(t) = Len(s) /\ t = [s EXCEPT ![y] = l]
  BY LineExchanged
<1>3. t \in Text /\ DOMAIN s = 1..Len(s) /\ s = [i \in 1..Len(s) |-> s[i]]
  BY <1>1, <1>2, TextFacts, LenProperties DEF Edit
<1>. HIDE DEF s, y, t
<1>4. t[y] = l /\ \A i \in 1..Len(s) : i # y => t[i] = s[i]
  BY <1>1, <1>2, <1>3
<1>5. l = LineAt(e) => t = s
  BY <1>1, <1>2, <1>3
<1>6. OneMore(Letters, l, LineAt(e)) => FT!OneLess(FT!Flat(t), FT!Flat(s))
  BY <1>1, <1>2, <1>3, <1>4, LineLonger
<1>7. OneMore(Letters, LineAt(e), l) => FT!OneLess(FT!Flat(s), FT!Flat(t))
  <2>1. y \in 1..Len(t) /\ \A i \in 1..Len(t) : i # y => s[i] = t[i]
    BY <1>1, <1>2, <1>4
  <2>. QED BY <1>1, <1>2, <1>3, <1>4, <2>1, LineLonger
<1>. QED BY <1>5, <1>6, <1>7 DEF s, t

\* A character typed into a line, if there is room for it.
LEMMA CharInFlat ==
  ASSUME NEW e \in Edit, OnText(e), NEW c \in Chars
  PROVE  LET t == WithLine(e, WithChar(LineAt(e), e.cx, c)).text
         IN  t = e.text \/ FT!OneLess(FT!Flat(t), FT!Flat(e.text))
<1>. DEFINE l == LineAt(e)
            w == WithChar(l, e.cx, c)
<1>1. l \in Line /\ e.cx \in 0..Len(l) /\ l \in Seq(Letters) /\ c \in Letters
  BY EditFacts, LineLetters DEF Letters
<1>2. w \in Line
  BY <1>1, CharInserted
<1>3. w = l \/ OneMore(Letters, w, l)
  <2>1. CASE Len(l) >= EDIT_LINE_MAX - 1
    BY <2>1 DEF WithChar
  <2>2. CASE ~(Len(l) >= EDIT_LINE_MAX - 1)
    <3>1. w = SubSeq(l, 1, e.cx) \o <<c>> \o SubSeq(l, e.cx + 1, Len(l))
      BY <2>2 DEF WithChar
    <3>. DEFINE p == e.cx
    <3>. HIDE DEF l, w, p
    <3>2. p \in 0..Len(l)
      BY <1>1 DEF p
    <3>3. OneMore(Letters, SubSeq(l, 1, p) \o <<c>> \o SubSeq(l, p + 1, Len(l)), l)
      BY <1>1, <3>2, CharPlace
    <3>. QED BY <3>1, <3>3 DEF p
  <2>. QED BY <2>1, <2>2
<1>. HIDE DEF w
<1>4. /\ w = LineAt(e) => WithLine(e, w).text = e.text
      /\ OneMore(Letters, w, LineAt(e)) =>
           FT!OneLess(FT!Flat(WithLine(e, w).text), FT!Flat(e.text))
  BY <1>2, LineExchangedFlat
<1>. QED BY <1>3, <1>4 DEF w

\* A character deleted from a line.
LEMMA CharOutFlat ==
  ASSUME NEW e \in Edit, OnText(e), NEW p \in 0..Len(LineAt(e)) - 1
  PROVE  FT!OneLess(FT!Flat(e.text), FT!Flat(WithLine(e, WithoutChar(LineAt(e), p)).text))
<1>. DEFINE l == LineAt(e)
            w == WithoutChar(l, p)
<1>1. l \in Line /\ l \in Seq(Letters)
  BY EditFacts, LineLetters
<1>2. w \in Line
  BY <1>1, CharDeleted
<1>3. OneMore(Letters, l, w)
  <2>1. w = Without(l, p)
    BY DEF WithoutChar, Without
  <2>2. OneMore(Letters, l, Without(l, p))
    BY <1>1, CharLess
  <2>. QED BY <2>1, <2>2
<1>. HIDE DEF w
<1>4. OneMore(Letters, LineAt(e), w) =>
        FT!OneLess(FT!Flat(e.text), FT!Flat(WithLine(e, w).text))
  BY <1>2, LineExchangedFlat
<1>. QED BY <1>3, <1>4 DEF w

\* Enter puts a line end into the text.
LEMMA SplitFlat ==
  ASSUME NEW e \in Edit, OnText(e), Len(e.text) < EDIT_LINES_MAX
  PROVE  FT!OneLess(FT!Flat(Split(e).text), FT!Flat(e.text))
<1>. DEFINE l == LineAt(e)
            h == SubSeq(l, 1, e.cx)
            r == SubSeq(l, e.cx + 1, Len(l))
            m == <<h, r>>
            s == e.text
            y == e.cy
            q == y + 2
            t == Split(e).text
<1>1. /\ s \in Text /\ l \in Line /\ e.cx \in 0..Len(l) /\ y \in Nat
      /\ y + 1 \in 1..Len(s) /\ s[y + 1] = l
  BY EditFacts DEF LineAt
<1>2. h \in Line /\ r \in Line /\ l = h \o r
  <2>1. l \in Seq(Chars) /\ Len(l) \in Nat
    BY <1>1, LineFacts
  <2>. DEFINE p == e.cx
              n == Len(l)
  <2>2. 1 \in 1..Len(l) + 1 /\ p \in 1 - 1..Len(l) /\ n \in p..Len(l)
    BY <1>1, <2>1
  <2>. HIDE DEF l, p, n
  <2>3. SubSeq(l, 1, p) \o SubSeq(l, p + 1, n) = SubSeq(l, 1, n)
    BY <2>1, <2>2, ConcatAdjacentSubSeq
  <2>4. SubSeq(l, 1, n) = l
    BY <2>1, SubSeqFull DEF n
  <2>5. l = h \o r
    BY <2>3, <2>4 DEF p, n
  <2>. QED BY <1>1, <2>5, HalfLines
<1>3. t \in Text /\ Len(t) = Len(s) + 1
  BY LineSplit
<1>4. t = Spliced(s, y, m, q)
  BY DEF Split, Spliced
<1>. HIDE DEF h, r, l, s, y, t
<1>5. m \in Seq(Line) /\ Len(m) = 2 /\ m[1] = h /\ m[2] = r
  BY <1>2
<1>6. s \in Seq(Line) /\ Len(s) \in Nat /\ y \in 0..Len(s) /\ q \in y + 1..Len(s) + 1
  BY <1>1, TextFacts
<1>. HIDE DEF m, q
<1>7. /\ \A i \in 1..y : t[i] = s[i]
      /\ \A i \in 1..Len(m) : t[y + i] = m[i]
      /\ \A i \in q..Len(s) : t[y + Len(m) + i + 1 - q] = s[i]
  <2>1. Replaces(Spliced(s, y, m, q), s, y, m, q)
    BY <1>5, <1>6, Splicing
  <2>2. Replaces(t, s, y, m, q)
    BY <1>4, <2>1, Zenon
  <2>. QED BY <2>2, Zenon DEF Replaces
<1>. DEFINE k == y + 1
<1>8. t[k] = h /\ t[k + 1] = r
  <2>1. 1 \in 1..Len(m) /\ 2 \in 1..Len(m) /\ k + 1 = y + 2
    BY <1>1, <1>5
  <2>. QED BY <1>5, <1>7, <2>1
<1>9. \A i \in k + 1..Len(s) : t[i + 1] = s[i]
  <2>. TAKE i \in k + 1..Len(s)
  <2>1. i \in q..Len(s) /\ y + Len(m) + i + 1 - q = i + 1
    BY <1>1, <1>5 DEF q
  <2>. QED BY <1>7, <2>1
<1>10. k - 1 = y /\ k \in 1..Len(s) /\ s[k] = t[k] \o t[k + 1]
  BY <1>1, <1>2, <1>8
<1>11. \A i \in 1..k - 1 : t[i] = s[i]
  BY <1>7, <1>10
<1>. HIDE DEF k
<1>12. FT!OneLess(FT!Flat(t), FT!Flat(s))
  BY <1>1, <1>3, <1>9, <1>10, <1>11, LineCut
<1>. QED BY <1>12 DEF s, t

\* Joining two lines takes a line end out of the text.
LEMMA JoinFlat ==
  ASSUME NEW t \in Text, NEW y \in 0..Len(t) - 2, Joins(t, y)
  PROVE  FT!OneLess(FT!Flat(t), FT!Flat(Join(t, y)))
<1>. DEFINE l == t[y + 1] \o t[y + 2]
            m == <<l>>
            q == y + 3
            j == Join(t, y)
            k == y + 1
<1>1. j \in Text /\ Len(j) = Len(t) - 1
  BY LinesJoined
<1>2. /\ t \in Seq(Line) /\ Len(t) \in Nat /\ y \in 0..Len(t) /\ q \in y + 1..Len(t) + 1
      /\ y \in Nat /\ k \in 1..Len(j) /\ k - 1 = y /\ k + 1 = y + 2 /\ Len(t) = Len(j) + 1
      /\ y + 1 \in 1..Len(t) /\ y + 2 \in 1..Len(t)
  BY <1>1, TextFacts
<1>3. l \in Line
  <2>1. t[y + 1] \in Seq(Chars) /\ t[y + 2] \in Seq(Chars)
    BY <1>2, TextFacts, LineFacts
  <2>2. l \in Seq(Chars) /\ Len(l) = Len(t[y + 1]) + Len(t[y + 2])
    BY <2>1, ConcatProperties
  <2>. QED BY <2>2 DEF Joins, Line
<1>4. j = Spliced(t, y, m, q)
  BY DEF Join, Spliced
<1>. HIDE DEF l, j
<1>5. m \in Seq(Line) /\ Len(m) = 1 /\ m[1] = l
  BY <1>3, One
<1>. HIDE DEF m, q
<1>6. /\ \A i \in 1..y : j[i] = t[i]
      /\ \A i \in 1..Len(m) : j[y + i] = m[i]
      /\ \A i \in q..Len(t) : j[y + Len(m) + i + 1 - q] = t[i]
  <2>1. Replaces(Spliced(t, y, m, q), t, y, m, q)
    BY <1>2, <1>5, Splicing
  <2>2. Replaces(j, t, y, m, q)
    BY <1>4, <2>1, Zenon
  <2>. QED BY <2>2, Zenon DEF Replaces
<1>7. j[k] = t[k] \o t[k + 1]
  <2>1. 1 \in 1..Len(m)
    BY <1>5
  <2>. QED BY <1>2, <1>5, <1>6, <2>1 DEF l
<1>8. \A i \in k + 1..Len(j) : t[i + 1] = j[i]
  <2>. TAKE i \in k + 1..Len(j)
  <2>1. i + 1 \in q..Len(t) /\ y + Len(m) + (i + 1) + 1 - q = i
    BY <1>2, <1>5 DEF q
  <2>. QED BY <1>6, <2>1
<1>9. \A i \in 1..k - 1 : t[i] = j[i]
  BY <1>2, <1>6
<1>. HIDE DEF k
<1>10. FT!OneLess(FT!Flat(t), FT!Flat(j))
  BY <1>1, <1>2, <1>7, <1>8, <1>9, LineCut
<1>. QED BY <1>10 DEF j

\* The keys that are not characters.
LEMMA ControlChangesOneCharacter ==
  ASSUME NEW e \in Edit, OnText(e), NEW key \in MoveKeys \cup EditKeys
  PROVE  LET t == AfterControl(e, key).text
         IN  t = e.text \/ FT!OneCharacter(FT!Flat(e.text), FT!Flat(t))
<1>. DEFINE l == LineAt(e)
            t == AfterControl(e, key).text
            Goal == t = e.text \/ FT!OneCharacter(FT!Flat(e.text), FT!Flat(t))
<1>1. /\ e.text \in Text /\ e.cy \in Nat /\ e.cx \in Nat
      /\ e.cy + 1 \in 1..Len(e.text) /\ l \in Line /\ e.cx \in 0..Len(l)
      /\ Len(e.text) \in Nat /\ Len(l) \in Nat
  BY EditFacts, TextFacts, LineFacts
<1>2. CASE key \in MoveKeys
  <2>1. AfterControl(e, key) = Moved(e, key)
    BY <1>2 DEF AfterControl, MoveKeys
  <2>2. Moved(e, key).text = e.text
    BY <1>2 DEF MoveKeys, Moved, Up, Down, Left, Right, Edit
  <2>. QED BY <2>1, <2>2
<1>. HIDE DEF l
<1>3. CASE key = "ENTER"
  <2>1. t = Split(e).text
    BY <1>3 DEF AfterControl, MoveKeys
  <2>2. CASE Len(e.text) < EDIT_LINES_MAX
    BY <2>1, <2>2, SplitFlat DEF FT!OneCharacter
  <2>3. CASE ~(Len(e.text) < EDIT_LINES_MAX)
    BY <2>1, <2>3 DEF Split
  <2>. QED BY <2>2, <2>3
<1>4. CASE key = "BS"
  <2>1. t = Backspace(e).text
    BY <1>4 DEF AfterControl, MoveKeys
  <2>2. CASE e.cx > 0
    <3>. DEFINE w == WithLine(e, WithoutChar(l, e.cx - 1))
    <3>1. e.cx - 1 \in 0..Len(l) - 1
      BY <1>1, <2>2
    <3>2. FT!OneLess(FT!Flat(e.text), FT!Flat(w.text))
      BY <3>1, CharOutFlat DEF l
    <3>3. w \in Edit
      BY <1>1, <3>1, CharDeleted, LineExchanged
    <3>4. Backspace(e) = [w EXCEPT !.cx = @ - 1]
      BY <2>2 DEF Backspace, l
    <3>. HIDE DEF w
    <3>5. t = w.text
      BY <2>1, <3>3, <3>4 DEF Edit
    <3>. QED BY <3>2, <3>5 DEF FT!OneCharacter
  <2>3. CASE ~(e.cx > 0) /\ e.cy > 0 /\ Joins(e.text, e.cy - 1)
    <3>1. e.cy - 1 \in 0..Len(e.text) - 2
      BY <1>1, <2>3
    <3>2. t = Join(e.text, e.cy - 1)
      BY <2>1, <2>3 DEF Backspace
    <3>. QED BY <1>1, <2>3, <3>1, <3>2, JoinFlat DEF FT!OneCharacter
  <2>4. CASE ~(e.cx > 0) /\ ~(e.cy > 0 /\ Joins(e.text, e.cy - 1))
    BY <2>1, <2>4 DEF Backspace
  <2>. QED BY <2>2, <2>3, <2>4
<1>5. CASE key = "DELETE"
  <2>1. t = Delete(e).text
    BY <1>5 DEF AfterControl, MoveKeys
  <2>2. CASE e.cx < Len(l)
    <3>1. e.cx \in 0..Len(l) - 1
      BY <1>1, <2>2
    <3>2. t = WithLine(e, WithoutChar(l, e.cx)).text
      BY <2>1, <2>2 DEF Delete, l
    <3>. QED BY <3>1, <3>2, CharOutFlat DEF l, FT!OneCharacter
  <2>3. CASE ~(e.cx < Len(l)) /\ e.cy + 1 < Len(e.text) /\ Joins(e.text, e.cy)
    <3>1. e.cy \in 0..Len(e.text) - 2
      BY <1>1, <2>3
    <3>2. t = Join(e.text, e.cy)
      BY <2>1, <2>3 DEF Delete, l, Edit
    <3>. QED BY <1>1, <2>3, <3>1, <3>2, JoinFlat DEF FT!OneCharacter
  <2>4. CASE ~(e.cx < Len(l)) /\ ~(e.cy + 1 < Len(e.text) /\ Joins(e.text, e.cy))
    BY <2>1, <2>4 DEF Delete, l
  <2>. QED BY <2>2, <2>3, <2>4
<1>. QED BY <1>2, <1>3, <1>4, <1>5 DEF EditKeys

\* What a key of either editor does to the text, seen as one string: at every
\* cursor, on every text and with any limits it is a character more, a character
\* less or nothing (src/shell.c:990-1083, src/gui.c:286).
THEOREM KeyChangesOneCharacter ==
  ASSUME NEW e \in Edit, OnText(e), NEW key \in Chars \cup MoveKeys \cup EditKeys
  PROVE  LET t == AfterKey(e, key).text
         IN  t = e.text \/ FT!OneCharacter(FT!Flat(e.text), FT!Flat(t))
<1>1. CASE key \in Chars
  <2>. DEFINE w == WithLine(e, WithChar(LineAt(e), e.cx, key)).text
  <2>1. AfterKey(e, key).text = w
    BY <1>1, CharKeepsLimits DEF AfterKey
  <2>2. w = e.text \/ FT!OneLess(FT!Flat(w), FT!Flat(e.text))
    BY <1>1, CharInFlat
  <2>. HIDE DEF w
  <2>. QED BY <2>1, <2>2 DEF FT!OneCharacter
<1>2. CASE key \notin Chars
  <2>1. AfterKey(e, key) = AfterControl(e, key)
    BY <1>2 DEF AfterKey
  <2>2. LET t == AfterControl(e, key).text
        IN  t = e.text \/ FT!OneCharacter(FT!Flat(e.text), FT!Flat(t))
    BY <1>2, ControlChangesOneCharacter
  <2>. QED BY <2>1, <2>2
<1>. QED BY <1>1, <1>2

-----------------------------------------------------------------------------
(* Backspace takes back the key before it.                                 *)

\* Deleting at a place undoes inserting there.
LEMMA CharTakenOut ==
  ASSUME NEW l \in Line, NEW p \in 0..Len(l), NEW c \in Chars,
         Len(l) < EDIT_LINE_MAX - 1
  PROVE  WithoutChar(WithChar(l, p, c), p) = l
<1>. DEFINE w == WithChar(l, p, c)
            n == Len(l)
<1>1. l \in Seq(Chars) /\ n \in Nat
  BY LineFacts
<1>2. w = SubSeq(l, 1, p) \o <<c>> \o SubSeq(l, p + 1, n)
  <2>1. ~(n >= EDIT_LINE_MAX - 1)
    BY <1>1, LimitsAssumption
  <2>. QED BY <2>1 DEF WithChar
<1>3. Without(SubSeq(l, 1, p) \o <<c>> \o SubSeq(l, p + 1, n), p) = l
  BY <1>1, CharPlace
<1>. HIDE DEF w
<1>. QED BY <1>2, <1>3 DEF w, WithoutChar, Without

\* The fields of an edit whose line is replaced.
LEMMA WithLineFields ==
  ASSUME NEW e \in Edit, NEW l
  PROVE  WithLine(e, l) = [text |-> [e.text EXCEPT ![e.cy + 1] = l],
                           cy |-> e.cy, cx |-> e.cx, dirty |-> TRUE]
<1>. DEFINE x == [e.text EXCEPT ![e.cy + 1] = l]
            r == [e EXCEPT !.text = x]
<1>1. WithLine(e, l) = [e EXCEPT !.text = x, !.dirty = TRUE]
  BY DEF WithLine
<1>. HIDE DEF x
<1>2. \A f : [e EXCEPT !.text = x, !.dirty = f] = [r EXCEPT !.dirty = f]
  OBVIOUS
<1>3. r = [text |-> x, cy |-> e.cy, cx |-> e.cx, dirty |-> e.dirty]
  BY DEF Edit
<1>. HIDE DEF r
<1>4. \A f : [r EXCEPT !.dirty = f] = [text |-> x, cy |-> e.cy, cx |-> e.cx, dirty |-> f]
  BY <1>3
<1>. QED BY <1>1, <1>2, <1>4 DEF x

\* A character and Backspace leave the text and the cursor what they were, at
\* every place of every line with room for it; only the file counts as
\* modified (src/shell.c:1032-1036, 1073-1081).
THEOREM BackspaceUndoesChar ==
  ASSUME NEW e \in Edit, OnText(e), NEW c \in Chars,
         Len(LineAt(e)) < EDIT_LINE_MAX - 1
  PROVE  Backspace(CharTyped(e, c)) = [e EXCEPT !.dirty = TRUE]
<1>. DEFINE l == LineAt(e)
            w == WithChar(l, e.cx, c)
            y == e.cy + 1
            cx == e.cx
            cy == e.cy
            x == [e.text EXCEPT ![y] = w]
            t == CharTyped(e, c)
<1>1. /\ e.text \in Text /\ cy \in Nat /\ cx \in Nat
      /\ y \in 1..Len(e.text) /\ l \in Line /\ cx \in 0..Len(l)
  BY EditFacts
<1>2. w \in Line
  BY <1>1, CharInserted
<1>3. WithoutChar(w, cx) = l
  BY <1>1, CharTakenOut
<1>4. WithLine(e, w) = [text |-> x, cy |-> cy, cx |-> cx, dirty |-> TRUE]
  BY WithLineFields
<1>5. WithLine(e, w) \in Edit
  BY <1>2, LineExchanged
<1>6. t = [WithLine(e, w) EXCEPT !.cx = @ + 1]
  BY DEF CharTyped
<1>7. DOMAIN e.text = 1..Len(e.text)
  BY <1>1, TextFacts, LenProperties
<1>8. x[y] = w
  BY <1>1, <1>7
<1>9. [x EXCEPT ![y] = l] = e.text
  <2>1. e.text[y] = l
    BY DEF LineAt
  <2>2. e.text \in [1..Len(e.text) -> Line]
    BY <1>1, <1>7, TextFacts
  <2>. HIDE DEF l, w, y
  <2>. QED BY <1>1, <1>7, <2>1, <2>2
<1>10. [e EXCEPT !.dirty = TRUE] = [text |-> e.text, cy |-> cy, cx |-> cx, dirty |-> TRUE]
  <2>1. \A f : [e EXCEPT !.dirty = f] = [text |-> e.text, cy |-> cy, cx |-> cx, dirty |-> f]
    BY DEF Edit
  <2>. QED BY <2>1
<1>. DEFINE v == WithLine(e, w)
<1>11. y = cy + 1
  OBVIOUS
<1>. HIDE DEF t, v, x, w, l, cx, cy, y
<1>12. t = [text |-> x, cy |-> cy, cx |-> cx + 1, dirty |-> TRUE]
  <2>1. \A f : v = [text |-> x, cy |-> cy, cx |-> cx, dirty |-> f] =>
          [v EXCEPT !.cx = @ + 1] = [text |-> x, cy |-> cy, cx |-> cx + 1, dirty |-> f]
    OBVIOUS
  <2>. QED BY <1>4, <1>6, <2>1 DEF v
<1>13. t \in Edit
  BY <1>1, <1>4, <1>5, <1>12 DEF Edit, v
<1>14. LineAt(t) = w
  BY <1>8, <1>11, <1>12 DEF LineAt
<1>15. t.cx > 0 /\ t.cx - 1 = cx
  BY <1>1, <1>12
<1>. DEFINE b == WithLine(t, l)
<1>16. Backspace(t) = [b EXCEPT !.cx = @ - 1]
  BY <1>3, <1>14, <1>15 DEF Backspace
<1>17. b = [text |-> e.text, cy |-> cy, cx |-> cx + 1, dirty |-> TRUE]
  <2>1. b = [text |-> [t.text EXCEPT ![t.cy + 1] = l], cy |-> t.cy, cx |-> t.cx, dirty |-> TRUE]
    BY <1>13, WithLineFields
  <2>2. t.text = x /\ t.cy = cy /\ t.cx = cx + 1
    BY <1>12
  <2>. QED BY <1>9, <1>11, <2>1, <2>2
<1>. HIDE DEF b
<1>18. [b EXCEPT !.cx = @ - 1] = [text |-> e.text, cy |-> cy, cx |-> cx, dirty |-> TRUE]
  <2>. DEFINE s == e.text
              n == cx + 1
  <2>1. b = [text |-> s, cy |-> cy, cx |-> n, dirty |-> TRUE] /\ n - 1 = cx
    BY <1>1, <1>17
  <2>. HIDE DEF s, n
  <2>2. \A f : b = [text |-> s, cy |-> cy, cx |-> n, dirty |-> f] =>
          [b EXCEPT !.cx = @ - 1] = [text |-> s, cy |-> cy, cx |-> n - 1, dirty |-> f]
    OBVIOUS
  <2>3. [b EXCEPT !.cx = @ - 1] = [text |-> s, cy |-> cy, cx |-> cx, dirty |-> TRUE]
    BY <2>1, <2>2
  <2>. QED BY <2>3 DEF s
<1>. QED BY <1>10, <1>16, <1>18 DEF t
=============================================================================
