-------------------------- MODULE CalculatorProofs --------------------------
(***************************************************************************)
(* The calculator, for expressions of any length and depth: one that has a *)
(* meaning is given it (ExpressionValue), if its postfix text fits in what *)
(* malloc gave, a NUL happens to follow it, and no low byte other than 0   *)
(* was left on the stack before it.                                        *)
(*                                                                         *)
(* A part of the expression that has a meaning leaves some operators on    *)
(* the stack and writes some text (Leaves), and the text followed by those *)
(* operators computes the meaning; this is shown from the smaller parts to *)
(* the larger ones.                                                        *)
(***************************************************************************)
EXTENDS Calculator, ToolProofs

-----------------------------------------------------------------------------
(* Calculator: what an expression means                                    *)

LEMMA OperatorPrec ==
    ASSUME NEW c \in Operators
    PROVE  prec(c) \in {1, 2} /\ prec(c) \in Nat
<1>1. c \in {"+", "-", "*", "/"}
    BY CalcAssumption, Zenon
<1>2. prec(c) \in {1, 2}
  <2>1. CASE c \in {"+", "-"}
    <3>1. prec(c) = 1
      BY <2>1 DEF prec
    <3> QED
      BY <3>1
  <2>2. CASE c \in {"*", "/"}
    <3>1. prec(c) = 2
      BY <2>2 DEF prec
    <3> QED
      BY <3>1
  <2> QED
    BY <1>1, <2>1, <2>2
<1> QED
    BY <1>2

\* A set of places up to z that is not empty has a last one.
LEMMA LastPlace ==
    ASSUME NEW z \in Int, NEW I, I # {}, \A k \in I : k \in Int /\ k <= z
    PROVE  \E m \in I : \A k \in I : k <= m
<1> DEFINE J == {n \in Nat : z - n \in I}
<1>1. PICK k \in I : TRUE
    OBVIOUS
<1>2. z - k \in J
  <2>1. z - k \in Nat /\ z - (z - k) = k
    OBVIOUS
  <2> QED
    BY <2>1, Zenon
<1>3. J \subseteq Nat /\ J # {}
    BY <1>2, Zenon
<1>4. PICK n \in J : \A q \in J : n <= q
  <2> HIDE DEF J
  <2> QED
    BY <1>3, Smallest
<1>5. z - n \in I /\ n \in Nat
    BY <1>4
<1>6. ASSUME NEW q \in I PROVE q <= z - n
  <2>1. z - q \in Nat /\ z - (z - q) = q
    BY <1>6
  <2>2. z - q \in J
    BY <2>1, Zenon
  <2>3. n <= z - q
    BY <1>4, <2>2, Zenon
  <2> QED
    BY <1>5, <2>3
<1> QED
    BY <1>5, <1>6, Zenon

\* Among operators there is a rightmost of the weakest.
LEMMA LastAppliedIs ==
    ASSUME NEW s, NEW from \in Int, NEW to \in Int, TopLevel(s, from, to) # {},
           NEW last, last = LastApplied(s, TopLevel(s, from, to))
    PROVE  /\ last \in TopLevel(s, from, to)
           /\ \A k \in TopLevel(s, from, to) :
                 prec(s[last]) < prec(s[k]) \/ (prec(s[last]) = prec(s[k]) /\ k <= last)
<1>1. PICK top : top = TopLevel(s, from, to)
    BY Zenon
<1>2. \A k \in top : k \in Int /\ k <= to /\ s[k] \in Operators
    BY <1>1 DEF TopLevel
<1>3. \A k \in top : prec(s[k]) \in {1, 2}
    BY <1>2, OperatorPrec, Zenon
<1>4. \E x \in top : \A k \in top : prec(s[x]) < prec(s[k]) \/ (prec(s[x]) = prec(s[k]) /\ k <= x)
  <2>1. CASE \E k \in top : prec(s[k]) = 1
    <3> DEFINE I == {k \in top : prec(s[k]) = 1}
    <3>1. I # {} /\ \A k \in I : k \in Int /\ k <= to
      BY <1>2, <2>1, Zenon
    <3>2. PICK x \in I : \A k \in I : k <= x
      <4> HIDE DEF I
      <4> QED
        BY <3>1, LastPlace
    <3>3. x \in top /\ prec(s[x]) = 1
      BY <3>2, Zenon
    <3>4. ASSUME NEW k \in top
          PROVE  prec(s[x]) < prec(s[k]) \/ (prec(s[x]) = prec(s[k]) /\ k <= x)
      <4>1. CASE prec(s[k]) = 1
        BY <3>2, <3>3, <4>1, Zenon
      <4>2. CASE prec(s[k]) = 2
        <5>1. 1 < 2
          OBVIOUS
        <5> QED
          BY <3>3, <4>2, <5>1, Zenon
      <4> QED
        BY <1>3, <4>1, <4>2
    <3> QED
      BY <3>3, <3>4, Zenon
  <2>2. CASE ~\E k \in top : prec(s[k]) = 1
    <3>1. \A k \in top : prec(s[k]) = 2
      BY <1>3, <2>2
    <3>2. PICK x \in top : \A k \in top : k <= x
      BY <1>1, <1>2, LastPlace
    <3> QED
      BY <3>1, <3>2, Zenon
  <2> QED
    BY <2>1, <2>2, Zenon
<1>5. last = CHOOSE x \in top : \A k \in top :
                prec(s[x]) < prec(s[k]) \/ (prec(s[x]) = prec(s[k]) /\ k <= x)
    BY <1>1, Zenon DEF LastApplied
<1>6. /\ last \in top
      /\ \A k \in top : prec(s[last]) < prec(s[k]) \/ (prec(s[last]) = prec(s[k]) /\ k <= last)
    BY <1>4, <1>5, Zenon
<1> QED
    BY <1>1, <1>6, Zenon

\* The entry of a part, from those of smaller parts.
NumberEntry(s, from) == {Leaf(n) : n \in {s[from]} \cap Numbers}
OperatorEntry(s, f, from, to) ==
    Nodes(s[LastApplied(s, TopLevel(s, from, to))],
          f[<<from, LastApplied(s, TopLevel(s, from, to)) - 1>>],
          f[<<LastApplied(s, TopLevel(s, from, to)) + 1, to>>])
MeaningEntry(s, f, from, to) ==
    IF from > to THEN {}
    ELSE IF s[from] = Blank THEN f[<<from + 1, to>>]
    ELSE IF s[to] = Blank THEN f[<<from, to - 1>>]
    ELSE IF from = to THEN NumberEntry(s, from)
    ELSE IF TopLevel(s, from, to) # {} THEN OperatorEntry(s, f, from, to)
    ELSE IF s[from] \in Opening /\ s[to] \in Closing THEN f[<<from + 1, to - 1>>]
    ELSE {}

\* The entry, case by case.
LEMMA EntryCases ==
    ASSUME NEW s, NEW f, NEW from, NEW to, NEW m, m = MeaningEntry(s, f, from, to)
    PROVE  /\ from > to => m = {}
           /\ ~(from > to) /\ s[from] = Blank => m = f[<<from + 1, to>>]
           /\ ~(from > to) /\ s[from] # Blank /\ s[to] = Blank => m = f[<<from, to - 1>>]
           /\ ~(from > to) /\ s[from] # Blank /\ s[to] # Blank =>
                /\ from = to => m = NumberEntry(s, from)
                /\ from # to /\ TopLevel(s, from, to) # {} => m = OperatorEntry(s, f, from, to)
                /\ from # to /\ TopLevel(s, from, to) = {} =>
                      /\ s[from] \in Opening /\ s[to] \in Closing => m = f[<<from + 1, to - 1>>]
                      /\ ~(s[from] \in Opening /\ s[to] \in Closing) => m = {}
BY DEF MeaningEntry

Parts(s) == (1 .. Len(s) + 1) \X (0 .. Len(s))

\* The two agree on the parts of fewer than n places.
AgreeBelow(s, f, h, n) ==
    \A x \in 1 .. Len(s) + 1, y \in 0 .. Len(s) : y - x + 1 < n => f[<<x, y>>] = h[<<x, y>>]

LEMMA MeaningDepends ==
    ASSUME NEW s, Len(s) \in Nat, NEW f, NEW h,
           NEW from \in 1 .. Len(s) + 1, NEW to \in 0 .. Len(s), AgreeBelow(s, f, h, to - from + 1)
    PROVE  MeaningEntry(s, f, from, to) = MeaningEntry(s, h, from, to)
<1>1. CASE from > to
    BY <1>1 DEF MeaningEntry
<1>2. CASE ~(from > to)
  <2>1. /\ f[<<from + 1, to>>] = h[<<from + 1, to>>]
        /\ f[<<from, to - 1>>] = h[<<from, to - 1>>]
        /\ f[<<from + 1, to - 1>>] = h[<<from + 1, to - 1>>]
    <3>1. /\ from + 1 \in 1 .. Len(s) + 1 /\ to - 1 \in 0 .. Len(s)
          /\ to - (from + 1) + 1 < to - from + 1 /\ (to - 1) - from + 1 < to - from + 1
          /\ (to - 1) - (from + 1) + 1 < to - from + 1
      BY <1>2
    <3> QED
      BY <3>1, Zenon DEF AgreeBelow
  <2>2. PICK last : last = LastApplied(s, TopLevel(s, from, to))
    BY Zenon
  <2>3. TopLevel(s, from, to) # {} =>
           /\ f[<<from, last - 1>>] = h[<<from, last - 1>>]
           /\ f[<<last + 1, to>>] = h[<<last + 1, to>>]
    <3> SUFFICES ASSUME TopLevel(s, from, to) # {}
                 PROVE  /\ f[<<from, last - 1>>] = h[<<from, last - 1>>]
                        /\ f[<<last + 1, to>>] = h[<<last + 1, to>>]
      BY Zenon
    <3>1. last \in TopLevel(s, from, to)
      BY <2>2, LastAppliedIs
    <3>2. last \in from .. to
      BY <3>1, Zenon DEF TopLevel
    <3>3. /\ last - 1 \in 0 .. Len(s) /\ last + 1 \in 1 .. Len(s) + 1
          /\ (last - 1) - from + 1 < to - from + 1 /\ to - (last + 1) + 1 < to - from + 1
      BY <3>2
    <3> QED
      BY <3>3, Zenon DEF AgreeBelow
  <2>4. TopLevel(s, from, to) # {} => OperatorEntry(s, f, from, to) = OperatorEntry(s, h, from, to)
    BY <2>2, <2>3, Zenon DEF OperatorEntry
  <2> QED
    BY <1>2, <2>1, <2>4 DEF MeaningEntry
<1> QED
    BY <1>1, <1>2, Zenon

LEMMA MeaningsExist ==
    ASSUME NEW s, Len(s) \in Nat
    PROVE  \E f : f = [g \in Parts(s) |-> MeaningEntry(s, f, g[1], g[2])]
<1> DEFINE Right(f, m) ==
               \A x \in 1 .. Len(s) + 1, y \in 0 .. Len(s) :
                   y - x + 1 <= m => f[<<x, y>>] = MeaningEntry(s, f, x, y)
           T == {m \in Nat : \E f : Right(f, m)}
           Again(f) == [g \in Parts(s) |-> MeaningEntry(s, f, g[1], g[2])]
<1>1. ASSUME NEW f, NEW x \in 1 .. Len(s) + 1, NEW y \in 0 .. Len(s)
      PROVE  Again(f)[<<x, y>>] = MeaningEntry(s, f, x, y)
  <2>1. <<x, y>> \in Parts(s) /\ <<x, y>>[1] = x /\ <<x, y>>[2] = y
    BY DEF Parts
  <2> QED
    BY <2>1, Zenon
<1> HIDE DEF Again
<1>2. ASSUME NEW m \in Int, NEW f, Right(f, m) PROVE Right(Again(f), m + 1)
  <2> SUFFICES ASSUME NEW x \in 1 .. Len(s) + 1, NEW y \in 0 .. Len(s), y - x + 1 <= m + 1
               PROVE  Again(f)[<<x, y>>] = MeaningEntry(s, Again(f), x, y)
    BY Zenon
  <2>1. ASSUME NEW v \in 1 .. Len(s) + 1, NEW w \in 0 .. Len(s), w - v + 1 < y - x + 1
        PROVE  f[<<v, w>>] = Again(f)[<<v, w>>]
    <3>1. w - v + 1 <= m
      BY <2>1
    <3> QED
      BY <1>1, <1>2, <3>1, Zenon
  <2>2. AgreeBelow(s, f, Again(f), y - x + 1)
    BY <2>1, Zenon DEF AgreeBelow
  <2>3. MeaningEntry(s, f, x, y) = MeaningEntry(s, Again(f), x, y)
    BY <2>2, MeaningDepends
  <2> QED
    BY <1>1, <2>3, Zenon
<1>3. 0 \in T
  <2>1. PICK f : f = [g \in Parts(s) |-> {}]
    BY Zenon
  <2>2. ASSUME NEW x \in 1 .. Len(s) + 1, NEW y \in 0 .. Len(s), y - x + 1 <= 0
        PROVE  f[<<x, y>>] = MeaningEntry(s, f, x, y)
    <3>1. x > y /\ <<x, y>> \in Parts(s)
      BY <2>2 DEF Parts
    <3>2. MeaningEntry(s, f, x, y) = {}
      BY <3>1 DEF MeaningEntry
    <3> QED
      BY <2>1, <3>1, <3>2
  <2>3. Right(f, 0)
    BY <2>2, Zenon
  <2> HIDE DEF Right
  <2> QED
    BY <2>3
<1>4. ASSUME NEW m \in T PROVE m + 1 \in T
  <2>1. PICK f : Right(f, m)
    OBVIOUS
  <2>2. Right(Again(f), m + 1)
    <3>1. m \in Int
      OBVIOUS
    <3> QED
      BY <1>2, <2>1, <3>1, Zenon
  <2> HIDE DEF Right
  <2> QED
    BY <2>2
<1>5. T = Nat
  <2>1. T \subseteq Nat
    OBVIOUS
  <2> HIDE DEF T
  <2> QED
    BY <1>3, <1>4, <2>1, Induction
<1>6. PICK f : Right(f, Len(s))
  <2> HIDE DEF Right
  <2> QED
    BY <1>5
<1>7. \A g \in Parts(s) : MeaningEntry(s, f, g[1], g[2]) = MeaningEntry(s, Again(f), g[1], g[2])
  <2> TAKE g \in Parts(s)
  <2>1. PICK x \in 1 .. Len(s) + 1, y \in 0 .. Len(s) : x = g[1] /\ y = g[2]
    BY DEF Parts
  <2>2. ASSUME NEW v \in 1 .. Len(s) + 1, NEW w \in 0 .. Len(s)
        PROVE  f[<<v, w>>] = Again(f)[<<v, w>>]
    <3>1. w - v + 1 <= Len(s)
      OBVIOUS
    <3> QED
      BY <1>1, <1>6, <3>1, Zenon
  <2>3. AgreeBelow(s, f, Again(f), y - x + 1)
    BY <2>2, Zenon DEF AgreeBelow
  <2>4. MeaningEntry(s, f, x, y) = MeaningEntry(s, Again(f), x, y)
    BY <2>3, MeaningDepends
  <2> QED
    BY <2>1, <2>4, Zenon
<1>8. Again(f) = [g \in Parts(s) |-> MeaningEntry(s, f, g[1], g[2])]
    BY Zenon DEF Again
<1>9. Again(f) = [g \in Parts(s) |-> MeaningEntry(s, Again(f), g[1], g[2])]
    BY <1>7, <1>8, Zenon
<1> QED
    BY <1>9, Zenon

LEMMA MeaningSteps ==
    ASSUME NEW s, Len(s) \in Nat, NEW from \in 1 .. Len(s) + 1, NEW to \in 0 .. Len(s)
    PROVE  Meanings(s)[<<from, to>>] = MeaningEntry(s, Meanings(s), from, to)
<1>1. PICK m : m = Meanings(s)
    BY Zenon
<1>2. m = CHOOSE f : f = [g \in Parts(s) |-> MeaningEntry(s, f, g[1], g[2])]
    BY <1>1, Zenon DEF Meanings, MeaningEntry, OperatorEntry, NumberEntry, Parts
<1>3. m = [g \in Parts(s) |-> MeaningEntry(s, m, g[1], g[2])]
    BY <1>2, MeaningsExist, Zenon
<1>4. <<from, to>> \in Parts(s) /\ <<from, to>>[1] = from /\ <<from, to>>[2] = to
    BY DEF Parts
<1> QED
    BY <1>1, <1>3, <1>4, Zenon

-----------------------------------------------------------------------------
(* Calculator: what postfix text evaluates to                              *)

Ready(v) == [values |-> v, underflow |-> FALSE]

EvalEntry(f, s, n) ==
    IF n = 0 THEN [values |-> <<>>, underflow |-> FALSE] ELSE EvalToken(f[n - 1], s[n])

LEMMA EvaluatedExists ==
    ASSUME NEW s, Len(s) \in Nat
    PROVE  \E f : f = [n \in 0 .. Len(s) |-> EvalEntry(f, s, n)]
<1> DEFINE Good(m) == \E f : \A n \in 0 .. Len(s) : n <= m => f[n] = EvalEntry(f, s, n)
           T == {m \in Nat : Good(m)}
<1>1. Good(0)
  <2> DEFINE f == [n \in 0 .. Len(s) |-> Ready(<<>>)]
  <2>1. \A n \in 0 .. Len(s) : n <= 0 => f[n] = EvalEntry(f, s, n)
    BY DEF EvalEntry, Ready
  <2> QED
    BY <2>1, Zenon
<1>2. ASSUME NEW m \in Nat, Good(m) PROVE Good(m + 1)
  <2>1. PICK f : \A n \in 0 .. Len(s) : n <= m => f[n] = EvalEntry(f, s, n)
    BY <1>2, Zenon
  <2> DEFINE g == [n \in 0 .. Len(s) |-> EvalEntry(f, s, n)]
  <2>2. \A n \in 0 .. Len(s) : g[n] = EvalEntry(f, s, n)
    OBVIOUS
  <2> HIDE DEF g
  <2>3. \A n \in 0 .. Len(s) : n <= m => f[n] = g[n]
    BY <2>1, <2>2, Zenon
  <2>4. ASSUME NEW n \in 0 .. Len(s), n <= m + 1 PROVE g[n] = EvalEntry(g, s, n)
    <3>1. n # 0 => n - 1 \in 0 .. Len(s) /\ n - 1 <= m
      BY <2>4
    <3>2. n # 0 => f[n - 1] = g[n - 1]
      BY <2>3, <3>1, Zenon
    <3> QED
      BY <2>2, <3>2, Zenon DEF EvalEntry
  <2> QED
    BY <2>4, Zenon
<1> HIDE DEF Good
<1>3. T = Nat
  <2>1. T \subseteq Nat /\ 0 \in T /\ \A n \in T : n + 1 \in T
    BY <1>1, <1>2
  <2> HIDE DEF T
  <2> QED
    BY <2>1, Induction
<1>4. Good(Len(s))
    BY <1>3
<1>5. PICK f : \A n \in 0 .. Len(s) : n <= Len(s) => f[n] = EvalEntry(f, s, n)
    BY <1>4, Zenon DEF Good
<1> DEFINE g == [n \in 0 .. Len(s) |-> EvalEntry(f, s, n)]
<1>6. g = [n \in 0 .. Len(s) |-> EvalEntry(f, s, n)]
    OBVIOUS
<1>7. \A n \in 0 .. Len(s) : f[n] = g[n]
    BY <1>5
<1> HIDE DEF g
<1>8. \A n \in 0 .. Len(s) : EvalEntry(f, s, n) = EvalEntry(g, s, n)
  <2> TAKE n \in 0 .. Len(s)
  <2>1. n # 0 => n - 1 \in 0 .. Len(s)
    OBVIOUS
  <2> QED
    BY <1>7, <2>1, Zenon DEF EvalEntry
<1>9. g = [n \in 0 .. Len(s) |-> EvalEntry(g, s, n)]
    BY <1>6, <1>8, Zenon
<1> QED
    BY <1>9, Zenon

LEMMA EvaluatedSteps ==
    ASSUME NEW s, Len(s) \in Nat
    PROVE  /\ Evaluated(s)[0] = Ready(<<>>)
           /\ \A n \in 1 .. Len(s) : Evaluated(s)[n] = EvalToken(Evaluated(s)[n - 1], s[n])
<1>1. PICK r : r = Evaluated(s)
    BY Zenon
<1>2. r = CHOOSE f : f = [n \in 0 .. Len(s) |-> EvalEntry(f, s, n)]
    BY <1>1, Zenon DEF Evaluated, EvalEntry
<1>3. r = [n \in 0 .. Len(s) |-> EvalEntry(r, s, n)]
    BY <1>2, EvaluatedExists, Zenon
<1>4. \A n \in 0 .. Len(s) : r[n] = EvalEntry(r, s, n)
    BY <1>3, Zenon
<1>5. 0 \in 0 .. Len(s) /\ \A n \in 1 .. Len(s) : n \in 0 .. Len(s) /\ n # 0
    OBVIOUS
<1> QED
    BY <1>1, <1>4, <1>5, Zenon DEF EvalEntry, Ready

\* Text w takes the values v, top first, to the values x, without underflow.
Evaluates(v, w, x) ==
    \E g : /\ g[0] = v /\ g[Len(w)] = x
           /\ \A n \in 1 .. Len(w) : EvalToken(Ready(g[n - 1]), w[n]) = Ready(g[n])

LEMMA EvaluatesJoined ==
    ASSUME NEW S, NEW w \in Seq(S), NEW y \in Seq(S), NEW v, NEW x, NEW z,
           Evaluates(v, w, x), Evaluates(x, y, z)
    PROVE  Evaluates(v, w \o y, z)
<1>1. PICK p, q : p = Len(w) /\ q = Len(y)
    BY Zenon
<1>2. p \in Nat /\ q \in Nat
    BY <1>1, LenProperties
<1>3. PICK r : r = w \o y
    BY Zenon
<1>4. /\ Len(r) = p + q
      /\ \A k \in 1 .. p : r[k] = w[k]
      /\ \A k \in 1 .. q : r[p + k] = y[k]
  <2>1. /\ Len(r) = Len(w) + Len(y)
        /\ \A k \in 1 .. Len(w) : r[k] = w[k]
        /\ \A k \in 1 .. Len(y) : r[Len(w) + k] = y[k]
    BY <1>3, Joins
  <2> QED
    BY <1>1, <2>1, Zenon
<1>5. PICK g : /\ g[0] = v /\ g[p] = x
               /\ \A n \in 1 .. p : EvalToken(Ready(g[n - 1]), w[n]) = Ready(g[n])
    BY <1>1, Zenon DEF Evaluates
<1>6. PICK h : /\ h[0] = x /\ h[q] = z
               /\ \A n \in 1 .. q : EvalToken(Ready(h[n - 1]), y[n]) = Ready(h[n])
    BY <1>1, Zenon DEF Evaluates
<1>7. PICK f : f = [n \in 0 .. p + q |-> IF n <= p THEN g[n] ELSE h[n - p]]
    BY Zenon
<1>8. /\ \A n \in 0 .. p : f[n] = g[n]
      /\ \A n \in 1 .. q : f[p + n] = h[n]
  <2>1. \A n \in 0 .. p : n \in 0 .. p + q /\ n <= p
    BY <1>2
  <2>2. \A n \in 1 .. q : p + n \in 0 .. p + q /\ ~(p + n <= p) /\ (p + n) - p = n
    BY <1>2
  <2>3. \A n \in 0 .. p + q : f[n] = IF n <= p THEN g[n] ELSE h[n - p]
    BY <1>7, Zenon
  <2> QED
    BY <2>1, <2>2, <2>3, Zenon
<1>9. \A n \in 0 .. q : f[p + n] = h[n]
  <2> TAKE n \in 0 .. q
  <2>1. CASE n = 0
    <3>1. p + n = p /\ p \in 0 .. p
      BY <1>2, <2>1
    <3> QED
      BY <1>5, <1>6, <1>8, <2>1, <3>1, Zenon
  <2>2. CASE n # 0
    <3>1. n \in 1 .. q
      BY <2>2
    <3> QED
      BY <1>8, <3>1, Zenon
  <2> QED
    BY <2>1, <2>2, Zenon
<1>10. ASSUME NEW n \in 1 .. p + q PROVE EvalToken(Ready(f[n - 1]), r[n]) = Ready(f[n])
  <2>1. CASE n <= p
    <3>1. n \in 1 .. p /\ n \in 0 .. p /\ n - 1 \in 0 .. p
      BY <1>2, <2>1
    <3> QED
      BY <1>4, <1>5, <1>8, <3>1, Zenon
  <2>2. CASE ~(n <= p)
    <3>1. PICK k : k = n - p
      BY Zenon
    <3>2. k \in 1 .. q /\ k \in 0 .. q /\ k - 1 \in 0 .. q /\ n = p + k /\ n - 1 = p + (k - 1)
      BY <1>2, <2>2, <3>1
    <3>3. EvalToken(Ready(h[k - 1]), y[k]) = Ready(h[k])
      BY <1>6, <3>2, Zenon
    <3>4. f[n - 1] = h[k - 1] /\ f[n] = h[k] /\ r[n] = y[k]
      BY <1>4, <1>9, <3>2, Zenon
    <3> QED
      BY <3>3, <3>4, Zenon
  <2> QED
    BY <2>1, <2>2, Zenon
<1>11. f[0] = v /\ f[p + q] = z
  <2>1. 0 \in 0 .. p /\ q \in 0 .. q
    BY <1>2
  <2> QED
    BY <1>5, <1>6, <1>8, <1>9, <2>1, Zenon
<1>12. Evaluates(v, r, z)
  <2>1. Len(r) = p + q
    BY <1>4, Zenon
  <2>2. /\ f[0] = v /\ f[Len(r)] = z
        /\ \A n \in 1 .. Len(r) : EvalToken(Ready(f[n - 1]), r[n]) = Ready(f[n])
    BY <1>10, <1>11, <2>1, Zenon
  <2> QED
    BY <2>2, Zenon DEF Evaluates
<1> QED
    BY <1>3, <1>12, Zenon

LEMMA EvaluatesOne ==
    ASSUME NEW t, NEW v, NEW x, EvalToken(Ready(v), t) = Ready(x)
    PROVE  Evaluates(v, <<t>>, x)
<1>1. PICK w : w = <<t>>
    BY Zenon
<1>2. Len(w) = 1 /\ w[1] = t
    BY <1>1
<1>3. PICK g : g = [n \in 0 .. 1 |-> IF n = 0 THEN v ELSE x]
    BY Zenon
<1>4. g[0] = v /\ g[1] = x
    BY <1>3
<1>5. \A n \in 1 .. 1 : n = 1 /\ n - 1 = 0
    OBVIOUS
<1>6. Evaluates(v, w, x)
    BY <1>2, <1>4, <1>5, Zenon DEF Evaluates
<1> QED
    BY <1>1, <1>6, Zenon

LEMMA EvaluatesResult ==
    ASSUME NEW w, Len(w) \in Nat, NEW x, Evaluates(<<>>, w, x)
    PROVE  Evaluated(w)[Len(w)] = Ready(x)
<1>1. PICK g : /\ g[0] = <<>> /\ g[Len(w)] = x
               /\ \A n \in 1 .. Len(w) : EvalToken(Ready(g[n - 1]), w[n]) = Ready(g[n])
    BY Zenon DEF Evaluates
<1>2. PICK r : r = Evaluated(w)
    BY Zenon
<1>3. /\ r[0] = Ready(<<>>)
      /\ \A n \in 1 .. Len(w) : r[n] = EvalToken(r[n - 1], w[n])
    BY <1>2, EvaluatedSteps, Zenon
<1> DEFINE T == {n \in Nat : n <= Len(w) => r[n] = Ready(g[n])}
<1>4. T \subseteq Nat /\ 0 \in T
    BY <1>1, <1>3, Zenon
<1>5. ASSUME NEW n \in T PROVE n + 1 \in T
  <2>1. n \in Nat /\ (n <= Len(w) => r[n] = Ready(g[n])) /\ n + 1 \in Nat
    OBVIOUS
  <2>2. ASSUME n + 1 <= Len(w) PROVE r[n + 1] = Ready(g[n + 1])
    <3>1. n <= Len(w) /\ n + 1 \in 1 .. Len(w) /\ (n + 1) - 1 = n
      BY <2>1, <2>2
    <3> QED
      BY <1>1, <1>3, <2>1, <3>1, Zenon
  <2> QED
    BY <2>1, <2>2, Zenon
<1>6. T = Nat
  <2> HIDE DEF T
  <2> QED
    BY <1>4, <1>5, Induction
<1>7. Len(w) \in T /\ Len(w) <= Len(w)
    BY <1>6
<1> QED
    BY <1>1, <1>2, <1>7, Zenon

\* On any values, w puts tree t on top.
Computes(w, t) == \A S : \A v \in Seq(S) : Evaluates(v, w, <<t>> \o v)

LEMMA ComputesNumber ==
    ASSUME NEW n \in Numbers
    PROVE  Computes(<<n>>, Leaf(n))
<1> SUFFICES ASSUME NEW S, NEW v \in Seq(S) PROVE Evaluates(v, <<n>>, <<Leaf(n)>> \o v)
    BY Zenon DEF Computes
<1>1. EvalToken(Ready(v), n) = Ready(<<Leaf(n)>> \o v)
    BY DEF EvalToken, Ready
<1> QED
    BY <1>1, EvaluatesOne, Zenon

LEMMA ComputesNode ==
    ASSUME NEW S, NEW w \in Seq(S), NEW y \in Seq(S), NEW l, NEW r, NEW op \in Operators, op \in S,
           Computes(w, l), Computes(y, r)
    PROVE  Computes((w \o y) \o <<op>>, Node(op, l, r))
<1> SUFFICES ASSUME NEW V, NEW v \in Seq(V)
             PROVE  Evaluates(v, (w \o y) \o <<op>>, <<Node(op, l, r)>> \o v)
    BY Zenon DEF Computes
<1>1. PICK U : U = V \cup {l, r}
    BY Zenon
<1>2. PICK a1 : a1 = <<l>> \o v
    BY Zenon
<1>3. v \in Seq(U) /\ <<l>> \in Seq(U) /\ <<r>> \in Seq(U) /\ Len(v) \in Nat
    BY <1>1
<1>4. a1 \in Seq(U) /\ Len(a1) = Len(v) + 1 /\ a1[1] = l /\ \A k \in 1 .. Len(v) : a1[k + 1] = v[k]
    BY <1>2, <1>3
<1>5. PICK b1 : b1 = <<r>> \o a1
    BY Zenon
<1>6. /\ b1 \in Seq(U) /\ Len(b1) = Len(v) + 2 /\ b1[1] = r /\ b1[2] = l
      /\ \A k \in 1 .. Len(v) : b1[k + 2] = v[k]
    BY <1>3, <1>4, <1>5
<1>7. Evaluates(v, w, a1) /\ Evaluates(a1, y, b1)
    BY <1>2, <1>3, <1>4, <1>5, Zenon DEF Computes
<1>8. Evaluates(v, w \o y, b1)
    BY <1>7, EvaluatesJoined
<1>9. SubSeq(b1, 3, Len(b1)) = v
  <2>1. PICK u : u = SubSeq(b1, 3, Len(b1))
    BY Zenon
  <2>2. u \in Seq(U) /\ Len(u) = Len(v) /\ \A k \in 1 .. Len(v) : u[k] = v[k]
    BY <1>3, <1>6, <2>1
  <2> QED
    BY <1>3, <2>1, <2>2, SeqEqual
<1>10. EvalToken(Ready(b1), op) = Ready(<<Node(op, l, r)>> \o v)
  <2>1. op \notin Numbers
    BY CalcAssumption
  <2>2. ~(Len(b1) < 2)
    BY <1>3, <1>6
  <2>3. op # Blank
    BY CalcAssumption DEF Blank
  <2> QED
    BY <1>6, <1>9, <2>1, <2>2, <2>3 DEF EvalToken, Ready
<1>11. Evaluates(b1, <<op>>, <<Node(op, l, r)>> \o v)
    BY <1>10, EvaluatesOne, Zenon
<1>12. w \o y \in Seq(S) /\ <<op>> \in Seq(S)
    OBVIOUS
<1> QED
    BY <1>8, <1>11, <1>12, EvaluatesJoined

-----------------------------------------------------------------------------
(* Calculator: what to_postfix does with a part that has a meaning         *)

Words == Numbers \cup Operators
Marks == Words \cup Opening \cup Closing \cup {Blank, NUL}

LEMMA MarksApart ==
    /\ \A c \in Operators : ~InBrackets(c) /\ ~InOpening(c)
    /\ \A c \in Opening : InBrackets(c) /\ InOpening(c)
    /\ \A c \in Words : c # NUL
    /\ \A c : prec(c) \in {0, 1, 2} /\ prec(c) \in Int
<1>1. \A c \in Operators : ~InBrackets(c) /\ ~InOpening(c)
    BY CalcAssumption DEF InBrackets, InOpening, Opening, Closing, NUL
<1>2. \A c \in Opening : InBrackets(c) /\ InOpening(c)
    BY DEF InBrackets, InOpening
<1>3. \A c \in Words : c # NUL
    BY CalcAssumption DEF Words, NUL
<1>4. \A c : prec(c) \in {0, 1, 2}
    BY DEF prec
<1>5. \A c : prec(c) \in Int
    BY <1>4
<1> QED
    BY <1>1, <1>2, <1>3, <1>4, <1>5, Zenon

\* No operator of precedence p or more is on top.
HeadStops(r, p) == r = <<>> \/ InBrackets(r[1]) \/ prec(r[1]) < p

\* The stack and the text before and after one token is scanned.
OnOperator(x, t, y) ==
    \A ops \in Seq(Marks), r \in Seq(Marks) :
        /\ x.st = ops \o r
        /\ \A k \in 1 .. Len(ops) : ~InBrackets(ops[k]) /\ prec(ops[k]) >= prec(t)
        /\ HeadStops(r, prec(t))
        => y.st = <<t>> \o r /\ y.out = x.out \o ops
OnClosing(x, y) ==
    \A ops \in Seq(Marks), r \in Seq(Marks), c \in Opening :
        /\ x.st = ops \o (<<c>> \o r)
        /\ \A k \in 1 .. Len(ops) : ~InOpening(ops[k])
        => y.st = r /\ y.out = x.out \o ops
Moves(x, t, y) ==
    /\ t \in Numbers => y.st = x.st /\ y.out = x.out \o <<t>>
    /\ t = Blank => y.st = x.st /\ y.out = x.out
    /\ t \in Opening => y.st = <<t>> \o x.st /\ y.out = x.out
    /\ t \in Closing => OnClosing(x, y)
    /\ t \in Operators => OnOperator(x, t, y)

\* The stack and the text after each token of s.
History(s, h) ==
    /\ \A n \in 0 .. Len(s) : h[n].st \in Seq(Marks) /\ h[n].out \in Seq(Marks)
    /\ \A n \in 1 .. Len(s) : Moves(h[n - 1], s[n], h[n])

\* From part from .. to, ops stay on the stack and u is written, and together
\* they compute t.
Leaves(h, from, to, p, t, u, ops) ==
    /\ u \in Seq(Words) /\ ops \in Seq(Words)
    /\ h[to].st = ops \o h[from - 1].st
    /\ h[to].out = h[from - 1].out \o u
    /\ \A k \in 1 .. Len(ops) : ops[k] \in Operators /\ prec(ops[k]) >= p
    /\ Computes(u \o ops, t)
Compiles(h, from, to, p, t) == \E u, ops : Leaves(h, from, to, p, t, u, ops)

\* The operators of the part outside brackets have precedence p or more.
AtLeast(s, from, to, p) == \A k \in TopLevel(s, from, to) : prec(s[k]) >= p

LEMMA SameDepth ==
    ASSUME NEW s, NEW n \in Int, n >= 1, s[n] \notin Opening, s[n] \notin Closing
    PROVE  Depth(s, n) = Depth(s, n - 1)
<1>1. \A k : k \in 1 .. n <=> k \in 1 .. n - 1 \/ k = n
    OBVIOUS
<1>2. {k \in 1 .. n : s[k] \in Opening} = {k \in 1 .. n - 1 : s[k] \in Opening}
    BY <1>1, Zenon
<1>3. {k \in 1 .. n : s[k] \in Closing} = {k \in 1 .. n - 1 : s[k] \in Closing}
    BY <1>1, Zenon
<1> QED
    BY <1>2, <1>3, Zenon DEF Depth

\* The operators of both sides of an operator outside brackets are outside
\* brackets themselves.
LEMMA SidesTopLevel ==
    ASSUME NEW s, NEW from \in Int, NEW to \in Int, from >= 1, NEW last \in TopLevel(s, from, to)
    PROVE  /\ last \in from .. to /\ s[last] \in Operators
           /\ \A k \in TopLevel(s, from, last - 1) : k \in TopLevel(s, from, to)
           /\ \A k \in TopLevel(s, last + 1, to) : k \in TopLevel(s, from, to) /\ ~(k <= last)
<1>1. last \in from .. to /\ s[last] \in Operators /\ Depth(s, last) = Depth(s, from - 1)
    BY Zenon DEF TopLevel
<1>2. /\ \A k \in from .. last - 1 : k \in from .. to
      /\ \A k \in last + 1 .. to : k \in from .. to /\ ~(k <= last)
      /\ (last + 1) - 1 = last
    BY <1>1
<1>3. \A k \in TopLevel(s, from, last - 1) : k \in TopLevel(s, from, to)
    BY <1>2, Zenon DEF TopLevel
<1>4. \A k \in TopLevel(s, last + 1, to) : k \in TopLevel(s, from, to) /\ ~(k <= last)
    BY <1>1, <1>2, Zenon DEF TopLevel
<1> QED
    BY <1>1, <1>3, <1>4, Zenon

LEMMA StopsHigher ==
    ASSUME NEW r, NEW p \in Int, NEW q \in Int, p <= q, HeadStops(r, p)
    PROVE  HeadStops(r, q)
<1>1. prec(r[1]) \in Int
    BY MarksApart, Zenon
<1>2. prec(r[1]) < p => prec(r[1]) < q
    BY <1>1
<1> QED
    BY <1>2, Zenon DEF HeadStops

LEMMA Types ==
    /\ \A w \in Seq(Words) : w \in Seq(Marks)
    /\ \A c \in Operators : <<c>> \in Seq(Words)
    /\ \A c \in Numbers : <<c>> \in Seq(Words)
    /\ \A c \in Opening : <<c>> \in Seq(Marks)
    /\ <<>> \in Seq(Words) /\ <<>> \in Seq(Marks)
    /\ \A w \in Seq(Words), y \in Seq(Words) : w \o y \in Seq(Words)
    /\ \A w \in Seq(Marks), y \in Seq(Marks) : w \o y \in Seq(Marks)
<1>1. \A w \in Seq(Words) : w \in Seq(Marks)
  <2>1. Words \subseteq Marks
    BY DEF Marks
  <2> QED
    BY <2>1
<1>2. /\ \A c \in Operators : c \in Words
      /\ \A c \in Numbers : c \in Words
      /\ \A c \in Opening : c \in Marks
    BY DEF Words, Marks
<1> QED
    BY <1>1, <1>2

LEMMA NumberPart ==
    ASSUME NEW s, NEW h, History(s, h), NEW from \in 1 .. Len(s), s[from] \in Numbers, NEW p
    PROVE  Compiles(h, from, from, p, Leaf(s[from]))
<1>1. PICK x, y, n : x = h[from - 1] /\ y = h[from] /\ n = s[from]
    BY Zenon
<1>2. Moves(x, n, y) /\ x.st \in Seq(Marks)
  <2>1. from - 1 \in 0 .. Len(s)
    OBVIOUS
  <2> QED
    BY <1>1, <2>1, Zenon DEF History
<1>3. y.st = x.st /\ y.out = x.out \o <<n>>
    BY <1>1, <1>2, Zenon DEF Moves
<1>4. PICK u, ops : u = <<n>> /\ ops = <<>>
    BY Zenon
<1>5. u \in Seq(Words) /\ ops \in Seq(Words)
    BY <1>1, <1>4, Types, Zenon
<1>6. ops \o x.st = x.st /\ u \o ops = u /\ ~\E k \in 1 .. Len(ops) : TRUE
    BY <1>2, <1>4, <1>5
<1>7. Computes(u \o ops, Leaf(n))
    BY <1>1, <1>4, <1>6, ComputesNumber, Zenon
<1>8. Leaves(h, from, from, p, Leaf(n), u, ops)
    BY <1>1, <1>3, <1>4, <1>5, <1>6, <1>7, Zenon DEF Leaves
<1> QED
    BY <1>1, <1>8, Zenon DEF Compiles

\* Texts put together in two ways.
Regroups(e, f, g) == (e \o f) \o g = e \o (f \o g)

LEMMA Regroup ==
    ASSUME NEW S, NEW e \in Seq(S), NEW f \in Seq(S), NEW g \in Seq(S)
    PROVE  Regroups(e, f, g)
BY ConcatAssociative DEF Regroups

LEMMA PartBounds ==
    ASSUME NEW s, NEW h, History(s, h), Len(s) \in Nat, NEW n \in 1 .. Len(s)
    PROVE  /\ h[n - 1].st \in Seq(Marks) /\ h[n - 1].out \in Seq(Marks)
           /\ h[n].st \in Seq(Marks) /\ h[n].out \in Seq(Marks)
           /\ Moves(h[n - 1], s[n], h[n])
<1>1. n - 1 \in 0 .. Len(s) /\ n \in 0 .. Len(s)
    OBVIOUS
<1> QED
    BY <1>1, Zenon DEF History

\* The left side of an operator, then the operator.
AfterLeft(h, from, last, c, u, ops) ==
    /\ h[last].st = <<c>> \o h[from - 1].st
    /\ h[last].out = (h[from - 1].out \o u) \o ops

LEMMA LeftSide ==
    ASSUME NEW s, NEW h, History(s, h), Len(s) \in Nat, NEW last \in 1 .. Len(s), NEW from,
           s[last] \in Operators, h[from - 1].st \in Seq(Marks),
           HeadStops(h[from - 1].st, prec(s[last])),
           NEW l, NEW u, NEW ops, Leaves(h, from, last - 1, prec(s[last]), l, u, ops)
    PROVE  AfterLeft(h, from, last, s[last], u, ops)
<1>1. PICK x, y, t, r : x = h[last - 1] /\ y = h[last] /\ t = s[last] /\ r = h[from - 1].st
    BY Zenon
<1>2. OnOperator(x, t, y)
    BY <1>1, PartBounds, Zenon DEF Moves
<1>3. /\ ops \in Seq(Words) /\ x.st = ops \o r /\ x.out = h[from - 1].out \o u
      /\ \A k \in 1 .. Len(ops) : ops[k] \in Operators /\ prec(ops[k]) >= prec(t)
    BY <1>1, Zenon DEF Leaves
<1>4. ops \in Seq(Marks) /\ \A k \in 1 .. Len(ops) : ~InBrackets(ops[k])
    BY <1>3, Types, MarksApart, Zenon
<1>5. y.st = <<t>> \o r /\ y.out = x.out \o ops
    BY <1>1, <1>2, <1>3, <1>4, Zenon DEF OnOperator
<1> QED
    BY <1>1, <1>3, <1>5, Zenon DEF AfterLeft

LEMMA OperatorStops ==
    ASSUME NEW c \in Operators, NEW r \in Seq(Marks)
    PROVE  HeadStops(<<c>> \o r, prec(c) + 1)
<1>1. PICK x : x = <<c>> \o r
    BY Zenon
<1>2. x[1] = c
    BY <1>1
<1>3. prec(c) < prec(c) + 1
  <2>1. prec(c) \in Int
    BY MarksApart, Zenon
  <2> QED
    BY <2>1
<1> QED
    BY <1>1, <1>2, <1>3, Zenon DEF HeadStops

\* An operator between two sides that are compiled.
LEMMA OperatorPart ==
    ASSUME NEW s, NEW h, NEW from, NEW last, NEW to, s[last] \in Operators,
           h[from - 1].st \in Seq(Marks), h[from - 1].out \in Seq(Marks),
           NEW p \in Int, p <= prec(s[last]), NEW l, NEW r, NEW ul, NEW ol, NEW q \in Int, p <= q,
           Leaves(h, from, last - 1, prec(s[last]), l, ul, ol),
           h[last].st = <<s[last]>> \o h[from - 1].st,
           h[last].out = (h[from - 1].out \o ul) \o ol,
           (last + 1) - 1 = last,
           Compiles(h, last + 1, to, q, r)
    PROVE  Compiles(h, from, to, p, Node(s[last], l, r))
<1>1. PICK ur, or : Leaves(h, last + 1, to, q, r, ur, or)
    BY Zenon DEF Compiles
<1>2. PICK op, base, out : op = s[last] /\ base = h[from - 1].st /\ out = h[from - 1].out
    BY Zenon
<1>3. /\ ul \in Seq(Words) /\ ol \in Seq(Words) /\ ur \in Seq(Words) /\ or \in Seq(Words)
      /\ Computes(ul \o ol, l) /\ Computes(ur \o or, r)
      /\ h[to].st = or \o (<<op>> \o base)
      /\ h[to].out = ((out \o ul) \o ol) \o ur
      /\ \A k \in 1 .. Len(or) : or[k] \in Operators /\ prec(or[k]) >= q
    BY <1>1, <1>2, Zenon DEF Leaves
<1>4. op \in Operators /\ <<op>> \in Seq(Words) /\ base \in Seq(Marks) /\ out \in Seq(Marks)
    BY <1>2, Types, Zenon
<1>5. /\ ul \in Seq(Marks) /\ ol \in Seq(Marks) /\ ur \in Seq(Marks) /\ or \in Seq(Marks)
      /\ <<op>> \in Seq(Marks)
    BY <1>3, <1>4, Types, Zenon
<1>6. PICK u, ops : u = (ul \o ol) \o ur /\ ops = or \o <<op>>
    BY Zenon
<1>7. u \in Seq(Words) /\ ops \in Seq(Words)
    BY <1>3, <1>4, <1>6, Types, Zenon
<1>8. h[to].out = out \o u
  <2>1. PICK w : w = ul \o ol
    BY Zenon
  <2>2. w \in Seq(Marks)
    BY <1>5, <2>1, Types, Zenon
  <2>3. Regroups(out, ul, ol) /\ Regroups(out, w, ur)
    BY <1>4, <1>5, <2>2, Regroup
  <2> QED
    BY <1>3, <1>6, <2>1, <2>3, Zenon DEF Regroups
<1>9. h[to].st = ops \o base
  <2>1. PICK w : w = <<op>>
    BY Zenon
  <2>2. Regroups(or, w, base)
    BY <1>4, <1>5, <2>1, Regroup
  <2> QED
    BY <1>3, <1>6, <2>1, <2>2, Zenon DEF Regroups
<1>10. \A k \in 1 .. Len(ops) : ops[k] \in Operators /\ prec(ops[k]) >= p
  <2>1. Len(ops) = Len(or) + 1 /\ Len(or) \in Nat /\ ops[Len(or) + 1] = op
        /\ \A k \in 1 .. Len(or) : ops[k] = or[k]
    <3>1. PICK w : w = <<op>>
      BY Zenon
    <3>2. Len(w) = 1 /\ w[1] = op /\ 1 \in 1 .. 1
      BY <3>1
    <3>3. ops = or \o w /\ w \in Seq(Words)
      BY <1>4, <1>6, <3>1, Zenon
    <3>4. /\ Len(ops) = Len(or) + Len(w)
          /\ \A k \in 1 .. Len(or) : ops[k] = or[k]
          /\ \A k \in 1 .. Len(w) : ops[Len(or) + k] = w[k]
      BY <1>3, <3>3, Joins
    <3>5. Len(or) \in Nat
      BY <1>3, LenProperties
    <3> QED
      BY <3>2, <3>4, <3>5, Zenon
  <2> TAKE k \in 1 .. Len(ops)
  <2>2. CASE k \in 1 .. Len(or)
    <3>1. ops[k] \in Operators /\ prec(ops[k]) >= q /\ prec(ops[k]) \in Int
      BY <1>3, <2>1, <2>2, MarksApart, Zenon
    <3> QED
      BY <3>1
  <2>3. CASE k = Len(or) + 1
    <3>1. ops[k] = op /\ prec(op) \in Int /\ p <= prec(op)
      BY <1>2, <2>1, <2>3, MarksApart, Zenon
    <3>2. prec(op) >= p
      BY <3>1
    <3> QED
      BY <1>4, <3>1, <3>2, Zenon
  <2> QED
    BY <2>1, <2>2, <2>3
<1>11. Computes(u \o ops, Node(op, l, r))
  <2>1. PICK w, y : w = ul \o ol /\ y = ur \o or
    BY Zenon
  <2>2. w \in Seq(Words) /\ y \in Seq(Words) /\ op \in Words
    BY <1>3, <1>4, <2>1, Types, Zenon DEF Words
  <2>3. Computes((w \o y) \o <<op>>, Node(op, l, r))
    BY <1>3, <1>4, <2>1, <2>2, ComputesNode, Zenon
  <2>4. PICK z : z = <<op>>
    BY Zenon
  <2>5. u \o ops = (w \o y) \o z
    <3>1. z \in Seq(Words)
      BY <1>4, <2>4, Zenon
    <3>2. Regroups(u, or, z)
      BY <1>3, <1>7, <3>1, Regroup
    <3>3. Regroups(w, ur, or)
      BY <1>3, <2>2, Regroup
    <3> QED
      BY <1>6, <2>1, <2>4, <3>2, <3>3, Zenon DEF Regroups
  <2> QED
    BY <2>3, <2>4, <2>5, Zenon
<1>12. Leaves(h, from, to, p, Node(op, l, r), u, ops)
    BY <1>2, <1>7, <1>8, <1>9, <1>10, <1>11, Zenon DEF Leaves
<1> QED
    BY <1>2, <1>12, Zenon DEF Compiles

LEMMA BracketStops ==
    ASSUME NEW c \in Opening, NEW r \in Seq(Marks), NEW p
    PROVE  HeadStops(<<c>> \o r, p)
<1>1. PICK x : x = <<c>> \o r
    BY Zenon
<1>2. x[1] = c
    BY <1>1
<1> QED
    BY <1>1, <1>2, MarksApart, Zenon DEF HeadStops

\* Brackets around a part that is compiled.
LEMMA BracketPart ==
    ASSUME NEW s, NEW h, History(s, h), Len(s) \in Nat, NEW from \in 1 .. Len(s), NEW to \in 1 .. Len(s),
           s[from] \in Opening, s[to] \in Closing, NEW p, NEW q, NEW t,
           (from + 1) - 1 = from,
           Compiles(h, from + 1, to - 1, q, t)
    PROVE  Compiles(h, from, to, p, t)
<1>1. PICK ui, oi : Leaves(h, from + 1, to - 1, q, t, ui, oi)
    BY Zenon DEF Compiles
<1>2. PICK x, y, z, c, base, out :
         /\ x = h[from] /\ y = h[to - 1] /\ z = h[to] /\ c = s[from]
         /\ base = h[from - 1].st /\ out = h[from - 1].out
    BY Zenon
<1>3. /\ base \in Seq(Marks) /\ out \in Seq(Marks) /\ x.st = <<c>> \o base /\ x.out = out
      /\ OnClosing(y, z) /\ c \in Opening
  <2>1. base \in Seq(Marks) /\ out \in Seq(Marks) /\ Moves(h[from - 1], c, x)
    BY <1>2, PartBounds, Zenon
  <2>2. Moves(y, s[to], z)
    BY <1>2, PartBounds, Zenon
  <2>3. x.st = <<c>> \o base /\ x.out = out
    BY <1>2, <2>1, Zenon DEF Moves
  <2>4. OnClosing(y, z)
    BY <2>2, Zenon DEF Moves
  <2> QED
    BY <1>2, <2>1, <2>3, <2>4, Zenon
<1>4. /\ ui \in Seq(Words) /\ oi \in Seq(Words) /\ y.st = oi \o (<<c>> \o base) /\ y.out = out \o ui
      /\ \A k \in 1 .. Len(oi) : oi[k] \in Operators
      /\ Computes(ui \o oi, t)
    BY <1>1, <1>2, <1>3, Zenon DEF Leaves
<1>5. oi \in Seq(Marks) /\ ui \in Seq(Marks) /\ \A k \in 1 .. Len(oi) : ~InOpening(oi[k])
    BY <1>4, Types, MarksApart, Zenon
<1>6. z.st = base /\ z.out = (out \o ui) \o oi
    BY <1>3, <1>4, <1>5, Zenon DEF OnClosing
<1>7. PICK u, ops : u = ui \o oi /\ ops = <<>>
    BY Zenon
<1>8. u \in Seq(Words) /\ ops \in Seq(Words)
    BY <1>4, <1>7, Types, Zenon
<1>9. ops \o base = base /\ u \o ops = u /\ ~\E k \in 1 .. Len(ops) : TRUE
    BY <1>3, <1>7, <1>8
<1>10. z.out = out \o u
  <2>1. Regroups(out, ui, oi)
    BY <1>3, <1>5, Regroup
  <2> QED
    BY <1>6, <1>7, <2>1, Zenon DEF Regroups
<1>11. Computes(u \o ops, t)
    BY <1>4, <1>7, <1>9, Zenon
<1>12. Leaves(h, from, to, p, t, u, ops)
    BY <1>2, <1>6, <1>8, <1>9, <1>10, <1>11, Zenon DEF Leaves
<1> QED
    BY <1>12, Zenon DEF Compiles

\* A part that has a meaning and operators of precedence p or more, on a stack
\* whose top stops them.
PartRight(s, h, from, to) ==
    \A t \in Meanings(s)[<<from, to>>], p \in 1 .. 3 :
        AtLeast(s, from, to, p) /\ HeadStops(h[from - 1].st, p) => Compiles(h, from, to, p, t)

\* The same for all parts of at most n places.
PartsRight(s, h, n) ==
    \A x \in 1 .. Len(s) + 1, y \in 0 .. Len(s) : y - x + 1 <= n => PartRight(s, h, x, y)

LEMMA BlankFirst ==
    ASSUME NEW s, NEW h, History(s, h), Len(s) \in Nat, NEW from \in 1 .. Len(s), NEW to \in from .. Len(s),
           s[from] = Blank, PartRight(s, h, from + 1, to),
           Meanings(s)[<<from, to>>] = Meanings(s)[<<from + 1, to>>]
    PROVE  PartRight(s, h, from, to)
<1> SUFFICES ASSUME NEW t \in Meanings(s)[<<from, to>>], NEW p \in 1 .. 3,
                    AtLeast(s, from, to, p), HeadStops(h[from - 1].st, p)
             PROVE  Compiles(h, from, to, p, t)
    BY Zenon DEF PartRight
<1>1. h[from].st = h[from - 1].st /\ h[from].out = h[from - 1].out
  <2>1. Moves(h[from - 1], s[from], h[from])
    BY PartBounds, Zenon
  <2> QED
    BY <2>1, Zenon DEF Moves
<1>2. (from + 1) - 1 = from /\ \A k \in from + 1 .. to : k \in from .. to
    OBVIOUS
<1>3. Depth(s, from) = Depth(s, from - 1)
  <2>1. s[from] \notin Opening /\ s[from] \notin Closing
    BY DEF Opening, Closing, Blank
  <2>2. from \in Int /\ from >= 1
    OBVIOUS
  <2> QED
    BY <2>1, <2>2, SameDepth
<1>4. AtLeast(s, from + 1, to, p)
    BY <1>2, <1>3, Zenon DEF AtLeast, TopLevel
<1>5. Compiles(h, from + 1, to, p, t)
    BY <1>1, <1>2, <1>4, Zenon DEF PartRight
<1>6. PICK u, ops : Leaves(h, from + 1, to, p, t, u, ops)
    BY <1>5, Zenon DEF Compiles
<1>7. Leaves(h, from, to, p, t, u, ops)
    BY <1>1, <1>2, <1>6, Zenon DEF Leaves
<1> QED
    BY <1>7, Zenon DEF Compiles

LEMMA BlankLast ==
    ASSUME NEW s, NEW h, History(s, h), Len(s) \in Nat, NEW from \in 1 .. Len(s), NEW to \in from .. Len(s),
           s[to] = Blank, PartRight(s, h, from, to - 1),
           Meanings(s)[<<from, to>>] = Meanings(s)[<<from, to - 1>>]
    PROVE  PartRight(s, h, from, to)
<1> SUFFICES ASSUME NEW t \in Meanings(s)[<<from, to>>], NEW p \in 1 .. 3,
                    AtLeast(s, from, to, p), HeadStops(h[from - 1].st, p)
             PROVE  Compiles(h, from, to, p, t)
    BY Zenon DEF PartRight
<1>1. h[to].st = h[to - 1].st /\ h[to].out = h[to - 1].out
  <2>1. to \in 1 .. Len(s)
    OBVIOUS
  <2>2. Moves(h[to - 1], s[to], h[to])
    BY <2>1, PartBounds, Zenon
  <2> QED
    BY <2>2, Zenon DEF Moves
<1>2. \A k \in from .. to - 1 : k \in from .. to
    OBVIOUS
<1>4. AtLeast(s, from, to - 1, p)
    BY <1>2, Zenon DEF AtLeast, TopLevel
<1>5. Compiles(h, from, to - 1, p, t)
    BY <1>4, Zenon DEF PartRight
<1>6. PICK u, ops : Leaves(h, from, to - 1, p, t, u, ops)
    BY <1>5, Zenon DEF Compiles
<1>7. Leaves(h, from, to, p, t, u, ops)
    BY <1>1, <1>6, Zenon DEF Leaves
<1> QED
    BY <1>7, Zenon DEF Compiles

LEMMA OperatorRight ==
    ASSUME NEW s, NEW h, History(s, h), Len(s) \in Nat, NEW from \in 1 .. Len(s), NEW to \in from .. Len(s),
           NEW last \in TopLevel(s, from, to),
           \A k \in TopLevel(s, from, to) :
               prec(s[last]) < prec(s[k]) \/ (prec(s[last]) = prec(s[k]) /\ k <= last),
           NEW p \in 1 .. 3, AtLeast(s, from, to, p), HeadStops(h[from - 1].st, p),
           PartRight(s, h, from, last - 1), PartRight(s, h, last + 1, to),
           NEW l \in Meanings(s)[<<from, last - 1>>], NEW r \in Meanings(s)[<<last + 1, to>>]
    PROVE  Compiles(h, from, to, p, Node(s[last], l, r))
<1>1. from \in Int /\ to \in Int /\ from >= 1 /\ p \in Int
    OBVIOUS
<1>2. /\ last \in TopLevel(s, from, to)
      /\ \A k \in TopLevel(s, from, to) :
            prec(s[last]) < prec(s[k]) \/ (prec(s[last]) = prec(s[k]) /\ k <= last)
    OBVIOUS
<1>3. PICK q : q = prec(s[last])
    BY Zenon
<1>4. /\ last \in from .. to /\ s[last] \in Operators
      /\ \A k \in TopLevel(s, from, last - 1) : k \in TopLevel(s, from, to)
      /\ \A k \in TopLevel(s, last + 1, to) : k \in TopLevel(s, from, to) /\ ~(k <= last)
    BY <1>1, <1>2, SidesTopLevel
<1>5. q \in {1, 2} /\ prec(s[last]) >= p
    BY <1>2, <1>3, <1>4, OperatorPrec, Zenon DEF AtLeast
<1>6. q \in 1 .. 3 /\ q + 1 \in 1 .. 3 /\ q \in Int /\ q + 1 \in Int /\ p <= q /\ p <= q + 1
    BY <1>3, <1>5
<1>7. last \in 1 .. Len(s) /\ (last + 1) - 1 = last
    BY <1>4
<1>8. AtLeast(s, from, last - 1, q)
  <2> SUFFICES ASSUME NEW k \in TopLevel(s, from, last - 1) PROVE prec(s[k]) >= q
    BY Zenon DEF AtLeast
  <2>1. /\ q < prec(s[k]) \/ q = prec(s[k])
        /\ prec(s[k]) \in Int
    BY <1>2, <1>3, <1>4, MarksApart, Zenon
  <2> QED
    BY <1>6, <2>1
<1>9. AtLeast(s, last + 1, to, q + 1)
  <2> SUFFICES ASSUME NEW k \in TopLevel(s, last + 1, to) PROVE prec(s[k]) >= q + 1
    BY Zenon DEF AtLeast
  <2>1. q < prec(s[k]) /\ prec(s[k]) \in Int
    BY <1>2, <1>3, <1>4, MarksApart, Zenon
  <2> QED
    BY <1>6, <2>1
<1>10. HeadStops(h[from - 1].st, q)
    BY <1>1, <1>6, StopsHigher
<1>11. Compiles(h, from, last - 1, q, l)
    BY <1>6, <1>8, <1>10, Zenon DEF PartRight
<1>12. PICK u, ops : Leaves(h, from, last - 1, q, l, u, ops)
    BY <1>11, Zenon DEF Compiles
<1>13. h[from - 1].st \in Seq(Marks) /\ h[from - 1].out \in Seq(Marks)
    BY PartBounds, Zenon
<1>14. /\ h[last].st = <<s[last]>> \o h[from - 1].st
       /\ h[last].out = (h[from - 1].out \o u) \o ops
  <2>1. /\ HeadStops(h[from - 1].st, prec(s[last]))
        /\ Leaves(h, from, last - 1, prec(s[last]), l, u, ops)
    BY <1>3, <1>10, <1>12, Zenon
  <2>2. AfterLeft(h, from, last, s[last], u, ops)
    BY <1>4, <1>7, <1>13, <2>1, LeftSide
  <2> QED
    BY <2>2, Zenon DEF AfterLeft
<1>15. HeadStops(h[last].st, q + 1)
    BY <1>3, <1>4, <1>13, <1>14, OperatorStops, Zenon
<1>16. Compiles(h, last + 1, to, q + 1, r)
    BY <1>6, <1>7, <1>9, <1>15, Zenon DEF PartRight
<1> QED
    BY <1>1, <1>3, <1>4, <1>6, <1>7, <1>12, <1>13, <1>14, <1>16, OperatorPart, Zenon

LEMMA BracketRight ==
    ASSUME NEW s, NEW h, History(s, h), Len(s) \in Nat, NEW from \in 1 .. Len(s), NEW to \in from .. Len(s),
           s[from] \in Opening, s[to] \in Closing, PartRight(s, h, from + 1, to - 1), NEW p,
           NEW t \in Meanings(s)[<<from + 1, to - 1>>]
    PROVE  Compiles(h, from, to, p, t)
<1>1. to \in 1 .. Len(s) /\ (from + 1) - 1 = from /\ 1 \in 1 .. 3
    OBVIOUS
<1>2. AtLeast(s, from + 1, to - 1, 1)
  <2> SUFFICES ASSUME NEW k \in TopLevel(s, from + 1, to - 1) PROVE prec(s[k]) >= 1
    BY Zenon DEF AtLeast
  <2>1. prec(s[k]) \in {1, 2}
    BY OperatorPrec, Zenon DEF TopLevel
  <2> QED
    BY <2>1
<1>3. h[from].st = <<s[from]>> \o h[from - 1].st /\ h[from - 1].st \in Seq(Marks)
  <2>1. Moves(h[from - 1], s[from], h[from]) /\ h[from - 1].st \in Seq(Marks)
    BY PartBounds, Zenon
  <2> QED
    BY <2>1, Zenon DEF Moves
<1>4. HeadStops(h[from].st, 1)
    BY <1>3, BracketStops, Zenon
<1>5. Compiles(h, from + 1, to - 1, 1, t)
    BY <1>1, <1>2, <1>4, Zenon DEF PartRight
<1> QED
    BY <1>1, <1>5, BracketPart, Zenon

LEMMA NodesAre ==
    ASSUME NEW op, NEW lefts, NEW rights, NEW t \in Nodes(op, lefts, rights)
    PROVE  \E l \in lefts, r \in rights : t = Node(op, l, r)
BY DEF Nodes

\* A part is right if all smaller parts are.
LEMMA PartFromSmaller ==
    ASSUME NEW s, NEW h, History(s, h), Len(s) \in Nat, NEW from \in 1 .. Len(s) + 1, NEW to \in 0 .. Len(s),
           PartsRight(s, h, to - from)
    PROVE  PartRight(s, h, from, to)
<1>0. PICK f, m : f = Meanings(s) /\ m = Meanings(s)[<<from, to>>]
    BY Zenon
<1>1. m = MeaningEntry(s, f, from, to)
    BY <1>0, MeaningSteps, Zenon
<1>2. CASE from > to
  <2>1. m = {}
    BY <1>1, <1>2, EntryCases, Zenon
  <2> QED
    BY <1>0, <2>1, Zenon DEF PartRight
<1>3. CASE ~(from > to)
  <2>0. from \in 1 .. Len(s) /\ to \in from .. Len(s)
    BY <1>3
  <2>1. PartRight(s, h, from + 1, to) /\ PartRight(s, h, from, to - 1) /\ PartRight(s, h, from + 1, to - 1)
    <3>1. /\ from + 1 \in 1 .. Len(s) + 1 /\ to - 1 \in 0 .. Len(s)
          /\ to - (from + 1) + 1 <= to - from /\ (to - 1) - from + 1 <= to - from
          /\ (to - 1) - (from + 1) + 1 <= to - from
      BY <2>0
    <3> QED
      BY <3>1, Zenon DEF PartsRight
  <2>2. CASE s[from] = Blank
    <3>1. m = f[<<from + 1, to>>]
      BY <1>1, <1>3, <2>2, EntryCases, Zenon
    <3> QED
      BY <1>0, <2>0, <2>1, <2>2, <3>1, BlankFirst, Zenon
  <2>3. CASE s[from] # Blank /\ s[to] = Blank
    <3>1. m = f[<<from, to - 1>>]
      BY <1>1, <1>3, <2>3, EntryCases, Zenon
    <3> QED
      BY <1>0, <2>0, <2>1, <2>3, <3>1, BlankLast, Zenon
  <2>4. CASE s[from] # Blank /\ s[to] # Blank
    <3> SUFFICES ASSUME NEW t \in m, NEW p \in 1 .. 3,
                        AtLeast(s, from, to, p), HeadStops(h[from - 1].st, p)
                 PROVE  Compiles(h, from, to, p, t)
      BY <1>0, Zenon DEF PartRight
    <3>1. CASE from = to
      <4>1. m = NumberEntry(s, from)
        BY <1>1, <1>3, <2>4, <3>1, EntryCases, Zenon
      <4>2. s[from] \in Numbers /\ t = Leaf(s[from])
        BY <4>1, Zenon DEF NumberEntry
      <4> QED
        BY <2>0, <3>1, <4>2, NumberPart, Zenon
    <3>2. CASE from # to /\ TopLevel(s, from, to) # {}
      <4>1. PICK last : last = LastApplied(s, TopLevel(s, from, to))
        BY Zenon
      <4>2. m = Nodes(s[last], f[<<from, last - 1>>], f[<<last + 1, to>>])
        <5>1. m = OperatorEntry(s, f, from, to)
          BY <1>1, <1>3, <2>4, <3>2, EntryCases, Zenon
        <5> QED
          BY <4>1, <5>1, Zenon DEF OperatorEntry
      <4>3. PICK l \in f[<<from, last - 1>>], r \in f[<<last + 1, to>>] : t = Node(s[last], l, r)
        <5>1. t \in Nodes(s[last], f[<<from, last - 1>>], f[<<last + 1, to>>])
          BY <4>2, Zenon
        <5>2. PICK op, lefts, rights : op = s[last] /\ lefts = f[<<from, last - 1>>] /\ rights = f[<<last + 1, to>>]
          BY Zenon
        <5>3. t \in Nodes(op, lefts, rights)
          BY <5>1, <5>2, Zenon
        <5>4. \E l \in lefts, r \in rights : t = Node(op, l, r)
          BY <5>3, NodesAre
        <5> QED
          BY <5>2, <5>4, Zenon
      <4>4. /\ last \in from .. to /\ last \in TopLevel(s, from, to)
            /\ \A k \in TopLevel(s, from, to) :
                  prec(s[last]) < prec(s[k]) \/ (prec(s[last]) = prec(s[k]) /\ k <= last)
        <5>1. from \in Int /\ to \in Int
          OBVIOUS
        <5>2. /\ last \in TopLevel(s, from, to)
              /\ \A k \in TopLevel(s, from, to) :
                    prec(s[last]) < prec(s[k]) \/ (prec(s[last]) = prec(s[k]) /\ k <= last)
          BY <3>2, <4>1, <5>1, LastAppliedIs
        <5> QED
          BY <5>2, Zenon DEF TopLevel
      <4>5. PartRight(s, h, from, last - 1) /\ PartRight(s, h, last + 1, to)
        <5>1. /\ last - 1 \in 0 .. Len(s) /\ last + 1 \in 1 .. Len(s) + 1
              /\ (last - 1) - from + 1 <= to - from /\ to - (last + 1) + 1 <= to - from
          BY <2>0, <4>4
        <5> QED
          BY <5>1, Zenon DEF PartsRight
      <4> QED
        BY <1>0, <2>0, <4>3, <4>4, <4>5, OperatorRight, Zenon
    <3>3. CASE from # to /\ TopLevel(s, from, to) = {}
      <4>1. s[from] \in Opening /\ s[to] \in Closing /\ m = f[<<from + 1, to - 1>>]
        <5>1. /\ s[from] \in Opening /\ s[to] \in Closing => m = f[<<from + 1, to - 1>>]
              /\ ~(s[from] \in Opening /\ s[to] \in Closing) => m = {}
          BY <1>1, <1>3, <2>4, <3>3, EntryCases
        <5> QED
          BY <5>1, Zenon
      <4> QED
        BY <1>0, <2>0, <2>1, <4>1, BracketRight, Zenon
    <3> QED
      BY <3>1, <3>2, <3>3, Zenon
  <2> QED
    BY <2>2, <2>3, <2>4, Zenon
<1> QED
    BY <1>2, <1>3, Zenon

LEMMA AllPartsRight ==
    ASSUME NEW s, NEW h, History(s, h), Len(s) \in Nat
    PROVE  \A from \in 1 .. Len(s) + 1, to \in 0 .. Len(s) : PartRight(s, h, from, to)
<1> DEFINE T == {n \in Nat : PartsRight(s, h, n)}
<1>1. ASSUME NEW n \in Int, \A x \in 1 .. Len(s) + 1, y \in 0 .. Len(s) : y - x + 1 <= n => PartsRight(s, h, y - x)
      PROVE  PartsRight(s, h, n)
    BY <1>1, PartFromSmaller, Zenon DEF PartsRight
<1>2. ASSUME NEW n \in Int, NEW k \in Int, PartsRight(s, h, n), k <= n PROVE PartsRight(s, h, k)
  <2>1. ASSUME NEW x \in 1 .. Len(s) + 1, NEW y \in 0 .. Len(s), y - x + 1 <= k PROVE y - x + 1 <= n
    BY <1>2, <2>1
  <2> QED
    BY <1>2, <2>1, Zenon DEF PartsRight
<1>3. PartsRight(s, h, 0)
  <2> SUFFICES ASSUME NEW x \in 1 .. Len(s) + 1, NEW y \in 0 .. Len(s), y - x + 1 <= 0
               PROVE  PartRight(s, h, x, y)
    BY Zenon DEF PartsRight
  <2>1. x > y
    OBVIOUS
  <2>2. Meanings(s)[<<x, y>>] = {}
    <3>1. Meanings(s)[<<x, y>>] = MeaningEntry(s, Meanings(s), x, y)
      BY MeaningSteps
    <3> QED
      BY <2>1, <3>1, EntryCases, Zenon
  <2> QED
    BY <2>2, Zenon DEF PartRight
<1>4. ASSUME NEW n \in T PROVE n + 1 \in T
  <2>1. n \in Nat /\ PartsRight(s, h, n) /\ n + 1 \in Nat /\ n + 1 \in Int /\ n \in Int
    OBVIOUS
  <2>2. ASSUME NEW x \in 1 .. Len(s) + 1, NEW y \in 0 .. Len(s), y - x + 1 <= n + 1
        PROVE  PartsRight(s, h, y - x)
    <3>1. y - x \in Int /\ y - x <= n
      BY <2>1, <2>2
    <3> QED
      BY <1>2, <2>1, <3>1, Zenon
  <2>3. PartsRight(s, h, n + 1)
    BY <1>1, <2>1, <2>2, Zenon
  <2> QED
    BY <2>1, <2>3, Zenon
<1>5. T = Nat
  <2>1. T \subseteq Nat /\ 0 \in T
    BY <1>3
  <2> HIDE DEF T
  <2> QED
    BY <1>4, <2>1, Induction
<1>6. PartsRight(s, h, Len(s))
    BY <1>5
<1>7. \A from \in 1 .. Len(s) + 1, to \in 0 .. Len(s) : to - from + 1 <= Len(s)
    OBVIOUS
<1> QED
    BY <1>6, <1>7, Zenon DEF PartsRight

-----------------------------------------------------------------------------
(* Calculator: the steps of to_postfix                                     *)

LEMMA SplitText ==
    ASSUME NEW S, NEW s \in Seq(S), NEW t \in Seq(S), NEW r, r = s \o t
    PROVE  SubSeq(r, 1, Len(s)) = s /\ SubSeq(r, Len(s) + 1, Len(r)) = t
<1>1. PICK m, n : m = Len(s) /\ n = Len(t)
    BY Zenon
<1>2. m \in Nat /\ n \in Nat
    BY <1>1
<1>3. /\ r \in Seq(S) /\ Len(r) = m + n
      /\ \A k \in 1 .. m : r[k] = s[k]
      /\ \A k \in 1 .. n : r[m + k] = t[k]
  <2>1. /\ r \in Seq(S) /\ Len(r) = Len(s) + Len(t)
        /\ \A k \in 1 .. Len(s) : r[k] = s[k]
        /\ \A k \in 1 .. Len(t) : r[Len(s) + k] = t[k]
    BY Joins
  <2> QED
    BY <1>1, <2>1, Zenon
<1>4. PICK x, y : x = SubSeq(r, 1, m) /\ y = SubSeq(r, m + 1, m + n)
    BY Zenon
<1>5. PICK z : z = r
    BY Zenon
<1>6. z \in Seq(S) /\ Len(z) = m + n
    BY <1>3, <1>5, Zenon
<1>7. /\ x \in Seq(S) /\ Len(x) = m /\ \A k \in 1 .. m : x[k] = z[k]
      /\ y \in Seq(S) /\ Len(y) = n /\ \A k \in 1 .. n : y[k] = z[m + k]
  <2>1. x = SubSeq(z, 1, m) /\ y = SubSeq(z, m + 1, m + n)
    BY <1>4, <1>5, Zenon
  <2>2. x \in Seq(S) /\ Len(x) = m /\ \A k \in 1 .. m : x[k] = z[k]
    BY <1>2, <1>6, <2>1
  <2>3. y \in Seq(S) /\ Len(y) = n
    BY <1>2, <1>6, <2>1
  <2>4. ASSUME NEW k \in 1 .. n PROVE y[k] = z[m + k]
    BY <1>2, <1>6, <2>1
  <2> QED
    BY <2>2, <2>3, <2>4, Zenon
<1>8. x = s
  <2>1. \A k \in 1 .. m : x[k] = s[k]
    BY <1>3, <1>5, <1>7, Zenon
  <2> QED
    BY <1>1, <1>7, <2>1, SeqEqual
<1>9. y = t
  <2>1. \A k \in 1 .. n : y[k] = t[k]
    BY <1>3, <1>5, <1>7, Zenon
  <2> QED
    BY <1>1, <1>7, <2>1, SeqEqual
<1> QED
    BY <1>1, <1>3, <1>4, <1>8, <1>9, Zenon

\* The part above the first place of I, the places at which to stop.
AboveAll(I) ==
    LET n == IF I # {} THEN Min(I) ELSE 0
    IN  IF n = 0 THEN stack ELSE SubSeq(stack, 1, n - 1)

StopsAt(op) == {k \in 1 .. Len(stack) : InBrackets(stack[k]) \/ ~should_pop(stack[k], op)}
OpensAt == {k \in 1 .. Len(stack) : InOpening(stack[k])}

LEMMA AboveStops ==
    ASSUME NEW op
    PROVE  Above(LAMBDA c : InBrackets(c) \/ ~should_pop(c, op)) = AboveAll(StopsAt(op))
BY Zenon DEF Above, SelectInSeq, AboveAll, StopsAt

LEMMA AboveOpens == Above(InOpening) = AboveAll(OpensAt)
BY Zenon DEF Above, SelectInSeq, AboveAll, OpensAt

LEMMA AboveSplit ==
    ASSUME NEW ops \in Seq(Marks), NEW r \in Seq(Marks), stack = ops \o r,
           NEW I, I \subseteq 1 .. Len(stack), \A k \in 1 .. Len(ops) : k \notin I,
           r # <<>> => Len(ops) + 1 \in I
    PROVE  AboveAll(I) = ops
<1>1. PICK m, n : m = Len(ops) /\ n = Len(r)
    BY Zenon
<1>2. m \in Nat /\ n \in Nat
    BY <1>1
<1>3. Len(stack) = m + n
    BY <1>1
<1>4. CASE r = <<>>
  <2>1. stack = ops /\ n = 0
    BY <1>1, <1>4
  <2>2. \A k \in I : k \in 1 .. m
    BY <1>2, <1>3, <2>1
  <2>3. I = {}
    BY <1>1, <2>2, Zenon
  <2> QED
    BY <2>1, <2>3 DEF AboveAll
<1>5. CASE r # <<>>
  <2>1. m + 1 \in I /\ m + 1 \in Int
    <3>1. m + 1 \in Int
      BY <1>2
    <3> QED
      BY <1>1, <1>5, <3>1, Zenon
  <2>2. \A k \in I : k \in Int /\ m + 1 <= k
    <3> TAKE k \in I
    <3>1. k \in 1 .. m + n /\ k \notin 1 .. m
      BY <1>1, <1>3, Zenon
    <3> QED
      BY <1>2, <3>1
  <2>3. Min(I) = m + 1
    BY <2>1, <2>2, MinIs
  <2>4. (m + 1) - 1 = m /\ m + 1 # 0
    BY <1>2
  <2>5. AboveAll(I) = SubSeq(stack, 1, m)
    BY <2>1, <2>3, <2>4, Zenon DEF AboveAll
  <2>6. SubSeq(stack, 1, Len(ops)) = ops
    BY SplitText
  <2> QED
    BY <1>1, <2>5, <2>6, Zenon
<1> QED
    BY <1>4, <1>5, Zenon

LEMMA AboveTypes ==
    ASSUME stack \in Seq(Marks), NEW I, I \subseteq 1 .. Len(stack)
    PROVE  /\ AboveAll(I) \in Seq(Marks)
           /\ Len(AboveAll(I)) \in 0 .. Len(stack)
<1>1. PICK z : z = stack
    BY Zenon
<1>2. z \in Seq(Marks) /\ Len(z) \in Nat
    BY <1>1
<1>3. CASE I = {}
    BY <1>3 DEF AboveAll
<1>4. CASE I # {}
  <2>1. I \subseteq Nat
    OBVIOUS
  <2>2. PICK m \in I : \A k \in I : m <= k
    BY <1>4, <2>1, Smallest
  <2>3. Min(I) = m
    <3>1. m \in Int /\ \A k \in I : k \in Int /\ m <= k
      BY <2>1, <2>2
    <3> QED
      BY <3>1, MinIs
  <2>4. m \in 1 .. Len(z) /\ m # 0
    BY <1>1, <2>2
  <2>5. AboveAll(I) = SubSeq(z, 1, m - 1)
    BY <1>1, <1>4, <2>3, <2>4, Zenon DEF AboveAll
  <2>6. SubSeq(z, 1, m - 1) \in Seq(Marks) /\ Len(SubSeq(z, 1, m - 1)) = m - 1
    BY <1>2, <2>4
  <2>7. m - 1 \in 0 .. Len(z)
    BY <1>2, <2>4
  <2> QED
    BY <1>1, <2>5, <2>6, <2>7, Zenon
<1> QED
    BY <1>3, <1>4, Zenon

LEMMA DropTypes ==
    ASSUME stack \in Seq(Marks), NEW n \in 0 .. Len(stack)
    PROVE  Drop(n) \in Seq(Marks)
BY DEF Drop

LEMMA SplitPlaces ==
    ASSUME NEW ops \in Seq(Marks), NEW r \in Seq(Marks), stack = ops \o r
    PROVE  /\ \A k \in 1 .. Len(ops) : k \in 1 .. Len(stack) /\ stack[k] = ops[k]
           /\ r # <<>> => Len(ops) + 1 \in 1 .. Len(stack) /\ stack[Len(ops) + 1] = r[1]
           /\ Drop(Len(ops)) = r
<1>1. PICK m, n : m = Len(ops) /\ n = Len(r)
    BY Zenon
<1>2. m \in Nat /\ n \in Nat /\ (r # <<>> => n > 0)
    BY <1>1
<1>3. /\ Len(stack) = m + n
      /\ \A k \in 1 .. m : stack[k] = ops[k]
      /\ \A k \in 1 .. n : stack[m + k] = r[k]
  <2>1. /\ Len(stack) = Len(ops) + Len(r)
        /\ \A k \in 1 .. Len(ops) : stack[k] = ops[k]
        /\ \A k \in 1 .. Len(r) : stack[Len(ops) + k] = r[k]
    BY Joins
  <2> QED
    BY <1>1, <2>1, Zenon
<1>4. \A k \in 1 .. m : k \in 1 .. m + n
    BY <1>2
<1>5. r # <<>> => m + 1 \in 1 .. m + n /\ 1 \in 1 .. n
    BY <1>2
<1>6. Drop(Len(ops)) = r
    BY SplitText DEF Drop
<1> QED
    BY <1>1, <1>3, <1>4, <1>5, <1>6, Zenon

LEMMA StopsFirst ==
    ASSUME NEW op, NEW ops \in Seq(Marks), NEW r \in Seq(Marks), stack = ops \o r,
           \A k \in 1 .. Len(ops) : ~InBrackets(ops[k]) /\ prec(ops[k]) >= prec(op),
           HeadStops(r, prec(op))
    PROVE  AboveAll(StopsAt(op)) = ops
<1>1. /\ \A k \in 1 .. Len(ops) : k \in 1 .. Len(stack) /\ stack[k] = ops[k]
      /\ r # <<>> => Len(ops) + 1 \in 1 .. Len(stack) /\ stack[Len(ops) + 1] = r[1]
    BY SplitPlaces
<1>2. \A k \in 1 .. Len(ops) : k \notin StopsAt(op)
    BY <1>1, Zenon DEF StopsAt, should_pop
<1>3. r # <<>> => Len(ops) + 1 \in StopsAt(op)
  <2>1. prec(r[1]) \in Int /\ prec(op) \in Int
    BY MarksApart, Zenon
  <2>2. prec(r[1]) < prec(op) => ~(prec(r[1]) >= prec(op))
    BY <2>1
  <2> QED
    BY <1>1, <2>2, Zenon DEF StopsAt, should_pop, HeadStops
<1>4. PICK I : I = StopsAt(op)
    BY Zenon
<1>5. I \subseteq 1 .. Len(stack) /\ (\A k \in 1 .. Len(ops) : k \notin I) /\ (r # <<>> => Len(ops) + 1 \in I)
    BY <1>2, <1>3, <1>4, Zenon DEF StopsAt
<1>6. AboveAll(I) = ops
    BY <1>5, AboveSplit
<1> QED
    BY <1>4, <1>6, Zenon

LEMMA OpensFirst ==
    ASSUME NEW ops \in Seq(Marks), NEW r \in Seq(Marks), stack = ops \o r, r # <<>>, r[1] \in Opening,
           \A k \in 1 .. Len(ops) : ~InOpening(ops[k])
    PROVE  AboveAll(OpensAt) = ops
<1>1. /\ \A k \in 1 .. Len(ops) : k \in 1 .. Len(stack) /\ stack[k] = ops[k]
      /\ r # <<>> => Len(ops) + 1 \in 1 .. Len(stack) /\ stack[Len(ops) + 1] = r[1]
    BY SplitPlaces
<1>4. PICK I : I = OpensAt
    BY Zenon
<1>5. I \subseteq 1 .. Len(stack) /\ (\A k \in 1 .. Len(ops) : k \notin I) /\ (r # <<>> => Len(ops) + 1 \in I)
    BY <1>1, <1>4, MarksApart, Zenon DEF OpensAt
<1>6. AboveAll(I) = ops
    BY <1>5, AboveSplit
<1> QED
    BY <1>4, <1>6, Zenon

LEMMA SmallerOfTwo ==
    ASSUME NEW m \in Int, NEW n \in Int, m <= n
    PROVE  Min({m, n}) = m /\ Min({n, m}) = m
<1>1. PICK I : I = {m, n}
    BY Zenon
<1>2. I = {n, m} /\ m \in I /\ \A k \in I : k \in Int /\ m <= k
    BY <1>1
<1>3. Min(I) = m
    BY <1>2, MinIs
<1> QED
    BY <1>1, <1>2, <1>3, Zenon

At(z, w) == [st |-> z, out |-> w]

LEMMA AtFields == \A z, w : At(z, w).st = z /\ At(z, w).out = w
BY DEF At

LEMMA OperatorMoves ==
    ASSUME NEW op \in Operators, ScanOperator(op), stack \in Seq(Marks), pstfix \in Seq(Marks)
    PROVE  OnOperator(At(stack, pstfix), op, At(stack', pstfix')) /\ stack' \in Seq(Marks) /\ pstfix' \in Seq(Marks)
<1>1. PICK w : w = AboveAll(StopsAt(op))
    BY Zenon
<1>2. pstfix' = pstfix \o w /\ stack' = <<op>> \o Drop(Len(w))
    BY <1>1, AboveStops, Zenon DEF ScanOperator
<1>3. w \in Seq(Marks) /\ Len(w) \in 0 .. Len(stack)
  <2>1. StopsAt(op) \subseteq 1 .. Len(stack)
    BY DEF StopsAt
  <2>2. PICK I : I = StopsAt(op)
    BY Zenon
  <2>3. AboveAll(I) \in Seq(Marks) /\ Len(AboveAll(I)) \in 0 .. Len(stack)
    BY <2>1, <2>2, AboveTypes
  <2> QED
    BY <1>1, <2>2, <2>3, Zenon
<1>4. stack' \in Seq(Marks) /\ pstfix' \in Seq(Marks)
  <2>1. Drop(Len(w)) \in Seq(Marks)
    BY <1>3, DropTypes
  <2> QED
    BY <1>2, <1>3, <2>1, Types, Zenon
<1>5. ASSUME NEW ops \in Seq(Marks), NEW r \in Seq(Marks), stack = ops \o r,
             \A k \in 1 .. Len(ops) : ~InBrackets(ops[k]) /\ prec(ops[k]) >= prec(op),
             HeadStops(r, prec(op))
      PROVE  stack' = <<op>> \o r /\ pstfix' = pstfix \o ops
  <2>1. w = ops
    BY <1>1, <1>5, StopsFirst, Zenon
  <2>2. Drop(Len(ops)) = r
    BY <1>5, SplitPlaces
  <2> QED
    BY <1>2, <2>1, <2>2, Zenon
<1>6. PICK x, y : x = At(stack, pstfix) /\ y = At(stack', pstfix')
    BY Zenon
<1>7. x.st = stack /\ x.out = pstfix /\ y.st = stack' /\ y.out = pstfix'
    BY <1>6, AtFields, Zenon
<1>8. OnOperator(x, op, y)
    BY <1>5, <1>7, Zenon DEF OnOperator
<1> QED
    BY <1>4, <1>6, <1>8, Zenon

LEMMA ClosingMoves ==
    ASSUME NEW c \in Closing, ScanClosing(c), stack \in Seq(Marks), pstfix \in Seq(Marks)
    PROVE  OnClosing(At(stack, pstfix), At(stack', pstfix')) /\ stack' \in Seq(Marks) /\ pstfix' \in Seq(Marks)
<1>1. PICK w : w = AboveAll(OpensAt)
    BY Zenon
<1>2. pstfix' = pstfix \o w /\ stack' = Drop(Min({Len(w) + 1, Len(stack)}))
    BY <1>1, AboveOpens, Zenon DEF ScanClosing
<1>3. w \in Seq(Marks) /\ Len(w) \in 0 .. Len(stack) /\ Len(stack) \in Nat
  <2>1. OpensAt \subseteq 1 .. Len(stack)
    BY DEF OpensAt
  <2>2. PICK I : I = OpensAt
    BY Zenon
  <2>3. AboveAll(I) \in Seq(Marks) /\ Len(AboveAll(I)) \in 0 .. Len(stack)
    BY <2>1, <2>2, AboveTypes
  <2>4. Len(stack) \in Nat
    OBVIOUS
  <2> QED
    BY <1>1, <2>2, <2>3, <2>4, Zenon
<1>4. stack' \in Seq(Marks) /\ pstfix' \in Seq(Marks)
  <2>1. PICK m, n : m = Len(w) /\ n = Len(stack)
    BY Zenon
  <2>2. Min({m + 1, n}) \in 0 .. n
    <3>1. CASE m + 1 <= n
      <4>1. Min({m + 1, n}) = m + 1
        <5>1. m + 1 \in Int /\ n \in Int
          BY <1>3, <2>1
        <5> QED
          BY <3>1, <5>1, SmallerOfTwo, Zenon
      <4> QED
        BY <1>3, <2>1, <3>1, <4>1
    <3>2. CASE ~(m + 1 <= n)
      <4>1. Min({m + 1, n}) = n
        <5>1. m + 1 \in Int /\ n \in Int /\ n <= m + 1
          BY <1>3, <2>1, <3>2
        <5> QED
          BY <5>1, SmallerOfTwo, Zenon
      <4> QED
        BY <1>3, <2>1, <4>1
    <3> QED
      BY <3>1, <3>2, Zenon
  <2>3. Drop(Min({Len(w) + 1, Len(stack)})) \in Seq(Marks)
    BY <2>1, <2>2, DropTypes, Zenon
  <2> QED
    BY <1>2, <1>3, <2>3, Types, Zenon
<1>5. ASSUME NEW ops \in Seq(Marks), NEW r \in Seq(Marks), NEW d \in Opening, stack = ops \o (<<d>> \o r),
             \A k \in 1 .. Len(ops) : ~InOpening(ops[k])
      PROVE  stack' = r /\ pstfix' = pstfix \o ops
  <2>1. PICK z : z = <<d>> \o r
    BY Zenon
  <2>2. z \in Seq(Marks) /\ z # <<>> /\ z[1] = d
    BY <2>1, Types DEF Marks
  <2>3. w = ops
    <3>1. stack = ops \o z /\ z[1] \in Opening
      BY <1>5, <2>1, <2>2, Zenon
    <3> QED
      BY <1>1, <1>5, <2>2, <3>1, OpensFirst, Zenon
  <2>4. PICK e, f : e = <<d>> /\ f = ops \o e
    BY Zenon
  <2>5. e \in Seq(Marks) /\ f \in Seq(Marks) /\ Len(f) = Len(ops) + 1 /\ Len(ops) \in Nat
    <3>1. e \in Seq(Marks)
      BY <2>4, Types, Zenon
    <3> QED
      BY <2>4, <3>1
  <2>6. stack = f \o r
    <3>1. Regroups(ops, e, r)
      BY <2>5, Regroup
    <3> QED
      BY <1>5, <2>4, <3>1, Zenon DEF Regroups
  <2>7. Drop(Len(f)) = r
    BY <2>5, <2>6, SplitPlaces
  <2>8. Len(ops) + 1 <= Len(stack)
    <3>1. Len(stack) = Len(f) + Len(r) /\ Len(r) \in Nat
      <4>1. f \in Seq(Marks)
        BY <2>5, Zenon
      <4> QED
        BY <2>6, <4>1, Joins
    <3> QED
      BY <2>5, <3>1
  <2>9. Min({Len(ops) + 1, Len(stack)}) = Len(ops) + 1
    <3>1. PICK m, n : m = Len(ops) + 1 /\ n = Len(stack)
      BY Zenon
    <3>2. m \in Int /\ n \in Int /\ m <= n
      BY <1>3, <2>5, <2>8, <3>1
    <3>3. Min({m, n}) = m
      BY <3>2, SmallerOfTwo, Zenon
    <3> QED
      BY <3>1, <3>3, Zenon
  <2> QED
    BY <1>2, <2>3, <2>5, <2>7, <2>9, Zenon
<1>6. PICK x, y : x = At(stack, pstfix) /\ y = At(stack', pstfix')
    BY Zenon
<1>7. x.st = stack /\ x.out = pstfix /\ y.st = stack' /\ y.out = pstfix'
    BY <1>6, AtFields, Zenon
<1>8. OnClosing(x, y)
    BY <1>5, <1>7, Zenon DEF OnClosing
<1> QED
    BY <1>4, <1>6, <1>8, Zenon

-----------------------------------------------------------------------------
(* Calculator: the inductive invariant                                     *)

\* The history of the expression scanned so far, on what the expressions
\* before it left on the stack.
Scanned(s, h, z, w) ==
    /\ History(s, h)
    /\ h[0].st \in Seq({NUL}) /\ h[0].out = <<>>
    /\ h[Len(s)].st = z /\ h[Len(s)].out = w

LEMMA HistoryGrows ==
    ASSUME NEW s \in Seq(Marks), NEW c \in Marks, NEW h, NEW z, NEW w, Scanned(s, h, z, w),
           NEW zn \in Seq(Marks), NEW wn \in Seq(Marks), Moves(At(z, w), c, At(zn, wn))
    PROVE  \E g : Scanned(Append(s, c), g, zn, wn)
<1>1. PICK n, r : n = Len(s) /\ r = Append(s, c)
    BY Zenon
<1>2. n \in Nat /\ Len(r) = n + 1 /\ r[n + 1] = c /\ \A k \in 1 .. n : r[k] = s[k]
    BY <1>1
<1>3. PICK g : g = [k \in 0 .. n + 1 |-> IF k = n + 1 THEN At(zn, wn) ELSE h[k]]
    BY Zenon
<1>4. /\ g[n + 1] = At(zn, wn)
      /\ \A k \in 0 .. n : g[k] = h[k]
  <2>1. \A k \in 0 .. n + 1 : g[k] = IF k = n + 1 THEN At(zn, wn) ELSE h[k]
    BY <1>3, Zenon
  <2>2. n + 1 \in 0 .. n + 1 /\ \A k \in 0 .. n : k \in 0 .. n + 1 /\ k # n + 1
    BY <1>2
  <2> QED
    BY <2>1, <2>2, Zenon
<1>a. PICK y : y = At(zn, wn)
    BY Zenon
<1>b. g[n + 1] = y /\ y.st = zn /\ y.out = wn
    BY <1>4, <1>a, AtFields, Zenon
<1>5. /\ \A k \in 0 .. n : h[k].st \in Seq(Marks) /\ h[k].out \in Seq(Marks)
      /\ \A k \in 1 .. n : Moves(h[k - 1], s[k], h[k])
      /\ h[0].st \in Seq({NUL}) /\ h[0].out = <<>> /\ h[n].st = z /\ h[n].out = w
    BY <1>1, Zenon DEF Scanned, History
<1>6. \A k \in 0 .. n + 1 : g[k].st \in Seq(Marks) /\ g[k].out \in Seq(Marks)
  <2> TAKE k \in 0 .. n + 1
  <2>1. CASE k = n + 1
    BY <1>b, <2>1, Zenon
  <2>2. CASE k # n + 1
    <3>1. k \in 0 .. n
      BY <1>2, <2>2
    <3> QED
      BY <1>4, <1>5, <3>1, Zenon
  <2> QED
    BY <2>1, <2>2, Zenon
<1>7. \A k \in 1 .. n + 1 : Moves(g[k - 1], r[k], g[k])
  <2> TAKE k \in 1 .. n + 1
  <2>1. CASE k = n + 1
    <3>1. k - 1 = n /\ n \in 0 .. n
      BY <1>2, <2>1
    <3>2. g[k - 1].st = z /\ g[k - 1].out = w
      BY <1>4, <1>5, <3>1, Zenon
    <3>3. Moves(g[k - 1], c, g[n + 1])
      <4>1. PICK x, v : x = g[k - 1] /\ v = At(z, w)
        BY Zenon
      <4>2. x.st = v.st /\ x.out = v.out
        <5>1. v.st = z /\ v.out = w
          BY <4>1, AtFields, Zenon
        <5>2. x.st = z /\ x.out = w
          BY <3>2, <4>1, Zenon
        <5> QED
          BY <5>1, <5>2, Zenon
      <4>3. Moves(v, c, y)
        BY <1>a, <4>1, Zenon
      <4>4. c \in Closing => OnClosing(x, y)
        <5>1. c \in Closing => OnClosing(v, y)
          BY <4>3, Zenon DEF Moves
        <5> QED
          BY <4>2, <5>1, Zenon DEF OnClosing
      <4>5. c \in Operators => OnOperator(x, c, y)
        BY <4>2, <4>3, Zenon DEF Moves, OnOperator
      <4>6. Moves(x, c, y)
        BY <4>2, <4>3, <4>4, <4>5, Zenon DEF Moves
      <4> QED
        BY <1>b, <4>1, <4>6, Zenon
    <3> QED
      BY <1>2, <2>1, <3>3, Zenon
  <2>2. CASE k # n + 1
    <3>1. k \in 0 .. n /\ k - 1 \in 0 .. n /\ k \in 1 .. n
      BY <1>2, <2>2
    <3> QED
      BY <1>2, <1>4, <1>5, <3>1, Zenon
  <2> QED
    BY <2>1, <2>2, Zenon
<1>8. History(r, g)
    BY <1>2, <1>6, <1>7, Zenon DEF History
<1>9. 0 \in 0 .. n
    BY <1>2
<1>10. Scanned(r, g, zn, wn)
    BY <1>2, <1>4, <1>5, <1>8, <1>9, <1>b, Zenon DEF Scanned
<1> QED
    BY <1>1, <1>10, Zenon

\* What is written once the stack is emptied.
Postfix(s, w) ==
    \A t \in Meaning(s) : \E v \in Seq(Words), base \in Seq({NUL}) : w = v \o base /\ Computes(v, t)

LEMMA ScannedPostfix ==
    ASSUME NEW s \in Seq(Marks), NEW h, NEW z, NEW w, Scanned(s, h, z, w)
    PROVE  Postfix(s, w \o z)
<1> SUFFICES ASSUME NEW t \in Meaning(s)
             PROVE  \E v \in Seq(Words), base \in Seq({NUL}) : w \o z = v \o base /\ Computes(v, t)
    BY Zenon DEF Postfix
<1>1. PICK n : n = Len(s)
    BY Zenon
<1>2. n \in Nat /\ 1 \in 1 .. n + 1 /\ n \in 0 .. n /\ 1 \in 1 .. 3 /\ 1 - 1 = 0
    BY <1>1
<1>3. History(s, h) /\ Len(s) \in Nat
    BY <1>1, <1>2, Zenon DEF Scanned
<1>4. PICK base : base = h[0].st
    BY Zenon
<1>5. base \in Seq({NUL}) /\ h[0].out = <<>> /\ h[n].st = z /\ h[n].out = w
    BY <1>1, <1>4, Zenon DEF Scanned
<1>6. HeadStops(base, 1)
  <2>1. base = <<>> \/ base[1] = NUL
    BY <1>5
  <2> QED
    BY <2>1, Zenon DEF HeadStops, InBrackets
<1>7. AtLeast(s, 1, n, 1)
  <2> SUFFICES ASSUME NEW k \in TopLevel(s, 1, n) PROVE prec(s[k]) >= 1
    BY Zenon DEF AtLeast
  <2>1. prec(s[k]) \in {1, 2}
    BY OperatorPrec, Zenon DEF TopLevel
  <2> QED
    BY <2>1
<1>8. PartRight(s, h, 1, n)
  <2>1. \A from \in 1 .. Len(s) + 1, to \in 0 .. Len(s) : PartRight(s, h, from, to)
    BY <1>3, AllPartsRight
  <2> QED
    BY <1>1, <1>2, <2>1, Zenon
<1>9. t \in Meanings(s)[<<1, n>>]
    BY <1>1, Zenon DEF Meaning
<1>10. Compiles(h, 1, n, 1, t)
    BY <1>2, <1>4, <1>6, <1>7, <1>8, <1>9, Zenon DEF PartRight
<1>11. PICK u, ops : Leaves(h, 1, n, 1, t, u, ops)
    BY <1>10, Zenon DEF Compiles
<1>12. /\ u \in Seq(Words) /\ ops \in Seq(Words) /\ z = ops \o base /\ w = <<>> \o u
       /\ Computes(u \o ops, t)
    BY <1>2, <1>4, <1>5, <1>11, Zenon DEF Leaves
<1>13. <<>> \o u = u
    BY <1>12
<1>14. PICK v : v = u \o ops
    BY Zenon
<1>15. v \in Seq(Words)
    BY <1>12, <1>14, Types, Zenon
<1>16. w \o z = v \o base
  <2>1. u \in Seq(Marks) /\ ops \in Seq(Marks) /\ base \in Seq(Marks)
    <3>1. base \in Seq(Marks)
      BY <1>5 DEF Marks
    <3> QED
      BY <1>12, <3>1, Types, Zenon
  <2>2. Regroups(u, ops, base)
    BY <2>1, Regroup
  <2> QED
    BY <1>12, <1>13, <1>14, <2>2, Zenon DEF Regroups
<1> QED
    BY <1>5, <1>12, <1>14, <1>15, <1>16, Zenon

-----------------------------------------------------------------------------
(* Calculator: what eval_postfix reads and computes                        *)

CalcBytes == Marks \cup {Junk}

NulsAt(s) == {k \in 1 .. Len(s) : s[k] = NUL}
UpToNul(s) == SubSeq(s, 1, (IF NulsAt(s) # {} THEN Min(NulsAt(s)) ELSE 0) - 1)

\* The text with what follows it.
Followed ==
    IF pstfix # <<>> /\ {Last(pstfix), tail} \subseteq Numbers
    THEN Front(pstfix) \o <<tail, NUL>>
    ELSE pstfix \o <<tail, NUL>>

LEMMA TextRead == Text = UpToNul(Followed)
BY Zenon DEF Text, UpToNul, NulsAt, Followed, SelectInSeq

LEMMA UpToNulIs ==
    ASSUME NEW v \in Seq(Words), NEW z \in Seq(CalcBytes), z # <<>>, z[1] = NUL, NEW s, s = v \o z
    PROVE  UpToNul(s) = v
<1>1. PICK m, n : m = Len(v) /\ n = Len(z)
    BY Zenon
<1>2. m \in Nat /\ n \in Nat /\ n > 0
    BY <1>1
<1>3. v \in Seq(CalcBytes) /\ \A k \in 1 .. Len(v) : v[k] # NUL
  <2>1. v \in Seq(CalcBytes)
    BY DEF CalcBytes, Marks
  <2>2. \A k \in 1 .. Len(v) : v[k] \in Words
    OBVIOUS
  <2> QED
    BY <2>1, <2>2, MarksApart, Zenon
<1>4. /\ Len(s) = m + n
      /\ \A k \in 1 .. m : s[k] = v[k]
      /\ \A k \in 1 .. n : s[m + k] = z[k]
  <2>1. /\ Len(s) = Len(v) + Len(z)
        /\ \A k \in 1 .. Len(v) : s[k] = v[k]
        /\ \A k \in 1 .. Len(z) : s[Len(v) + k] = z[k]
    BY <1>3, Joins
  <2> QED
    BY <1>1, <2>1, Zenon
<1>5. m + 1 \in NulsAt(s)
  <2>1. m + 1 \in 1 .. m + n /\ 1 \in 1 .. n
    BY <1>2
  <2> QED
    BY <1>4, <2>1, Zenon DEF NulsAt
<1>6. \A k \in NulsAt(s) : k \in Int /\ m + 1 <= k
  <2> TAKE k \in NulsAt(s)
  <2>1. k \in 1 .. m + n /\ s[k] = NUL
    BY <1>4, Zenon DEF NulsAt
  <2>2. k \notin 1 .. m
    BY <1>1, <1>3, <1>4, <2>1, Zenon
  <2> QED
    BY <1>2, <2>1, <2>2
<1>7. Min(NulsAt(s)) = m + 1
  <2>1. PICK I : I = NulsAt(s)
    BY Zenon
  <2>2. m + 1 \in I /\ m + 1 \in Int /\ \A k \in I : k \in Int /\ m + 1 <= k
    BY <1>2, <1>5, <1>6, <2>1
  <2>3. Min(I) = m + 1
    BY <2>2, MinIs
  <2> QED
    BY <2>1, <2>3, Zenon
<1>8. UpToNul(s) = SubSeq(s, 1, Len(v))
  <2>1. (m + 1) - 1 = m
    BY <1>2
  <2> QED
    BY <1>1, <1>5, <1>7, <2>1, Zenon DEF UpToNul
<1>9. SubSeq(s, 1, Len(v)) = v
    BY <1>3, SplitText
<1> QED
    BY <1>8, <1>9, Zenon

LEMMA TextIs ==
    ASSUME NEW v \in Seq(Words), NEW base \in Seq({NUL}), pstfix = v \o base, tail = NUL
    PROVE  Text = v
<1>1. PICK e, z : e = <<tail, NUL>> /\ z = base \o e
    BY Zenon
<1>2. e \in Seq({NUL}) /\ e # <<>>
    BY <1>1
<1>3. z \in Seq({NUL}) /\ z # <<>> /\ z[1] = NUL
  <2>1. z \in Seq({NUL}) /\ Len(z) > 0
    BY <1>1, <1>2
  <2> QED
    BY <2>1
<1>4. NUL \notin Numbers
    BY CalcAssumption
<1>5. Followed = pstfix \o e
    BY <1>1, <1>4, Zenon DEF Followed
<1>6. v \in Seq(CalcBytes) /\ base \in Seq(CalcBytes) /\ e \in Seq(CalcBytes) /\ z \in Seq(CalcBytes)
  <2>1. NUL \in CalcBytes
    BY DEF CalcBytes, Marks
  <2>2. v \in Seq(CalcBytes)
    BY DEF CalcBytes, Marks
  <2> QED
    BY <1>2, <1>3, <2>1, <2>2
<1>7. Followed = v \o z
  <2>1. Regroups(v, base, e)
    BY <1>6, Regroup
  <2> QED
    BY <1>1, <1>5, <2>1, Zenon DEF Regroups
<1>8. UpToNul(Followed) = v
    BY <1>3, <1>6, <1>7, UpToNulIs
<1> QED
    BY <1>8, TextRead, Zenon

\* Text that was compiled from an expression evaluates to its meaning.
LEMMA PostfixValue ==
    ASSUME NEW t \in Meaning(expr), Postfix(expr, pstfix), tail = NUL
    PROVE  Evaluated(Text)[Len(Text)] = Ready(<<t>>)
<1>1. PICK v \in Seq(Words), base \in Seq({NUL}) : pstfix = v \o base /\ Computes(v, t)
    BY Zenon DEF Postfix
<1>2. Text = v
    BY <1>1, TextIs
<1>3. Len(v) \in Nat
    OBVIOUS
<1>4. PICK e : e = <<>>
    BY Zenon
<1>5. e \in Seq({}) /\ <<t>> \o e = <<t>>
    BY <1>4
<1>6. Evaluates(e, v, <<t>> \o e)
    BY <1>1, <1>5, Zenon DEF Computes
<1>7. Evaluates(<<>>, v, <<t>>)
    BY <1>4, <1>5, <1>6, Zenon
<1>8. Evaluated(v)[Len(v)] = Ready(<<t>>)
    BY <1>3, <1>7, EvaluatesResult, Zenon
<1> QED
    BY <1>2, <1>8, Zenon

\* Every low byte left on the stack before this expression is zero.
Clean == remains \in Seq({NUL})

Scanning ==
    /\ expr \in Seq(Marks) /\ stack \in Seq(Marks) /\ pstfix \in Seq(Marks)
    /\ \E h : Scanned(expr, h, stack, pstfix)

\* Over a clean stack there is the history of what is scanned; then its text.
CalcInv ==
    /\ calc = "scan" /\ Clean => Scanning
    /\ calc = "eval" /\ Clean => Postfix(expr, pstfix)
    /\ CalculatorCorrect

LEMMA NewHistory ==
    ASSUME NEW z \in Seq({NUL})
    PROVE  \E h : Scanned(<<>>, h, z, <<>>)
<1>1. PICK x, h, e : x = At(z, <<>>) /\ h = [n \in {0} |-> x] /\ e = <<>>
    BY Zenon
<1>2. h[0] = x /\ Len(e) = 0
    BY <1>1
<1>3. h[0].st = z /\ h[0].out = <<>>
  <2>1. x.st = z /\ x.out = <<>>
    BY <1>1, AtFields, Zenon
  <2> QED
    BY <1>2, <2>1, Zenon
<1>4. z \in Seq(Marks) /\ <<>> \in Seq(Marks)
    BY DEF Marks
<1>5. (\A n \in 0 .. 0 : n = 0) /\ ~\E n \in 1 .. 0 : TRUE
    OBVIOUS
<1>6. History(e, h)
    BY <1>2, <1>3, <1>4, <1>5, Zenon DEF History
<1>7. Scanned(e, h, z, <<>>)
    BY <1>2, <1>3, <1>6, Zenon DEF Scanned
<1> QED
    BY <1>1, <1>7, Zenon

LEMMA CalcStarts == CalcInit => CalcInv
<1> SUFFICES ASSUME CalcInit PROVE CalcInv
    BY Zenon
<1>1. /\ expr = <<>> /\ stack = <<>> /\ pstfix = <<>> /\ tail = NUL /\ calc = "scan"
    BY Zenon DEF CalcInit
<1>2. expr \in Seq(Marks) /\ stack \in Seq(Marks) /\ pstfix \in Seq(Marks)
    BY <1>1
<1>3. \E h : Scanned(expr, h, stack, pstfix)
  <2>1. <<>> \in Seq({NUL})
    OBVIOUS
  <2>2. \E h : Scanned(<<>>, h, <<>>, <<>>)
    BY <2>1, NewHistory, Zenon
  <2> QED
    BY <1>1, <2>2, Zenon
<1>4. calc # "eval" /\ calc \notin {"done", "exit"}
    BY <1>1
<1> QED
    BY <1>2, <1>3, <1>4, Zenon DEF CalcInv, Scanning, CalculatorCorrect

\* A token scanned.
LEMMA ScanKeeps ==
    ASSUME calc = "scan", Scanning, NEW c \in Marks, Scan(c), stack' \in Seq(Marks), pstfix' \in Seq(Marks),
           Moves(At(stack, pstfix), c, At(stack', pstfix'))
    PROVE  CalcInv'
<1>1. calc = "scan" /\ calc' = calc /\ expr' = Append(expr, c)
    BY DEF Scan
<1>2. expr \in Seq(Marks) /\ \E h : Scanned(expr, h, stack, pstfix)
    BY Zenon DEF Scanning
<1>3. PICK h : Scanned(expr, h, stack, pstfix)
    BY <1>2, Zenon
<1>4. PICK zn, wn : zn = stack' /\ wn = pstfix'
    BY Zenon
<1>5. zn \in Seq(Marks) /\ wn \in Seq(Marks) /\ Moves(At(stack, pstfix), c, At(zn, wn))
    BY <1>4, Zenon
<1>6. \E g : Scanned(Append(expr, c), g, zn, wn)
  <2>1. PICK s, z, w : s = expr /\ z = stack /\ w = pstfix
    BY Zenon
  <2>2. s \in Seq(Marks) /\ Scanned(s, h, z, w) /\ Moves(At(z, w), c, At(zn, wn))
    BY <1>2, <1>3, <1>5, <2>1, Zenon
  <2>3. \E g : Scanned(Append(s, c), g, zn, wn)
    BY <1>5, <2>2, HistoryGrows
  <2> QED
    BY <2>1, <2>3, Zenon
<1>7. PICK en : en = expr'
    BY Zenon
<1>8. PICK g : Scanned(en, g, zn, wn)
    BY <1>1, <1>6, <1>7, Zenon
<1>9. Append(expr, c) \in Seq(Marks)
    BY <1>2
<1>10. (\E f : Scanned(expr, f, stack, pstfix))'
    BY <1>4, <1>7, <1>8, Zenon
<1>11. Scanning'
    BY <1>1, <1>9, <1>10, Zenon DEF Scanning
<1>12. calc' # "eval" /\ calc' \notin {"done", "exit"}
    BY <1>1
<1> QED
    BY <1>11, <1>12, Zenon DEF CalcInv, CalculatorCorrect

\* A token is of one kind.
LEMMA KindsApart ==
    /\ \A c \in Numbers : c # Blank /\ c \notin Opening /\ c \notin Closing /\ c \notin Operators
    /\ \A c \in Operators : c # Blank /\ c \notin Opening /\ c \notin Closing /\ c \notin Numbers
    /\ \A c \in Opening : c # Blank /\ c \notin Operators /\ c \notin Closing /\ c \notin Numbers
    /\ \A c \in Closing : c # Blank /\ c \notin Operators /\ c \notin Opening /\ c \notin Numbers
    /\ Blank \notin Opening /\ Blank \notin Closing /\ Blank \notin Operators /\ Blank \notin Numbers
<1>1. /\ \A c \in Numbers : c # Blank /\ c \notin Opening /\ c \notin Closing
      /\ Blank \notin Numbers
      /\ Numbers \cap {"+", "-", "*", "/"} = {} /\ Operators \subseteq {"+", "-", "*", "/"}
    BY CalcAssumption, Zenon
<1>2. \A c \in {"+", "-", "*", "/"} : c # Blank /\ c \notin Opening /\ c \notin Closing
    BY DEF Opening, Closing, Blank
<1>3. /\ \A c \in Opening : c # Blank /\ c \notin Closing
      /\ Blank \notin Opening /\ Blank \notin Closing
    BY DEF Opening, Closing, Blank
<1> QED
    BY <1>1, <1>2, <1>3, Zenon

LEMMA TokensScanned ==
    ASSUME CalcInv,
           \/ \E n \in Numbers : ScanNumber(n)
           \/ \E op \in Operators : ScanOperator(op)
           \/ \E c \in Opening : ScanOpening(c)
           \/ \E c \in Closing : ScanClosing(c)
           \/ ScanBlank
    PROVE  CalcInv'
<1>a. calc = "scan" /\ calc' = calc /\ remains' = remains
    BY Zenon DEF ScanNumber, ScanOperator, ScanOpening, ScanClosing, ScanBlank, Scan
<1>b. CASE ~Clean
  <2>1. ~Clean' /\ calc' \notin {"done", "exit"}
    <3>1. calc' \notin {"done", "exit"}
      BY <1>a
    <3> QED
      BY <1>a, <1>b, <3>1, Zenon DEF Clean
  <2> QED
    BY <2>1, Zenon DEF CalcInv, CalculatorCorrect
<1> SUFFICES ASSUME Clean PROVE CalcInv'
    BY <1>b, Zenon
<1>c. calc = "scan" /\ Scanning
    BY <1>a, Zenon DEF CalcInv
<1>1. stack \in Seq(Marks) /\ pstfix \in Seq(Marks)
    BY <1>c, Zenon DEF Scanning
<1>2. PICK x, y : x = At(stack, pstfix) /\ y = At(stack', pstfix')
    BY Zenon
<1>3. x.st = stack /\ x.out = pstfix /\ y.st = stack' /\ y.out = pstfix'
    BY <1>2, AtFields, Zenon
<1>4. ASSUME NEW n \in Numbers, ScanNumber(n) PROVE CalcInv'
  <2>1. Scan(n) /\ pstfix' = Append(pstfix, n) /\ stack' = stack
    BY <1>4, Zenon DEF ScanNumber
  <2>2. n \in Marks /\ Append(pstfix, n) = pstfix \o <<n>> /\ Append(pstfix, n) \in Seq(Marks)
    BY <1>1 DEF Marks, Words
  <2>3. y.st = x.st /\ y.out = x.out \o <<n>>
    BY <1>3, <2>1, <2>2, Zenon
  <2>4. Moves(x, n, y)
    BY <2>3, KindsApart, Zenon DEF Moves
  <2> QED
    BY <1>1, <1>2, <2>1, <2>2, <2>4, <1>c, ScanKeeps, Zenon
<1>5. ASSUME NEW op \in Operators, ScanOperator(op) PROVE CalcInv'
  <2>1. Scan(op) /\ op \in Marks
    BY <1>5, Zenon DEF ScanOperator, Marks, Words
  <2>2. OnOperator(x, op, y) /\ stack' \in Seq(Marks) /\ pstfix' \in Seq(Marks)
    BY <1>1, <1>2, <1>5, OperatorMoves, Zenon
  <2>3. Moves(x, op, y)
    BY <2>2, KindsApart, Zenon DEF Moves
  <2> QED
    BY <1>2, <2>1, <2>2, <2>3, <1>c, ScanKeeps, Zenon
<1>6. ASSUME NEW c \in Opening, ScanOpening(c) PROVE CalcInv'
  <2>1. Scan(c) /\ c \in Marks /\ stack' = <<c>> \o stack /\ pstfix' = pstfix
    BY <1>6, Zenon DEF ScanOpening, Marks
  <2>2. <<c>> \o stack \in Seq(Marks)
    BY <1>1, <2>1
  <2>3. y.st = <<c>> \o x.st /\ y.out = x.out
    BY <1>3, <2>1, Zenon
  <2>4. Moves(x, c, y)
    BY <2>3, KindsApart, Zenon DEF Moves
  <2> QED
    BY <1>1, <1>2, <2>1, <2>2, <2>4, <1>c, ScanKeeps, Zenon
<1>7. ASSUME NEW c \in Closing, ScanClosing(c) PROVE CalcInv'
  <2>1. Scan(c) /\ c \in Marks
    BY <1>7, Zenon DEF ScanClosing, Marks
  <2>2. OnClosing(x, y) /\ stack' \in Seq(Marks) /\ pstfix' \in Seq(Marks)
    BY <1>1, <1>2, <1>7, ClosingMoves, Zenon
  <2>3. Moves(x, c, y)
    BY <2>2, KindsApart, Zenon DEF Moves
  <2> QED
    BY <1>2, <2>1, <2>2, <2>3, <1>c, ScanKeeps, Zenon
<1>8. ASSUME ScanBlank PROVE CalcInv'
  <2>1. Scan(Blank) /\ Blank \in Marks /\ stack' = stack /\ pstfix' = pstfix
    BY <1>8, Zenon DEF ScanBlank, Marks
  <2>2. y.st = x.st /\ y.out = x.out
    BY <1>3, <2>1, Zenon
  <2>3. Moves(x, Blank, y)
    BY <2>2, KindsApart, Zenon DEF Moves
  <2> QED
    BY <1>1, <1>2, <2>1, <2>3, <1>c, ScanKeeps, Zenon
<1> QED
    BY <1>4, <1>5, <1>6, <1>7, <1>8, Zenon

LEMMA ScanEndKeeps ==
    ASSUME CalcInv, ScanEnd
    PROVE  CalcInv'
<1>1. /\ calc = "scan" /\ pstfix' = pstfix \o stack /\ expr' = expr /\ remains' = remains
      /\ calc' \in {"eval", "undefined"}
    BY DEF ScanEnd
<1>2. calc' # "scan" /\ calc' \notin {"done", "exit"}
    BY <1>1
<1>3. ASSUME Clean PROVE Postfix(expr, pstfix \o stack)
  <2>1. Scanning
    BY <1>1, <1>3, Zenon DEF CalcInv
  <2>2. PICK h : Scanned(expr, h, stack, pstfix)
    BY <2>1, Zenon DEF Scanning
  <2>3. PICK s, z, w : s = expr /\ z = stack /\ w = pstfix
    BY Zenon
  <2>4. s \in Seq(Marks) /\ Scanned(s, h, z, w)
    BY <2>1, <2>2, <2>3, Zenon DEF Scanning
  <2>5. Postfix(s, w \o z)
    BY <2>4, ScannedPostfix
  <2> QED
    BY <2>3, <2>5, Zenon
<1>4. Clean' => Clean
    BY <1>1, Zenon DEF Clean
<1>5. Clean => Postfix(expr', pstfix')
    BY <1>1, <1>3, Zenon
<1>6. Clean' => (Postfix(expr, pstfix))'
    BY <1>4, <1>5, Zenon
<1> QED
    BY <1>2, <1>6, Zenon DEF CalcInv, CalculatorCorrect

LEMMA EvalKeeps ==
    ASSUME CalcInv, eval_postfix
    PROVE  CalcInv'
<1>1. PICK st : st = Evaluated(Text)[Len(Text)]
    BY Zenon
<1>2. /\ calc = "eval" /\ expr' = expr /\ pstfix' = pstfix /\ tail' = tail /\ remains' = remains
      /\ st.underflow \/ st.values = <<>> => calc' = "exit"
      /\ ~(st.underflow \/ st.values = <<>>) => calc' = "done" /\ result' = {Head(st.values)}
    BY <1>1, Zenon DEF eval_postfix
<1>3. Clean => Postfix(expr, pstfix)
    BY <1>2, Zenon DEF CalcInv
<1>4. Meaning(expr) # {} /\ tail = NUL /\ Clean => calc' = "done" /\ result' = Meaning(expr)
  <2> SUFFICES ASSUME Meaning(expr) # {}, tail = NUL, Clean PROVE calc' = "done" /\ result' = Meaning(expr)
    BY Zenon
  <2>1. \A t \in Meaning(expr) : st = Ready(<<t>>)
    BY <1>1, <1>3, PostfixValue, Zenon
  <2>2. \A t \in Meaning(expr) : st.values = <<t>> /\ st.underflow = FALSE
    <3> TAKE t \in Meaning(expr)
    <3>1. PICK q : q = Ready(<<t>>)
      BY Zenon
    <3>2. q.values = <<t>> /\ q.underflow = FALSE
      BY <3>1 DEF Ready
    <3> QED
      BY <2>1, <3>1, <3>2, Zenon
  <2>3. PICK t \in Meaning(expr) : TRUE
    BY Zenon
  <2>4. PICK v : v = st.values
    BY Zenon
  <2>5. v = <<t>> /\ st.underflow = FALSE
    BY <2>2, <2>4, Zenon
  <2>6. v # <<>> /\ Head(v) = t
    BY <2>5
  <2>7. calc' = "done" /\ result' = {t}
    BY <1>2, <2>4, <2>5, <2>6, Zenon
  <2>8. \A x \in Meaning(expr) : x = t
    <3> TAKE x \in Meaning(expr)
    <3>1. v = <<x>>
      BY <2>2, <2>4, Zenon
    <3> QED
      BY <2>5, <3>1
  <2>9. Meaning(expr) = {t}
    BY <2>8, Zenon
  <2> QED
    BY <2>7, <2>9, Zenon
<1>5. calc' \in {"done", "exit"} /\ calc' # "scan" /\ calc' # "eval"
    BY <1>2
<1>6. CalculatorCorrect'
  <2>1. tail' = NUL /\ Clean' /\ Meaning(expr') # {} => result' = Meaning(expr')
    BY <1>2, <1>4, Zenon DEF Clean
  <2> QED
    BY <2>1, Zenon DEF CalculatorCorrect, Clean
<1> QED
    BY <1>5, <1>6, Zenon DEF CalcInv

LEMMA AgainKeeps ==
    ASSUME CalcInv, eval
    PROVE  CalcInv'
<1>1. /\ calc = "done" /\ calc' = "scan" /\ expr' = <<>> /\ pstfix' = <<>> /\ stack' = stack
      /\ remains' = stack
    BY Zenon DEF eval
<1>2. PICK z : z = stack
    BY Zenon
<1>3. ASSUME z \in Seq({NUL}) PROVE Scanning'
  <2>1. PICK h : Scanned(<<>>, h, z, <<>>)
    BY <1>3, NewHistory
  <2>2. (\E f : Scanned(expr, f, stack, pstfix))'
    BY <1>1, <1>2, <2>1, Zenon
  <2>3. z \in Seq(Marks) /\ <<>> \in Seq(Marks)
    BY <1>3 DEF Marks
  <2> QED
    BY <1>1, <1>2, <2>2, <2>3, Zenon DEF Scanning
<1>4. Clean' => z \in Seq({NUL})
    BY <1>1, <1>2, Zenon DEF Clean
<1>5. calc' # "eval" /\ calc' \notin {"done", "exit"}
    BY <1>1
<1> QED
    BY <1>3, <1>4, <1>5, Zenon DEF CalcInv, CalculatorCorrect

LEMMA CalcSteps == CalcInv /\ [CalcNext]_calcVars => CalcInv'
<1> SUFFICES ASSUME CalcInv, [CalcNext]_calcVars PROVE CalcInv'
    BY Zenon
<1>1. CASE UNCHANGED calcVars
    BY <1>1, Zenon DEF calcVars, CalcInv, Clean, Scanning, CalculatorCorrect
<1>2. CASE ScanEnd
    BY <1>2, ScanEndKeeps, Zenon
<1>3. CASE eval_postfix
    BY <1>3, EvalKeeps, Zenon
<1>4. CASE eval
    BY <1>4, AgainKeeps, Zenon
<1> QED
    BY <1>1, <1>2, <1>3, <1>4, TokensScanned, Zenon DEF CalcNext

\* The calculator's correctness (CalculatorCorrect): every expression that has
\* a meaning, of any length and depth of brackets, is given it by to_postfix
\* and eval_postfix together, under the three conditions that CalculatorCorrect
\* names: its text fits (else there is no "done"), a NUL follows it, and what
\* earlier expressions left on the global stack are zero bytes.
THEOREM ExpressionValue == CalcSpec => []CalculatorCorrect
<1>1. CalcInv => CalculatorCorrect
    BY Zenon DEF CalcInv
<1> QED
    BY <1>1, CalcStarts, CalcSteps, PTL DEF CalcSpec
=============================================================================
