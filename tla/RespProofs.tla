----------------------------- MODULE RespProofs -----------------------------
(***************************************************************************)
(* The RESP parser, for messages of any length: SentIsParsed, a message    *)
(* that arrived whole is parsed into what was sent, and of an array cut    *)
(* anywhere the parts that are there in full.                              *)
(***************************************************************************)
EXTENDS Resp, ToolProofs

-----------------------------------------------------------------------------
(* RESP: the decimal text of a number                                      *)

LEMMA DivTen ==
    ASSUME NEW n \in Nat, n >= 10
    PROVE  /\ n \div 10 \in Nat /\ n \div 10 < n /\ n % 10 \in 0 .. 9
           /\ n = 10 * (n \div 10) + (n % 10)
OBVIOUS

NumeralEntry(f, n) ==
    IF n < 10 THEN <<Figures[n + 1]>> ELSE Append(f[n \div 10], Figures[(n % 10) + 1])

\* Entry n of the recursion looks at smaller numbers only.
LEMMA NumeralDepends ==
    ASSUME NEW f, NEW g, NEW n \in Nat, \A x \in Nat : x < n => f[x] = g[x]
    PROVE  NumeralEntry(f, n) = NumeralEntry(g, n)
<1>1. CASE n < 10
    BY <1>1, Zenon DEF NumeralEntry
<1>2. CASE ~(n < 10)
  <2>1. n \div 10 \in Nat /\ n \div 10 < n
    BY <1>2, DivTen
  <2>2. f[n \div 10] = g[n \div 10]
    BY <2>1, Zenon
  <2> QED
    BY <1>2, <2>2, Zenon DEF NumeralEntry
<1> QED
    BY <1>1, <1>2, Zenon

\* f satisfies the recursion up to m.
NumeralsUpTo(f, m) == \A n \in Nat : n <= m => f[n] = NumeralEntry(f, n)

LEMMA NumeralsAgree ==
    ASSUME NEW f, NEW g, NEW m \in Nat, NumeralsUpTo(f, m), NumeralsUpTo(g, m),
           NEW x \in Nat, x <= m
    PROVE  f[x] = g[x]
<1> DEFINE bad == {n \in Nat : n <= m /\ f[n] # g[n]}
<1> SUFFICES bad = {}
    OBVIOUS
<1>1. bad \subseteq Nat
    OBVIOUS
<1>2. ASSUME NEW n \in bad, \A y \in bad : n <= y PROVE FALSE
  <2>1. n \in Nat /\ n <= m /\ f[n] # g[n]
    OBVIOUS
  <2>2. \A y \in Nat : y < n => f[y] = g[y]
    BY <1>2, <2>1
  <2>3. NumeralEntry(f, n) = NumeralEntry(g, n)
    BY <2>1, <2>2, NumeralDepends
  <2> QED
    BY <2>1, <2>3, Zenon DEF NumeralsUpTo
<1> HIDE DEF bad
<1> QED
    BY <1>1, <1>2, Smallest, Zenon

LEMMA NumeralsExist ==
    ASSUME NEW m \in Nat
    PROVE  \E f : NumeralsUpTo(f, m)
<1> DEFINE T == {n \in Nat : \E f : NumeralsUpTo(f, n)}
<1>1. 0 \in T
  <2> DEFINE f == [n \in Nat |-> NumeralEntry(<<>>, n)]
  <2>1. f[0] = NumeralEntry(<<>>, 0)
    OBVIOUS
  <2>2. NumeralEntry(<<>>, 0) = NumeralEntry(f, 0)
    BY NumeralDepends
  <2> HIDE DEF f
  <2>3. \A n \in Nat : n <= 0 => n = 0
    OBVIOUS
  <2>4. NumeralsUpTo(f, 0)
    BY <2>1, <2>2, <2>3, Zenon DEF NumeralsUpTo
  <2> QED
    BY <2>4
<1>2. ASSUME NEW k \in T PROVE k + 1 \in T
  <2>1. PICK f : NumeralsUpTo(f, k)
    OBVIOUS
  <2> DEFINE g == [n \in Nat |-> NumeralEntry(f, n)]
  <2>2. \A n \in Nat : g[n] = NumeralEntry(f, n)
    OBVIOUS
  <2> HIDE DEF g
  <2>3. \A n \in Nat : n <= k => f[n] = g[n]
    BY <2>1, <2>2, Zenon DEF NumeralsUpTo
  <2>4. ASSUME NEW n \in Nat, n <= k + 1 PROVE g[n] = NumeralEntry(g, n)
    <3>1. \A x \in Nat : x < n => f[x] = g[x]
      BY <2>3, <2>4
    <3>2. NumeralEntry(f, n) = NumeralEntry(g, n)
      BY <3>1, NumeralDepends
    <3> QED
      BY <2>2, <3>2, Zenon
  <2>5. NumeralsUpTo(g, k + 1)
    BY <2>4, Zenon DEF NumeralsUpTo
  <2> QED
    BY <2>5
<1>3. T = Nat
  <2>1. T \subseteq Nat
    OBVIOUS
  <2> HIDE DEF T
  <2> QED
    BY <1>1, <1>2, <2>1, Induction
<1> QED
    BY <1>3

LEMMA NumeralSteps ==
    ASSUME NEW n \in Nat
    PROVE  Numeral[n] = NumeralEntry(Numeral, n)
<1> DEFINE upTo(m) == CHOOSE f : NumeralsUpTo(f, m)
           h == [m \in Nat |-> upTo(m)[m]]
<1>1. \A m \in Nat : NumeralsUpTo(upTo(m), m)
    BY NumeralsExist, Zenon
<1>2. \A m \in Nat : h[m] = upTo(m)[m]
    OBVIOUS
<1> HIDE DEF upTo
<1>3. ASSUME NEW m \in Nat, NEW x \in Nat, x <= m PROVE h[x] = upTo(m)[x]
  <2>1. NumeralsUpTo(upTo(m), x)
    BY <1>1, <1>3 DEF NumeralsUpTo
  <2>2. upTo(m)[x] = upTo(x)[x]
    BY <1>1, <2>1, NumeralsAgree
  <2> QED
    BY <1>2, <2>2, Zenon
<1>4. \A m \in Nat : h[m] = NumeralEntry(h, m)
  <2> TAKE m \in Nat
  <2>1. upTo(m)[m] = NumeralEntry(upTo(m), m)
    BY <1>1 DEF NumeralsUpTo
  <2>2. \A x \in Nat : x < m => upTo(m)[x] = h[x]
    BY <1>3
  <2>3. NumeralEntry(upTo(m), m) = NumeralEntry(h, m)
    BY <2>2, NumeralDepends
  <2> QED
    BY <1>2, <2>1, <2>3, Zenon
<1>5. h = [m \in Nat |-> NumeralEntry(h, m)]
    BY <1>4
<1> HIDE DEF h
<1>6. Numeral = CHOOSE f : f = [m \in Nat |-> NumeralEntry(f, m)]
    BY Zenon DEF Numeral, NumeralEntry
<1>7. Numeral = [m \in Nat |-> NumeralEntry(Numeral, m)]
    BY <1>5, <1>6, Zenon
<1> QED
    BY <1>7, Zenon

\* A digit is no blank, no sign and no zero byte.
LEMMA FigureChars ==
    ASSUME NEW c \in Range(Figures)
    PROVE  c \notin {" ", "\t", "\r", "\n", "-", "+", ZERO}
<1>1. PICK k \in 1 .. 10 : c = Figures[k]
    BY FigurePlaces, Zenon DEF Range
<1>2. c \in {"0", "1", "2", "3", "4", "5", "6", "7", "8", "9"}
    BY <1>1, OneToTen, FigurePlaces, Zenon
<1>3. c \notin {" ", "\t", "\r", "\n", "-", "+", "zero"}
    BY <1>2
<1> QED
    BY <1>3, Zenon DEF ZERO

\* The ten digits are different, and each stands for its place.
LEMMA FiguresAre ==
    ASSUME NEW d \in 0 .. 9
    PROVE  /\ Figures[d + 1] \in Range(Figures)
           /\ Figure(Figures[d + 1]) = d
<1>1. Len(Figures) = 10 /\ DOMAIN Figures = 1 .. 10
    BY FigurePlaces, Zenon
<1>2. \A q, k \in 1 .. 10 : Figures[q] = Figures[k] => q = k
  <2> TAKE q, k \in 1 .. 10
  <2> QED
    BY OneToTen, FigurePlaces
<1>3. d + 1 \in 1 .. 10
    OBVIOUS
<1> DEFINE I == {p \in 1 .. Len(Figures) : Figures[p] = Figures[d + 1]}
<1>4. I = {d + 1}
    BY <1>1, <1>2, <1>3
<1>5. Min(I) = d + 1
    BY <1>3, <1>4, MinIs
<1>6. SelectInSeq(Figures, LAMBDA x : x = Figures[d + 1]) = IF I # {} THEN Min(I) ELSE 0
    BY Zenon DEF SelectInSeq
<1> HIDE DEF I
<1>7. Figure(Figures[d + 1]) = d
    BY <1>3, <1>4, <1>5, <1>6 DEF Figure
<1>8. Figures[d + 1] \in Range(Figures)
    BY <1>1, <1>3, Zenon DEF Range
<1> QED
    BY <1>7, <1>8

\* The text of n stands in s from p on.
Stands(t, s, p) ==
    p + Len(t) - 1 <= Len(s) /\ \A k \in 1 .. Len(t) : s[p + k - 1] = t[k]

\* It has digits only, at least one, and read as a number it is n.
LEMMA NumeralDigits ==
    ASSUME NEW n \in Nat
    PROVE  Numeral[n] \in Seq(Range(Figures)) /\ Len(Numeral[n]) >= 1
<1> DEFINE bad == {x \in Nat : ~(Numeral[x] \in Seq(Range(Figures)) /\ Len(Numeral[x]) >= 1)}
<1> SUFFICES bad = {}
    OBVIOUS
<1>1. bad \subseteq Nat
    OBVIOUS
<1>2. ASSUME NEW x \in bad, \A y \in bad : x <= y PROVE FALSE
  <2>1. x \in Nat /\ ~(Numeral[x] \in Seq(Range(Figures)) /\ Len(Numeral[x]) >= 1)
    OBVIOUS
  <2>2. \A y \in Nat : y < x => Numeral[y] \in Seq(Range(Figures)) /\ Len(Numeral[y]) >= 1
    BY <1>2, <2>1
  <2>3. Numeral[x] = NumeralEntry(Numeral, x)
    BY <2>1, NumeralSteps
  <2>4. CASE x < 10
    <3>1. Numeral[x] = <<Figures[x + 1]>>
      BY <2>3, <2>4, Zenon DEF NumeralEntry
    <3>2. Figures[x + 1] \in Range(Figures)
      BY <2>1, <2>4, FiguresAre
    <3> QED
      BY <2>1, <3>1, <3>2
  <2>5. CASE ~(x < 10)
    <3>1. x \div 10 \in Nat /\ x \div 10 < x /\ x % 10 \in 0 .. 9
      BY <2>1, <2>5, DivTen
    <3>2. PICK f : f = Figures[(x % 10) + 1]
      BY Zenon
    <3>3. f \in Range(Figures)
      BY <3>1, <3>2, FiguresAre
    <3>4. PICK t : t = Numeral[x \div 10]
      BY Zenon
    <3>5. t \in Seq(Range(Figures)) /\ Len(t) >= 1
      BY <2>2, <3>1, <3>4, Zenon
    <3>6. Numeral[x] = Append(t, f)
      BY <2>3, <2>5, <3>2, <3>4, Zenon DEF NumeralEntry
    <3> QED
      BY <2>1, <3>3, <3>5, <3>6
  <2> QED
    BY <2>4, <2>5, Zenon
<1> HIDE DEF bad
<1> QED
    BY <1>1, <1>2, Smallest, Zenon

LEMMA NumeralValue ==
    ASSUME NEW s, Len(s) \in Nat, NEW p \in Nat, p > 0, NEW n \in Nat, Stands(Numeral[n], s, p)
    PROVE  Decimal(s, p)[p + Len(Numeral[n]) - 1] = n
<1> DEFINE bad == {x \in Nat : /\ Stands(Numeral[x], s, p)
                               /\ Decimal(s, p)[p + Len(Numeral[x]) - 1] # x}
<1> SUFFICES bad = {}
    OBVIOUS
<1>1. bad \subseteq Nat
    OBVIOUS
<1>2. ASSUME NEW x \in bad, \A y \in bad : x <= y PROVE FALSE
  <2>1. /\ x \in Nat /\ Stands(Numeral[x], s, p)
        /\ Decimal(s, p)[p + Len(Numeral[x]) - 1] # x
    OBVIOUS
  <2>2. \A y \in Nat : y < x /\ Stands(Numeral[y], s, p) =>
                          Decimal(s, p)[p + Len(Numeral[y]) - 1] = y
    BY <1>2, <2>1
  <2> DEFINE d == Decimal(s, p)
  <2>3. Numeral[x] = NumeralEntry(Numeral, x)
    BY <2>1, NumeralSteps
  <2>4. /\ \A m \in 0 .. Len(s) : m < p => d[m] = 0
        /\ \A m \in 0 .. Len(s) - 1 : p <= m + 1 => d[m + 1] = 10 * d[m] + Figure(s[m + 1])
    BY DecimalSteps
  <2> HIDE DEF d
  <2>5. CASE x < 10
    <3>1. PICK f : f = Figures[x + 1]
      BY Zenon
    <3>2. Numeral[x] = <<f>>
      BY <2>3, <2>5, <3>1, Zenon DEF NumeralEntry
    <3>3. Figure(f) = x
      <4>1. x \in 0 .. 9
        BY <2>1, <2>5
      <4> QED
        BY <3>1, <4>1, FiguresAre, Zenon
    <3>4. Len(<<f>>) = 1 /\ <<f>>[1] = f
      OBVIOUS
    <3>5. p <= Len(s) /\ s[p] = f /\ p + Len(Numeral[x]) - 1 = p
      <4>1. p + 1 - 1 <= Len(s) /\ \A k \in 1 .. 1 : s[p + k - 1] = <<f>>[k]
        BY <2>1, <3>2, <3>4, Zenon DEF Stands
      <4>2. s[p + 1 - 1] = f /\ p + 1 - 1 = p
        BY <3>4, <4>1
      <4> QED
        BY <3>2, <3>4, <4>1, <4>2, Zenon
    <3>6. d[p - 1] = 0 /\ d[(p - 1) + 1] = 10 * d[p - 1] + Figure(s[(p - 1) + 1])
      <4>1. p - 1 \in 0 .. Len(s) - 1 /\ p - 1 \in 0 .. Len(s) /\ p - 1 < p /\ p <= (p - 1) + 1
        BY <3>5
      <4> QED
        BY <2>4, <4>1, Zenon
    <3>7. (p - 1) + 1 = p
      OBVIOUS
    <3>8. d[p] = x
      BY <2>1, <3>3, <3>5, <3>6, <3>7
    <3> QED
      BY <2>1, <3>5, <3>8, Zenon DEF d
  <2>6. CASE ~(x < 10)
    <3>1. /\ x \div 10 \in Nat /\ x \div 10 < x /\ x % 10 \in 0 .. 9
          /\ x = 10 * (x \div 10) + (x % 10)
      BY <2>1, <2>6, DivTen
    <3>2. PICK f : f = Figures[(x % 10) + 1]
      BY Zenon
    <3>3. f \in Range(Figures) /\ Figure(f) = x % 10
      BY <3>1, <3>2, FiguresAre
    <3>4. PICK t : t = Numeral[x \div 10]
      BY Zenon
    <3>5. t \in Seq(Range(Figures)) /\ Len(t) \in Nat /\ Len(t) >= 1
      BY <3>1, <3>4, NumeralDigits, LenProperties
    <3>6. Numeral[x] = Append(t, f)
      BY <2>3, <2>6, <3>2, <3>4, Zenon DEF NumeralEntry
    <3>7. /\ Len(Append(t, f)) = Len(t) + 1 /\ Append(t, f)[Len(t) + 1] = f
          /\ \A k \in 1 .. Len(t) : Append(t, f)[k] = t[k]
      BY <3>3, <3>5, AppendProperties
    <3>8. PICK l : l = Len(t)
      BY Zenon
    <3>9. PICK u : u = Append(t, f)
      BY Zenon
    <3>10. p + (l + 1) - 1 <= Len(s) /\ \A k \in 1 .. l + 1 : s[p + k - 1] = u[k]
      <4>1. u = Numeral[x] /\ Len(u) = l + 1
        BY <3>6, <3>7, <3>8, <3>9, Zenon
      <4>2. p + Len(u) - 1 <= Len(s) /\ \A k \in 1 .. Len(u) : s[p + k - 1] = u[k]
        BY <2>1, <4>1, Zenon DEF Stands
      <4> QED
        BY <4>1, <4>2, Zenon
    <3>11. Stands(t, s, p)
      <4>1. \A k \in 1 .. l : u[k] = t[k]
        BY <3>7, <3>8, <3>9, Zenon
      <4>2. l \in Nat
        BY <3>5, <3>8, Zenon
      <4>3. p + l - 1 <= Len(s) /\ \A k \in 1 .. l : k \in 1 .. l + 1
        <5>1. p + (l + 1) - 1 <= Len(s)
          BY <3>10, Zenon
        <5> QED
          BY <4>2, <5>1
      <4> QED
        BY <3>8, <3>10, <4>1, <4>3, Zenon DEF Stands
    <3>12. d[p + l - 1] = x \div 10
      BY <2>2, <3>1, <3>4, <3>8, <3>11, Zenon DEF d
    <3>13. s[p + l] = f
      <4>1. l + 1 \in 1 .. l + 1 /\ p + (l + 1) - 1 = p + l
        BY <3>5, <3>8
      <4> QED
        BY <3>7, <3>8, <3>9, <3>10, <4>1
    <3>14. d[(p + l - 1) + 1] = 10 * d[p + l - 1] + Figure(s[(p + l - 1) + 1])
      <4>1. p + l - 1 \in 0 .. Len(s) - 1 /\ p <= (p + l - 1) + 1
        BY <3>5, <3>8, <3>10
      <4> QED
        BY <2>4, <4>1, Zenon
    <3>15. (p + l - 1) + 1 = p + l /\ p + (l + 1) - 1 = p + l
      BY <3>5, <3>8
    <3>16. d[p + l] = 10 * (x \div 10) + (x % 10)
      BY <3>3, <3>12, <3>13, <3>14, <3>15, Zenon
    <3>17. d[p + l] = x
      BY <3>1, <3>16, Zenon
    <3> QED
      BY <2>1, <3>6, <3>7, <3>8, <3>15, <3>17, Zenon DEF d
  <2> QED
    BY <2>5, <2>6, Zenon
<1> HIDE DEF bad
<1> QED
    BY <1>1, <1>2, Smallest, Zenon

-----------------------------------------------------------------------------
(* RESP: strtol                                                            *)

LEMMA PastAllIs ==
    ASSUME NEW s, Len(s) \in Nat, NEW p \in Nat, NEW e \in Nat, NEW cs,
           p <= e, e <= Len(s) + 1, e = Len(s) + 1 \/ s[e] \notin cs,
           \A k \in p .. e - 1 : s[k] \in cs
    PROVE  PastAll(s, p, cs) = e
<1> DEFINE I == {q \in p .. Len(s) + 1 : q = Len(s) + 1 \/ s[q] \notin cs}
<1>1. e \in I
    OBVIOUS
<1>2. \A q \in I : q \in Int /\ e <= q
    OBVIOUS
<1> HIDE DEF I
<1>3. Min(I) = e
    BY <1>1, <1>2, MinIs
<1> QED
    BY <1>3, Zenon DEF PastAll, I

\* Digits that end are read up to their end.
LEMMA DigitsRead ==
    ASSUME NEW s, Len(s) \in Nat, NEW p \in Nat, p > 0, NEW n \in Nat, Stands(Numeral[n], s, p),
           NEW e, e = p + Len(Numeral[n]), e = Len(s) + 1 \/ s[e] \notin Range(Figures)
    PROVE  /\ e \in Nat /\ p < e /\ e <= Len(s) + 1 /\ s[p] \in Range(Figures)
           /\ PastAll(s, p, Range(Figures)) = e /\ Decimal(s, p)[e - 1] = n
<1>1. PICK t : t = Numeral[n]
    BY Zenon
<1>2. t \in Seq(Range(Figures)) /\ Len(t) \in Nat /\ Len(t) >= 1
    BY <1>1, NumeralDigits, LenProperties
<1>3. p + Len(t) - 1 <= Len(s) /\ \A k \in 1 .. Len(t) : s[p + k - 1] = t[k]
    BY <1>1, Zenon DEF Stands
<1>4. e \in Nat /\ p < e /\ e <= Len(s) + 1 /\ e = p + Len(t)
    BY <1>1, <1>2, <1>3
<1>5. \A k \in 1 .. Len(t) : t[k] \in Range(Figures)
    BY <1>2, ElementOfSeq
<1>6. ASSUME NEW k \in p .. e - 1 PROVE s[k] \in Range(Figures)
  <2>1. k - p + 1 \in 1 .. Len(t) /\ p + (k - p + 1) - 1 = k
    BY <1>2, <1>4
  <2>2. s[p + (k - p + 1) - 1] = t[k - p + 1]
    BY <1>3, <2>1, Zenon
  <2> QED
    BY <1>5, <2>1, <2>2
<1>7. s[p] \in Range(Figures)
  <2>1. p \in p .. e - 1
    BY <1>4
  <2> QED
    BY <1>6, <2>1
<1>8. PastAll(s, p, Range(Figures)) = e
  <2>1. p <= e
    BY <1>4
  <2> QED
    BY <1>4, <1>6, <2>1, PastAllIs
<1>9. Decimal(s, p)[e - 1] = n
  <2>1. Decimal(s, p)[p + Len(Numeral[n]) - 1] = n
    BY NumeralValue
  <2>2. p + Len(Numeral[n]) - 1 = e - 1
    BY <1>1, <1>2
  <2> QED
    BY <2>1, <2>2, Zenon
<1> QED
    BY <1>4, <1>7, <1>8, <1>9, Zenon

\* A number in the text, up to a character that is no digit, is read as it was
\* written, and strtol stops behind it.
LEMMA strtolReads ==
    ASSUME NEW s, Len(s) \in Nat, NEW p \in Nat, p > 0, NEW n \in Int, Stands(Signed(n), s, p),
           NEW e, e = p + Len(Signed(n)), e = Len(s) + 1 \/ s[e] \notin Range(Figures)
    PROVE  strtol(s, p).n = n /\ strtol(s, p).end = e
<1> DEFINE blanks == {" ", "\t", "\r", "\n"}
           first == PastAll(s, p, blanks)
           start == IF first <= Len(s) /\ s[first] \in {"-", "+"} THEN first + 1 ELSE first
           end   == PastAll(s, start, Range(Figures))
           m     == Decimal(s, start)[end - 1]
<1>1. strtol(s, p) = IF end = start THEN [n |-> 0, end |-> p]
                     ELSE [n |-> IF s[first] = "-" THEN 0 - m ELSE m, end |-> end]
    BY Zenon DEF strtol
<1>2. p <= Len(s) /\ s[p] \notin blanks => first = p
  <2>1. p .. p - 1 = {} /\ p <= p /\ (p <= Len(s) => p <= Len(s) + 1)
    OBVIOUS
  <2> HIDE DEF blanks
  <2> QED
    BY <2>1, PastAllIs, Zenon DEF first
<1> HIDE DEF first
<1>3. CASE n >= 0
  <2>1. n \in Nat /\ Signed(n) = Numeral[n]
    BY <1>3 DEF Signed
  <2>2. /\ e \in Nat /\ p < e /\ e <= Len(s) + 1 /\ s[p] \in Range(Figures)
        /\ PastAll(s, p, Range(Figures)) = e /\ Decimal(s, p)[e - 1] = n
    BY <2>1, DigitsRead
  <2>3. s[p] \notin blanks /\ s[p] \notin {"-", "+"} /\ s[p] # "-"
    BY <2>2, FigureChars
  <2>4. p <= Len(s) /\ e # p
    BY <2>2
  <2>5. first = p
    BY <1>2, <2>3, <2>4, Zenon
  <2>6. start = p
    BY <2>3, <2>5, Zenon
  <2>7. end = e /\ m = n
    BY <2>2, <2>6, Zenon
  <2> HIDE DEF end, m, start
  <2>8. strtol(s, p) = [n |-> n, end |-> e]
    BY <1>1, <2>3, <2>4, <2>5, <2>6, <2>7, Zenon
  <2> QED
    BY <2>8
<1>4. CASE n < 0
  <2>1. PICK w : w = 0 - n
    BY Zenon
  <2>2. w \in Nat /\ 0 - w = n /\ Signed(n) = <<"-">> \o Numeral[w]
    BY <1>4, <2>1 DEF Signed
  <2>3. PICK t : t = Numeral[w]
    BY Zenon
  <2>4. t \in Seq(Range(Figures)) /\ Len(t) \in Nat /\ Len(t) >= 1
    BY <2>2, <2>3, NumeralDigits, LenProperties
  <2>5. PICK u : u = <<"-">> \o t
    BY Zenon
  <2>6. /\ Len(u) = 1 + Len(t) /\ u[1] = "-"
        /\ \A k \in 1 .. Len(t) : u[1 + k] = t[k]
    <3>1. PICK S : S = Range(Figures) \cup {"-"}
      BY Zenon
    <3>2. PICK c : c = "-"
      BY Zenon
    <3>3. c \in S /\ t \in Seq(S)
      <4>1. Range(Figures) \subseteq S
        BY <3>1, Zenon
      <4> QED
        BY <2>4, <3>1, <3>2, <4>1
    <3>4. <<c>> \in Seq(S) /\ Len(<<c>>) = 1 /\ <<c>>[1] = c
      BY <3>3
    <3>5. /\ Len(<<c>> \o t) = 1 + Len(t)
          /\ \A k \in 1 .. 1 : (<<c>> \o t)[k] = <<c>>[k]
          /\ \A k \in 1 .. Len(t) : (<<c>> \o t)[1 + k] = t[k]
      BY <3>3, <3>4, Appended
    <3>6. 1 \in 1 .. 1
      OBVIOUS
    <3> QED
      BY <2>5, <3>2, <3>4, <3>5, <3>6, Zenon
  <2>7. p + (1 + Len(t)) - 1 <= Len(s) /\ \A k \in 1 .. 1 + Len(t) : s[p + k - 1] = u[k]
    BY <2>2, <2>3, <2>5, <2>6, Zenon DEF Stands
  <2>8. p <= Len(s) /\ s[p] = "-"
    <3>1. 1 \in 1 .. 1 + Len(t) /\ p + 1 - 1 = p
      BY <2>4
    <3>2. p <= Len(s)
      BY <2>4, <2>7
    <3> QED
      BY <2>6, <2>7, <3>1, <3>2
  <2>9. Stands(Numeral[w], s, p + 1)
    <3>1. (p + 1) + Len(t) - 1 <= Len(s)
      BY <2>4, <2>7
    <3>2. ASSUME NEW k \in 1 .. Len(t) PROVE s[(p + 1) + k - 1] = t[k]
      <4>1. 1 + k \in 1 .. 1 + Len(t) /\ p + (1 + k) - 1 = (p + 1) + k - 1
        BY <2>4
      <4> QED
        BY <2>6, <2>7, <4>1
    <3> QED
      BY <2>3, <3>1, <3>2, Zenon DEF Stands
  <2>10. e = (p + 1) + Len(Numeral[w])
    <3>1. e = p + (1 + Len(t))
      BY <2>2, <2>3, <2>5, <2>6, Zenon
    <3>2. p + (1 + Len(t)) = (p + 1) + Len(t)
      BY <2>4
    <3> QED
      BY <2>3, <3>1, <3>2, Zenon
  <2>11. /\ e \in Nat /\ p + 1 < e /\ PastAll(s, p + 1, Range(Figures)) = e
         /\ Decimal(s, p + 1)[e - 1] = w
    <3>1. p + 1 \in Nat /\ p + 1 > 0
      OBVIOUS
    <3> QED
      BY <2>2, <2>9, <2>10, <3>1, DigitsRead
  <2>12. s[p] \notin blanks /\ s[p] \in {"-", "+"}
    BY <2>8
  <2>13. first = p
    BY <1>2, <2>8, <2>12, Zenon
  <2>14. start = p + 1
    BY <2>8, <2>12, <2>13, Zenon
  <2>15. end = e /\ m = w
    BY <2>11, <2>14, Zenon
  <2>16. e # p + 1
    BY <2>11
  <2> HIDE DEF end, m, start
  <2>17. strtol(s, p) = [n |-> n, end |-> e]
    BY <1>1, <2>2, <2>8, <2>13, <2>14, <2>15, <2>16, Zenon
  <2> QED
    BY <2>17
<1> QED
    BY <1>3, <1>4

-----------------------------------------------------------------------------
(* RESP: the text of a message                                             *)

LEMMA RespByteSet ==
    /\ "\r" \in RespBytes /\ "\n" \in RespBytes /\ "$" \in RespBytes /\ "*" \in RespBytes
    /\ "-" \in RespBytes /\ "+" \in RespBytes /\ ":" \in RespBytes /\ ZERO \in RespBytes
    /\ Range(Figures) \subseteq RespBytes
<1>1. "\r" \in Range(CRLF) /\ "\n" \in Range(CRLF)
  <2>1. 1 \in DOMAIN CRLF /\ 2 \in DOMAIN CRLF /\ CRLF[1] = "\r" /\ CRLF[2] = "\n"
    BY DEF CRLF
  <2> QED
    BY <2>1, Zenon DEF Range
<1> QED
    BY <1>1, Zenon DEF RespBytes

LEMMA LineEndText ==
    CRLF \in Seq(RespBytes) /\ Len(CRLF) = 2 /\ CRLF[1] = "\r" /\ CRLF[2] = "\n"
<1>1. PICK c : c = "\r"
    BY Zenon
<1>2. PICK d : d = "\n"
    BY Zenon
<1>3. c \in RespBytes /\ d \in RespBytes
    BY <1>1, <1>2, RespByteSet, Zenon
<1>4. <<c, d>> \in Seq(RespBytes) /\ Len(<<c, d>>) = 2 /\ <<c, d>>[1] = c /\ <<c, d>>[2] = d
    BY <1>3
<1> QED
    BY <1>1, <1>2, <1>4, Zenon DEF CRLF

LEMMA NumeralText ==
    ASSUME NEW n \in Nat
    PROVE  Numeral[n] \in Seq(RespBytes) /\ Len(Numeral[n]) \in Nat /\ Len(Numeral[n]) >= 1
<1>1. PICK t : t = Numeral[n]
    BY Zenon
<1>2. t \in Seq(Range(Figures)) /\ Len(t) >= 1
    BY <1>1, NumeralDigits
<1>3. PICK F : F = Range(Figures)
    BY Zenon
<1>4. F \subseteq RespBytes
    BY <1>3, RespByteSet, Zenon
<1>5. t \in Seq(RespBytes) /\ Len(t) \in Nat
    BY <1>2, <1>3, <1>4
<1> QED
    BY <1>1, <1>2, <1>5, Zenon

\* One mark in front of a text and the end of line behind it.
LEMMA MarkedText ==
    ASSUME NEW S, NEW c \in S, NEW t \in Seq(S), NEW e \in Seq(S), Len(e) = 2
    PROVE  /\ <<c>> \o t \o e \in Seq(S) /\ Len(<<c>> \o t \o e) = Len(t) + 3
           /\ (<<c>> \o t \o e)[1] = c
           /\ \A k \in 1 .. Len(t) : (<<c>> \o t \o e)[1 + k] = t[k]
           /\ (<<c>> \o t \o e)[Len(t) + 2] = e[1]
           /\ (<<c>> \o t \o e)[Len(t) + 3] = e[2]
<1>1. PICK l : l = Len(t)
    BY Zenon
<1>2. l \in Nat
    BY <1>1, LenProperties
<1>3. PICK h : h = <<c>>
    BY Zenon
<1>4. h \in Seq(S)
    BY <1>3
<1>5. Len(h) = 1 /\ h[1] = c
    BY <1>3
<1>6. PICK u : u = h \o t
    BY Zenon
<1>7. /\ u \in Seq(S) /\ Len(u) = Len(h) + Len(t)
      /\ \A k \in 1 .. Len(h) : u[k] = h[k]
      /\ \A k \in 1 .. Len(t) : u[Len(h) + k] = t[k]
    BY <1>4, <1>6, Joins
<1>8. PICK w : w = u \o e
    BY Zenon
<1>9. /\ w \in Seq(S) /\ Len(w) = Len(u) + Len(e)
      /\ \A k \in 1 .. Len(u) : w[k] = u[k]
      /\ \A k \in 1 .. Len(e) : w[Len(u) + k] = e[k]
  <2>1. \A f \in Seq(S) : \A v : v = u \o f =>
           /\ v \in Seq(S) /\ Len(v) = Len(u) + Len(f)
           /\ \A k \in 1 .. Len(u) : v[k] = u[k]
           /\ \A k \in 1 .. Len(f) : v[Len(u) + k] = f[k]
    <3>1. u \in Seq(S)
      BY <1>7, Zenon
    <3> QED
      BY <3>1, Joins
  <2>2. \A v : v = u \o e =>
           /\ v \in Seq(S) /\ Len(v) = Len(u) + Len(e)
           /\ \A k \in 1 .. Len(u) : v[k] = u[k]
           /\ \A k \in 1 .. Len(e) : v[Len(u) + k] = e[k]
    BY <2>1, Zenon
  <2> QED
    BY <1>8, <2>2, Zenon
<1>10. Len(u) = 1 + l
    BY <1>1, <1>5, <1>7, Zenon
<1>11. /\ Len(w) = (1 + l) + 2
       /\ \A k \in 1 .. 1 + l : w[k] = u[k]
       /\ \A k \in 1 .. 2 : w[(1 + l) + k] = e[k]
    BY <1>9, <1>10, Zenon
<1>12. /\ 1 \in 1 .. 1 + l /\ (\A k \in 1 .. l : 1 + k \in 1 .. 1 + l)
       /\ 1 \in 1 .. 1 /\ 1 \in 1 .. 2 /\ 2 \in 1 .. 2
       /\ (1 + l) + 1 = l + 2 /\ (1 + l) + 2 = l + 3
    BY <1>2
<1>13. w[1] = c
    BY <1>5, <1>7, <1>11, <1>12
<1>14. \A k \in 1 .. l : w[1 + k] = t[k]
    BY <1>1, <1>5, <1>7, <1>11, <1>12
<1>15. w[l + 2] = e[1] /\ w[l + 3] = e[2] /\ Len(w) = l + 3
    BY <1>11, <1>12, Zenon
<1>16. w = <<c>> \o t \o e
    BY <1>3, <1>6, <1>8, Zenon
<1> QED
    BY <1>1, <1>9, <1>13, <1>14, <1>15, <1>16, Zenon

\* The places of a bulk string's text: mark, length, end of line, string, end
\* of line.
BulkParts(u, s, d) ==
    /\ Len(u) = d + 3 + Len(s) + 2
    /\ u[1] = "$" /\ u[d + 2] = "\r"
    /\ \A k \in 1 .. d : u[1 + k] = Numeral[Len(s)][k]
    /\ \A k \in 1 .. Len(s) : u[d + 3 + k] = s[k]

LEMMA BulkPlaces ==
    ASSUME NEW s \in Seq(RespBytes)
    PROVE  BulkText(s) \in Seq(RespBytes) /\ BulkParts(BulkText(s), s, Len(Numeral[Len(s)]))
<1> DEFINE d == Len(Numeral[Len(s)])
<1> HIDE DEF d
<1>1. PICK l : l = Len(s)
    BY Zenon
<1>2. PICK B : B = RespBytes
    BY Zenon
<1>3. l \in Nat /\ s \in Seq(B)
    BY <1>1, <1>2, LenProperties
<1>4. PICK t : t = Numeral[l]
    BY Zenon
<1>5. t \in Seq(B) /\ Len(t) = d /\ d \in Nat
    BY <1>1, <1>2, <1>3, <1>4, NumeralText, Zenon DEF d
<1>6. PICK e : e = CRLF
    BY Zenon
<1>7. e \in Seq(B)
    BY <1>2, <1>6, LineEndText, Zenon
<1>8. Len(e) = 2 /\ e[1] = "\r"
    BY <1>6, LineEndText, Zenon
<1>9. PICK c : c = "$"
    BY Zenon
<1>10. c \in B
    BY <1>2, <1>9, RespByteSet, Zenon
<1>11. PICK u : u = <<c>> \o t \o e
    BY Zenon
<1>12. /\ u \in Seq(B) /\ Len(u) = d + 3 /\ u[1] = c
       /\ \A k \in 1 .. d : u[1 + k] = t[k]
       /\ u[d + 2] = e[1]
  <2>1. /\ <<c>> \o t \o e \in Seq(B) /\ Len(<<c>> \o t \o e) = Len(t) + 3
        /\ (<<c>> \o t \o e)[1] = c
        /\ \A k \in 1 .. Len(t) : (<<c>> \o t \o e)[1 + k] = t[k]
        /\ (<<c>> \o t \o e)[Len(t) + 2] = e[1]
    BY <1>5, <1>7, <1>8, <1>10, MarkedText
  <2> QED
    BY <1>5, <1>11, <2>1, Zenon
<1>13. PICK w : w = u \o s
    BY Zenon
<1>14. /\ w \in Seq(B) /\ Len(w) = Len(u) + Len(s)
       /\ \A k \in 1 .. Len(u) : w[k] = u[k]
       /\ \A k \in 1 .. Len(s) : w[Len(u) + k] = s[k]
  <2>1. u \in Seq(B) /\ s \in Seq(B)
    BY <1>3, <1>12, Zenon
  <2> QED
    BY <2>1, <1>13, Joins
<1>15. PICK x : x = w \o e
    BY Zenon
<1>16. /\ x \in Seq(B) /\ Len(x) = Len(w) + Len(e)
       /\ \A k \in 1 .. Len(w) : x[k] = w[k]
  <2>1. w \in Seq(B) /\ e \in Seq(B)
    BY <1>7, <1>14, Zenon
  <2> QED
    BY <2>1, <1>15, Joins
<1>17. /\ Len(w) = d + 3 + l /\ Len(x) = d + 3 + l + 2
       /\ \A k \in 1 .. d + 3 : w[k] = u[k]
       /\ \A k \in 1 .. l : w[d + 3 + k] = s[k]
       /\ \A k \in 1 .. d + 3 + l : x[k] = w[k]
    BY <1>1, <1>8, <1>12, <1>14, <1>16, Zenon
<1>18. /\ \A k \in 1 .. d + 3 : k \in 1 .. d + 3 + l
       /\ \A k \in 1 .. l : d + 3 + k \in 1 .. d + 3 + l
       /\ \A k \in 1 .. d : 1 + k \in 1 .. d + 3
       /\ 1 \in 1 .. d + 3 /\ d + 2 \in 1 .. d + 3
    BY <1>3, <1>5
<1>19. \A k \in 1 .. d + 3 : x[k] = u[k]
    BY <1>17, <1>18, Zenon
<1>20. x[1] = "$" /\ x[d + 2] = "\r"
    BY <1>8, <1>9, <1>12, <1>18, <1>19, Zenon
<1>21. \A k \in 1 .. d : x[1 + k] = t[k]
    BY <1>12, <1>18, <1>19, Zenon
<1>22. \A k \in 1 .. l : x[d + 3 + k] = s[k]
    BY <1>17, <1>18, Zenon
<1>23. x = BulkText(s)
    BY <1>1, <1>4, <1>6, <1>9, <1>11, <1>13, <1>15, Zenon DEF BulkText
<1> QED
    BY <1>1, <1>2, <1>4, <1>16, <1>17, <1>20, <1>21, <1>22, <1>23, Zenon DEF BulkParts, d

\* What the protocol allows, of one message.
Sent(m) ==
    /\ m.type \in {"array", "simple", "error", "integer", "bulk"}
    /\ m.parts \in Seq(Seq(RespBytes)) /\ m.count \in Int
    /\ m.type = "array" => m.count = Len(m.parts) \/ (m.count = -1 /\ m.parts = <<>>)
    /\ m.type # "array" =>
          /\ Len(m.parts) = 1
          /\ \A k \in 1 .. Len(m.parts[1]) - 1 : ~(m.parts[1][k] = "\r" /\ m.parts[1][k + 1] = "\n")
    /\ m.type = "integer" => m.parts[1] = Signed(m.count)

LEMMA SentMessages ==
    ASSUME NEW m \in Messages
    PROVE  Sent(m)
<1>1. {"array"} \cup DOMAIN Mark = {"array", "simple", "error", "integer", "bulk"}
    BY DEF Mark
<1> QED
    BY <1>1, RespAssumption, Zenon DEF Sent

LEMMA SignedText ==
    ASSUME NEW n \in Int
    PROVE  Signed(n) \in Seq(RespBytes) /\ Len(Signed(n)) \in Nat /\ Len(Signed(n)) >= 1
<1>1. CASE n >= 0
  <2>1. n \in Nat /\ Signed(n) = Numeral[n]
    BY <1>1 DEF Signed
  <2> QED
    BY <2>1, NumeralText, Zenon
<1>2. CASE n < 0
  <2>1. PICK w : w = 0 - n
    BY Zenon
  <2>2. w \in Nat
    BY <1>2, <2>1
  <2>3. PICK t : t = Numeral[w]
    BY Zenon
  <2>4. t \in Seq(RespBytes) /\ Len(t) \in Nat
    BY <2>2, <2>3, NumeralText, Zenon
  <2>5. PICK h : h = <<"-">>
    BY Zenon
  <2>6. PICK c : c = "-"
    BY Zenon
  <2>7. c \in RespBytes
    BY <2>6, RespByteSet, Zenon
  <2>8. <<c>> \in Seq(RespBytes) /\ Len(<<c>>) = 1
    BY <2>7
  <2>9. h \in Seq(RespBytes) /\ Len(h) = 1
    BY <2>5, <2>6, <2>8, Zenon
  <2>10. PICK u : u = h \o t
    BY Zenon
  <2>11. u \in Seq(RespBytes) /\ Len(u) = Len(h) + Len(t)
    <3>1. h \in Seq(RespBytes) /\ t \in Seq(RespBytes)
      BY <2>4, <2>9
    <3> QED
      BY <2>10, <3>1, Joins
  <2>12. Signed(n) = u
    BY <1>2, <2>1, <2>3, <2>5, <2>10, Zenon DEF Signed
  <2>13. Len(u) \in Nat /\ Len(u) >= 1
    BY <2>4, <2>9, <2>11
  <2> QED
    BY <2>11, <2>12, <2>13, Zenon
<1> QED
    BY <1>1, <1>2

Header(m) == <<"*">> \o Signed(m.count) \o CRLF

\* The header of an array: mark, count, end of line.
LEMMA HeaderPlaces ==
    ASSUME NEW m, m.count \in Int, NEW d, d = Len(Signed(m.count))
    PROVE  /\ Header(m) \in Seq(RespBytes) /\ Len(Header(m)) = d + 3
           /\ Header(m)[1] = "*" /\ Header(m)[d + 2] = "\r"
           /\ \A k \in 1 .. d : Header(m)[1 + k] = Signed(m.count)[k]
<1>1. PICK B : B = RespBytes
    BY Zenon
<1>2. PICK t : t = Signed(m.count)
    BY Zenon
<1>3. t \in Seq(B) /\ Len(t) = d
    BY <1>1, <1>2, SignedText, Zenon
<1>4. PICK e : e = CRLF
    BY Zenon
<1>5. e \in Seq(B)
    BY <1>1, <1>4, LineEndText, Zenon
<1>6. Len(e) = 2 /\ e[1] = "\r"
    BY <1>4, LineEndText, Zenon
<1>7. PICK c : c = "*"
    BY Zenon
<1>8. c \in B
    BY <1>1, <1>7, RespByteSet, Zenon
<1>9. /\ <<c>> \o t \o e \in Seq(B) /\ Len(<<c>> \o t \o e) = Len(t) + 3
      /\ (<<c>> \o t \o e)[1] = c
      /\ \A k \in 1 .. Len(t) : (<<c>> \o t \o e)[1 + k] = t[k]
      /\ (<<c>> \o t \o e)[Len(t) + 2] = e[1]
    BY <1>3, <1>5, <1>6, <1>8, MarkedText
<1>10. PICK u : u = <<c>> \o t \o e
    BY Zenon
<1>11. u = Header(m)
    BY <1>2, <1>4, <1>7, <1>10, Zenon DEF Header
<1>12. /\ u \in Seq(B) /\ Len(u) = d + 3 /\ u[1] = c
       /\ \A k \in 1 .. d : u[1 + k] = t[k]
       /\ u[d + 2] = e[1]
    BY <1>3, <1>9, <1>10, Zenon
<1> QED
    BY <1>1, <1>2, <1>6, <1>7, <1>11, <1>12, Zenon

TextEntry(f, m, k) == IF k = 0 THEN Header(m) ELSE f[k - 1] \o BulkText(m.parts[k])

LEMMA ArrayTextExists ==
    ASSUME NEW m, Len(m.parts) \in Nat
    PROVE  \E f : f = [k \in 0 .. Len(m.parts) |-> TextEntry(f, m, k)]
<1>0. PICK l : l = Len(m.parts)
    BY Zenon
<1> DEFINE Good(x) == \E f : \A n \in 0 .. l : n <= x => f[n] = TextEntry(f, m, n)
           T == {x \in Nat : Good(x)}
<1>1. Good(0)
  <2> DEFINE f == [n \in 0 .. l |-> Header(m)]
  <2>1. \A n \in 0 .. l : n <= 0 => n = 0
    BY <1>0
  <2>2. \A n \in 0 .. l : n <= 0 => f[n] = TextEntry(f, m, n)
    BY <2>1, Zenon DEF TextEntry
  <2> QED
    BY <2>2, Zenon
<1>2. ASSUME NEW x \in Nat, Good(x) PROVE Good(x + 1)
  <2>1. PICK f : \A n \in 0 .. l : n <= x => f[n] = TextEntry(f, m, n)
    BY <1>2, Zenon
  <2> DEFINE g == [n \in 0 .. l |-> TextEntry(f, m, n)]
  <2>2. \A n \in 0 .. l : g[n] = TextEntry(f, m, n)
    OBVIOUS
  <2> HIDE DEF g
  <2>3. \A n \in 0 .. l : n <= x => f[n] = g[n]
    BY <2>1, <2>2
  <2>4. ASSUME NEW n \in 0 .. l, n <= x + 1 PROVE g[n] = TextEntry(g, m, n)
    <3>1. n # 0 => n - 1 \in 0 .. l /\ n - 1 <= x
      BY <1>0, <2>4
    <3>2. n # 0 => f[n - 1] = g[n - 1]
      BY <2>3, <3>1
    <3> QED
      BY <2>2, <3>2, Zenon DEF TextEntry
  <2> QED
    BY <2>4, Zenon
<1> HIDE DEF Good
<1>3. T = Nat
  <2>1. T \subseteq Nat /\ 0 \in T /\ \A n \in T : n + 1 \in T
    BY <1>1, <1>2
  <2> HIDE DEF T
  <2> QED
    BY <2>1, Induction
<1>4. Good(l)
    BY <1>0, <1>3
<1>5. PICK f : \A n \in 0 .. l : n <= l => f[n] = TextEntry(f, m, n)
    BY <1>4, Zenon DEF Good
<1> DEFINE g == [n \in 0 .. l |-> TextEntry(f, m, n)]
<1>6. g = [n \in 0 .. l |-> TextEntry(f, m, n)]
    OBVIOUS
<1>7. \A n \in 0 .. l : f[n] = g[n]
    BY <1>0, <1>5
<1> HIDE DEF g
<1>8. \A n \in 0 .. l : TextEntry(f, m, n) = TextEntry(g, m, n)
  <2> TAKE n \in 0 .. l
  <2>1. n # 0 => n - 1 \in 0 .. l
    BY <1>0
  <2> QED
    BY <1>7, <2>1, Zenon DEF TextEntry
<1>9. g = [n \in 0 .. l |-> TextEntry(g, m, n)]
    BY <1>6, <1>8
<1> QED
    BY <1>0, <1>9, Zenon

LEMMA ArrayTextSteps ==
    ASSUME NEW m, Len(m.parts) \in Nat
    PROVE  /\ ArrayText(m)[0] = Header(m)
           /\ \A k \in 1 .. Len(m.parts) : ArrayText(m)[k] = ArrayText(m)[k - 1] \o BulkText(m.parts[k])
<1> DEFINE r == ArrayText(m)
<1>1. r = CHOOSE f : f = [k \in 0 .. Len(m.parts) |-> TextEntry(f, m, k)]
    BY Zenon DEF ArrayText, TextEntry, Header
<1>2. r = [k \in 0 .. Len(m.parts) |-> TextEntry(r, m, k)]
    BY <1>1, ArrayTextExists, Zenon
<1> HIDE DEF r
<1>3. \A k \in 0 .. Len(m.parts) : r[k] = TextEntry(r, m, k)
    BY <1>2, Zenon
<1>4. 0 \in 0 .. Len(m.parts) /\ \A k \in 1 .. Len(m.parts) : k \in 0 .. Len(m.parts) /\ k # 0
    OBVIOUS
<1>5. r[0] = Header(m)
    BY <1>3, <1>4, Zenon DEF TextEntry
<1>6. \A k \in 1 .. Len(m.parts) : r[k] = r[k - 1] \o BulkText(m.parts[k])
    BY <1>3, <1>4, Zenon DEF TextEntry
<1> QED
    BY <1>5, <1>6 DEF r

\* One part more: the text before it stays, and its own follows.
LEMMA OnePartMore ==
    ASSUME NEW m, m.parts \in Seq(Seq(RespBytes)), NEW k \in 1 .. Len(m.parts),
           ArrayText(m)[k - 1] \in Seq(RespBytes)
    PROVE  /\ BulkText(m.parts[k]) \in Seq(RespBytes) /\ ArrayText(m)[k] \in Seq(RespBytes)
           /\ Len(ArrayText(m)[k]) = Len(ArrayText(m)[k - 1]) + Len(BulkText(m.parts[k]))
           /\ \A p \in 1 .. Len(ArrayText(m)[k - 1]) : ArrayText(m)[k][p] = ArrayText(m)[k - 1][p]
           /\ \A p \in 1 .. Len(BulkText(m.parts[k])) :
                 ArrayText(m)[k][Len(ArrayText(m)[k - 1]) + p] = BulkText(m.parts[k])[p]
<1>1. Len(m.parts) \in Nat /\ m.parts[k] \in Seq(RespBytes)
    BY LenProperties, ElementOfSeq
<1>2. BulkText(m.parts[k]) \in Seq(RespBytes)
    BY <1>1, BulkPlaces, Zenon
<1>3. ArrayText(m)[k] = ArrayText(m)[k - 1] \o BulkText(m.parts[k])
    BY <1>1, ArrayTextSteps, Zenon
<1>5. PICK o : o = ArrayText(m)[k - 1]
    BY Zenon
<1>6. PICK e : e = BulkText(m.parts[k])
    BY Zenon
<1>7. PICK w : w = ArrayText(m)[k]
    BY Zenon
<1>8. o \in Seq(RespBytes) /\ e \in Seq(RespBytes) /\ w = o \o e
    BY <1>2, <1>3, <1>5, <1>6, <1>7, Zenon
<1>9. /\ w \in Seq(RespBytes) /\ Len(w) = Len(o) + Len(e)
      /\ \A p \in 1 .. Len(o) : w[p] = o[p]
      /\ \A p \in 1 .. Len(e) : w[Len(o) + p] = e[p]
    BY <1>8, Joins
<1> QED
    BY <1>2, <1>5, <1>6, <1>7, <1>9, Zenon

LEMMA ArrayTextTypes ==
    ASSUME NEW m, m.parts \in Seq(Seq(RespBytes)), m.count \in Int, NEW x \in 0 .. Len(m.parts)
    PROVE  ArrayText(m)[x] \in Seq(RespBytes) /\ Len(ArrayText(m)[x]) \in Nat
<1>0. PICK l : l = Len(m.parts)
    BY Zenon
<1>1. l \in Nat
    BY <1>0, LenProperties
<1> DEFINE T == {k \in Nat : k <= l => ArrayText(m)[k] \in Seq(RespBytes)}
<1>2. 0 \in T
  <2>1. ArrayText(m)[0] = Header(m) /\ Header(m) \in Seq(RespBytes)
    BY <1>0, <1>1, ArrayTextSteps, HeaderPlaces, Zenon
  <2>2. 0 \in Nat
    OBVIOUS
  <2> QED
    BY <2>1, <2>2, Zenon
<1>3. ASSUME NEW k \in T PROVE k + 1 \in T
  <2> SUFFICES ASSUME k + 1 <= l PROVE ArrayText(m)[k + 1] \in Seq(RespBytes)
    OBVIOUS
  <2>1. k \in Nat /\ k <= l /\ k + 1 \in 1 .. Len(m.parts) /\ (k + 1) - 1 = k
    BY <1>0, <1>1
  <2>2. ArrayText(m)[(k + 1) - 1] \in Seq(RespBytes)
    BY <2>1
  <2> QED
    BY <2>1, <2>2, OnePartMore
<1>4. T = Nat
  <2>1. T \subseteq Nat
    OBVIOUS
  <2> HIDE DEF T
  <2> QED
    BY <1>2, <1>3, <2>1, Induction
<1>5. ArrayText(m)[x] \in Seq(RespBytes)
    BY <1>0, <1>1, <1>4
<1> QED
    BY <1>5, LenProperties

\* The text up to a part begins the text of the whole.
LEMMA ArrayTextPrefix ==
    ASSUME NEW m, m.parts \in Seq(Seq(RespBytes)), m.count \in Int,
           NEW y \in Nat, y <= Len(m.parts), NEW x \in Nat, x <= y
    PROVE  /\ Len(ArrayText(m)[x]) <= Len(ArrayText(m)[y])
           /\ \A p \in 1 .. Len(ArrayText(m)[x]) : ArrayText(m)[y][p] = ArrayText(m)[x][p]
<1> DEFINE A(k) == ArrayText(m)[k]
           Within(k) == Len(A(x)) <= Len(A(k)) /\ \A p \in 1 .. Len(A(x)) : A(k)[p] = A(x)[p]
           T == {n \in Nat : x + n <= y => Within(x + n)}
<1>0. Len(m.parts) \in Nat
    BY LenProperties
<1>1. \A k \in 0 .. Len(m.parts) : A(k) \in Seq(RespBytes) /\ Len(A(k)) \in Nat
    BY ArrayTextTypes
<1>2. 0 \in T
  <2>1. x + 0 = x /\ x \in 0 .. Len(m.parts)
    BY <1>0
  <2>2. Len(A(x)) \in Nat
    BY <1>1, <2>1, Zenon
  <2> QED
    BY <2>1, <2>2
<1>3. ASSUME NEW n \in T PROVE n + 1 \in T
  <2> SUFFICES ASSUME x + (n + 1) <= y PROVE Within(x + (n + 1))
    OBVIOUS
  <2>1. PICK k : k = x + (n + 1)
    BY Zenon
  <2>2. /\ n \in Nat /\ k \in 1 .. Len(m.parts) /\ k - 1 = x + n /\ x + n <= y
        /\ x \in 0 .. Len(m.parts) /\ k - 1 \in 0 .. Len(m.parts)
    <3>1. n \in Nat
      BY <1>3, Zenon
    <3>2. PICK l : l = Len(m.parts)
      BY Zenon
    <3>3. l \in Nat /\ y <= l
      BY <1>0, <3>2
    <3>4. /\ n \in Nat /\ k \in 1 .. l /\ k - 1 = x + n /\ x + n <= y
          /\ x \in 0 .. l /\ k - 1 \in 0 .. l
      BY <2>1, <3>1, <3>3
    <3> QED
      BY <3>2, <3>4, Zenon
  <2>3. Within(k - 1)
    BY <2>2
  <2>4. PICK old : old = ArrayText(m)[k - 1]
    BY Zenon
  <2>5. PICK new : new = ArrayText(m)[k]
    BY Zenon
  <2>6. PICK bulk : bulk = BulkText(m.parts[k])
    BY Zenon
  <2>7. old \in Seq(RespBytes) /\ Len(old) \in Nat /\ Len(A(x)) \in Nat
    BY <1>1, <2>2, <2>4, Zenon
  <2>8. /\ bulk \in Seq(RespBytes) /\ Len(new) = Len(old) + Len(bulk)
        /\ \A p \in 1 .. Len(old) : new[p] = old[p]
    <3>1. /\ BulkText(m.parts[k]) \in Seq(RespBytes)
          /\ Len(ArrayText(m)[k]) = Len(ArrayText(m)[k - 1]) + Len(BulkText(m.parts[k]))
          /\ \A p \in 1 .. Len(ArrayText(m)[k - 1]) : ArrayText(m)[k][p] = ArrayText(m)[k - 1][p]
      <4>1. k \in 1 .. Len(m.parts) /\ ArrayText(m)[k - 1] \in Seq(RespBytes)
        BY <2>2, <2>4, <2>7, Zenon
      <4> HIDE DEF T
      <4> QED
        BY <4>1, OnePartMore
    <3> QED
      BY <2>4, <2>5, <2>6, <3>1, Zenon
  <2>9. Len(bulk) \in Nat
    BY <2>8, LenProperties
  <2>10. PICK f : f = A(x)
    BY Zenon
  <2>11. /\ Len(f) \in Nat /\ Len(f) <= Len(old)
         /\ \A p \in 1 .. Len(f) : old[p] = f[p]
    BY <2>3, <2>4, <2>7, <2>10, Zenon
  <2>12. Len(f) <= Len(new)
    BY <2>7, <2>8, <2>9, <2>11
  <2>13. \A p \in 1 .. Len(f) : p \in 1 .. Len(old)
    BY <2>7, <2>11
  <2>14. \A p \in 1 .. Len(f) : new[p] = f[p]
    BY <2>8, <2>11, <2>13, Zenon
  <2> QED
    BY <2>1, <2>5, <2>10, <2>12, <2>14, Zenon
<1>4. T = Nat
  <2>1. T \subseteq Nat
    OBVIOUS
  <2> HIDE DEF T
  <2> QED
    BY <1>2, <1>3, <2>1, Induction
<1>5. y - x \in Nat /\ x + (y - x) = y /\ x + (y - x) <= y
    OBVIOUS
<1>6. Within(x + (y - x))
    BY <1>4, <1>5
<1> QED
    BY <1>5, <1>6, Zenon

\* The places of a bulk string's text, behind v.
LEMMA ItemArithmetic ==
    ASSUME NEW v \in Nat, NEW d \in Nat, NEW z \in Nat
    PROVE  /\ \A p \in 1 .. d + 3 + z + 2 : v + p \in 1 .. v + (d + 3 + z + 2)
           /\ 1 \in 1 .. d + 3 + z + 2 /\ d + 2 \in 1 .. d + 3 + z + 2
           /\ \A p \in 1 .. d : 1 + p \in 1 .. d + 3 + z + 2
           /\ \A p \in 1 .. z : d + 3 + p \in 1 .. d + 3 + z + 2
OBVIOUS

\* Where part k stands in the text of the whole array.
PartStands(m, k, z, d, v) ==
    /\ v \in Nat /\ d \in Nat /\ d >= 1 /\ z \in Nat
    /\ Len(ArrayText(m)[k]) = v + (d + 3 + z + 2)
    /\ v + (d + 3 + z + 2) <= Len(Wire(m))
    /\ Wire(m)[v + 1] = "$" /\ Wire(m)[v + (d + 2)] = "\r"
    /\ \A p \in 1 .. d : Wire(m)[v + (1 + p)] = Numeral[z][p]
    /\ \A p \in 1 .. z : Wire(m)[v + (d + 3 + p)] = m.parts[k][p]

LEMMA ItemPlaces ==
    ASSUME NEW m, Sent(m), m.type = "array", NEW k \in 1 .. Len(m.parts)
    PROVE  PartStands(m, k, Len(m.parts[k]), Len(Numeral[Len(m.parts[k])]), Len(ArrayText(m)[k - 1]))
<1>a. PICK z : z = Len(m.parts[k])
    BY Zenon
<1>b. PICK d : d = Len(Numeral[z])
    BY Zenon
<1>c. PICK v : v = Len(ArrayText(m)[k - 1])
    BY Zenon
<1>1. m.parts \in Seq(Seq(RespBytes)) /\ m.count \in Int
    BY Zenon DEF Sent
<1>2. PICK l : l = Len(m.parts)
    BY Zenon
<1>3. l \in Nat /\ k \in 1 .. l /\ m.parts[k] \in Seq(RespBytes)
    BY <1>1, <1>2, LenProperties, ElementOfSeq
<1>4. k - 1 \in 0 .. l /\ k \in 0 .. l /\ k \in Nat /\ k <= l
    BY <1>3
<1>5. PICK o : o = ArrayText(m)[k - 1]
    BY Zenon
<1>6. PICK e : e = BulkText(m.parts[k])
    BY Zenon
<1>7. PICK w : w = ArrayText(m)[k]
    BY Zenon
<1>8. o \in Seq(RespBytes) /\ v \in Nat /\ Len(o) = v
    BY <1>c, <1>1, <1>2, <1>4, <1>5, ArrayTextTypes, Zenon
<1>9. /\ Len(w) = Len(o) + Len(e)
      /\ \A p \in 1 .. Len(e) : w[Len(o) + p] = e[p]
  <2>1. ArrayText(m)[k - 1] \in Seq(RespBytes)
    BY <1>5, <1>8, Zenon
  <2>2. /\ Len(ArrayText(m)[k]) = Len(ArrayText(m)[k - 1]) + Len(BulkText(m.parts[k]))
        /\ \A p \in 1 .. Len(BulkText(m.parts[k])) :
              ArrayText(m)[k][Len(ArrayText(m)[k - 1]) + p] = BulkText(m.parts[k])[p]
    BY <1>1, <2>1, OnePartMore
  <2> QED
    BY <1>5, <1>6, <1>7, <2>2, Zenon
<1>10. z \in Nat /\ d \in Nat /\ d >= 1
  <2>1. z \in Nat
    BY <1>a, <1>3, LenProperties
  <2> QED
    BY <1>b, <2>1, NumeralText
<1>11. /\ Len(e) = d + 3 + z + 2 /\ e[1] = "$" /\ e[d + 2] = "\r"
       /\ \A p \in 1 .. d : e[1 + p] = Numeral[z][p]
       /\ \A p \in 1 .. z : e[d + 3 + p] = m.parts[k][p]
  <2>1. PICK f : f = m.parts[k]
    BY Zenon
  <2>2. f \in Seq(RespBytes) /\ z = Len(f) /\ d = Len(Numeral[Len(f)])
    BY <1>a, <1>b, <1>3, <2>1, Zenon
  <2>3. /\ Len(BulkText(f)) = d + 3 + Len(f) + 2
        /\ BulkText(f)[1] = "$" /\ BulkText(f)[d + 2] = "\r"
        /\ \A p \in 1 .. d : BulkText(f)[1 + p] = Numeral[Len(f)][p]
        /\ \A p \in 1 .. Len(f) : BulkText(f)[d + 3 + p] = f[p]
    <3>1. BulkParts(BulkText(f), f, Len(Numeral[Len(f)]))
      BY <2>2, BulkPlaces, Zenon
    <3>2. BulkParts(BulkText(f), f, d)
      BY <2>2, <3>1, Zenon
    <3> QED
      BY <3>2, Zenon DEF BulkParts
  <2> QED
    BY <1>6, <2>1, <2>2, <2>3, Zenon
<1>12. PICK r : r = Wire(m)
    BY Zenon
<1>13. r = ArrayText(m)[l]
    BY <1>2, <1>12, Zenon DEF Wire
<1>14. Len(w) <= Len(r) /\ \A p \in 1 .. Len(w) : r[p] = w[p]
  <2>1. l <= Len(m.parts)
    BY <1>2, <1>3
  <2> QED
    BY <1>1, <1>3, <1>4, <1>7, <1>13, <2>1, ArrayTextPrefix, Zenon
<1>15. PICK x : x = d + 3 + z + 2
    BY Zenon
<1>16. Len(w) = v + x /\ \A p \in 1 .. x : w[v + p] = e[p]
  <2>1. Len(e) = x /\ Len(o) = v
    BY <1>8, <1>11, <1>15, Zenon
  <2>2. Len(w) = v + x
    BY <1>9, <2>1, Zenon
  <2>3. \A p \in 1 .. x : w[v + p] = e[p]
    BY <1>9, <2>1, Zenon
  <2> QED
    BY <2>2, <2>3, Zenon
<1>17. \A p \in 1 .. x : r[v + p] = e[p]
  <2>1. \A p \in 1 .. x : v + p \in 1 .. v + x
    BY <1>8, <1>10, <1>15, ItemArithmetic, Zenon
  <2> QED
    BY <1>14, <1>16, <2>1, Zenon
<1>18. /\ 1 \in 1 .. x /\ d + 2 \in 1 .. x /\ (\A p \in 1 .. d : 1 + p \in 1 .. x)
       /\ \A p \in 1 .. z : d + 3 + p \in 1 .. x
    BY <1>8, <1>10, <1>15, ItemArithmetic, Zenon
<1>19. /\ r[v + 1] = "$" /\ r[v + (d + 2)] = "\r"
       /\ \A p \in 1 .. d : r[v + (1 + p)] = Numeral[z][p]
       /\ \A p \in 1 .. z : r[v + (d + 3 + p)] = m.parts[k][p]
    BY <1>11, <1>17, <1>18, Zenon
<1>20. Len(ArrayText(m)[k]) = v + (d + 3 + z + 2) /\ v + (d + 3 + z + 2) <= Len(r)
    BY <1>7, <1>14, <1>15, <1>16, Zenon
<1>21. PartStands(m, k, z, d, v)
    BY <1>8, <1>10, <1>12, <1>19, <1>20, Zenon DEF PartStands
<1> QED
    BY <1>a, <1>b, <1>c, <1>21, Zenon

\* The header begins the text.
LEMMA HeaderFirst ==
    ASSUME NEW m, Sent(m), m.type = "array", NEW d, d = Len(Signed(m.count))
    PROVE  /\ d \in Nat /\ d >= 1 /\ Len(ArrayText(m)[0]) = d + 3 /\ d + 3 <= Len(Wire(m))
           /\ Wire(m)[1] = "*" /\ Wire(m)[d + 2] = "\r"
           /\ \A p \in 1 .. d : Wire(m)[1 + p] = Signed(m.count)[p]
           /\ \A k \in 0 .. Len(m.parts) : Len(ArrayText(m)[k]) >= d + 3
<1>1. m.parts \in Seq(Seq(RespBytes)) /\ m.count \in Int
    BY Zenon DEF Sent
<1>2. PICK l : l = Len(m.parts)
    BY Zenon
<1>3. l \in Nat /\ l <= Len(m.parts) /\ 0 \in Nat /\ 0 <= l
    BY <1>1, <1>2, LenProperties
<1>4. d \in Nat /\ d >= 1
    BY <1>1, SignedText
<1>5. PICK h : h = ArrayText(m)[0]
    BY Zenon
<1>6. h = Header(m)
    BY <1>2, <1>3, <1>5, ArrayTextSteps, Zenon
<1>7. /\ Len(h) = d + 3 /\ h[1] = "*" /\ h[d + 2] = "\r"
      /\ \A p \in 1 .. d : h[1 + p] = Signed(m.count)[p]
    BY <1>1, <1>6, HeaderPlaces, Zenon
<1>8. PICK r : r = Wire(m)
    BY Zenon
<1>9. r = ArrayText(m)[l]
    BY <1>2, <1>8, Zenon DEF Wire
<1>10. Len(h) <= Len(r) /\ \A p \in 1 .. Len(h) : r[p] = h[p]
    BY <1>1, <1>3, <1>5, <1>9, ArrayTextPrefix, Zenon
<1>11. 1 \in 1 .. d + 3 /\ d + 2 \in 1 .. d + 3 /\ \A p \in 1 .. d : 1 + p \in 1 .. d + 3
    BY <1>4
<1>12. /\ d + 3 <= Len(r) /\ r[1] = "*" /\ r[d + 2] = "\r"
       /\ \A p \in 1 .. d : r[1 + p] = Signed(m.count)[p]
    BY <1>7, <1>10, <1>11, Zenon
<1>13. ASSUME NEW k \in 0 .. Len(m.parts) PROVE Len(ArrayText(m)[k]) >= d + 3
  <2>1. k \in Nat /\ k <= Len(m.parts) /\ 0 <= k
    BY <1>2, <1>3
  <2>2. Len(ArrayText(m)[0]) <= Len(ArrayText(m)[k])
    BY <1>1, <1>3, <2>1, ArrayTextPrefix, Zenon
  <2>3. Len(ArrayText(m)[k]) \in Nat
    BY <1>1, ArrayTextTypes
  <2> QED
    BY <1>4, <1>5, <1>7, <2>2, <2>3
<1> QED
    BY <1>4, <1>5, <1>7, <1>8, <1>12, <1>13, Zenon

LEMMA WireText ==
    ASSUME NEW m, Sent(m)
    PROVE  Wire(m) \in Seq(RespBytes) /\ Len(Wire(m)) \in Nat
<1>1. m.parts \in Seq(Seq(RespBytes)) /\ m.count \in Int
    BY Zenon DEF Sent
<1>2. CASE m.type = "array"
  <2>1. Len(m.parts) \in 0 .. Len(m.parts)
    BY <1>1, LenProperties
  <2> QED
    BY <1>1, <1>2, <2>1, ArrayTextTypes, Zenon DEF Wire
<1>3. CASE m.type # "array"
  <2>1. Len(m.parts) = 1 /\ m.type \in {"simple", "error", "integer", "bulk"}
    BY <1>3, Zenon DEF Sent
  <2>2. m.parts[1] \in Seq(RespBytes)
    <3>1. 1 \in 1 .. Len(m.parts)
      BY <2>1
    <3> QED
      BY <1>1, <3>1, ElementOfSeq, Zenon
  <2>3. PICK c : c = Mark[m.type]
    BY Zenon
  <2>4. c \in {"+", "-", ":", "$"}
    BY <2>1, <2>3 DEF Mark
  <2>5. c \in RespBytes
    BY <2>4, RespByteSet, Zenon
  <2>6. <<c>> \o m.parts[1] \o CRLF \in Seq(RespBytes)
    BY <2>2, <2>5, LineEndText, MarkedText, Zenon
  <2>7. Wire(m) \in Seq(RespBytes)
    BY <1>3, <2>3, <2>6, Zenon DEF Wire
  <2> QED
    BY <2>7, LenProperties
<1> QED
    BY <1>2, <1>3, Zenon

-----------------------------------------------------------------------------
(* RESP: the buffer                                                        *)

Loaded ==
    /\ message \in Messages /\ arrived \in 1 .. Len(Wire(message))
    /\ \E e \in Earlier : memory = Overlay(SubSeq(Wire(message), 1, arrived), e)

\* s, the zero, and what is behind it of the older text.
LEMMA OverlayPlaces ==
    ASSUME NEW B, NEW s \in Seq(B), NEW old \in Seq(B), ZERO \in B
    PROVE  /\ Overlay(s, old) \in Seq(B) /\ Len(s) < Len(Overlay(s, old))
           /\ Overlay(s, old)[Len(s) + 1] = ZERO
           /\ \A p \in 1 .. Len(s) : Overlay(s, old)[p] = s[p]
<1>1. Len(s) \in Nat /\ Len(old) \in Nat
    BY LenProperties
<1>2. PICK rest : rest = SubSeq(old, Len(s) + 2, Len(old))
    BY Zenon
<1>3. rest \in Seq(B) /\ Len(rest) \in Nat
  <2>1. \A p \in Len(s) + 2 .. Len(old) : old[p] \in B
    <3>1. \A p \in Len(s) + 2 .. Len(old) : p \in 1 .. Len(old)
      BY <1>1
    <3> QED
      BY <3>1, ElementOfSeq
  <2>2. Len(s) + 2 \in Int /\ Len(old) \in Int
    BY <1>1
  <2>3. SubSeq(old, Len(s) + 2, Len(old)) \in Seq(B)
    BY <2>1, <2>2, SubSeqProperties
  <2> QED
    BY <1>2, <2>3, LenProperties
<1>4. PICK h : h = <<ZERO>>
    BY Zenon
<1>5. h \in Seq(B)
    BY <1>4
<1>6. Len(h) = 1 /\ h[1] = ZERO
    BY <1>4
<1>7. PICK u : u = s \o h
    BY Zenon
<1>8. /\ u \in Seq(B) /\ Len(u) = Len(s) + Len(h)
      /\ \A p \in 1 .. Len(s) : u[p] = s[p]
      /\ \A p \in 1 .. Len(h) : u[Len(s) + p] = h[p]
    BY <1>5, <1>7, Joins
<1>9. PICK w : w = u \o rest
    BY Zenon
<1>10. /\ w \in Seq(B) /\ Len(w) = Len(u) + Len(rest)
       /\ \A p \in 1 .. Len(u) : w[p] = u[p]
  <2>1. u \in Seq(B) /\ rest \in Seq(B)
    BY <1>3, <1>8
  <2> QED
    BY <1>9, <2>1, Joins
<1>11. PICK l : l = Len(s)
    BY Zenon
<1>12. l \in Nat /\ Len(u) = l + 1 /\ u[l + 1] = ZERO
  <2>1. 1 \in 1 .. 1
    OBVIOUS
  <2>2. u[l + 1] = ZERO
    BY <1>6, <1>8, <1>11, <2>1, Zenon
  <2>3. Len(u) = l + 1
    BY <1>6, <1>8, <1>11, Zenon
  <2> QED
    BY <1>1, <1>11, <2>2, <2>3, Zenon
<1>13. l + 1 \in 1 .. Len(u) /\ \A p \in 1 .. l : p \in 1 .. Len(u)
    BY <1>12
<1>14. w[l + 1] = ZERO /\ \A p \in 1 .. l : w[p] = s[p]
    BY <1>8, <1>10, <1>11, <1>12, <1>13, Zenon
<1>15. l < Len(w)
    BY <1>3, <1>10, <1>12
<1>16. w = Overlay(s, old)
    BY <1>2, <1>4, <1>7, <1>9, Zenon DEF Overlay
<1> QED
    BY <1>10, <1>11, <1>14, <1>15, <1>16, Zenon

LEMMA MemoryFacts ==
    ASSUME Loaded
    PROVE  /\ Sent(message) /\ arrived \in Nat /\ arrived >= 1 /\ arrived <= Len(Wire(message))
           /\ memory \in Seq(RespBytes) /\ Len(memory) \in Nat /\ arrived < Len(memory)
           /\ memory[arrived + 1] = ZERO
           /\ \A p \in 1 .. arrived : memory[p] = Wire(message)[p]
<1>1. message \in Messages /\ arrived \in 1 .. Len(Wire(message))
    BY Zenon DEF Loaded
<1>2. Sent(message)
    BY <1>1, SentMessages, Zenon
<1>3. PICK e \in Earlier : memory = Overlay(SubSeq(Wire(message), 1, arrived), e)
    BY Zenon DEF Loaded
<1>4. PICK w : w = Wire(message)
    BY Zenon
<1>5. w \in Seq(RespBytes) /\ Len(w) \in Nat
    BY <1>2, <1>4, WireText, Zenon
<1>6. arrived \in Nat /\ arrived >= 1 /\ arrived <= Len(w)
    BY <1>1, <1>4, <1>5
<1>7. PICK s : s = SubSeq(w, 1, arrived)
    BY Zenon
<1>8. s \in Seq(RespBytes) /\ Len(s) = arrived /\ \A p \in 1 .. arrived : s[p] = w[p]
  <2>1. \A p \in 1 .. arrived : w[p] \in RespBytes
    <3>1. \A p \in 1 .. arrived : p \in 1 .. Len(w)
      BY <1>5, <1>6
    <3> QED
      BY <1>5, <3>1, ElementOfSeq
  <2>2. /\ SubSeq(w, 1, arrived) \in Seq(RespBytes)
        /\ Len(SubSeq(w, 1, arrived)) = IF 1 <= arrived THEN arrived - 1 + 1 ELSE 0
        /\ \A p \in 1 .. arrived - 1 + 1 : SubSeq(w, 1, arrived)[p] = w[1 + p - 1]
    <3>1. 1 \in Int /\ arrived \in Int
      BY <1>6
    <3> QED
      BY <2>1, <3>1, SubSeqProperties
  <2>3. 1 <= arrived /\ arrived - 1 + 1 = arrived /\ \A p \in 1 .. arrived : 1 + p - 1 = p
    BY <1>6
  <2>4. Len(s) = arrived
    BY <1>7, <2>2, <2>3, Zenon
  <2>5. \A p \in 1 .. arrived : s[p] = w[p]
    <3> TAKE p \in 1 .. arrived
    <3>1. SubSeq(w, 1, arrived)[p] = w[1 + p - 1] /\ 1 + p - 1 = p
      BY <2>2, <2>3, Zenon
    <3> QED
      BY <1>7, <3>1, Zenon
  <2> QED
    BY <1>7, <2>2, <2>4, <2>5, Zenon
<1>9. e \in Seq(RespBytes)
    BY RespAssumption, Zenon
<1>10. memory = Overlay(s, e)
    BY <1>3, <1>4, <1>7, Zenon
<1>11. /\ Overlay(s, e) \in Seq(RespBytes) /\ Len(s) < Len(Overlay(s, e))
       /\ Overlay(s, e)[Len(s) + 1] = ZERO
       /\ \A p \in 1 .. Len(s) : Overlay(s, e)[p] = s[p]
    BY <1>8, <1>9, RespByteSet, OverlayPlaces, Zenon
<1>12. /\ memory \in Seq(RespBytes) /\ arrived < Len(memory) /\ memory[arrived + 1] = ZERO
       /\ \A p \in 1 .. arrived : memory[p] = w[p]
    BY <1>8, <1>10, <1>11, Zenon
<1>13. Len(memory) \in Nat
    BY <1>12, LenProperties
<1> QED
    BY <1>2, <1>4, <1>6, <1>12, <1>13, Zenon

\* What has arrived is read as it was sent.
LEMMA ByteRead ==
    ASSUME Loaded, NEW p \in Nat, p >= 1, p <= arrived
    PROVE  Byte(p) = Wire(message)[p] /\ memory[p] = Wire(message)[p]
<1>1. p \in 1 .. arrived /\ p <= Len(memory)
    BY MemoryFacts
<1> QED
    BY <1>1, MemoryFacts, Zenon DEF Byte

-----------------------------------------------------------------------------
(* RESP: what parse_array reads                                            *)

\* Where the text of part k begins.
TextBefore(k) == Len(ArrayText(message)[k - 1])

\* Part k is there in full.
Complete(k) == arrived >= ItemEnds(k)

LEMMA ReturnNoFigure == "\r" \notin Range(Figures)
BY FigureChars

\* The count of a header that is there.
LEMMA HeaderRead ==
    ASSUME Loaded, message.type = "array", arrived >= Len(ArrayText(message)[0])
    PROVE  /\ Byte(1) = "*" /\ strtol(memory, 2).n = message.count
           /\ strtol(memory, 2).end + 2 = Len(ArrayText(message)[0]) + 1
<1>1. PICK d : d = Len(Signed(message.count))
    BY Zenon
<1>2. PICK r : r = Wire(message)
    BY Zenon
<1>3. Sent(message) /\ arrived \in Nat /\ Len(memory) \in Nat /\ arrived < Len(memory)
    BY MemoryFacts
<1>4. /\ d \in Nat /\ d >= 1 /\ Len(ArrayText(message)[0]) = d + 3
      /\ r[1] = "*" /\ r[d + 2] = "\r"
      /\ \A p \in 1 .. d : r[1 + p] = Signed(message.count)[p]
    BY <1>1, <1>2, <1>3, HeaderFirst, Zenon
<1>5. d + 3 <= arrived
    BY <1>3, <1>4
<1>6. \A p \in 1 .. d + 3 : Byte(p) = r[p] /\ memory[p] = r[p]
  <2> TAKE p \in 1 .. d + 3
  <2>1. p \in Nat /\ p >= 1 /\ p <= arrived
    BY <1>3, <1>4, <1>5
  <2> QED
    BY <1>2, <2>1, ByteRead, Zenon
<1>7. 1 \in 1 .. d + 3 /\ d + 2 \in 1 .. d + 3 /\ \A p \in 1 .. d : 1 + p \in 1 .. d + 3
    BY <1>4
<1>8. Byte(1) = "*" /\ memory[d + 2] = "\r"
    BY <1>4, <1>6, <1>7, Zenon
<1>9. Stands(Signed(message.count), memory, 2)
  <2>1. \A p \in 1 .. d : memory[1 + p] = Signed(message.count)[p]
    BY <1>4, <1>6, <1>7, Zenon
  <2>2. \A p \in 1 .. d : 2 + p - 1 = 1 + p
    BY <1>4
  <2>3. \A p \in 1 .. d : memory[2 + p - 1] = Signed(message.count)[p]
    BY <2>1, <2>2, Zenon
  <2>4. 2 + d - 1 <= Len(memory)
    BY <1>3, <1>4, <1>5
  <2> QED
    BY <1>1, <2>3, <2>4, Zenon DEF Stands
<1>10. PICK e : e = 2 + d
    BY Zenon
<1>11. memory[e] \notin Range(Figures)
  <2>1. e = d + 2
    BY <1>4, <1>10
  <2> QED
    BY <1>8, <2>1, ReturnNoFigure, Zenon
<1>12. strtol(memory, 2).n = message.count /\ strtol(memory, 2).end = e
  <2>1. message.count \in Int
    BY <1>3, Zenon DEF Sent
  <2>2. 2 \in Nat /\ 2 > 0 /\ e = 2 + Len(Signed(message.count))
    BY <1>1, <1>10
  <2> QED
    BY <1>3, <1>9, <1>11, <2>1, <2>2, strtolReads
<1> QED
    BY <1>4, <1>8, <1>10, <1>12

\* A part that is there in full.
LEMMA ItemRead ==
    ASSUME Loaded, message.type = "array", NEW k \in 1 .. Len(message.parts), Complete(k)
    PROVE  /\ Byte(TextBefore(k) + 1) = "$"
           /\ strtol(memory, TextBefore(k) + 2).n = Len(message.parts[k])
           /\ get_word(strtol(memory, TextBefore(k) + 2).end + 2, Len(message.parts[k])) = message.parts[k]
           /\ AfterWord(strtol(memory, TextBefore(k) + 2).end, Len(message.parts[k]))
                 = Len(ArrayText(message)[k]) + 1
<1>1. PICK f : f = message.parts[k]
    BY Zenon
<1>2. PICK z : z = Len(f)
    BY Zenon
<1>3. PICK d : d = Len(Numeral[z])
    BY Zenon
<1>4. PICK v : v = TextBefore(k)
    BY Zenon
<1>5. PICK r : r = Wire(message)
    BY Zenon
<1>6. Sent(message) /\ arrived \in Nat /\ Len(memory) \in Nat /\ arrived < Len(memory)
    BY MemoryFacts
<1>7. /\ v \in Nat /\ d \in Nat /\ d >= 1 /\ z \in Nat
      /\ Len(ArrayText(message)[k]) = v + (d + 3 + z + 2)
      /\ r[v + 1] = "$" /\ r[v + (d + 2)] = "\r"
      /\ \A p \in 1 .. d : r[v + (1 + p)] = Numeral[z][p]
      /\ \A p \in 1 .. z : r[v + (d + 3 + p)] = f[p]
  <2>1. /\ z = Len(message.parts[k]) /\ d = Len(Numeral[z])
        /\ v = Len(ArrayText(message)[k - 1])
    BY <1>1, <1>2, <1>3, <1>4, Zenon DEF TextBefore
  <2>2. /\ v \in Nat /\ d \in Nat /\ d >= 1 /\ z \in Nat
        /\ Len(ArrayText(message)[k]) = v + (d + 3 + z + 2)
        /\ Wire(message)[v + 1] = "$" /\ Wire(message)[v + (d + 2)] = "\r"
        /\ \A p \in 1 .. d : Wire(message)[v + (1 + p)] = Numeral[z][p]
        /\ \A p \in 1 .. z : Wire(message)[v + (d + 3 + p)] = message.parts[k][p]
    <3>1. PartStands(message, k, Len(message.parts[k]), Len(Numeral[Len(message.parts[k])]),
                     Len(ArrayText(message)[k - 1]))
      BY <1>6, ItemPlaces, Zenon
    <3>2. PartStands(message, k, z, d, v)
      BY <2>1, <3>1, Zenon
    <3> QED
      BY <3>2, Zenon DEF PartStands
  <2> QED
    BY <1>1, <1>5, <2>2, Zenon
<1>8. PICK x : x = v + (d + 3 + z)
    BY Zenon
<1>9. x \in Nat /\ x <= arrived
  <2>1. arrived >= Len(ArrayText(message)[k]) - 2
    BY Zenon DEF Complete, ItemEnds
  <2>2. arrived >= (v + (d + 3 + z + 2)) - 2
    BY <1>7, <2>1, Zenon
  <2>3. v \in Nat /\ d \in Nat /\ z \in Nat /\ arrived \in Nat
    BY <1>6, <1>7, Zenon
  <2> QED
    BY <1>8, <2>2, <2>3
<1>10. \A p \in 1 .. x : Byte(p) = r[p] /\ memory[p] = r[p]
  <2> TAKE p \in 1 .. x
  <2>1. p \in Nat /\ p >= 1 /\ p <= arrived
    BY <1>6, <1>9
  <2> QED
    BY <1>5, <2>1, ByteRead, Zenon
<1>11. /\ v + 1 \in 1 .. x /\ v + (d + 2) \in 1 .. x
       /\ \A p \in 1 .. d : v + (1 + p) \in 1 .. x
       /\ \A p \in 1 .. z : v + (d + 3 + p) \in 1 .. x
  <2>1. v \in Nat /\ d \in Nat /\ d >= 1 /\ z \in Nat
    BY <1>7, Zenon
  <2> QED
    BY <1>8, <2>1
<1>12. Byte(v + 1) = "$" /\ memory[v + (d + 2)] = "\r"
    BY <1>7, <1>10, <1>11, Zenon
<1>13. Signed(z) = Numeral[z]
    BY <1>7 DEF Signed
<1>14. Stands(Signed(z), memory, v + 2)
  <2>1. \A p \in 1 .. d : memory[v + (1 + p)] = Numeral[z][p]
    BY <1>7, <1>10, <1>11, Zenon
  <2>2. \A p \in 1 .. d : (v + 2) + p - 1 = v + (1 + p)
    BY <1>7
  <2>3. \A p \in 1 .. d : memory[(v + 2) + p - 1] = Numeral[z][p]
    BY <2>1, <2>2, Zenon
  <2>4. (v + 2) + d - 1 <= Len(memory)
    BY <1>6, <1>7, <1>8, <1>9
  <2> QED
    BY <1>3, <1>13, <2>3, <2>4, Zenon DEF Stands
<1>15. PICK e : e = v + (d + 2)
    BY Zenon
<1>16. strtol(memory, v + 2).n = z /\ strtol(memory, v + 2).end = e
  <2>1. v + 2 \in Nat /\ v + 2 > 0 /\ z \in Int
    BY <1>7
  <2>2. (v + 2) + d = v + (d + 2)
    BY <1>7
  <2>3. e = (v + 2) + Len(Signed(z))
    BY <1>3, <1>13, <1>15, <2>2, Zenon
  <2>4. memory[e] \notin Range(Figures)
    BY <1>12, <1>15, ReturnNoFigure, Zenon
  <2> QED
    BY <1>6, <1>14, <2>1, <2>3, <2>4, strtolReads
<1>17. get_word(e + 2, z) = f
  <2>1. PICK w : w = get_word(e + 2, z)
    BY Zenon
  <2>2. w = [p \in 1 .. z |-> Byte(e + 2 + p - 1)]
    BY <2>1, Zenon DEF get_word
  <2>3. \A p \in 1 .. z : e + 2 + p - 1 = v + (d + 3 + p)
    BY <1>7, <1>15
  <2>4. \A p \in 1 .. z : w[p] = f[p]
    BY <1>7, <1>10, <1>11, <2>2, <2>3, Zenon
  <2>5. f = [p \in 1 .. z |-> f[p]]
    <3>1. f \in Seq(RespBytes)
      <4>1. message.parts \in Seq(Seq(RespBytes))
        BY <1>6, Zenon DEF Sent
      <4> QED
        BY <1>1, <4>1, ElementOfSeq
    <3> QED
      BY <1>2, <3>1, LenProperties
  <2>6. w = [p \in 1 .. z |-> f[p]]
    BY <2>2, <2>4
  <2> QED
    BY <2>1, <2>5, <2>6, Zenon
<1>18. AfterWord(e, z) = Len(ArrayText(message)[k]) + 1
  <2>1. e + 2 + z + 2 = v + (d + 3 + z + 2) + 1
    BY <1>7, <1>15
  <2> QED
    BY <1>7, <2>1, Zenon DEF AfterWord
<1> QED
    BY <1>1, <1>2, <1>4, <1>12, <1>16, <1>17, <1>18, Zenon

\* A part that is there in full has the ones before it there, and the header.
LEMMA CompleteBefore ==
    ASSUME Loaded, message.type = "array", NEW k \in 1 .. Len(message.parts), Complete(k)
    PROVE  /\ \A n \in 1 .. k : Complete(n)
           /\ arrived >= Len(ArrayText(message)[0])
<1>1. Sent(message) /\ arrived \in Nat
    BY MemoryFacts
<1>2. message.parts \in Seq(Seq(RespBytes)) /\ message.count \in Int
    BY <1>1, Zenon DEF Sent
<1>3. PICK l : l = Len(message.parts)
    BY Zenon
<1>4. l \in Nat /\ k \in 1 .. l
    BY <1>2, <1>3, LenProperties
<1> DEFINE L(n) == Len(ArrayText(message)[n])
<1>5. \A n \in 0 .. l : L(n) \in Nat
    BY <1>2, <1>3, ArrayTextTypes, Zenon
<1>6. \A n \in 0 .. k : L(n) <= L(k)
  <2> TAKE n \in 0 .. k
  <2>1. n \in Nat /\ k \in Nat /\ k <= Len(message.parts) /\ n <= k
    BY <1>3, <1>4
  <2> QED
    BY <1>2, <2>1, ArrayTextPrefix, Zenon
<1>7. L(k - 1) + 5 <= L(k) /\ L(0) <= L(k - 1)
  <2>1. PICK z : z = Len(message.parts[k])
    BY Zenon
  <2>2. PICK d : d = Len(Numeral[z])
    BY Zenon
  <2>3. PICK v : v = Len(ArrayText(message)[k - 1])
    BY Zenon
  <2>4. v \in Nat /\ d \in Nat /\ z \in Nat /\ L(k) = v + (d + 3 + z + 2)
    <3>1. PartStands(message, k, Len(message.parts[k]), Len(Numeral[Len(message.parts[k])]),
                     Len(ArrayText(message)[k - 1]))
      BY <1>1, ItemPlaces, Zenon
    <3>2. PartStands(message, k, z, d, v)
      BY <2>1, <2>2, <2>3, <3>1, Zenon
    <3> QED
      BY <3>2, Zenon DEF PartStands
  <2>5. L(k - 1) + 5 <= L(k)
    BY <2>3, <2>4
  <2>6. 0 \in Nat /\ k - 1 \in Nat /\ k - 1 <= Len(message.parts) /\ 0 <= k - 1
    BY <1>3, <1>4
  <2>7. L(0) <= L(k - 1)
    BY <1>2, <2>6, ArrayTextPrefix, Zenon
  <2> QED
    BY <2>5, <2>7, Zenon
<1>8. arrived >= L(k) - 2
    BY Zenon DEF Complete, ItemEnds
<1> HIDE DEF L
<1>9. \A n \in 1 .. k : arrived >= L(n) - 2
  <2> TAKE n \in 1 .. k
  <2>1. n \in 0 .. k /\ n \in 0 .. l /\ k \in 0 .. l
    BY <1>4
  <2>2. L(n) <= L(k) /\ L(n) \in Nat /\ L(k) \in Nat
    BY <1>5, <1>6, <2>1, Zenon
  <2> QED
    BY <1>1, <1>8, <2>2
<1>10. arrived >= L(0)
  <2>1. 0 \in 0 .. l /\ k \in 0 .. l /\ k - 1 \in 0 .. l
    BY <1>4
  <2>2. L(0) \in Nat /\ L(k) \in Nat /\ L(k - 1) \in Nat
    BY <1>5, <2>1, Zenon
  <2> QED
    BY <1>1, <1>7, <1>8, <2>2
<1> QED
    BY <1>9, <1>10, Zenon DEF Complete, ItemEnds, L

-----------------------------------------------------------------------------
(* RESP: what parse_simple_string reads                                    *)

\* The string ends behind n characters, at a zero or at its end.
EndsAt(s, n) ==
    /\ n \in 0 .. Len(s) /\ \A k \in 1 .. n : s[k] # ZERO
    /\ n = Len(s) \/ s[n + 1] = ZERO

LEMMA EndExists ==
    ASSUME NEW s, Len(s) \in Nat
    PROVE  \E n : EndsAt(s, n)
<1> DEFINE I == {n \in 0 .. Len(s) : n = Len(s) \/ s[n + 1] = ZERO}
<1>1. I \subseteq Nat /\ Len(s) \in I
    OBVIOUS
<1>2. \A n \in I : n \in 0 .. Len(s) /\ (n = Len(s) \/ s[n + 1] = ZERO)
    OBVIOUS
<1>3. \A n \in 0 .. Len(s) : s[n + 1] = ZERO => n \in I
    OBVIOUS
<1> HIDE DEF I
<1>4. PICK n \in I : \A y \in I : n <= y
    BY <1>1, Smallest
<1>5. ASSUME NEW k \in 1 .. n PROVE s[k] # ZERO
  <2>1. n \in 0 .. Len(s)
    BY <1>2
  <2>2. k - 1 \in 0 .. Len(s) /\ (k - 1) + 1 = k /\ ~(n <= k - 1)
    BY <2>1
  <2> QED
    BY <1>3, <1>4, <2>2
<1> QED
    BY <1>2, <1>5, Zenon DEF EndsAt

LEMMA MakeString ==
    ASSUME NEW S, NEW s \in Seq(S), NEW n, EndsAt(s, n)
    PROVE  make_string(s) = SubSeq(s, 1, n)
<1>1. Len(s) \in Nat
    BY LenProperties
<1>2. /\ n \in Nat /\ n <= Len(s) /\ (\A k \in 1 .. n : s[k] # ZERO)
      /\ n = Len(s) \/ s[n + 1] = ZERO
    BY <1>1 DEF EndsAt
<1> DEFINE I == {q \in 1 .. Len(s) : s[q] = ZERO}
           z == SelectInSeq(s, LAMBDA c : c = ZERO)
<1>3. z = IF I # {} THEN Min(I) ELSE 0
    BY Zenon DEF SelectInSeq
<1>4. make_string(s) = IF z = 0 THEN s ELSE SubSeq(s, 1, z - 1)
    BY Zenon DEF make_string
<1> HIDE DEF z
<1>5. CASE n = Len(s)
  <2>1. I = {}
    BY <1>1, <1>2, <1>5
  <2>2. make_string(s) = s
    BY <1>3, <1>4, <2>1, Zenon
  <2>3. SubSeq(s, 1, Len(s)) = s
    BY SubSeqFull
  <2> QED
    BY <1>5, <2>2, <2>3, Zenon
<1>6. CASE n # Len(s)
  <2>1. n + 1 \in I /\ \A q \in I : q \in Int /\ n + 1 <= q
    BY <1>1, <1>2, <1>6
  <2>2. n + 1 \in Int
    BY <1>2
  <2> HIDE DEF I
  <2>3. Min(I) = n + 1
    BY <2>1, <2>2, MinIs
  <2>4. z = n + 1
    BY <1>3, <2>1, <2>3, Zenon
  <2>5. z # 0 /\ z - 1 = n
    BY <1>2, <2>4
  <2> QED
    BY <1>4, <2>5, Zenon
<1> QED
    BY <1>5, <1>6, Zenon

\* The beginning of a text, place by place.
LEMMA FirstPlaces ==
    ASSUME NEW S, NEW s \in Seq(S), NEW n \in Nat, n <= Len(s)
    PROVE  /\ SubSeq(s, 1, n) \in Seq(S) /\ Len(SubSeq(s, 1, n)) = n
           /\ \A k \in 1 .. n : SubSeq(s, 1, n)[k] = s[k]
<1>1. Len(s) \in Nat
    BY LenProperties
<1>2. \A k \in 1 .. n : s[k] \in S
  <2>1. \A k \in 1 .. n : k \in 1 .. Len(s)
    BY <1>1
  <2> QED
    BY <2>1, ElementOfSeq
<1>3. PICK u : u = SubSeq(s, 1, n)
    BY Zenon
<1>4. /\ u \in Seq(S) /\ Len(u) = IF 1 <= n THEN n - 1 + 1 ELSE 0
      /\ \A k \in 1 .. n - 1 + 1 : u[k] = s[1 + k - 1]
  <2>1. 1 \in Int /\ n \in Int
    OBVIOUS
  <2> QED
    BY <1>2, <1>3, <2>1, SubSeqProperties
<1>5. (IF 1 <= n THEN n - 1 + 1 ELSE 0) = n /\ n - 1 + 1 = n /\ \A k \in 1 .. n : 1 + k - 1 = k
    OBVIOUS
<1>6. Len(u) = n
    BY <1>4, <1>5, Zenon
<1>7. ASSUME NEW k \in 1 .. n PROVE u[k] = s[k]
  <2>1. u[k] = s[1 + k - 1] /\ 1 + k - 1 = k
    BY <1>4, <1>5, Zenon
  <2> QED
    BY <2>1, Zenon
<1> QED
    BY <1>3, <1>4, <1>6, <1>7, Zenon

\* A line that is there in full: mark, string, end of line.
LEMMA LinePlaces ==
    ASSUME Loaded, message.type # "array"
    PROVE  /\ message.parts[1] \in Seq(RespBytes) /\ Len(message.parts[1]) \in Nat
           /\ Len(Wire(message)) = Len(message.parts[1]) + 3
           /\ Byte(1) = Mark[message.type]
           /\ Whole => /\ \A k \in 1 .. Len(message.parts[1]) : memory[1 + k] = message.parts[1][k]
                       /\ memory[Len(message.parts[1]) + 2] = "\r"
                       /\ memory[Len(message.parts[1]) + 3] = "\n"
<1>1. /\ Sent(message) /\ arrived \in Nat /\ arrived >= 1
      /\ Len(memory) \in Nat /\ arrived < Len(memory)
      /\ \A p \in 1 .. arrived : memory[p] = Wire(message)[p]
    BY MemoryFacts, Zenon
<1>2. /\ message.parts \in Seq(Seq(RespBytes)) /\ Len(message.parts) = 1
      /\ message.type \in {"simple", "error", "integer", "bulk"}
    BY <1>1, Zenon DEF Sent
<1>3. PICK s : s = message.parts[1]
    BY Zenon
<1>4. s \in Seq(RespBytes)
  <2>1. 1 \in 1 .. Len(message.parts)
    BY <1>2
  <2> QED
    BY <1>2, <1>3, <2>1, ElementOfSeq, Zenon
<1>5. PICK l : l = Len(s)
    BY Zenon
<1>6. l \in Nat
    BY <1>4, <1>5, LenProperties
<1>7. PICK c : c = Mark[message.type]
    BY Zenon
<1>8. c \in RespBytes
  <2>1. c \in {"+", "-", ":", "$"}
    BY <1>2, <1>7 DEF Mark
  <2> QED
    BY <2>1, RespByteSet, Zenon
<1>9. PICK e : e = CRLF
    BY Zenon
<1>10. e \in Seq(RespBytes) /\ Len(e) = 2 /\ e[1] = "\r" /\ e[2] = "\n"
    BY <1>9, LineEndText, Zenon
<1>11. PICK r : r = <<c>> \o s \o e
    BY Zenon
<1>12. /\ Len(r) = l + 3 /\ r[1] = c /\ (\A k \in 1 .. l : r[1 + k] = s[k])
       /\ r[l + 2] = "\r" /\ r[l + 3] = "\n"
  <2>1. /\ Len(<<c>> \o s \o e) = Len(s) + 3
        /\ (<<c>> \o s \o e)[1] = c
        /\ \A k \in 1 .. Len(s) : (<<c>> \o s \o e)[1 + k] = s[k]
        /\ (<<c>> \o s \o e)[Len(s) + 2] = e[1]
        /\ (<<c>> \o s \o e)[Len(s) + 3] = e[2]
    <3>1. e \in Seq(RespBytes) /\ Len(e) = 2
      BY <1>10, Zenon
    <3> QED
      BY <1>4, <1>8, <3>1, MarkedText
  <2> QED
    BY <1>5, <1>10, <1>11, <2>1, Zenon
<1>13. r = Wire(message)
    BY <1>3, <1>7, <1>9, <1>11, Zenon DEF Wire
<1>14. Byte(1) = c
  <2>1. 1 \in 1 .. arrived /\ 1 <= Len(memory)
    BY <1>1
  <2> QED
    BY <1>1, <1>12, <1>13, <2>1, Zenon DEF Byte
<1>15. ASSUME Whole
       PROVE  /\ \A k \in 1 .. l : memory[1 + k] = s[k]
              /\ memory[l + 2] = "\r" /\ memory[l + 3] = "\n"
  <2>1. arrived = l + 3
    BY <1>12, <1>13, <1>15, Zenon DEF Whole
  <2>2. \A p \in 1 .. l + 3 : memory[p] = r[p]
    BY <1>1, <1>13, <2>1, Zenon
  <2>3. l + 2 \in 1 .. l + 3 /\ l + 3 \in 1 .. l + 3 /\ \A k \in 1 .. l : 1 + k \in 1 .. l + 3
    BY <1>6
  <2> QED
    BY <1>12, <2>2, <2>3, Zenon
<1> QED
    BY <1>3, <1>4, <1>5, <1>6, <1>7, <1>12, <1>13, <1>14, <1>15, Zenon

\* A line that is there in full is read up to its end or the first zero.
LEMMA WordRead ==
    ASSUME Loaded, message.type # "array", Whole, NEW n, EndsAt(message.parts[1], n)
    PROVE  Word = SubSeq(message.parts[1], 1, n)
<1>1. PICK s : s = message.parts[1]
    BY Zenon
<1>2. PICK l : l = Len(s)
    BY Zenon
<1>3. /\ s \in Seq(RespBytes) /\ l \in Nat /\ Len(Wire(message)) = l + 3
      /\ \A k \in 1 .. l : memory[1 + k] = s[k]
      /\ memory[l + 2] = "\r" /\ memory[l + 3] = "\n"
    BY <1>1, <1>2, LinePlaces, Zenon
<1>4. /\ Sent(message) /\ Len(memory) \in Nat /\ arrived < Len(memory) /\ arrived = l + 3
      /\ memory \in Seq(RespBytes)
    BY <1>3, MemoryFacts, Zenon DEF Whole
<1>5. \A k \in 1 .. l - 1 : ~(s[k] = "\r" /\ s[k + 1] = "\n")
    BY <1>1, <1>2, <1>4, Zenon DEF Sent
<1>6. /\ n \in Nat /\ n <= l /\ (\A k \in 1 .. n : s[k] # ZERO)
      /\ n = l \/ s[n + 1] = ZERO
    <2>1. /\ n \in 0 .. l /\ (\A k \in 1 .. n : s[k] # ZERO)
          /\ n = l \/ s[n + 1] = ZERO
      BY <1>1, <1>2, Zenon DEF EndsAt
    <2> QED
      BY <1>3, <2>1
<1>7. \A q \in 1 .. l + 3 : Byte(q) = memory[q]
  <2>1. \A q \in 1 .. l + 3 : q <= Len(memory)
    BY <1>3, <1>4
  <2> QED
    BY <2>1, Zenon DEF Byte
<1> DEFINE I == {q \in 2 .. Len(memory) : Stops(q)}
<1>8. n + 2 \in I
  <2>1. n + 2 \in 2 .. Len(memory) /\ n + 2 \in 1 .. l + 3 /\ (n + 2) + 1 \in 1 .. l + 3
    BY <1>3, <1>4, <1>6
  <2>2. CASE n = l
    <3>1. (n + 2) + 1 = l + 3 /\ n + 2 = l + 2
      BY <1>3, <2>2
    <3>2. Byte(n + 2) = "\r" /\ Byte((n + 2) + 1) = "\n"
      BY <1>3, <1>7, <2>1, <3>1, Zenon
    <3> QED
      BY <2>1, <3>2, Zenon DEF Stops
  <2>3. CASE n # l
    <3>1. n + 1 \in 1 .. l /\ 1 + (n + 1) = n + 2
      BY <1>3, <1>6, <2>3
    <3>2. Byte(n + 2) = ZERO
      BY <1>3, <1>6, <1>7, <2>1, <2>3, <3>1, Zenon
    <3> QED
      BY <2>1, <3>2, Zenon DEF Stops
  <2> QED
    BY <2>2, <2>3, Zenon
<1>9. ASSUME NEW q \in I, ~(n + 2 <= q) PROVE FALSE
  <2>1. q \in 2 .. Len(memory) /\ Stops(q)
    OBVIOUS
  <2> HIDE DEF I
  <2>2. q \in Nat /\ q >= 2 /\ q <= n + 1
    BY <1>4, <1>6, <1>9, <2>1
  <2>3. PICK k : k = q - 1
    BY Zenon
  <2>4. k \in 1 .. n /\ k \in 1 .. l /\ q = 1 + k /\ q \in 1 .. l + 3 /\ q + 1 \in 1 .. l + 3
    BY <1>3, <1>6, <2>2, <2>3, SMTT(30)
  <2>5. Byte(q) = s[k] /\ s[k] # ZERO /\ Byte(q + 1) = memory[q + 1]
    BY <1>3, <1>6, <1>7, <2>4, Zenon
  <2>6. s[k] = "\r" /\ memory[q + 1] = "\n"
    BY <2>1, <2>5, Zenon DEF Stops
  <2>7. CASE k < l
    <3>1. k \in 1 .. l - 1 /\ k + 1 \in 1 .. l /\ 1 + (k + 1) = q + 1
      BY <1>3, <2>4, <2>7
    <3>2. memory[q + 1] = s[k + 1]
      BY <1>3, <3>1, Zenon
    <3> QED
      BY <1>5, <2>6, <3>1, <3>2, Zenon
  <2>8. CASE ~(k < l)
    <3>1. q + 1 = l + 2
      BY <1>3, <2>4, <2>8
    <3>2. memory[q + 1] = "\r"
      BY <1>3, <3>1, Zenon
    <3> QED
      BY <2>6, <3>2
  <2> QED
    BY <2>7, <2>8, Zenon
<1>10. Min(I) = n + 2
  <2>1. \A q \in I : q \in Int
    BY <1>4
  <2>2. n + 2 \in Int
    BY <1>6
  <2> HIDE DEF I
  <2>3. \A q \in I : q \in Int /\ n + 2 <= q
    BY <1>9, <2>1, Zenon
  <2> QED
    BY <1>8, <2>2, <2>3, MinIs
<1>11. Word = SubSeq(memory, 2, n + 1)
  <2>1. Word = SubSeq(memory, 2, Min(I) - 1)
    BY Zenon DEF Word
  <2>2. (n + 2) - 1 = n + 1
    BY <1>6
  <2> QED
    BY <1>10, <2>1, <2>2, Zenon
<1>12. PICK w : w = SubSeq(memory, 2, n + 1)
    BY Zenon
<1>13. w \in Seq(RespBytes) /\ Len(w) = n /\ \A k \in 1 .. n : w[k] = s[k]
  <2>1. \A k \in 2 .. n + 1 : memory[k] \in RespBytes
    <3>1. \A k \in 2 .. n + 1 : k \in 1 .. Len(memory)
      BY <1>3, <1>4, <1>6
    <3> QED
      BY <1>4, <3>1, ElementOfSeq
  <2>2. /\ w \in Seq(RespBytes) /\ Len(w) = IF 2 <= n + 1 THEN (n + 1) - 2 + 1 ELSE 0
        /\ \A k \in 1 .. (n + 1) - 2 + 1 : w[k] = memory[2 + k - 1]
    <3>1. 2 \in Int /\ n + 1 \in Int
      BY <1>6
    <3> QED
      BY <1>12, <2>1, <3>1, SubSeqProperties
  <2>3. /\ (IF 2 <= n + 1 THEN (n + 1) - 2 + 1 ELSE 0) = n /\ (n + 1) - 2 + 1 = n
        /\ \A k \in 1 .. n : 2 + k - 1 = 1 + k /\ k \in 1 .. l
    BY <1>3, <1>6
  <2>4. Len(w) = n
    BY <2>2, <2>3, Zenon
  <2>5. ASSUME NEW k \in 1 .. n PROVE w[k] = s[k]
    <3>1. w[k] = memory[2 + k - 1] /\ 2 + k - 1 = 1 + k /\ k \in 1 .. l
      BY <2>2, <2>3, Zenon
    <3> QED
      BY <1>3, <3>1, Zenon
  <2> QED
    BY <2>2, <2>4, <2>5, Zenon
<1>14. PICK u : u = SubSeq(s, 1, n)
    BY Zenon
<1>15. u \in Seq(RespBytes) /\ Len(u) = n /\ \A k \in 1 .. n : u[k] = s[k]
  <2>1. n <= Len(s)
    BY <1>2, <1>6, Zenon
  <2> QED
    BY <1>3, <1>6, <1>14, <2>1, FirstPlaces, Zenon
<1>16. w = u
  <2>1. Len(w) = Len(u)
    BY <1>13, <1>15, Zenon
  <2>2. \A k \in 1 .. Len(w) : w[k] = u[k]
    BY <1>13, <1>15, Zenon
  <2> QED
    BY <1>13, <1>15, <2>1, <2>2, SeqEqual
<1> QED
    BY <1>1, <1>11, <1>12, <1>14, <1>16, Zenon

\* So make_string makes of it what it makes of the string that was sent.
LEMMA WordString ==
    ASSUME Loaded, message.type # "array", Whole
    PROVE  make_string(Word) = make_string(message.parts[1])
<1>1. PICK s : s = message.parts[1]
    BY Zenon
<1>2. s \in Seq(RespBytes) /\ Len(s) \in Nat
    BY <1>1, LinePlaces, Zenon
<1>3. PICK n : EndsAt(s, n)
    BY <1>2, EndExists
<1>4. PICK w : w = SubSeq(s, 1, n)
    BY Zenon
<1>5. Word = w
    BY <1>1, <1>3, <1>4, WordRead, Zenon
<1>6. make_string(s) = w
    BY <1>2, <1>3, <1>4, MakeString, Zenon
<1>7. n \in Nat /\ n <= Len(s) /\ \A k \in 1 .. n : s[k] # ZERO
    BY <1>2, <1>3 DEF EndsAt
<1>8. w \in Seq(RespBytes) /\ Len(w) = n /\ \A k \in 1 .. n : w[k] = s[k]
    BY <1>2, <1>4, <1>7, FirstPlaces, Zenon
<1>9. EndsAt(w, n)
  <2>1. n \in 0 .. n
    BY <1>7
  <2> QED
    BY <1>7, <1>8, <2>1, Zenon DEF EndsAt
<1>10. make_string(w) = SubSeq(w, 1, n)
    BY <1>8, <1>9, MakeString, Zenon
<1>11. SubSeq(w, 1, Len(w)) = w
    BY <1>8, SubSeqFull, Zenon
<1> QED
    BY <1>1, <1>5, <1>6, <1>8, <1>10, <1>11, Zenon

\* A number has no zero byte in its text.
LEMMA SignedChars ==
    ASSUME NEW n \in Int, NEW k \in 1 .. Len(Signed(n))
    PROVE  Signed(n)[k] # ZERO
<1>1. CASE n >= 0
  <2>1. PICK t : t = Numeral[n]
    BY Zenon
  <2>2. t = Signed(n) /\ n \in Nat
    BY <1>1, <2>1 DEF Signed
  <2>3. t \in Seq(Range(Figures)) /\ k \in 1 .. Len(t)
    BY <2>1, <2>2, NumeralDigits, Zenon
  <2>4. t[k] \in Range(Figures)
    BY <2>3, ElementOfSeq
  <2> QED
    BY <2>2, <2>4, FigureChars, Zenon
<1>2. CASE n < 0
  <2>1. PICK w : w = 0 - n
    BY Zenon
  <2>2. w \in Nat
    BY <1>2, <2>1
  <2>3. PICK t : t = Numeral[w]
    BY Zenon
  <2>4. PICK F : F = Range(Figures)
    BY Zenon
  <2>5. t \in Seq(F)
    BY <2>2, <2>3, <2>4, NumeralDigits, Zenon
  <2>6. PICK c : c = "-"
    BY Zenon
  <2>7. PICK S : S = F \cup {c}
    BY Zenon
  <2>8. t \in Seq(S) /\ c \in S
    BY <2>5, <2>7
  <2>9. PICK h : h = <<c>>
    BY Zenon
  <2>10. h \in Seq(S)
    BY <2>8, <2>9
  <2>11. PICK u : u = h \o t
    BY Zenon
  <2>12. u \in Seq(S)
    BY <2>8, <2>10, <2>11, Joins
  <2>13. u = Signed(n)
    BY <1>2, <2>1, <2>3, <2>6, <2>9, <2>11, Zenon DEF Signed
  <2>14. u[k] \in S
    <3>1. k \in 1 .. Len(u)
      BY <2>13, Zenon
    <3> QED
      BY <2>12, <3>1, ElementOfSeq
  <2>15. \A x \in S : x # ZERO
    <3>1. c # ZERO
      BY <2>6 DEF ZERO
    <3> QED
      BY <2>4, <2>7, <3>1, FigureChars, Zenon
  <2> QED
    BY <2>13, <2>14, <2>15, Zenon
<1> QED
    BY <1>1, <1>2

\* An integer is read as the number that was sent.
LEMMA IntegerRead ==
    ASSUME Loaded, message.type = "integer", Whole
    PROVE  strtol(Word, 1).n = message.count
<1>1. PICK s : s = message.parts[1]
    BY Zenon
<1>2. message.type # "array"
    OBVIOUS
<1>3. s \in Seq(RespBytes) /\ Len(s) \in Nat
    BY <1>1, <1>2, LinePlaces, Zenon
<1>4. s = Signed(message.count) /\ message.count \in Int
    BY <1>1, MemoryFacts, Zenon DEF Sent
<1>5. EndsAt(s, Len(s))
  <2>1. Len(s) \in 0 .. Len(s)
    BY <1>3
  <2>2. \A k \in 1 .. Len(s) : s[k] # ZERO
    BY <1>4, SignedChars, Zenon
  <2> QED
    BY <2>1, <2>2, Zenon DEF EndsAt
<1>6. Word = SubSeq(s, 1, Len(s))
    BY <1>1, <1>2, <1>5, WordRead, Zenon
<1>7. Word = s
    BY <1>3, <1>6, SubSeqFull, Zenon
<1>8. Stands(Signed(message.count), s, 1)
  <2>1. 1 + Len(s) - 1 <= Len(s) /\ \A k \in 1 .. Len(s) : 1 + k - 1 = k
    BY <1>3
  <2>2. \A k \in 1 .. Len(s) : s[1 + k - 1] = s[k]
    BY <2>1, Zenon
  <2> QED
    BY <1>4, <2>1, <2>2, Zenon DEF Stands
<1>9. PICK e : e = 1 + Len(Signed(message.count))
    BY Zenon
<1>10. e = Len(s) + 1
    BY <1>3, <1>4, <1>9
<1>11. strtol(s, 1).n = message.count
  <2>1. 1 \in Nat /\ 1 > 0
    OBVIOUS
  <2> QED
    BY <1>3, <1>4, <1>8, <1>9, <1>10, <2>1, strtolReads
<1> QED
    BY <1>7, <1>11, Zenon

-----------------------------------------------------------------------------
(* RESP: the inductive invariant                                           *)

\* An array so far: the items of the parts that are there in full are right,
\* and the next of them is where parse_array reads on.
ArrayInv ==
    /\ resp \in {"array", "parsed", "undefined"}
    /\ value = [type |-> "array", count |-> value.count, items |-> value.items]
    /\ value.items \in Seq(Range(value.items))
    /\ Whole => /\ value.count = message.count /\ Turn <= Len(message.parts)
                /\ resp # "undefined"
    /\ \A k \in 1 .. Len(message.parts) : Complete(k) =>
          /\ value.count = message.count
          /\ k <= Turn => value.items[k] = make_string(message.parts[k])
          /\ resp = "array" /\ k = Turn + 1 => at = TextBefore(k) + 1
          /\ resp # "array" => k <= Turn

\* A line that was there in full.
WordInv ==
    /\ message.type = "bulk" => resp = "exit"
    /\ message.type # "bulk" =>
          /\ resp = "parsed" /\ value.type = message.type
          /\ message.type = "integer" => value.items = <<message.count>>
          /\ message.type # "integer" => value.items = <<make_string(message.parts[1])>>

RespInv ==
    /\ Loaded
    /\ resp \in {"parse", "array", "parsed", "exit", "undefined"}
    /\ resp # "parse" /\ message.type = "array" => ArrayInv
    /\ resp # "parse" /\ message.type # "array" =>
          resp \in {"parsed", "exit"} /\ (Whole => WordInv)

LEMMA RespStarts == RespInit => RespInv
<1> SUFFICES ASSUME RespInit PROVE RespInv
    OBVIOUS
<1>1. Loaded
    BY Zenon DEF RespInit, Loaded
<1>2. resp = "parse"
    BY Zenon DEF RespInit
<1> QED
    BY <1>1, <1>2, Zenon DEF RespInv

\* Of an array that arrived whole every part is there in full.
LEMMA AllComplete ==
    ASSUME Loaded, message.type = "array", Whole
    PROVE  /\ arrived >= Len(ArrayText(message)[0])
           /\ \A k \in 1 .. Len(message.parts) : Complete(k)
<1>1. Sent(message) /\ arrived \in Nat
    BY MemoryFacts
<1>2. message.parts \in Seq(Seq(RespBytes)) /\ message.count \in Int
    BY <1>1, Zenon DEF Sent
<1>3. PICK l : l = Len(message.parts)
    BY Zenon
<1>4. l \in Nat
    BY <1>2, <1>3, LenProperties
<1> DEFINE L(n) == Len(ArrayText(message)[n])
<1>5. arrived = L(l)
    BY <1>3, Zenon DEF Whole, Wire
<1>6. \A n \in 0 .. l : L(n) \in Nat
    BY <1>2, <1>3, ArrayTextTypes, Zenon
<1>7. \A n \in 0 .. l : L(n) <= L(l)
  <2> TAKE n \in 0 .. l
  <2>1. n \in Nat /\ l \in Nat /\ l <= Len(message.parts) /\ n <= l
    BY <1>3, <1>4
  <2> QED
    BY <1>2, <2>1, ArrayTextPrefix, Zenon
<1> HIDE DEF L
<1>8. \A n \in 0 .. l : arrived >= L(n) /\ arrived >= L(n) - 2
  <2> TAKE n \in 0 .. l
  <2>1. L(n) <= arrived /\ L(n) \in Nat
    BY <1>5, <1>6, <1>7, Zenon
  <2> QED
    BY <1>1, <2>1
<1>9. 0 \in 0 .. l /\ \A k \in 1 .. l : k \in 0 .. l
    BY <1>4
<1> QED
    BY <1>3, <1>8, <1>9, Zenon DEF Complete, ItemEnds, L

\* The loop is at a part that is there in full: it takes that part and stops
\* at the next one.
LEMMA TurnReads ==
    ASSUME RespInv, resp = "array", message.type = "array",
           NEW k \in 1 .. Len(message.parts), Complete(k), k = Turn + 1
    PROVE  /\ Byte(at) = "$" /\ strtol(memory, at + 1).n = Len(message.parts[k])
           /\ ~(strtol(memory, at + 1).n < 0)
           /\ get_word(strtol(memory, at + 1).end + 2, strtol(memory, at + 1).n) = message.parts[k]
           /\ AfterWord(strtol(memory, at + 1).end, strtol(memory, at + 1).n) = TextBefore(k + 1) + 1
<1>1. Loaded /\ ArrayInv
    BY Zenon DEF RespInv
<1>2. at = TextBefore(k) + 1
    BY <1>1, Zenon DEF ArrayInv
<1>3. Sent(message)
    BY <1>1, MemoryFacts
<1>4. PICK v : v = TextBefore(k)
    BY Zenon
<1>5. PICK z : z = Len(message.parts[k])
    BY Zenon
<1>6. v \in Nat /\ z \in Nat
  <2>1. PartStands(message, k, Len(message.parts[k]), Len(Numeral[Len(message.parts[k])]),
                   Len(ArrayText(message)[k - 1]))
    BY <1>3, ItemPlaces, Zenon
  <2> QED
    BY <1>4, <1>5, <2>1, Zenon DEF PartStands, TextBefore
<1>7. at + 1 = v + 2 /\ (k + 1) - 1 = k
    BY <1>2, <1>4, <1>6
<1>8. PICK y : y = strtol(memory, v + 2)
    BY Zenon
<1>9. /\ Byte(v + 1) = "$" /\ y.n = z /\ get_word(y.end + 2, z) = message.parts[k]
      /\ AfterWord(y.end, z) = Len(ArrayText(message)[k]) + 1
    BY <1>1, <1>4, <1>5, <1>8, ItemRead, Zenon
<1>10. TextBefore(k + 1) = Len(ArrayText(message)[k])
    BY <1>7, Zenon DEF TextBefore
<1>11. ~(z < 0)
    BY <1>6
<1> QED
    BY <1>2, <1>4, <1>5, <1>7, <1>8, <1>9, <1>10, <1>11, Zenon

\* parse: the header of an array gives its count and the place of its first
\* part; a line gives its string.
LEMMA ParseKeeps ==
    ASSUME RespInv, parse
    PROVE  RespInv'
<1>1. /\ Loaded /\ resp = "parse"
      /\ message' = message /\ arrived' = arrived /\ memory' = memory
    BY Zenon DEF RespInv, parse
<1>2. Loaded' /\ Whole' = Whole
    BY <1>1, Zenon DEF Loaded, Whole
<1>3. CASE message.type = "array"
  <2>1. Sent(message) /\ arrived \in Nat /\ arrived >= 1
    BY <1>1, MemoryFacts
  <2>2. Byte(1) = "*"
    <3>1. Wire(message)[1] = "*"
      BY <1>3, <2>1, HeaderFirst, Zenon
    <3>2. 1 \in Nat /\ 1 >= 1 /\ 1 <= arrived
      BY <2>1
    <3> QED
      BY <1>1, <3>1, <3>2, ByteRead, Zenon
  <2>3. PICK n : n = strtol(memory, 2).n
    BY Zenon
  <2>4. /\ resp' = "array" /\ at' = strtol(memory, 2).end + 2
        /\ value' = [NoValue EXCEPT !.type = "array", !.count = n]
    <3>1. Byte(1) # "+" /\ Byte(1) # "-" /\ Byte(1) # ":" /\ Byte(1) \in {"+", "-", ":", "*"}
      BY <2>2
    <3> QED
      BY <2>3, <3>1, Zenon DEF parse
  <2>5. value' = [type |-> "array", count |-> n, items |-> <<>>]
    BY <2>4 DEF NoValue
  <2>6. /\ value'.count = n /\ value'.items = <<>>
        /\ value' = [type |-> "array", count |-> value'.count, items |-> value'.items]
    BY <2>5
  <2>7. value'.items \in Seq(Range(value'.items)) /\ Turn' = 0
    BY <2>6 DEF Turn
  <2>8. arrived >= Len(ArrayText(message)[0]) => n = message.count /\ at' = Len(ArrayText(message)[0]) + 1
    BY <1>1, <1>3, <2>3, <2>4, HeaderRead, Zenon
  <2>9. Whole => n = message.count
    BY <1>1, <1>3, <2>8, AllComplete, Zenon
  <2>10. Len(message.parts) \in Nat
    BY <2>1, LenProperties DEF Sent
  <2>11. Turn' <= Len(message.parts)
    BY <2>7, <2>10
  <2>12. ASSUME NEW k \in 1 .. Len(message.parts), Complete(k)
         PROVE  n = message.count /\ ~(k <= Turn') /\ (k = Turn' + 1 => at' = TextBefore(k) + 1)
    <3>1. n = message.count /\ at' = Len(ArrayText(message)[0]) + 1
      BY <1>1, <1>3, <2>8, <2>12, CompleteBefore, Zenon
    <3>2. ~(k <= Turn') /\ (k = Turn' + 1 => k - 1 = 0)
      BY <2>7
    <3> QED
      BY <3>1, <3>2, Zenon DEF TextBefore
  <2>13. ArrayInv'
    BY <1>1, <1>2, <2>4, <2>6, <2>7, <2>9, <2>11, <2>12, Zenon
      DEF ArrayInv, Complete, ItemEnds, TextBefore
  <2> QED
    BY <1>1, <1>2, <1>3, <2>4, <2>13, Zenon DEF RespInv
<1>4. CASE message.type # "array"
  <2>1. message.type \in {"simple", "error", "integer", "bulk"}
    <3>1. Sent(message)
      BY <1>1, MemoryFacts
    <3> QED
      BY <1>4, <3>1, Zenon DEF Sent
  <2>2. Byte(1) = Mark[message.type]
    BY <1>1, <1>4, LinePlaces, Zenon
  <2>3. CASE message.type = "bulk"
    <3>1. Byte(1) \notin {"+", "-", ":", "*"} /\ Byte(1) # "+" /\ Byte(1) # "-" /\ Byte(1) # ":" /\ Byte(1) # "*"
      BY <2>2, <2>3 DEF Mark
    <3>2. resp' = "exit"
      BY <3>1, Zenon DEF parse
    <3> QED
      BY <1>1, <1>2, <1>4, <2>3, <3>2, Zenon DEF RespInv, WordInv
  <2>4. CASE message.type = "integer"
    <3>1. Byte(1) \in {"+", "-", ":", "*"} /\ Byte(1) # "+" /\ Byte(1) # "-" /\ Byte(1) # "*"
      BY <2>2, <2>4 DEF Mark
    <3>2. ParsedAs("integer", <<strtol(Word, 1).n>>)
      BY <3>1, Zenon DEF parse
    <3>3. PICK n : n = strtol(Word, 1).n
      BY Zenon
    <3>4. resp' = "parsed" /\ value' = [type |-> "integer", count |-> 0, items |-> <<n>>]
      BY <3>2, <3>3, Zenon DEF ParsedAs
    <3>5. value'.type = "integer" /\ value'.items = <<n>>
      BY <3>4
    <3>6. Whole => n = message.count
      BY <1>1, <2>4, <3>3, IntegerRead, Zenon
    <3>7. message.type # "bulk"
      BY <2>4
    <3>8. Whole => WordInv'
      BY <1>1, <2>4, <3>4, <3>5, <3>6, <3>7, Zenon DEF WordInv
    <3> QED
      BY <1>1, <1>2, <1>4, <3>4, <3>8, Zenon DEF RespInv
  <2>5. CASE message.type \in {"simple", "error"}
    <3>1. /\ Byte(1) \in {"+", "-", ":", "*"} /\ Byte(1) # ":" /\ Byte(1) # "*"
          /\ Byte(1) = "+" => message.type = "simple"
          /\ Byte(1) = "-" => message.type = "error"
      BY <2>2, <2>5 DEF Mark
    <3>2. PICK w : w = make_string(Word)
      BY Zenon
    <3>3. resp' = "parsed" /\ value' = [type |-> message.type, count |-> 0, items |-> <<w>>]
      BY <3>1, <3>2, Zenon DEF parse, ParsedAs
    <3>4. value'.type = message.type /\ value'.items = <<w>>
      BY <3>3
    <3>5. Whole => w = make_string(message.parts[1])
      BY <1>1, <1>4, <3>2, WordString, Zenon
    <3>6. message.type # "bulk" /\ message.type # "integer"
      BY <2>5
    <3>7. Whole => WordInv'
      BY <1>1, <3>3, <3>4, <3>5, <3>6, Zenon DEF WordInv
    <3> QED
      BY <1>1, <1>2, <1>4, <3>3, <3>7, Zenon DEF RespInv
  <2> QED
    BY <2>1, <2>3, <2>4, <2>5, Zenon
<1> QED
    BY <1>3, <1>4, Zenon

LEMMA OwnRange ==
    ASSUME NEW S, NEW s \in Seq(S)
    PROVE  s \in Seq(Range(s))
<1>1. Len(s) \in Nat /\ DOMAIN s = 1 .. Len(s) /\ s = [k \in 1 .. Len(s) |-> s[k]]
    BY LenProperties
<1>2. \A k \in 1 .. Len(s) : s[k] \in Range(s)
    BY <1>1, Zenon DEF Range
<1> QED
    BY <1>1, <1>2

\* While the loop runs: the next part is read only after those before it, and
\* of an array that arrived whole there is one for every turn.
LEMMA TurnFacts ==
    ASSUME RespInv, resp = "array"
    PROVE  /\ Loaded /\ message.type = "array" /\ ArrayInv /\ Turn \in Nat
           /\ Len(message.parts) \in Nat /\ value.items \in Seq(Range(value.items))
           /\ \A k \in 1 .. Len(message.parts) : Complete(k) /\ ~(k <= Turn) =>
                 Turn + 1 \in 1 .. Len(message.parts) /\ Complete(Turn + 1)
           /\ Whole /\ Turn < value.count =>
                 Turn + 1 \in 1 .. Len(message.parts) /\ Complete(Turn + 1)
<1>1. Loaded /\ message.type = "array" /\ ArrayInv
  <2>1. resp # "parse" /\ resp \notin {"parsed", "exit"}
    OBVIOUS
  <2> QED
    BY <2>1, Zenon DEF RespInv
<1>2. Sent(message)
    BY <1>1, MemoryFacts
<1>3. Len(message.parts) \in Nat /\ message.count \in Int
    BY <1>2, LenProperties DEF Sent
<1>4. value.items \in Seq(Range(value.items))
    BY <1>1, Zenon DEF ArrayInv
<1>5. Turn \in Nat
    BY <1>4, LenProperties DEF Turn
<1>6. ASSUME NEW k \in 1 .. Len(message.parts), Complete(k), ~(k <= Turn)
      PROVE  Turn + 1 \in 1 .. Len(message.parts) /\ Complete(Turn + 1)
  <2>1. Turn + 1 \in 1 .. Len(message.parts) /\ Turn + 1 \in 1 .. k
    BY <1>3, <1>5, <1>6
  <2> QED
    BY <1>1, <1>6, <2>1, CompleteBefore, Zenon
<1>7. ASSUME Whole, Turn < value.count
      PROVE  Turn + 1 \in 1 .. Len(message.parts) /\ Complete(Turn + 1)
  <2>1. Turn < message.count
    BY <1>1, <1>7, Zenon DEF ArrayInv
  <2>2. message.count = Len(message.parts) \/ message.count = -1
    BY <1>1, <1>2, Zenon DEF Sent
  <2>3. Turn + 1 \in 1 .. Len(message.parts)
    BY <1>3, <1>5, <2>1, <2>2
  <2> QED
    BY <1>1, <1>7, <2>3, AllComplete, Zenon
<1> QED
    BY <1>1, <1>3, <1>4, <1>5, <1>6, <1>7, Zenon

\* A turn of the loop.
LEMMA ItemKeeps ==
    ASSUME RespInv, ArrayItem
    PROVE  RespInv'
<1>1. /\ resp = "array" /\ Turn < value.count
      /\ message' = message /\ arrived' = arrived /\ memory' = memory
    BY Zenon DEF ArrayItem
<1>2. /\ Loaded /\ message.type = "array" /\ ArrayInv /\ Turn \in Nat
      /\ Len(message.parts) \in Nat /\ value.items \in Seq(Range(value.items))
      /\ \A k \in 1 .. Len(message.parts) : Complete(k) /\ ~(k <= Turn) =>
            Turn + 1 \in 1 .. Len(message.parts) /\ Complete(Turn + 1)
      /\ Whole => Turn + 1 \in 1 .. Len(message.parts) /\ Complete(Turn + 1)
    BY <1>1, TurnFacts, Zenon
<1>3. Loaded' /\ Whole' = Whole
    BY <1>1, <1>2, Zenon DEF Loaded, Whole
<1>4. PICK sz : sz = strtol(memory, at + 1)
    BY Zenon
<1>5. PICK y : y = make_string(get_word(sz.end + 2, sz.n))
    BY Zenon
<1>6. ASSUME Turn + 1 \in 1 .. Len(message.parts), Complete(Turn + 1)
      PROVE  /\ ~(sz.n < 0) /\ y = make_string(message.parts[Turn + 1])
             /\ AfterWord(sz.end, sz.n) = TextBefore((Turn + 1) + 1) + 1
    BY <1>1, <1>2, <1>4, <1>5, <1>6, TurnReads, Zenon
<1>7. CASE sz.n < 0
  <2>1. resp' = "undefined" /\ at' = at /\ value' = value
    BY <1>4, <1>7, Zenon DEF ArrayItem
  <2>2. ~Whole /\ \A k \in 1 .. Len(message.parts) : Complete(k) => k <= Turn
    BY <1>2, <1>6, <1>7, Zenon
  <2>3. resp' # "array" /\ resp' # "parse"
    BY <2>1
  <2>4. ArrayInv'
    BY <1>1, <1>2, <1>3, <2>1, <2>2, <2>3, Zenon
      DEF ArrayInv, Complete, ItemEnds, TextBefore, Turn
  <2> QED
    BY <1>1, <1>2, <1>3, <2>1, <2>3, <2>4, Zenon DEF RespInv
<1>8. CASE ~(sz.n < 0)
  <2>1. PICK its, cnt : its = value.items /\ cnt = value.count
    BY Zenon
  <2>2. /\ resp' = "array" /\ at' = AfterWord(sz.end, sz.n)
        /\ value' = [value EXCEPT !.items = Append(@, y)]
    BY <1>1, <1>4, <1>5, <1>8, Zenon DEF ArrayItem
  <2>3. value = [type |-> "array", count |-> cnt, items |-> its]
    BY <1>2, <2>1, Zenon DEF ArrayInv
  <2>4. PICK new : new = Append(its, y)
    BY Zenon
  <2>5. value' = [type |-> "array", count |-> cnt, items |-> new]
    BY <2>2, <2>3, <2>4
  <2>6. /\ value'.count = cnt /\ value'.items = new
        /\ value' = [type |-> "array", count |-> value'.count, items |-> value'.items]
    BY <2>5
  <2>7. PICK S : S = Range(its) \cup {y}
    BY Zenon
  <2>8. its \in Seq(S) /\ y \in S
    <3>1. its \in Seq(Range(its))
      BY <1>2, <2>1, Zenon
    <3> QED
      BY <2>7, <3>1
  <2>9. /\ new \in Seq(S) /\ Len(new) = Len(its) + 1 /\ Len(its) \in Nat
        /\ (\A p \in 1 .. Len(its) : new[p] = its[p]) /\ new[Len(its) + 1] = y
    BY <2>4, <2>8, AppendProperties, LenProperties
  <2>10. value'.items \in Seq(Range(value'.items))
    BY <2>6, <2>9, OwnRange, Zenon
  <2>11. Turn = Len(its) /\ Turn' = Turn + 1
    BY <2>1, <2>6, <2>9, Zenon DEF Turn
  <2>12. Whole => cnt = message.count /\ Turn' <= Len(message.parts)
    <3>1. Whole => cnt = message.count
      BY <1>2, <2>1, Zenon DEF ArrayInv
    <3>2. Whole => Turn + 1 \in 1 .. Len(message.parts)
      BY <1>2, Zenon
    <3>3. Whole => Turn' <= Len(message.parts)
      BY <1>2, <2>11, <3>2
    <3> QED
      BY <3>1, <3>3, Zenon
  <2>13. ASSUME NEW k \in 1 .. Len(message.parts), Complete(k)
         PROVE  /\ cnt = message.count
                /\ k <= Turn' => new[k] = make_string(message.parts[k])
                /\ k = Turn' + 1 => at' = TextBefore(k) + 1
    <3>1. cnt = message.count /\ (k <= Turn => its[k] = make_string(message.parts[k]))
      BY <1>2, <2>1, <2>13, Zenon DEF ArrayInv
    <3>2. CASE k <= Turn
      <4>1. k \in 1 .. Len(its) /\ ~(k = Turn' + 1)
        BY <1>2, <2>11, <3>2
      <4> QED
        BY <2>9, <3>1, <3>2, <4>1, Zenon
    <3>3. CASE ~(k <= Turn)
      <4>1. /\ y = make_string(message.parts[Turn + 1])
            /\ AfterWord(sz.end, sz.n) = TextBefore((Turn + 1) + 1) + 1
        BY <1>2, <1>6, <2>13, <3>3, Zenon
      <4>2. k <= Turn' => k = Turn + 1
        BY <1>2, <2>11, <3>3
      <4> QED
        BY <2>2, <2>9, <2>11, <3>1, <4>1, <4>2, Zenon
    <3> QED
      BY <3>2, <3>3, Zenon
  <2>14. resp' # "undefined" /\ resp' # "parse"
    BY <2>2
  <2>15. ArrayInv'
    BY <1>1, <1>3, <2>2, <2>6, <2>10, <2>12, <2>13, <2>14, Zenon
      DEF ArrayInv, Complete, ItemEnds, TextBefore
  <2> QED
    BY <1>1, <1>2, <1>3, <2>2, <2>14, <2>15, Zenon DEF RespInv
<1> QED
    BY <1>7, <1>8, Zenon

\* The loop ends: with the items of all the parts that are there in full.
LEMMA EndKeeps ==
    ASSUME RespInv, ArrayEnd
    PROVE  RespInv'
<1>1. /\ resp = "array" /\ (Turn >= value.count \/ Byte(at) # "$")
      /\ resp' = (IF Turn < value.count THEN "undefined" ELSE "parsed")
      /\ message' = message /\ arrived' = arrived /\ memory' = memory
      /\ at' = at /\ value' = value
    BY Zenon DEF ArrayEnd
<1>2. /\ Loaded /\ message.type = "array" /\ ArrayInv /\ Turn \in Nat
      /\ Len(message.parts) \in Nat
      /\ \A k \in 1 .. Len(message.parts) : Complete(k) /\ ~(k <= Turn) =>
            Turn + 1 \in 1 .. Len(message.parts) /\ Complete(Turn + 1)
      /\ Whole /\ Turn < value.count =>
            Turn + 1 \in 1 .. Len(message.parts) /\ Complete(Turn + 1)
    BY <1>1, TurnFacts, Zenon
<1>3. Loaded' /\ Whole' = Whole
    BY <1>1, <1>2, Zenon DEF Loaded, Whole
<1>4. ASSUME Turn + 1 \in 1 .. Len(message.parts), Complete(Turn + 1)
      PROVE  FALSE
  <2>1. Byte(at) = "$"
    BY <1>1, <1>2, <1>4, TurnReads, Zenon
  <2>2. Turn >= value.count /\ value.count = message.count
    BY <1>1, <1>2, <1>4, <2>1, Zenon DEF ArrayInv
  <2>3. Sent(message)
    BY <1>2, MemoryFacts
  <2>4. message.count = Len(message.parts) \/ message.parts = <<>>
    BY <1>2, <2>3, Zenon DEF Sent
  <2>5. message.parts # <<>>
    BY <1>2, <1>4
  <2>6. Turn >= Len(message.parts)
    BY <2>2, <2>4, <2>5, Zenon
  <2> QED
    BY <1>2, <1>4, <2>6
<1>5. /\ \A k \in 1 .. Len(message.parts) : Complete(k) => k <= Turn
      /\ Whole => ~(Turn < value.count)
    BY <1>2, <1>4, Zenon
<1>6. /\ resp' \in {"parsed", "undefined"} /\ resp' # "array" /\ resp' # "parse"
      /\ Whole => resp' # "undefined"
    BY <1>1, <1>5
<1>7. resp' \in {"array", "parsed", "undefined"} /\ resp' \in {"parse", "array", "parsed", "exit", "undefined"}
    BY <1>6
<1>8. ArrayInv'
    BY <1>1, <1>2, <1>3, <1>5, <1>6, <1>7, Zenon
      DEF ArrayInv, Complete, ItemEnds, TextBefore, Turn
<1> QED
    BY <1>1, <1>2, <1>3, <1>7, <1>8, Zenon DEF RespInv

LEMMA RespSteps == RespInv /\ [RespNext]_respVars => RespInv'
<1>1. ASSUME RespInv, UNCHANGED respVars PROVE RespInv'
  <2>1. /\ message' = message /\ arrived' = arrived /\ memory' = memory
        /\ resp' = resp /\ at' = at /\ value' = value
    BY <1>1 DEF respVars
  <2> QED
    BY <1>1, <2>1, Zenon DEF RespInv, Loaded, ArrayInv, WordInv, Whole, Complete, ItemEnds, TextBefore, Turn
<1> QED
    BY <1>1, ParseKeeps, ItemKeeps, EndKeeps, Zenon DEF RespNext

LEMMA RespHolds == RespInv => RespCorrect
<1> SUFFICES ASSUME RespInv PROVE RespCorrect
    OBVIOUS
<1>1. Loaded /\ resp \in {"parse", "array", "parsed", "exit", "undefined"}
    BY Zenon DEF RespInv
<1>2. Sent(message)
    BY <1>1, MemoryFacts
<1>3. CASE resp \in {"parse", "array"}
  <2>1. resp \notin {"parsed", "exit", "undefined"} /\ resp \notin {"parsed", "undefined"}
    BY <1>3
  <2> QED
    BY <2>1, Zenon DEF RespCorrect
<1>4. CASE resp \in {"parsed", "exit", "undefined"} /\ message.type # "array"
  <2>1. resp # "parse" /\ message.type \in {"simple", "error", "integer", "bulk"}
    BY <1>2, <1>4 DEF Sent
  <2>2. Whole => WordInv
    BY <1>4, <2>1, Zenon DEF RespInv
  <2> QED
    BY <1>4, <2>2, Zenon DEF RespCorrect, WordInv
<1>5. CASE resp \in {"parsed", "exit", "undefined"} /\ message.type = "array"
  <2>1. resp # "parse" /\ resp # "array" /\ message.type # "bulk" /\ message.type # "integer"
    BY <1>5
  <2>2. ArrayInv
    BY <1>5, <2>1, Zenon DEF RespInv
  <2>3. message.parts \in Seq(Seq(RespBytes))
    BY <1>2, Zenon DEF Sent
  <2>4. Len(message.parts) \in Nat /\ DOMAIN message.parts = 1 .. Len(message.parts)
    BY <2>3, LenProperties
  <2>5. \A k \in 1 .. Len(message.parts) : Complete(k) =>
           k <= Turn /\ value.items[k] = make_string(message.parts[k])
    BY <2>1, <2>2, Zenon DEF ArrayInv
  <2>6. ASSUME Whole
        PROVE  /\ resp = "parsed" /\ value.type = "array" /\ value.count = message.count
               /\ value.items = [k \in DOMAIN message.parts |-> make_string(message.parts[k])]
    <3>1. \A k \in 1 .. Len(message.parts) : k <= Turn /\ value.items[k] = make_string(message.parts[k])
      BY <1>1, <1>5, <2>5, <2>6, AllComplete, Zenon
    <3>2. /\ resp \in {"array", "parsed", "undefined"} /\ resp # "undefined"
          /\ value.count = message.count /\ Turn <= Len(message.parts)
          /\ value = [type |-> "array", count |-> value.count, items |-> value.items]
          /\ value.items \in Seq(Range(value.items))
      BY <2>2, <2>6, Zenon DEF ArrayInv
    <3>3. resp = "parsed" /\ value.type = "array"
      BY <2>1, <3>2
    <3>4. PICK its : its = value.items
      BY Zenon
    <3>5. Len(its) \in Nat /\ DOMAIN its = 1 .. Len(its) /\ its = [k \in 1 .. Len(its) |-> its[k]]
      <4>1. its \in Seq(Range(its))
        BY <3>2, <3>4, Zenon
      <4> QED
        BY <4>1, LenProperties
    <3>6. Turn = Len(its)
      BY <3>4, Zenon DEF Turn
    <3>7. Len(its) = Len(message.parts)
      <4>1. Len(message.parts) > 0 => Len(message.parts) \in 1 .. Len(message.parts)
        BY <2>4
      <4>2. Len(message.parts) > 0 => Len(message.parts) <= Turn
        BY <3>1, <4>1, Zenon
      <4> QED
        BY <2>4, <3>2, <3>5, <3>6, <4>2
    <3>8. its = [k \in DOMAIN message.parts |-> make_string(message.parts[k])]
      <4>1. \A k \in DOMAIN message.parts : its[k] = make_string(message.parts[k])
        BY <2>4, <3>1, <3>4, Zenon
      <4>2. its = [k \in DOMAIN message.parts |-> its[k]]
        BY <2>4, <3>5, <3>7, Zenon
      <4> HIDE DEF make_string
      <4> QED
        BY <4>1, <4>2
    <3> QED
      BY <3>2, <3>3, <3>4, <3>8, Zenon
  <2>7. \A k \in DOMAIN message.parts : arrived >= ItemEnds(k) =>
           k <= Turn /\ value.items[k] = make_string(message.parts[k])
    BY <2>4, <2>5, Zenon DEF Complete
  <2> QED
    BY <1>5, <2>1, <2>6, <2>7, Zenon DEF RespCorrect
<1> QED
    BY <1>1, <1>3, <1>4, <1>5

\* For all messages, cut after any byte, and whatever was in the buffer before:
\* what arrived whole is parsed into what was sent (parse, parse_array and
\* make_string of resp.c), and of an array that arrived in part the items that
\* are there in full are right.
THEOREM SentIsParsed == RespSpec => []RespCorrect
<1>1. RespSpec => []RespInv
    BY RespStarts, RespSteps, PTL DEF RespSpec
<1> QED
    BY <1>1, RespHolds, PTL
=============================================================================
