----------------------------- MODULE ToolProofs -----------------------------
(***************************************************************************)
(* The tools and the store against their reference definitions, for texts  *)
(* of any lines and any length, and for all keys and values:               *)
(*   diff     LongestCommon: the subsequence it prints is a longest one;   *)
(*   uniq     EveryGroupOnce: each group asked for is printed once, in     *)
(*            order, with its count;                                       *)
(*   grep     SelectedLinesOnce: each line that matches is printed once,   *)
(*            in order, and the exit code says whether there was one;      *)
(*   cut      ChosenFieldsOnly: of each line the chosen fields, with the   *)
(*            delimiter between them;                                      *)
(*   bitcask  ValueStays: a value appended to the log stays where          *)
(*            bitcask_append said it is;                                   *)
(*            SavedComesBack, NothingInvented: what db_load makes of the   *)
(*            file db_save left.                                           *)
(* What a recursive function computes is shown by induction, as a set of   *)
(* naturals that has 0 and all successors.                                 *)
(***************************************************************************)
EXTENDS DiffTool, Uniq, Bitcask, Grep, Cut, TLAPS, SequenceTheorems,
        FiniteSetTheorems, WellFoundedInduction

-----------------------------------------------------------------------------
(* Induction                                                               *)

\* A set of naturals that is not empty has a smallest element.
LEMMA Smallest ==
    ASSUME NEW I, I \subseteq Nat, I # {}
    PROVE  \E m \in I : \A n \in I : m <= n
<1>1. PICK x \in I : \A y \in I : ~(<<y, x>> \in OpToRel(<, Nat))
    BY WFMin, NatLessThanWellFounded, Zenon
<1>2. OpToRel(<, Nat) = {ss \in Nat \X Nat : ss[1] < ss[2]}
    BY Zenon DEF OpToRel
<1>3. ASSUME NEW y \in I PROVE x <= y
  <2>1. ~(<<y, x>> \in {ss \in Nat \X Nat : ss[1] < ss[2]})
    BY <1>1, <1>2, Zenon
  <2>2. x \in Nat /\ y \in Nat
    OBVIOUS
  <2> QED
    BY <2>1, <2>2
<1> QED
    BY <1>3

\* A set of naturals that has 0, and n + 1 with every n, has them all.
LEMMA Induction ==
    ASSUME NEW T, T \subseteq Nat, 0 \in T, \A n \in T : n + 1 \in T
    PROVE  T = Nat
<1> DEFINE rest == Nat \ T
<1> SUFFICES ASSUME rest # {} PROVE FALSE
    OBVIOUS
<1>1. rest \subseteq Nat
    OBVIOUS
<1> HIDE DEF rest
<1>2. PICK x \in rest : \A y \in rest : x <= y
    BY <1>1, Smallest
<1>3. x \in Nat /\ x \notin T /\ x # 0
    BY <1>1 DEF rest
<1>4. x - 1 \in Nat /\ x - 1 < x /\ (x - 1) + 1 = x
    BY <1>3
<1>5. x - 1 \in rest
    BY <1>3, <1>4 DEF rest
<1> QED
    BY <1>2, <1>3, <1>4, <1>5

-----------------------------------------------------------------------------
(* diff: the table                                                         *)

Texts == a \in Seq(DiffLines) /\ b \in Seq(DiffLines)

Places == (0 .. Len(a)) \X (0 .. Len(b))

\* One entry, from those of the table t.
EntryOf(t, x, y) ==
    IF x = 0 \/ y = 0 THEN 0
    ELSE Cell(t[<<x, y - 1>>], t[<<x - 1, y>>], t[<<x - 1, y - 1>>], a[x] = b[y])

LEMMA TextLengths ==
    ASSUME Texts
    PROVE  Len(a) \in Nat /\ Len(b) \in Nat
BY LenProperties DEF Texts

\* Two tables that agree on the diagonals before n compute the same on diagonal n.
LEMMA EntryDepends ==
    ASSUME Texts, NEW t, NEW u, NEW n \in Nat,
           NEW x \in 0 .. Len(a), NEW y \in 0 .. Len(b), x + y <= n + 1,
           \A v \in 0 .. Len(a), w \in 0 .. Len(b) :
              v + w <= n => t[<<v, w>>] = u[<<v, w>>]
    PROVE  EntryOf(t, x, y) = EntryOf(u, x, y)
<1>1. CASE x = 0 \/ y = 0
    BY <1>1 DEF EntryOf
<1>2. CASE ~(x = 0 \/ y = 0)
  <2>1. Len(a) \in Nat /\ Len(b) \in Nat
    BY TextLengths
  <2>2. /\ x - 1 \in 0 .. Len(a) /\ y - 1 \in 0 .. Len(b)
        /\ x + (y - 1) <= n /\ (x - 1) + y <= n /\ (x - 1) + (y - 1) <= n
    <3>1. x \in Nat /\ y \in Nat /\ x # 0 /\ y # 0 /\ x <= Len(a) /\ y <= Len(b)
      BY <1>2, <2>1
    <3>2. x - 1 \in 0 .. Len(a) /\ y - 1 \in 0 .. Len(b)
      BY <2>1, <3>1
    <3>3. x + (y - 1) <= n /\ (x - 1) + y <= n /\ (x - 1) + (y - 1) <= n
      BY <3>1
    <3> QED
      BY <3>2, <3>3, Zenon
  <2>3. /\ t[<<x, y - 1>>] = u[<<x, y - 1>>] /\ t[<<x - 1, y>>] = u[<<x - 1, y>>]
        /\ t[<<x - 1, y - 1>>] = u[<<x - 1, y - 1>>]
    BY <2>2
  <2> QED
    BY <2>3, Zenon DEF EntryOf
<1> QED
    BY <1>1, <1>2

\* There is a table that satisfies the recursion: correct up to any diagonal.
LEMMA TableExists ==
    ASSUME Texts
    PROVE  \E t : t = [p \in Places |-> EntryOf(t, p[1], p[2])]
<1> DEFINE Good(n) == \E t : \A x \in 0 .. Len(a), y \in 0 .. Len(b) :
                         x + y <= n => t[<<x, y>>] = EntryOf(t, x, y)
           T == {n \in Nat : Good(n)}
<1>0. Len(a) \in Nat /\ Len(b) \in Nat
    BY TextLengths
<1>1. Good(0)
  <2> DEFINE t == [p \in Places |-> 0]
  <2> SUFFICES \A x \in 0 .. Len(a), y \in 0 .. Len(b) :
                  x + y <= 0 => t[<<x, y>>] = EntryOf(t, x, y)
    BY Zenon
  <2> TAKE x \in 0 .. Len(a), y \in 0 .. Len(b)
  <2> HAVE x + y <= 0
  <2>1. x = 0
    BY <1>0
  <2>2. EntryOf(t, x, y) = 0
    BY <2>1, Zenon DEF EntryOf
  <2>3. t[<<x, y>>] = 0
    BY <1>0 DEF Places
  <2> QED
    BY <2>2, <2>3, Zenon
<1>2. ASSUME NEW n \in Nat, Good(n) PROVE Good(n + 1)
  <2>1. PICK t : \A x \in 0 .. Len(a), y \in 0 .. Len(b) :
                    x + y <= n => t[<<x, y>>] = EntryOf(t, x, y)
    BY <1>2, Zenon
  <2> DEFINE u == [p \in Places |-> EntryOf(t, p[1], p[2])]
  <2>2. \A x \in 0 .. Len(a), y \in 0 .. Len(b) : u[<<x, y>>] = EntryOf(t, x, y)
    BY DEF Places
  <2> HIDE DEF u
  <2>3. \A x \in 0 .. Len(a), y \in 0 .. Len(b) :
           x + y <= n => t[<<x, y>>] = u[<<x, y>>]
    BY <2>1, <2>2
  <2>4. \A x \in 0 .. Len(a), y \in 0 .. Len(b) :
           x + y <= n + 1 => EntryOf(t, x, y) = EntryOf(u, x, y)
    BY <2>3, EntryDepends
  <2>5. \A x \in 0 .. Len(a), y \in 0 .. Len(b) :
           x + y <= n + 1 => u[<<x, y>>] = EntryOf(u, x, y)
    BY <2>2, <2>4
  <2> QED
    BY <2>5, Zenon
<1> HIDE DEF Good
<1>3. T = Nat
  <2>1. T \subseteq Nat /\ 0 \in T /\ \A n \in T : n + 1 \in T
    BY <1>1, <1>2
  <2> HIDE DEF T
  <2> QED
    BY <2>1, Induction
<1> DEFINE last == Len(a) + Len(b)
<1>4. last \in Nat /\ \A x \in 0 .. Len(a), y \in 0 .. Len(b) : x + y <= last
    BY <1>0
<1> HIDE DEF last
<1>5. Good(last)
    BY <1>3, <1>4
<1>6. PICK t : \A x \in 0 .. Len(a), y \in 0 .. Len(b) :
                  x + y <= last => t[<<x, y>>] = EntryOf(t, x, y)
    BY <1>5, Zenon DEF Good
<1> DEFINE u == [p \in Places |-> EntryOf(t, p[1], p[2])]
<1>7. \A x \in 0 .. Len(a), y \in 0 .. Len(b) : u[<<x, y>>] = EntryOf(t, x, y)
    BY DEF Places
<1>8. u = [p \in Places |-> EntryOf(t, p[1], p[2])]
    OBVIOUS
<1> HIDE DEF u
<1>9. \A x \in 0 .. Len(a), y \in 0 .. Len(b) : EntryOf(t, x, y) = EntryOf(u, x, y)
  <2>1. \A v \in 0 .. Len(a), w \in 0 .. Len(b) :
           v + w <= last => t[<<v, w>>] = u[<<v, w>>]
    BY <1>6, <1>7
  <2>2. \A x \in 0 .. Len(a), y \in 0 .. Len(b) : x + y <= last + 1
    BY <1>0, <1>4
  <2> QED
    BY <1>4, <2>1, <2>2, EntryDepends
<1>10. \A p \in Places : EntryOf(t, p[1], p[2]) = EntryOf(u, p[1], p[2])
  <2>1. \A p \in Places : p[1] \in 0 .. Len(a) /\ p[2] \in 0 .. Len(b)
    BY DEF Places
  <2> QED
    BY <1>9, <2>1
<1>11. u = [p \in Places |-> EntryOf(u, p[1], p[2])]
    BY <1>8, <1>10
<1> QED
    BY <1>11, Zenon

\* dp is such a table.
LEMMA TableEntries ==
    ASSUME Texts
    PROVE  \A x \in 0 .. Len(a), y \in 0 .. Len(b) : dp[<<x, y>>] = EntryOf(dp, x, y)
<1>1. dp = CHOOSE t : t = [p \in Places |-> EntryOf(t, p[1], p[2])]
    BY Zenon DEF dp, Places, EntryOf
<1>2. dp = [p \in Places |-> EntryOf(dp, p[1], p[2])]
    BY <1>1, TableExists, Zenon
<1>3. \A p \in Places : dp[p] = EntryOf(dp, p[1], p[2])
    BY <1>2, Zenon
<1> TAKE x \in 0 .. Len(a), y \in 0 .. Len(b)
<1> DEFINE p == <<x, y>>
<1>4. p \in Places /\ p[1] = x /\ p[2] = y
    BY DEF Places
<1>5. dp[p] = EntryOf(dp, p[1], p[2])
    BY <1>3, <1>4, Zenon
<1> QED
    BY <1>4, <1>5

\* The edges are zero.
LEMMA TableEdge ==
    ASSUME Texts, NEW x \in 0 .. Len(a), NEW y \in 0 .. Len(b), x = 0 \/ y = 0
    PROVE  dp[<<x, y>>] = 0
<1>1. dp[<<x, y>>] = EntryOf(dp, x, y)
    BY TableEntries
<1> QED
    BY <1>1, Zenon DEF EntryOf

\* Equal lines extend the diagonal entry.
LEMMA TableSame ==
    ASSUME Texts, NEW x \in 0 .. Len(a), NEW y \in 0 .. Len(b), x > 0, y > 0, a[x] = b[y]
    PROVE  dp[<<x, y>>] = dp[<<x - 1, y - 1>>] + 1
<1>1. dp[<<x, y>>] = EntryOf(dp, x, y)
    BY TableEntries
<1>2. x # 0 /\ y # 0
    BY TextLengths
<1> QED
    BY <1>1, <1>2, Zenon DEF Cell, EntryOf

\* Other lines leave the larger neighbour.
LEMMA TableDiffers ==
    ASSUME Texts, NEW x \in 0 .. Len(a), NEW y \in 0 .. Len(b), x > 0, y > 0, a[x] # b[y]
    PROVE  dp[<<x, y>>] = IF dp[<<x - 1, y>>] >= dp[<<x, y - 1>>]
                          THEN dp[<<x - 1, y>>] ELSE dp[<<x, y - 1>>]
<1>1. dp[<<x, y>>] = EntryOf(dp, x, y)
    BY TableEntries
<1>2. x # 0 /\ y # 0
    BY TextLengths
<1> QED
    BY <1>1, <1>2, Zenon DEF Cell, EntryOf

\* An entry is no longer than either of the two beginnings it is about.
LEMMA TableBounds ==
    ASSUME Texts, NEW x \in 0 .. Len(a), NEW y \in 0 .. Len(b)
    PROVE  dp[<<x, y>>] \in Nat /\ dp[<<x, y>>] <= x /\ dp[<<x, y>>] <= y
<1> DEFINE T == {n \in Nat : \A v \in 0 .. Len(a), w \in 0 .. Len(b) : v + w <= n =>
                    dp[<<v, w>>] \in Nat /\ dp[<<v, w>>] <= v /\ dp[<<v, w>>] <= w}
<1>0. Len(a) \in Nat /\ Len(b) \in Nat
    BY TextLengths
<1>1. 0 \in T
  <2>1. ASSUME NEW v \in 0 .. Len(a), NEW w \in 0 .. Len(b), v + w <= 0
        PROVE  dp[<<v, w>>] \in Nat /\ dp[<<v, w>>] <= v /\ dp[<<v, w>>] <= w
    <3>1. v = 0 /\ w = 0
      BY <1>0, <2>1
    <3>2. dp[<<v, w>>] = 0
      BY <3>1, TableEdge
    <3> QED
      BY <3>1, <3>2
  <2> QED
    BY <2>1
<1>2. ASSUME NEW n \in T PROVE n + 1 \in T
  <2> SUFFICES ASSUME NEW v \in 0 .. Len(a), NEW w \in 0 .. Len(b), v + w <= n + 1
               PROVE  dp[<<v, w>>] \in Nat /\ dp[<<v, w>>] <= v /\ dp[<<v, w>>] <= w
    OBVIOUS
  <2>0. /\ n \in Nat
        /\ \A p \in 0 .. Len(a), q \in 0 .. Len(b) : p + q <= n =>
              dp[<<p, q>>] \in Nat /\ dp[<<p, q>>] <= p /\ dp[<<p, q>>] <= q
    OBVIOUS
  <2> HIDE DEF T
  <2>1. CASE v = 0 \/ w = 0
    <3>1. dp[<<v, w>>] = 0
      BY <2>1, TableEdge
    <3> QED
      BY <1>0, <3>1
  <2>2. CASE v > 0 /\ w > 0
    <3>0. PICK v1, w1 : v1 = v - 1 /\ w1 = w - 1
      BY Zenon
    <3>1. /\ v1 \in 0 .. Len(a) /\ w1 \in 0 .. Len(b) /\ v1 < v /\ w1 < w
          /\ v + w1 <= n /\ v1 + w <= n /\ v1 + w1 <= n
      BY <1>0, <2>0, <2>2, <3>0
    <3>2. dp[<<v, w1>>] \in Nat /\ dp[<<v, w1>>] <= v /\ dp[<<v, w1>>] <= w1
      BY <2>0, <3>1
    <3>3. dp[<<v1, w>>] \in Nat /\ dp[<<v1, w>>] <= v1 /\ dp[<<v1, w>>] <= w
      BY <2>0, <3>1
    <3>4. dp[<<v1, w1>>] \in Nat /\ dp[<<v1, w1>>] <= v1 /\ dp[<<v1, w1>>] <= w1
      BY <2>0, <3>1
    <3>5. CASE a[v] = b[w]
      <4>1. dp[<<v, w>>] = dp[<<v1, w1>>] + 1
        BY <2>2, <3>0, <3>5, TableSame
      <4>2. PICK e : e = dp[<<v1, w1>>]
        BY Zenon
      <4>3. e \in Nat /\ e <= v1 /\ e <= w1 /\ dp[<<v, w>>] = e + 1
        BY <3>4, <4>1, <4>2, Zenon
      <4> QED
        BY <3>0, <4>3
    <3>6. CASE a[v] # b[w]
      <4>1. dp[<<v, w>>] = dp[<<v1, w>>] \/ dp[<<v, w>>] = dp[<<v, w1>>]
        BY <2>2, <3>0, <3>6, TableDiffers
      <4>2. PICK e : e = dp[<<v, w>>]
        BY Zenon
      <4>3. e \in Nat /\ ((e <= v1 /\ e <= w) \/ (e <= v /\ e <= w1))
        <5>1. CASE dp[<<v, w>>] = dp[<<v1, w>>]
          BY <3>3, <4>2, <5>1, Zenon
        <5>2. CASE dp[<<v, w>>] = dp[<<v, w1>>]
          BY <3>2, <4>2, <5>2, Zenon
        <5> QED
          BY <4>1, <5>1, <5>2, Zenon
      <4>4. e <= v /\ e <= w
        BY <3>0, <4>3
      <4> QED
        BY <4>2, <4>3, <4>4, Zenon
    <3> QED
      BY <3>5, <3>6
  <2> QED
    BY <1>0, <2>1, <2>2
<1>3. T = Nat
  <2>1. T \subseteq Nat
    OBVIOUS
  <2> HIDE DEF T
  <2> QED
    BY <1>1, <1>2, <2>1, Induction
<1>4. x + y \in Nat /\ x + y <= x + y
    BY <1>0
<1>5. x + y \in T
    BY <1>3, <1>4, Zenon
<1> QED
    BY <1>4, <1>5

\* f and g pick n equal lines, in order, from the first x of a and the first y of b.
Matching(f, g, n, x, y) ==
    /\ f \in [1 .. n -> 1 .. x] /\ g \in [1 .. n -> 1 .. y]
    /\ \A k, l \in 1 .. n : k < l => f[k] < f[l] /\ g[k] < g[l]
    /\ \A k \in 1 .. n : a[f[k]] = b[g[k]]

LEMMA BelowLast ==
    \A w \in Nat : \A p \in 1 .. w, q \in 1 .. w :
        q # w /\ (p = q \/ p < q) => p \in 1 .. (w - 1)
OBVIOUS

LEMMA BelowEither ==
    \A w \in Nat : \A p \in 1 .. w, q \in 1 .. w : p < q => p \in 1 .. (w - 1)
OBVIOUS

\* No two beginnings have more lines in common than their entry says.
LEMMA TableIsLongest ==
    ASSUME Texts, NEW x \in 0 .. Len(a), NEW y \in 0 .. Len(b), NEW n \in Nat,
           NEW f, NEW g, Matching(f, g, n, x, y)
    PROVE  n <= dp[<<x, y>>]
<1> DEFINE T == {m \in Nat : \A v \in 0 .. Len(a), w \in 0 .. Len(b) : v + w <= m =>
                    \A c \in Nat : \A F, G : Matching(F, G, c, v, w) => c <= dp[<<v, w>>]}
<1>0. Len(a) \in Nat /\ Len(b) \in Nat
    BY TextLengths
<1>e. ASSUME NEW v \in 0 .. Len(a), NEW w \in 0 .. Len(b), NEW c \in Nat, NEW F, NEW G,
             Matching(F, G, c, v, w), v = 0 \/ w = 0
      PROVE  c <= dp[<<v, w>>]
  <2>1. c = 0
    BY <1>e DEF Matching
  <2>2. dp[<<v, w>>] = 0
    BY <1>e, TableEdge
  <2> QED
    BY <2>1, <2>2
<1>1. 0 \in T
  <2>1. \A v \in 0 .. Len(a), w \in 0 .. Len(b) : v + w <= 0 => v = 0
    BY <1>0
  <2> QED
    BY <1>e, <2>1
<1>2. ASSUME NEW m \in T PROVE m + 1 \in T
  <2> SUFFICES ASSUME NEW v \in 0 .. Len(a), NEW w \in 0 .. Len(b), v + w <= m + 1,
                      NEW c \in Nat, NEW F, NEW G, Matching(F, G, c, v, w)
               PROVE  c <= dp[<<v, w>>]
    OBVIOUS
  <2>0. /\ m \in Nat
        /\ \A p \in 0 .. Len(a), q \in 0 .. Len(b) : p + q <= m =>
              \A d \in Nat : \A P, Q : Matching(P, Q, d, p, q) => d <= dp[<<p, q>>]
    OBVIOUS
  <2> HIDE DEF T
  <2>1. CASE v = 0 \/ w = 0
    BY <1>e, <2>1
  <2>2. CASE c = 0
    BY <2>2, TableBounds
  <2>3. CASE v > 0 /\ w > 0 /\ c > 0
    <3>0. PICK v1, w1 : v1 = v - 1 /\ w1 = w - 1
      BY Zenon
    <3>1. /\ v1 \in 0 .. Len(a) /\ w1 \in 0 .. Len(b) /\ c - 1 \in Nat
          /\ v + w1 <= m /\ v1 + w <= m /\ v1 + w1 <= m
      BY <1>0, <2>0, <2>3, <3>0
    <3>2. /\ dp[<<v, w1>>] \in Nat /\ dp[<<v1, w>>] \in Nat
          /\ dp[<<v1, w1>>] \in Nat /\ dp[<<v, w>>] \in Nat
      BY <3>1, TableBounds
    <3>3. CASE a[v] = b[w]
      <4> DEFINE FF == [k \in 1 .. (c - 1) |-> F[k]]
                 GG == [k \in 1 .. (c - 1) |-> G[k]]
      <4>1. Matching(FF, GG, c - 1, v1, w1)
        <5>1. \A k \in 1 .. (c - 1) : k \in 1 .. c /\ c \in 1 .. c /\ k < c
          BY <2>3
        <5>2. \A k \in 1 .. (c - 1) : F[k] \in 1 .. v1 /\ G[k] \in 1 .. w1
          <6> TAKE k \in 1 .. (c - 1)
          <6>1. F[k] < F[c] /\ G[k] < G[c]
            BY <5>1 DEF Matching
          <6>2. F[k] \in 1 .. v /\ F[c] \in 1 .. v /\ G[k] \in 1 .. w /\ G[c] \in 1 .. w
            BY <5>1 DEF Matching
          <6>3. v \in Nat /\ w \in Nat
            BY <1>0
          <6> QED
            BY <6>1, <6>2, <6>3, <3>0, BelowEither
        <5> QED
          BY <5>1, <5>2 DEF Matching
      <4> HIDE DEF FF, GG
      <4>2. c - 1 <= dp[<<v1, w1>>]
        BY <2>0, <3>1, <4>1
      <4>3. dp[<<v, w>>] = dp[<<v1, w1>>] + 1
        BY <2>3, <3>3, <3>0, TableSame
      <4>4. PICK e : e = dp[<<v1, w1>>]
        BY Zenon
      <4>5. e \in Nat /\ c - 1 <= e /\ dp[<<v, w>>] = e + 1
        BY <3>2, <4>2, <4>3, <4>4, Zenon
      <4> QED
        BY <4>5
    <3>4. CASE a[v] # b[w]
      <4>1. dp[<<v1, w>>] <= dp[<<v, w>>] /\ dp[<<v, w1>>] <= dp[<<v, w>>]
        <5>1. dp[<<v, w>>] = IF dp[<<v1, w>>] >= dp[<<v, w1>>]
                             THEN dp[<<v1, w>>] ELSE dp[<<v, w1>>]
          BY <2>3, <3>4, <3>0, TableDiffers
        <5> QED
          BY <3>2, <5>1
      <4>2. c \in 1 .. c /\ F[c] \in 1 .. v /\ G[c] \in 1 .. w /\ a[F[c]] = b[G[c]]
        BY <2>3 DEF Matching
      <4>3. CASE F[c] # v
        <5>1. \A k \in 1 .. c : F[k] \in 1 .. v /\ (k = c \/ F[k] < F[c])
          BY <4>2 DEF Matching
        <5>2. \A k \in 1 .. c : F[k] \in 1 .. v1
          <6> TAKE k \in 1 .. c
          <6>1. F[k] \in 1 .. v /\ (k = c \/ F[k] < F[c])
            BY <5>1
          <6>2. F[c] \in 1 .. v /\ F[c] # v /\ v \in Nat
            BY <1>0, <4>2, <4>3
          <6> QED
            BY <6>1, <6>2, <3>0, BelowLast
        <5>3. Matching(F, G, c, v1, w)
          BY <5>2 DEF Matching
        <5>4. c <= dp[<<v1, w>>]
          BY <2>0, <3>1, <5>3
        <5>5. dp[<<v1, w>>] <= dp[<<v, w>>]
          BY <4>1, Zenon
        <5> QED
          BY <3>2, <5>4, <5>5
      <4>4. CASE G[c] # w
        <5>1. \A k \in 1 .. c : G[k] \in 1 .. w /\ (k = c \/ G[k] < G[c])
          BY <4>2 DEF Matching
        <5>2. \A k \in 1 .. c : G[k] \in 1 .. w1
          <6> TAKE k \in 1 .. c
          <6>1. G[k] \in 1 .. w /\ (k = c \/ G[k] < G[c])
            BY <5>1
          <6>2. G[c] \in 1 .. w /\ G[c] # w /\ w \in Nat
            BY <1>0, <4>2, <4>4
          <6> QED
            BY <6>1, <6>2, <3>0, BelowLast
        <5>3. Matching(F, G, c, v, w1)
          BY <5>2 DEF Matching
        <5>4. c <= dp[<<v, w1>>]
          BY <2>0, <3>1, <5>3
        <5>5. dp[<<v, w1>>] <= dp[<<v, w>>]
          BY <4>1, Zenon
        <5> QED
          BY <3>2, <5>4, <5>5
      <4> QED
        BY <3>4, <4>2, <4>3, <4>4
    <3> QED
      BY <3>3, <3>4
  <2> QED
    BY <1>0, <2>1, <2>2, <2>3
<1>3. T = Nat
  <2>1. T \subseteq Nat
    OBVIOUS
  <2> HIDE DEF T
  <2> QED
    BY <1>1, <1>2, <2>1, Induction
<1>4. x + y \in Nat /\ x + y <= x + y
    BY <1>0
<1>5. x + y \in T
    BY <1>3, <1>4, Zenon
<1> QED
    BY <1>4, <1>5

-----------------------------------------------------------------------------
(* The walk                                                                *)

Longest == dp[<<Len(a), Len(b)>>]

\* f and g are where the lines written so far, behind idx, stand in a and in b.
Behind(f, g) ==
    /\ f \in [(idx + 1) .. Longest -> (i + 1) .. Len(a)]
    /\ g \in [(idx + 1) .. Longest -> (j + 1) .. Len(b)]
    /\ \A k, l \in (idx + 1) .. Longest : k < l => f[k] < f[l] /\ g[k] < g[l]
    /\ \A k \in (idx + 1) .. Longest : items[k] = a[f[k]] /\ items[k] = b[g[k]]

\* idx is the entry of the place the walk is at, so the items not yet written
\* are as many as the rest has in common.
WalkInv ==
    /\ Texts
    /\ i \in 0 .. Len(a) /\ j \in 0 .. Len(b)
    /\ idx = dp[<<i, j>>]
    /\ items \in [1 .. Longest -> DiffLines \cup {Unset}]
    /\ diff \in {"walk", "done"} /\ (diff = "done" => i = 0 \/ j = 0)
    /\ \E f, g : Behind(f, g)

\* A bounded sequence is a function on an initial segment.
LEMMA BoundedSequences ==
    ASSUME NEW S, NEW n \in Nat, NEW s
    PROVE  s \in BoundedSeq(S, n) <=> \E m \in 0 .. n : s \in [1 .. m -> S]
BY DEF BoundedSeq, SeqOf

LEMMA WalkStarts == DiffInit => WalkInv \/ diff = "undefined"
<1> SUFFICES ASSUME DiffInit, diff # "undefined" PROVE WalkInv
    OBVIOUS
<1>1. Texts
  <2>1. \A s \in BoundedSeq(DiffLines, MaxText) : s \in Seq(DiffLines)
    BY BoundedSequences, TextBoundAssumption
  <2> QED
    BY <2>1 DEF DiffInit, Texts
<1>2. Len(a) \in Nat /\ Len(b) \in Nat
    BY <1>1, TextLengths
<1>3. i = Len(a) /\ j = Len(b) /\ idx = Longest /\ idx = dp[<<i, j>>] /\ diff = "walk"
    BY DEF DiffInit, Longest
<1>4. i \in 0 .. Len(a) /\ j \in 0 .. Len(b)
    BY <1>2, <1>3
<1>5. Longest \in Nat
    BY <1>1, <1>3, <1>4, TableBounds
<1>6. items = [k \in 1 .. Longest |-> Unset]
    BY <1>3 DEF DiffInit
<1>7. (idx + 1) .. Longest = {}
    BY <1>3, <1>5
<1>8. Behind(<<>>, <<>>)
    BY <1>7 DEF Behind
<1> QED
    BY <1>1, <1>3, <1>4, <1>6, <1>8 DEF WalkInv

LEMMA WalkSteps == WalkInv /\ [DiffNext]_diffVars => WalkInv'
<1> SUFFICES ASSUME WalkInv, [DiffNext]_diffVars PROVE WalkInv'
    OBVIOUS
<1>0. Texts /\ Len(a) \in Nat /\ Len(b) \in Nat /\ i \in Nat /\ j \in Nat
    BY TextLengths DEF WalkInv
<1>t. a' = a /\ b' = b
    BY DEF DiffNext, WalkMatch, WalkSkip, WalkEnd, diffVars
<1>p. dp' = dp
    BY <1>t DEF dp
<1>d. dp' = dp /\ Longest' = Longest /\ Texts'
    BY <1>0, <1>t, <1>p, Zenon DEF Longest, Texts
<1>l. Longest \in Nat
    BY <1>0, TableBounds DEF Longest
<1>n. dp[<<i, j>>] \in Nat /\ idx \in Nat
    BY TableBounds DEF WalkInv
<1>f. PICK f, g : Behind(f, g)
    BY Zenon DEF WalkInv
<1>1. CASE WalkMatch
  <2>1. i - 1 \in 0 .. Len(a) /\ j - 1 \in 0 .. Len(b) /\ dp[<<i, j>>] = dp[<<i - 1, j - 1>>] + 1
    BY <1>0, <1>1, TableSame DEF WalkInv, WalkMatch
  <2>2. dp[<<i - 1, j - 1>>] \in Nat
    BY <1>0, <2>1, TableBounds
  <2>3. /\ i' = i - 1 /\ j' = j - 1 /\ idx' = idx - 1 /\ diff' = diff /\ diff = "walk"
        /\ i > 0 /\ j > 0 /\ a[i] = b[j] /\ items' = [items EXCEPT ![idx] = a[i]]
    BY <1>1 DEF WalkMatch
  <2>4. idx' = dp'[<<i', j'>>]
    BY <1>d, <2>1, <2>2, <2>3 DEF WalkInv
  <2>5. a[i] \in DiffLines
    BY <1>0, <2>3 DEF WalkInv, Texts
  <2>6. items' \in [1 .. Longest -> DiffLines \cup {Unset}]
    BY <2>3, <2>5 DEF WalkInv
  <2> DEFINE F == [k \in idx .. Longest |-> IF k = idx THEN i ELSE f[k]]
             G == [k \in idx .. Longest |-> IF k = idx THEN j ELSE g[k]]
  <2>7. /\ f \in [(idx + 1) .. Longest -> (i + 1) .. Len(a)]
        /\ g \in [(idx + 1) .. Longest -> (j + 1) .. Len(b)]
        /\ \A k, l \in (idx + 1) .. Longest : k < l => f[k] < f[l] /\ g[k] < g[l]
        /\ \A k \in (idx + 1) .. Longest : items[k] = a[f[k]] /\ items[k] = b[g[k]]
    BY <1>f DEF Behind
  <2>8. \A k \in idx .. Longest : k \in Int /\ (k # idx => k \in (idx + 1) .. Longest)
    BY <1>l, <1>n
  <2>9. /\ F \in [idx .. Longest -> i .. Len(a)] /\ G \in [idx .. Longest -> j .. Len(b)]
    <3>1. /\ i \in i .. Len(a) /\ j \in j .. Len(b)
          /\ (i + 1) .. Len(a) \subseteq i .. Len(a) /\ (j + 1) .. Len(b) \subseteq j .. Len(b)
      BY <1>0 DEF WalkInv
    <3>2. \A k \in idx .. Longest : k # idx =>
             f[k] \in (i + 1) .. Len(a) /\ g[k] \in (j + 1) .. Len(b)
      BY <2>7, <2>8
    <3> QED
      BY <3>1, <3>2
  <2>10. \A k, l \in idx .. Longest : k < l => F[k] < F[l] /\ G[k] < G[l]
    <3> SUFFICES ASSUME NEW k \in idx .. Longest, NEW l \in idx .. Longest, k < l
                 PROVE  F[k] < F[l] /\ G[k] < G[l]
      OBVIOUS
    <3>1. l \in (idx + 1) .. Longest /\ F[l] = f[l] /\ G[l] = g[l]
      BY <1>l, <1>n
    <3>2. CASE k = idx
      <4>1. f[l] \in (i + 1) .. Len(a) /\ g[l] \in (j + 1) .. Len(b)
        BY <2>7, <3>1
      <4>2. F[k] = i /\ G[k] = j
        BY <3>2
      <4> QED
        BY <1>0, <3>1, <4>1, <4>2
    <3>3. CASE k # idx
      <4>1. k \in (idx + 1) .. Longest /\ F[k] = f[k] /\ G[k] = g[k]
        BY <2>8, <3>3
      <4> QED
        BY <2>7, <3>1, <4>1
    <3> QED
      BY <3>2, <3>3
  <2>11. \A k \in idx .. Longest : items'[k] = a[F[k]] /\ items'[k] = b[G[k]]
    <3> TAKE k \in idx .. Longest
    <3>0. idx \in 1 .. Longest
      <4>1. idx = dp[<<i - 1, j - 1>>] + 1
        BY <2>1, <2>3 DEF WalkInv
      <4>2. idx > 0
        BY <2>2, <4>1
      <4> QED
        BY <1>l, <1>n, <4>2
    <3>1. k \in 1 .. Longest /\ idx \in 1 .. Longest
      BY <1>l, <3>0
    <3>2. CASE k = idx
      BY <2>3, <3>1, <3>2 DEF WalkInv
    <3>3. CASE k # idx
      <4>1. k \in (idx + 1) .. Longest /\ F[k] = f[k] /\ G[k] = g[k]
        BY <2>8, <3>3
      <4>2. items'[k] = items[k]
        BY <2>3, <3>1, <3>3 DEF WalkInv
      <4> QED
        BY <2>7, <4>1, <4>2
    <3> QED
      BY <3>2, <3>3
  <2>12. idx' + 1 = idx /\ i' + 1 = i /\ j' + 1 = j
    BY <1>0, <1>n, <2>3
  <2> HIDE DEF F, G
  <2>13. PICK v, w : v = F /\ w = G
    BY Zenon
  <2>15. Behind(v, w)'
    BY <1>t, <1>d, <2>9, <2>10, <2>11, <2>12, <2>13, Zenon DEF Behind
  <2>14. i' \in 0 .. Len(a') /\ j' \in 0 .. Len(b')
    BY <1>t, <2>1, <2>3
  <2> QED
    BY <1>d, <2>3, <2>4, <2>6, <2>14, <2>15, Zenon DEF WalkInv
<1>2. CASE WalkSkip
  <2>1. /\ i > 0 /\ j > 0 /\ a[i] # b[j] /\ idx' = idx /\ items' = items /\ diff' = diff
        /\ diff = "walk"
    BY <1>2 DEF WalkSkip
  <2>2. i - 1 \in 0 .. Len(a) /\ j - 1 \in 0 .. Len(b)
    BY <1>0, <2>1 DEF WalkInv
  <2>3. dp[<<i - 1, j>>] \in Nat /\ dp[<<i, j - 1>>] \in Nat
    BY <1>0, <2>2, TableBounds DEF WalkInv
  <2>4. dp[<<i, j>>] = IF dp[<<i - 1, j>>] >= dp[<<i, j - 1>>]
                       THEN dp[<<i - 1, j>>] ELSE dp[<<i, j - 1>>]
    BY <1>0, <2>1, TableDiffers DEF WalkInv
  <2>5. \/ i' = i - 1 /\ j' = j /\ dp[<<i, j>>] = dp[<<i - 1, j>>]
        \/ i' = i /\ j' = j - 1 /\ dp[<<i, j>>] = dp[<<i, j - 1>>]
    BY <1>2, <2>3, <2>4 DEF WalkSkip
  <2>6. idx' = dp'[<<i', j'>>]
    BY <1>d, <2>1, <2>5 DEF WalkInv
  <2>7. i' \in 0 .. Len(a') /\ j' \in 0 .. Len(b')
    <3>1. i \in 0 .. Len(a) /\ j \in 0 .. Len(b)
      BY DEF WalkInv
    <3>2. i' \in 0 .. Len(a) /\ j' \in 0 .. Len(b)
      BY <2>2, <2>5, <3>1, Zenon
    <3> QED
      BY <1>t, <3>2, Zenon
  <2>8. /\ (i + 1) .. Len(a) \subseteq (i' + 1) .. Len(a')
        /\ (j + 1) .. Len(b) \subseteq (j' + 1) .. Len(b')
    <3>1. i \in Nat /\ j \in Nat /\ (i' = i \/ i' = i - 1) /\ (j' = j \/ j' = j - 1)
      BY <2>5 DEF WalkInv
    <3>2. (i + 1) .. Len(a) \subseteq (i' + 1) .. Len(a)
      BY <1>0, <3>1
    <3>3. (j + 1) .. Len(b) \subseteq (j' + 1) .. Len(b)
      BY <1>0, <3>1
    <3> QED
      BY <1>t, <3>2, <3>3, Zenon
  <2>9. /\ f \in [(idx' + 1) .. Longest' -> (i' + 1) .. Len(a')]
        /\ g \in [(idx' + 1) .. Longest' -> (j' + 1) .. Len(b')]
    BY <1>d, <1>f, <2>1, <2>8 DEF Behind
  <2>10. Behind(f, g)'
    BY <1>t, <1>d, <1>f, <2>1, <2>9, Zenon DEF Behind
  <2>11. items' \in [1 .. Longest' -> DiffLines \cup {Unset}]
    BY <1>d, <2>1 DEF WalkInv
  <2>12. \E v, w : Behind(v, w)'
    BY <2>10, Zenon
  <2> QED
    BY <1>d, <2>1, <2>6, <2>7, <2>11, <2>12, Zenon DEF WalkInv
<1>3. CASE WalkEnd \/ UNCHANGED diffVars
  <2>1. /\ i' = i /\ j' = j /\ idx' = idx /\ items' = items
        /\ diff' \in {"walk", "done"} /\ (diff' = "done" => i = 0 \/ j = 0)
    BY <1>3 DEF WalkEnd, diffVars, WalkInv
  <2>2. Behind(f, g)'
    BY <1>t, <1>d, <1>f, <2>1, Zenon DEF Behind
  <2>3. \E v, w : Behind(v, w)'
    BY <2>2, Zenon
  <2> QED
    BY <1>t, <1>d, <2>1, <2>3, Zenon DEF WalkInv
<1> QED
    BY <1>1, <1>2, <1>3 DEF DiffNext

\* A process that has written beyond its table stays one.
LEMMA WalkAlways == DiffSpec => [](WalkInv \/ diff = "undefined")
<1>1. diff = "undefined" /\ [DiffNext]_diffVars => (diff = "undefined")'
    BY DEF DiffNext, WalkMatch, WalkSkip, WalkEnd, diffVars
<1> QED
    BY <1>1, WalkStarts, WalkSteps, PTL DEF DiffSpec

\* r is what the rising function f, from the first m, picks of s.
Picks(f, m, s, r) ==
    /\ f \in [1 .. m -> 1 .. Len(s)]
    /\ \A k, l \in 1 .. m : k < l => f[k] < f[l]
    /\ r = [k \in 1 .. m |-> s[f[k]]]

LEMMA SubsequenceOf ==
    ASSUME NEW s \in Seq(DiffLines), NEW r, NEW m \in 0 .. Len(s), NEW f, Picks(f, m, s, r)
    PROVE  r \in Subsequences(s)
<1>0. Len(s) \in Nat
    BY LenProperties
<1>1. f \in BoundedSeq(1 .. Len(s), Len(s)) /\ DOMAIN f = 1 .. m
    BY <1>0, BoundedSequences DEF Picks
<1>2. f \in Rising(Len(s))
    BY <1>1, Zenon DEF Rising, Picks
<1> QED
    BY <1>1, <1>2, Zenon DEF Subsequences, Picks

LEMMA SubsequencePick ==
    ASSUME NEW s \in Seq(DiffLines), NEW r \in Subsequences(s)
    PROVE  \E m \in 0 .. Len(s) : \E f : Picks(f, m, s, r)
<1>0. Len(s) \in Nat
    BY LenProperties
<1>1. PICK f \in Rising(Len(s)) : r = [k \in DOMAIN f |-> s[f[k]]]
    BY Zenon DEF Subsequences
<1>2. /\ f \in BoundedSeq(1 .. Len(s), Len(s))
      /\ \A k, l \in DOMAIN f : k < l => f[k] < f[l]
    BY <1>1, Zenon DEF Rising
<1>3. PICK m \in 0 .. Len(s) : f \in [1 .. m -> 1 .. Len(s)]
    BY <1>0, <1>2, BoundedSequences
<1>4. DOMAIN f = 1 .. m
    BY <1>3
<1>5. Picks(f, m, s, r)
    BY <1>1, <1>2, <1>3, <1>4, Zenon DEF Picks
<1> QED
    BY <1>5, Zenon

\* At the end the items are a common subsequence, and none is longer.
LEMMA WalkIsLongest == WalkInv => LcsCorrect
<1> SUFFICES ASSUME WalkInv, diff = "done"
             PROVE  /\ idx = 0
                    /\ items \in Subsequences(a) \cap Subsequences(b)
                    /\ \A s \in Subsequences(a) \cap Subsequences(b) : Len(s) <= Len(items)
    BY Zenon DEF LcsCorrect
<1>0. Texts /\ Len(a) \in Nat /\ Len(b) \in Nat
    BY TextLengths DEF WalkInv
<1>a. a \in Seq(DiffLines) /\ b \in Seq(DiffLines)
    BY <1>0 DEF Texts
<1>1. idx = 0
    BY TableEdge DEF WalkInv
<1>2. Longest \in Nat /\ Longest <= Len(a) /\ Longest <= Len(b)
    BY <1>0, TableBounds DEF Longest
<1>3. PICK f, g : Behind(f, g)
    BY Zenon DEF WalkInv
<1>4. /\ f \in [1 .. Longest -> (i + 1) .. Len(a)] /\ g \in [1 .. Longest -> (j + 1) .. Len(b)]
      /\ \A k, l \in 1 .. Longest : k < l => f[k] < f[l] /\ g[k] < g[l]
      /\ \A k \in 1 .. Longest : items[k] = a[f[k]] /\ items[k] = b[g[k]]
  <2>1. idx + 1 = 1
    BY <1>1
  <2> QED
    BY <1>3, <2>1, Zenon DEF Behind
<1>5. f \in [1 .. Longest -> 1 .. Len(a)] /\ g \in [1 .. Longest -> 1 .. Len(b)]
  <2>1. (i + 1) .. Len(a) \subseteq 1 .. Len(a) /\ (j + 1) .. Len(b) \subseteq 1 .. Len(b)
    BY <1>0 DEF WalkInv
  <2> QED
    BY <1>4, <2>1
<1>6. items \in [1 .. Longest -> DiffLines \cup {Unset}]
    BY DEF WalkInv
<1>7. items = [k \in 1 .. Longest |-> a[f[k]]] /\ items = [k \in 1 .. Longest |-> b[g[k]]]
    BY <1>4, <1>6
<1>8. Longest \in 0 .. Len(a) /\ Longest \in 0 .. Len(b)
    BY <1>0, <1>2
<1>p. Picks(f, Longest, a, items) /\ Picks(g, Longest, b, items)
    BY <1>4, <1>5, <1>7, Zenon DEF Picks
<1>9. items \in Subsequences(a)
    BY <1>a, <1>8, <1>p, SubsequenceOf
<1>10. items \in Subsequences(b)
    BY <1>a, <1>8, <1>p, SubsequenceOf
<1>11. Len(items) = Longest
    BY <1>2, <1>6
<1>12. ASSUME NEW s \in Subsequences(a), s \in Subsequences(b)
       PROVE  Len(s) <= Longest
  <2>1. PICK m \in 0 .. Len(a) : \E F : Picks(F, m, a, s)
    BY <1>a, SubsequencePick
  <2>2. PICK F : Picks(F, m, a, s)
    BY <2>1
  <2>3. PICK n \in 0 .. Len(b) : \E G : Picks(G, n, b, s)
    BY <1>a, <1>12, SubsequencePick
  <2>4. PICK G : Picks(G, n, b, s)
    BY <2>3
  <2>5. m \in Nat /\ n \in Nat
    BY <1>0
  <2>6. m = n
    <3>1. DOMAIN s = 1 .. m
      BY <2>2, Zenon DEF Picks
    <3>2. DOMAIN s = 1 .. n
      BY <2>4, Zenon DEF Picks
    <3>3. 1 .. m = 1 .. n
      BY <3>1, <3>2, Zenon
    <3>4. m <= n
      <4>1. CASE m = 0
        BY <2>5, <4>1
      <4>2. CASE m # 0
        <5>1. m \in 1 .. n
          BY <2>5, <3>3, <4>2
        <5> QED
          BY <2>5, <5>1
      <4> QED
        BY <4>1, <4>2
    <3>5. n <= m
      <4>1. CASE n = 0
        BY <2>5, <4>1
      <4>2. CASE n # 0
        <5>1. n \in 1 .. m
          BY <2>5, <3>3, <4>2
        <5> QED
          BY <2>5, <5>1
      <4> QED
        BY <4>1, <4>2
    <3> QED
      BY <2>5, <3>4, <3>5
  <2>7. \A k \in 1 .. m : s[k] = a[F[k]] /\ s[k] = b[G[k]]
    BY <2>2, <2>4, <2>6 DEF Picks
  <2>8. Matching(F, G, m, Len(a), Len(b))
    BY <2>2, <2>4, <2>6, <2>7, Zenon DEF Matching, Picks
  <2>9. Len(a) \in 0 .. Len(a) /\ Len(b) \in 0 .. Len(b)
    BY <1>0
  <2>10. m <= Longest
    BY <1>0, <2>5, <2>8, <2>9, TableIsLongest DEF Longest
  <2>11. Len(s) = m
    BY <2>2, <2>5 DEF Picks
  <2> QED
    BY <2>10, <2>11
<1> QED
    BY <1>1, <1>9, <1>10, <1>11, <1>12

\* lcs_lines of the diff tool: for any two texts with fewer lines than its table
\* has rows, however many those are, the walk back through the table fills every
\* item it allocated and returns a common subsequence that no other one exceeds.
THEOREM LongestCommon == DiffSpec => []LcsCorrect
<1>1. diff = "undefined" => LcsCorrect
    BY DEF LcsCorrect
<1> QED
    BY <1>1, WalkAlways, WalkIsLongest, PTL

-----------------------------------------------------------------------------
(* uniq: the groups of a text                                              *)

\* The members of Groups(s), by their two ends.
IsGroup(s, p, q) ==
    /\ p \in 1 .. Len(s) /\ q \in 1 .. Len(s) /\ p <= q
    /\ \A k \in p .. q : s[k] = s[p]
    /\ p = 1 \/ s[p - 1] # s[p]
    /\ q = Len(s) \/ s[q + 1] # s[q]

LEMMA GroupEnds ==
    ASSUME NEW s
    PROVE  /\ \A p, q : <<p, q>> \in Groups(s) <=> IsGroup(s, p, q)
           /\ \A g \in Groups(s) : g = <<g[1], g[2]>> /\ IsGroup(s, g[1], g[2])
<1>1. ASSUME NEW p, NEW q PROVE <<p, q>> \in Groups(s) <=> IsGroup(s, p, q)
    BY DEF Groups, IsGroup
<1>2. ASSUME NEW g \in Groups(s) PROVE g = <<g[1], g[2]>> /\ IsGroup(s, g[1], g[2])
    BY DEF Groups, IsGroup
<1> QED
    BY <1>1, <1>2

\* The groups before the last.
Closed(s) == {g \in Groups(s) : g[2] < Len(s)}

\* The last c lines of s, and no more, are equal.
LastGroup(s, c) ==
    /\ c \in 1 .. Len(s)
    /\ \A k \in (Len(s) - c + 1) .. Len(s) : s[k] = s[Len(s)]
    /\ c = Len(s) \/ s[Len(s) - c] # s[Len(s)]

LEMMA LastIsGroup ==
    ASSUME NEW s \in Seq(Lines), NEW c, LastGroup(s, c)
    PROVE  /\ Groups(s) = Closed(s) \cup {<<Len(s) - c + 1, Len(s)>>}
           /\ \A g \in Closed(s) : g[1] < Len(s) - c + 1
<1> DEFINE n == Len(s)
           m == Len(s) - c + 1
<1>0. n \in Nat /\ c \in Nat /\ m \in 1 .. n /\ c >= 1 /\ c <= n
    BY LenProperties DEF LastGroup
<1>1. \A k \in m .. n : s[k] = s[n]
    BY DEF LastGroup
<1>2. m = 1 \/ s[m - 1] # s[n]
  <2>1. c = n => m = 1
    BY <1>0
  <2>2. n - c = m - 1
    BY <1>0
  <2> QED
    BY <2>1, <2>2 DEF LastGroup
<1> HIDE DEF m
<1>3. IsGroup(s, m, n)
    BY <1>0, <1>1, <1>2 DEF IsGroup
<1>4. ASSUME NEW p, IsGroup(s, p, n) PROVE p = m
  <2>1. p \in 1 .. n /\ (\A k \in p .. n : s[k] = s[p]) /\ (p = 1 \/ s[p - 1] # s[p])
    BY <1>4 DEF IsGroup
  <2>2. s[n] = s[p]
    BY <1>0, <2>1
  <2>3. ~(p < m)
    <3> SUFFICES ASSUME p < m PROVE FALSE
      OBVIOUS
    <3>1. m - 1 \in p .. n /\ m # 1
      BY <1>0, <2>1
    <3> QED
      BY <1>2, <2>1, <2>2, <3>1
  <2>4. ~(p > m)
    <3> SUFFICES ASSUME p > m PROVE FALSE
      OBVIOUS
    <3>1. p - 1 \in m .. n /\ p \in m .. n /\ p # 1
      BY <1>0, <2>1
    <3> QED
      BY <1>1, <2>1, <3>1
  <2> QED
    BY <1>0, <2>1, <2>3, <2>4
<1>5. ASSUME NEW g \in Closed(s) PROVE g[1] < m
  <2>1. IsGroup(s, g[1], g[2]) /\ g[2] < n
    BY GroupEnds DEF Closed
  <2>2. g[1] \in 1 .. n /\ g[2] \in 1 .. n /\ g[1] <= g[2] /\ s[g[2] + 1] # s[g[2]]
    BY <1>0, <2>1 DEF IsGroup
  <2> SUFFICES ASSUME ~(g[1] < m) PROVE FALSE
    OBVIOUS
  <2>3. g[2] \in m .. n /\ g[2] + 1 \in m .. n
    BY <1>0, <2>1, <2>2
  <2> QED
    BY <1>1, <2>2, <2>3
<1>6. ASSUME NEW g \in Groups(s) PROVE g \in Closed(s) \cup {<<m, n>>}
  <2>1. g = <<g[1], g[2]>> /\ IsGroup(s, g[1], g[2])
    BY GroupEnds
  <2>2. CASE g[2] = n
    BY <1>4, <2>1, <2>2
  <2>3. CASE g[2] # n
    <3>1. g[2] < n
      BY <1>0, <2>1, <2>3 DEF IsGroup
    <3> QED
      BY <3>1 DEF Closed
  <2> QED
    BY <2>2, <2>3
<1>7. <<m, n>> \in Groups(s)
    BY <1>3, GroupEnds
<1>8. Closed(s) \subseteq Groups(s)
    BY DEF Closed
<1>9. Groups(s) = Closed(s) \cup {<<m, n>>}
    BY <1>6, <1>7, <1>8
<1> QED
    BY <1>5, <1>9 DEF m

\* A line that differs closes every group; a line that does not, none.
LEMMA NextLine ==
    ASSUME NEW s \in Seq(Lines), NEW line \in Lines, s # <<>>
    PROVE  Closed(Append(s, line)) = IF line = s[Len(s)] THEN Closed(s) ELSE Groups(s)
<1> DEFINE n == Len(s)
           t == Append(s, line)
<1>0. n \in Nat /\ n >= 1 /\ Len(t) = n + 1 /\ t[n + 1] = line
      /\ \A k \in 1 .. n : t[k] = s[k]
    BY LenProperties, AppendProperties, EmptySeq
<1> HIDE DEF n, t
<1>1. ASSUME NEW p, NEW q \in 1 .. n, q < n \/ line # s[n]
      PROVE  IsGroup(t, p, q) <=> IsGroup(s, p, q)
  <2>1. CASE p \in 1 .. n
    <3>1. /\ \A k \in p .. q : k \in 1 .. n
          /\ p # 1 => p - 1 \in 1 .. n
          /\ q < n => q + 1 \in 1 .. n
          /\ p \in 1 .. Len(t) /\ q \in 1 .. Len(t) /\ q # Len(t)
      BY <1>0, <2>1
    <3>2. (\A k \in p .. q : t[k] = t[p]) <=> (\A k \in p .. q : s[k] = s[p])
      BY <1>0, <2>1, <3>1
    <3>3. (p = 1 \/ t[p - 1] # t[p]) <=> (p = 1 \/ s[p - 1] # s[p])
      BY <1>0, <2>1, <3>1
    <3>4. (q = Len(t) \/ t[q + 1] # t[q]) <=> (q = n \/ s[q + 1] # s[q])
      <4>1. CASE q < n
        BY <1>0, <3>1, <4>1
      <4>2. CASE q = n
        BY <1>0, <1>1, <3>1, <4>2
      <4> QED
        BY <1>0, <4>1, <4>2
    <3> QED
      BY <1>0, <2>1, <3>1, <3>2, <3>3, <3>4 DEF IsGroup, n
  <2>2. CASE p \notin 1 .. n
    <3>1. ~IsGroup(s, p, q)
      BY <2>2 DEF IsGroup, n
    <3>2. ~IsGroup(t, p, q)
      BY <1>0, <2>2 DEF IsGroup
    <3> QED
      BY <3>1, <3>2
  <2> QED
    BY <2>1, <2>2
<1>2. CASE line = s[n]
  <2>1. ASSUME NEW g PROVE g \in Closed(t) <=> g \in Closed(s)
    <3>1. ASSUME g \in Closed(t) PROVE g \in Closed(s)
      <4>1. g = <<g[1], g[2]>> /\ IsGroup(t, g[1], g[2]) /\ g[2] < n + 1
        BY <1>0, <3>1, GroupEnds DEF Closed
      <4>2. g[2] \in 1 .. n /\ g[2] # n
        <5>1. g[2] \in 1 .. n /\ (g[2] = n + 1 \/ t[g[2] + 1] # t[g[2]])
          BY <1>0, <4>1 DEF IsGroup
        <5> QED
          BY <1>0, <1>2, <5>1
      <4>3. g[2] < n
        BY <1>0, <4>2
      <4>4. IsGroup(s, g[1], g[2])
        BY <1>1, <4>1, <4>2, <4>3
      <4> QED
        BY <4>1, <4>3, <4>4, GroupEnds DEF Closed, n
    <3>2. ASSUME g \in Closed(s) PROVE g \in Closed(t)
      <4>1. g = <<g[1], g[2]>> /\ IsGroup(s, g[1], g[2]) /\ g[2] < n
        BY <3>2, GroupEnds DEF Closed, n
      <4>2. g[2] \in 1 .. n /\ g[2] < n + 1
        BY <1>0, <4>1 DEF IsGroup, n
      <4>3. IsGroup(t, g[1], g[2])
        BY <1>1, <4>1, <4>2
      <4> QED
        BY <1>0, <4>1, <4>2, <4>3, GroupEnds DEF Closed
    <3> QED
      BY <3>1, <3>2
  <2>2. Closed(t) = Closed(s)
    BY <2>1
  <2> QED
    BY <1>2, <2>2 DEF t, n
<1>3. CASE line # s[n]
  <2>1. ASSUME NEW g PROVE g \in Closed(t) <=> g \in Groups(s)
    <3>1. ASSUME g \in Closed(t) PROVE g \in Groups(s)
      <4>1. g = <<g[1], g[2]>> /\ IsGroup(t, g[1], g[2]) /\ g[2] < n + 1
        BY <1>0, <3>1, GroupEnds DEF Closed
      <4>2. g[2] \in 1 .. n
        BY <1>0, <4>1 DEF IsGroup
      <4>3. IsGroup(s, g[1], g[2])
        BY <1>1, <1>3, <4>1, <4>2
      <4> QED
        BY <4>1, <4>3, GroupEnds
    <3>2. ASSUME g \in Groups(s) PROVE g \in Closed(t)
      <4>1. g = <<g[1], g[2]>> /\ IsGroup(s, g[1], g[2])
        BY <3>2, GroupEnds
      <4>2. g[2] \in 1 .. n /\ g[2] < n + 1
        BY <1>0, <4>1 DEF IsGroup, n
      <4>3. IsGroup(t, g[1], g[2])
        BY <1>1, <1>3, <4>1, <4>2
      <4> QED
        BY <1>0, <4>1, <4>2, <4>3, GroupEnds DEF Closed
    <3> QED
      BY <3>1, <3>2
  <2>2. Closed(t) = Groups(s)
    BY <2>1
  <2> QED
    BY <1>3, <2>2 DEF t, n
<1> QED
    BY <1>2, <1>3

\* The first line closes nothing.
LEMMA FirstLine ==
    ASSUME NEW line \in Lines
    PROVE  Closed(Append(<<>>, line)) = {} /\ Closed(<<>>) = {} /\ Groups(<<>>) = {}
<1>1. Len(<<>>) = 0 /\ Len(Append(<<>>, line)) = 1
    BY AppendProperties
<1>2. \A g \in Groups(<<>>) : FALSE
    BY <1>1, GroupEnds DEF IsGroup
<1>3. ASSUME NEW g \in Closed(Append(<<>>, line)) PROVE FALSE
  <2>1. g[2] \in 1 .. 1 /\ g[2] < 1
    BY <1>1, GroupEnds DEF IsGroup, Closed
  <2> QED
    BY <2>1
<1> QED
    BY <1>2, <1>3 DEF Closed

-----------------------------------------------------------------------------
(* What was written                                                        *)

Entries == Seq(Nat \cup Lines)

ClosedAsked(s) == {g \in Closed(s) : ShouldPrint(g[2] - g[1] + 1)}

\* One more group, behind those already listed.
LEMMA ListOneMore ==
    ASSUME NEW s, NEW W, NEW g, NEW out \in Seq(Entries), IsFiniteSet(W), Lists(out, W, s),
           NEW e \in Entries, e = Shown(g[2] - g[1] + 1, s[g[1]]),
           g[1] \in Nat, \A h \in W : h[1] \in Nat /\ h[1] < g[1]
    PROVE  IsFiniteSet(W \cup {g}) /\ Lists(Append(out, e), W \cup {g}, s)
<1> DEFINE V == W \cup {g}
           upto(X, x) == {h \in X : h[1] <= x[1]}
<1>0. g \notin W /\ Len(out) = Cardinality(W) /\ Cardinality(W) \in Nat
    BY FS_CardinalityType DEF Lists
<1>1. IsFiniteSet(V) /\ Cardinality(V) = Cardinality(W) + 1
    BY <1>0, FS_AddElement
<1>2. /\ Len(Append(out, e)) = Cardinality(V) /\ Append(out, e)[Cardinality(W) + 1] = e
      /\ \A k \in 1 .. Cardinality(W) : Append(out, e)[k] = out[k]
    BY <1>0, <1>1, AppendProperties
<1>3. ASSUME NEW x \in W
      PROVE  Append(out, e)[Cardinality(upto(V, x))] = Shown(x[2] - x[1] + 1, s[x[1]])
  <2>1. upto(V, x) = upto(W, x)
    BY <1>3
  <2>2. upto(W, x) \in SUBSET W /\ x \in upto(W, x)
    BY <1>3
  <2> DEFINE U == upto(W, x)
  <2>3. U \in SUBSET W /\ x \in U /\ out[Cardinality(U)] = Shown(x[2] - x[1] + 1, s[x[1]])
    BY <2>2 DEF Lists
  <2>u. U = upto(V, x)
    BY <2>1
  <2> HIDE DEF U
  <2>4. IsFiniteSet(U) /\ Cardinality(U) <= Cardinality(W)
    BY <2>3, FS_Subset
  <2>5. Cardinality(U) \in Nat /\ Cardinality(U) # 0
    BY <2>3, <2>4, FS_CardinalityType, FS_EmptySet
  <2>6. Append(out, e)[Cardinality(U)] = out[Cardinality(U)]
    BY <1>0, <1>2, <2>4, <2>5
  <2> QED
    BY <2>3, <2>6, <2>u
<1>4. upto(V, g) = V
    BY <1>0
<1>5. Append(out, e)[Cardinality(upto(V, g))] = Shown(g[2] - g[1] + 1, s[g[1]])
    BY <1>1, <1>2, <1>4
<1>6. \A x \in V : Append(out, e)[Cardinality(upto(V, x))] = Shown(x[2] - x[1] + 1, s[x[1]])
    BY <1>3, <1>5
<1> QED
    BY <1>1, <1>2, <1>6 DEF Lists

\* Closing the last group of s, of c lines: it is listed if it was asked for.
LEMMA CloseLast ==
    ASSUME NEW s \in Seq(Lines), NEW c, LastGroup(s, c), NEW out \in Seq(Entries),
           IsFiniteSet(ClosedAsked(s)), Lists(out, ClosedAsked(s), s)
    PROVE  /\ IsFiniteSet(Asked(s))
           /\ Printed(c, s[Len(s)]) \in Seq(Entries)
           /\ Lists(out \o Printed(c, s[Len(s)]), Asked(s), s)
<1> DEFINE n == Len(s)
           g == <<n - c + 1, n>>
           e == Shown(c, s[n])
<1>0. n \in Nat /\ c \in 1 .. n /\ c \in Nat
    BY LenProperties DEF LastGroup
<1>1. g[1] = n - c + 1 /\ g[2] = n /\ g[2] - g[1] + 1 = c /\ g[1] \in Nat
    BY <1>0
<1>2. s[g[1]] = s[n] /\ s[n] \in Lines
  <2>1. n - c + 1 \in (Len(s) - c + 1) .. Len(s) /\ n \in 1 .. Len(s)
    BY <1>0
  <2>2. s[n - c + 1] = s[n]
    BY <2>1 DEF LastGroup
  <2>3. s[n] \in Lines
    BY <2>1
  <2> QED
    BY <1>1, <2>2, <2>3
<1>3. e \in Entries
  <2> DEFINE line == s[n]
  <2>1. line \in Lines
    BY <1>2
  <2> HIDE DEF line
  <2>2. <<c, line>> \in Entries /\ <<line>> \in Entries
    BY <1>0, <2>1 DEF Entries
  <2> QED
    BY <2>2 DEF Shown, line
<1>4. Groups(s) = Closed(s) \cup {g} /\ \A h \in Closed(s) : h[1] < g[1]
    BY <1>1, LastIsGroup
<1>5. \A h \in Closed(s) : h[1] \in Nat
    BY <1>0, GroupEnds DEF Closed, IsGroup
<1>6. e = Shown(g[2] - g[1] + 1, s[g[1]])
    BY <1>1, <1>2
<1> HIDE DEF g, e
<1>7. CASE ShouldPrint(c)
  <2>1. Asked(s) = ClosedAsked(s) \cup {g}
    BY <1>1, <1>4, <1>7 DEF Asked, ClosedAsked
  <2>2. \A h \in ClosedAsked(s) : h[1] \in Nat /\ h[1] < g[1]
    BY <1>4, <1>5 DEF ClosedAsked
  <2> DEFINE W == ClosedAsked(s)
  <2>w. IsFiniteSet(W) /\ Lists(out, W, s) /\ \A h \in W : h[1] \in Nat /\ h[1] < g[1]
    BY <2>2
  <2> HIDE DEF W
  <2>g. g[1] \in Nat
    BY <1>1
  <2>v. IsFiniteSet(W \cup {g}) /\ Lists(Append(out, e), W \cup {g}, s)
    BY <1>3, <1>6, <2>g, <2>w, ListOneMore
  <2>3. IsFiniteSet(Asked(s)) /\ Lists(Append(out, e), Asked(s), s)
    BY <2>1, <2>v DEF W
  <2>4. Printed(c, s[Len(s)]) = <<e>>
    BY <1>7 DEF Printed, e
  <2>5. out \o <<e>> = Append(out, e) /\ <<e>> \in Seq(Entries)
    BY <1>3, AppendIsConcat
  <2> QED
    BY <2>3, <2>4, <2>5
<1>8. CASE ~ShouldPrint(c)
  <2>1. Asked(s) = ClosedAsked(s)
    BY <1>1, <1>4, <1>8 DEF Asked, ClosedAsked
  <2>2. Printed(c, s[Len(s)]) = <<>>
    BY <1>8 DEF Printed
  <2>3. out \o <<>> = out /\ <<>> \in Seq(Entries)
    BY ConcatEmptySeq
  <2> QED
    BY <2>1, <2>2, <2>3
<1> QED
    BY <1>7, <1>8

\* What a further line makes of the last group.
LEMMA LastGroupNext ==
    ASSUME NEW s \in Seq(Lines), NEW line \in Lines, NEW c, LastGroup(s, c)
    PROVE  /\ s # <<>> /\ s[Len(s)] \in Lines
           /\ LastGroup(Append(s, line), IF line = s[Len(s)] THEN c + 1 ELSE 1)
<1> DEFINE n == Len(s)
           t == Append(s, line)
<1>0. n \in Nat /\ Len(t) = n + 1 /\ t[n + 1] = line /\ \A k \in 1 .. n : t[k] = s[k]
    BY LenProperties, AppendProperties
<1>1. /\ c \in 1 .. n /\ (\A k \in (n - c + 1) .. n : s[k] = s[n])
      /\ c = n \/ s[n - c] # s[n]
    BY DEF LastGroup
<1>2. s # <<>> /\ s[n] \in Lines /\ t[n] = s[n] /\ n >= 1
  <2>1. n >= 1
    BY <1>0, <1>1
  <2> QED
    BY <1>0, <2>1
<1> HIDE DEF n, t
<1>3. CASE line = s[n]
  <2>1. c + 1 \in 1 .. (n + 1) /\ (n + 1) - (c + 1) + 1 = n - c + 1 /\ (n + 1) - (c + 1) = n - c
    BY <1>0, <1>1
  <2>2. \A k \in (n - c + 1) .. (n + 1) : t[k] = t[n + 1]
    <3> TAKE k \in (n - c + 1) .. (n + 1)
    <3>1. CASE k = n + 1
      BY <3>1
    <3>2. CASE k # n + 1
      <4>1. k \in (n - c + 1) .. n /\ k \in 1 .. n
        BY <1>0, <1>1, <3>2
      <4> QED
        BY <1>0, <1>1, <1>3, <4>1
    <3> QED
      BY <3>1, <3>2
  <2>3. c + 1 = n + 1 \/ t[n - c] # t[n + 1]
    <3>1. CASE c = n
      BY <3>1
    <3>2. CASE c # n
      <4>1. n - c \in 1 .. n
        BY <1>0, <1>1, <3>2
      <4> QED
        BY <1>0, <1>1, <1>3, <3>2, <4>1
    <3> QED
      BY <3>1, <3>2
  <2>4. LastGroup(t, c + 1)
    BY <1>0, <2>1, <2>2, <2>3 DEF LastGroup
  <2> QED
    BY <1>2, <1>3, <2>4 DEF n, t
<1>4. CASE line # s[n]
  <2>1. 1 \in 1 .. (n + 1) /\ (n + 1) - 1 + 1 = n + 1 /\ (n + 1) - 1 = n
    BY <1>0
  <2>2. \A k \in (n + 1) .. (n + 1) : t[k] = t[n + 1]
    BY <1>0
  <2>3. t[n] # t[n + 1]
    BY <1>0, <1>2, <1>4
  <2>4. LastGroup(t, 1)
    BY <1>0, <2>1, <2>2, <2>3 DEF LastGroup
  <2> QED
    BY <1>2, <1>4, <2>4 DEF n, t
<1> QED
    BY <1>3, <1>4

\* The list only looks at the lines its groups begin with.
LEMMA ListsLonger ==
    ASSUME NEW s \in Seq(Lines), NEW line \in Lines, NEW W, NEW out, Lists(out, W, s),
           W \subseteq Groups(s)
    PROVE  Lists(out, W, Append(s, line))
<1>1. \A g \in W : g[1] \in 1 .. Len(s)
    BY GroupEnds DEF IsGroup
<1>2. \A g \in W : Append(s, line)[g[1]] = s[g[1]]
    BY <1>1, AppendProperties
<1> QED
    BY <1>2 DEF Lists

-----------------------------------------------------------------------------
(* The loop                                                                *)

\* count is the length of the group the input ends with; the groups before it
\* are written.  One of the two outputs is still empty.
UniqInv ==
    /\ input \in Seq(Lines) /\ outfile \in Seq(Entries) /\ stdout \in Seq(Entries)
    /\ UniqCorrect
    /\ uniq \in {"open", "read"} =>
          /\ IF opts.out THEN stdout = <<>> ELSE outfile = <<>>
          /\ IF count = 0 THEN input = <<>> /\ prev = NoLine
             ELSE LastGroup(input, count) /\ prev = input[Len(input)]
          /\ IsFiniteSet(ClosedAsked(input))
          /\ Lists(outfile \o stdout, ClosedAsked(input), input)

LEMMA UniqStarts == UniqInit => UniqInv
<1> SUFFICES ASSUME UniqInit PROVE UniqInv
    OBVIOUS
<1>1. /\ input = <<>> /\ prev = NoLine /\ count = 0
      /\ outfile = <<>> /\ stdout = <<>> /\ uniq = "open"
    BY DEF UniqInit
<1>2. Groups(<<>>) = {}
  <2>1. Len(<<>>) = 0
    OBVIOUS
  <2> QED
    BY <2>1, GroupEnds DEF IsGroup
<1>3. ClosedAsked(input) = {}
    BY <1>1, <1>2 DEF ClosedAsked, Closed
<1>4. IsFiniteSet({}) /\ Cardinality({}) = 0
    BY FS_EmptySet
<1>5. Lists(outfile \o stdout, {}, input)
    BY <1>1, <1>4 DEF Lists
<1> QED
    BY <1>1, <1>3, <1>4, <1>5 DEF UniqInv, UniqCorrect

LEMMA UniqSteps == UniqInv /\ [UniqNext]_uniqVars => UniqInv'
<1> SUFFICES ASSUME UniqInv, [UniqNext]_uniqVars PROVE UniqInv'
    OBVIOUS
<1>o. opts' = opts
    BY DEF UniqNext, OpenFails, Open, ReadEnd, ReadLine, uniqVars
<1>s. ASSUME NEW s PROVE Asked(s)' = Asked(s) /\ ClosedAsked(s)' = ClosedAsked(s)
    BY <1>o DEF Asked, ClosedAsked, ShouldPrint
<1>l. ASSUME NEW out, NEW W, NEW s, Lists(out, W, s) PROVE Lists(out, W, s)'
    BY <1>o, <1>l DEF Lists, Shown
<1>0. input \in Seq(Lines) /\ outfile \in Seq(Entries) /\ stdout \in Seq(Entries)
    BY DEF UniqInv
<1>v. PICK s, o, d : s = input /\ o = outfile /\ d = stdout
    BY Zenon
<1>t. s \in Seq(Lines) /\ o \in Seq(Entries) /\ d \in Seq(Entries) /\ o \o d \in Seq(Entries)
    BY <1>0, <1>v, ConcatProperties
<1>1. CASE OpenFails \/ Open \/ UNCHANGED uniqVars
  <2>1. /\ input' = s /\ outfile' = o /\ stdout' = d /\ prev' = prev /\ count' = count
        /\ uniq' = "done" => uniq = "done"
        /\ uniq' \in {"open", "read"} => uniq \in {"open", "read"}
    BY <1>1, <1>v DEF OpenFails, Open, uniqVars
  <2>2. UniqCorrect'
    <3> SUFFICES ASSUME uniq' = "done" PROVE Lists(o \o d, Asked(s), s)'
      BY <2>1 DEF UniqCorrect
    <3>1. Lists(o \o d, Asked(s), s)
      BY <1>v, <2>1 DEF UniqInv, UniqCorrect
    <3>2. PICK W, out : W = Asked(s) /\ out = o \o d
      BY Zenon
    <3>3. Lists(out, W, s)'
      BY <1>l, <3>1, <3>2
    <3>4. Asked(s)' = W
      BY <1>s, <3>2
    <3> QED
      BY <3>2, <3>3, <3>4 DEF Lists
  <2>3. ASSUME uniq' \in {"open", "read"}
        PROVE  IsFiniteSet(ClosedAsked(s))' /\ Lists(o \o d, ClosedAsked(s), s)'
    <3>1. IsFiniteSet(ClosedAsked(s)) /\ Lists(o \o d, ClosedAsked(s), s)
      BY <1>v, <2>1, <2>3 DEF UniqInv
    <3>2. PICK W, out : W = ClosedAsked(s) /\ out = o \o d
      BY Zenon
    <3>3. Lists(out, W, s)'
      BY <1>l, <3>1, <3>2
    <3>4. ClosedAsked(s)' = W
      BY <1>s, <3>2
    <3> QED
      BY <3>1, <3>2, <3>3, <3>4 DEF Lists
  <2>4. ASSUME uniq' \in {"open", "read"}
        PROVE  /\ IF opts'.out THEN stdout' = <<>> ELSE outfile' = <<>>
               /\ IF count' = 0 THEN input' = <<>> /\ prev' = NoLine
                  ELSE LastGroup(input', count') /\ prev' = input'[Len(input')]
    BY <1>o, <1>v, <2>1, <2>4 DEF UniqInv
  <2> QED
    BY <1>t, <2>1, <2>2, <2>3, <2>4 DEF UniqInv
<1>2. ASSUME NEW line \in Lines, ReadLine(line) PROVE UniqInv'
  <2>0. /\ uniq = "read" /\ uniq' = "read" /\ prev' = line /\ input' = Append(s, line)
        /\ IF opts.out THEN d = <<>> ELSE o = <<>>
        /\ IF count = 0 THEN s = <<>> /\ prev = NoLine
           ELSE LastGroup(s, count) /\ prev = s[Len(s)]
        /\ IsFiniteSet(ClosedAsked(s)) /\ Lists(o \o d, ClosedAsked(s), s)
    BY <1>2, <1>v DEF ReadLine, UniqInv
  <2>t. PICK t : t = Append(s, line)
    BY Zenon
  <2>u. t \in Seq(Lines) /\ t # <<>> /\ t[Len(t)] = line /\ input' = t
    <3>1. t \in Seq(Lines) /\ t # <<>> /\ t[Len(t)] = line
      BY <1>t, <2>t, AppendProperties
    <3> QED
      BY <2>0, <2>t, <3>1, Zenon
  <2>h. ASSUME NEW oo \in Seq(Entries), NEW dd \in Seq(Entries), outfile' = oo, stdout' = dd,
               IF opts.out THEN dd = <<>> ELSE oo = <<>>,
               count' # 0, LastGroup(t, count'),
               IsFiniteSet(ClosedAsked(t)), Lists(oo \o dd, ClosedAsked(t), t)
        PROVE  UniqInv'
    <3>1. PICK W, out : W = ClosedAsked(t) /\ out = oo \o dd
      BY Zenon
    <3>2. Lists(out, W, t)'
      BY <1>l, <2>h, <3>1
    <3>3. ClosedAsked(t)' = W
      BY <1>s, <3>1
    <3>4. IsFiniteSet(ClosedAsked(input))' /\ Lists(outfile \o stdout, ClosedAsked(input), input)'
      <4>1. (outfile \o stdout)' = out /\ ClosedAsked(input)' = W
        BY <2>h, <2>u, <3>1, <3>3
      <4> QED
        BY <2>h, <2>u, <3>1, <3>2, <4>1 DEF Lists
    <3>5. IF opts'.out THEN stdout' = <<>> ELSE outfile' = <<>>
      BY <1>o, <2>h
    <3>6. LastGroup(input', count') /\ prev' = input'[Len(input')]
      BY <2>0, <2>h, <2>u
    <3>7. UniqCorrect'
      BY <2>0 DEF UniqCorrect
    <3> QED
      BY <2>h, <2>u, <3>4, <3>5, <3>6, <3>7 DEF UniqInv
  <2>1. CASE count = 0
    <3>1. count' = 1 /\ outfile' = o /\ stdout' = d /\ s = <<>>
      BY <1>2, <1>v, <2>0, <2>1 DEF ReadLine, SameLine
    <3>2. LastGroup(t, 1)
      BY <2>t, <2>u, <3>1 DEF LastGroup
    <3>3. Closed(t) = {} /\ Closed(s) = {}
      BY <2>t, <3>1, FirstLine
    <3>4. ClosedAsked(t) = ClosedAsked(s) /\ ClosedAsked(s) = {}
      BY <3>3 DEF ClosedAsked
    <3>5. Lists(o \o d, ClosedAsked(t), t)
      BY <2>0, <3>4 DEF Lists
    <3> QED
      BY <1>t, <2>0, <2>h, <3>1, <3>2, <3>4, <3>5
  <2>2. CASE count # 0
    <3>c. PICK c : c = count
      BY Zenon
    <3>0. LastGroup(s, c) /\ c \in Nat /\ prev = s[Len(s)]
      <4>1. LastGroup(s, c) /\ prev = s[Len(s)]
        BY <2>0, <2>2, <3>c
      <4> QED
        BY <4>1 DEF LastGroup
    <3>1. s # <<>> /\ prev \in Lines /\ prev # NoLine
          /\ LastGroup(t, IF line = prev THEN c + 1 ELSE 1)
      BY <1>t, <2>t, <3>0, LastGroupNext, NoLineAssumption
    <3>2. Closed(t) = IF line = prev THEN Closed(s) ELSE Groups(s)
      BY <1>t, <2>t, <3>0, <3>1, NextLine
    <3>3. CASE line = prev
      <4>1. count' = c + 1 /\ outfile' = o /\ stdout' = d
        BY <1>2, <1>v, <3>c, <3>3 DEF ReadLine, SameLine
      <4>2. ClosedAsked(t) = ClosedAsked(s)
        BY <3>2, <3>3 DEF ClosedAsked
      <4>3. ClosedAsked(s) \subseteq Groups(s)
        BY DEF ClosedAsked, Closed
      <4>4. PICK W, out : W = ClosedAsked(s) /\ out = o \o d
        BY Zenon
      <4>5. Lists(out, W, t)
        BY <1>t, <2>0, <2>t, <4>3, <4>4, ListsLonger
      <4>6. LastGroup(t, count') /\ count' # 0
        BY <3>0, <3>1, <3>3, <4>1
      <4> QED
        BY <1>t, <2>0, <2>h, <4>1, <4>2, <4>4, <4>5, <4>6
    <3>4. CASE line # prev
      <4> DEFINE P == Printed(c, prev)
      <4>1. /\ count' = 1
            /\ IF opts.out THEN outfile' = o \o P /\ stdout' = d
               ELSE stdout' = d \o P /\ outfile' = o
        BY <1>2, <1>v, <3>1, <3>c, <3>4 DEF ReadLine, NewLine
      <4>2. ClosedAsked(t) = Asked(s)
        BY <3>2, <3>4 DEF ClosedAsked, Asked
      <4>3. /\ IsFiniteSet(Asked(s)) /\ P \in Seq(Entries)
            /\ Lists((o \o d) \o P, Asked(s), s)
        BY <1>t, <2>0, <3>0, CloseLast
      <4>4. Asked(s) \subseteq Groups(s)
        BY DEF Asked
      <4> HIDE DEF P
      <4>5. Lists((o \o d) \o P, Asked(s), t)
        <5>1. PICK W, out : W = Asked(s) /\ out = (o \o d) \o P
          BY Zenon
        <5>2. Lists(out, W, t)
          BY <1>t, <2>t, <4>3, <4>4, <5>1, ListsLonger
        <5> QED
          BY <5>1, <5>2
      <4>6. CASE opts.out
        <5>1. d = <<>> /\ outfile' = o \o P /\ stdout' = d
          BY <2>0, <4>1, <4>6
        <5>2. (o \o P) \in Seq(Entries) /\ (o \o P) \o d = (o \o d) \o P
          BY <1>t, <4>3, <5>1, ConcatProperties, ConcatEmptySeq
        <5>3. Lists((o \o P) \o d, ClosedAsked(t), t)
          BY <4>2, <4>5, <5>2
        <5>4. PICK oo : oo = o \o P
          BY Zenon
        <5>5. /\ oo \in Seq(Entries) /\ d \in Seq(Entries) /\ outfile' = oo /\ stdout' = d
              /\ IF opts.out THEN d = <<>> ELSE oo = <<>>
          BY <1>t, <4>6, <5>1, <5>2, <5>4
        <5>6. count' # 0 /\ LastGroup(t, count')
          BY <3>1, <3>4, <4>1
        <5>7. IsFiniteSet(ClosedAsked(t)) /\ Lists(oo \o d, ClosedAsked(t), t)
          BY <4>2, <4>3, <5>3, <5>4
        <5> QED
          BY <2>h, <5>5, <5>6, <5>7
      <4>7. CASE ~opts.out
        <5>1. o = <<>> /\ outfile' = o /\ stdout' = d \o P
          BY <2>0, <4>1, <4>7
        <5>2. (d \o P) \in Seq(Entries) /\ o \o (d \o P) = (o \o d) \o P
          BY <1>t, <4>3, <5>1, ConcatProperties, ConcatEmptySeq
        <5>3. Lists(o \o (d \o P), ClosedAsked(t), t)
          BY <4>2, <4>5, <5>2
        <5>4. PICK dd : dd = d \o P
          BY Zenon
        <5>5. /\ o \in Seq(Entries) /\ dd \in Seq(Entries) /\ outfile' = o /\ stdout' = dd
              /\ IF opts.out THEN dd = <<>> ELSE o = <<>>
          BY <1>t, <4>7, <5>1, <5>2, <5>4
        <5>6. count' # 0 /\ LastGroup(t, count')
          BY <3>1, <3>4, <4>1
        <5>7. IsFiniteSet(ClosedAsked(t)) /\ Lists(o \o dd, ClosedAsked(t), t)
          BY <4>2, <4>3, <5>3, <5>4
        <5> QED
          BY <2>h, <5>5, <5>6, <5>7
      <4> QED
        BY <4>6, <4>7
    <3> QED
      BY <3>3, <3>4
  <2> QED
    BY <2>1, <2>2
<1>3. CASE ReadEnd
  <2>0. /\ uniq = "read" /\ uniq' = "done" /\ input' = s /\ outfile' = o
        /\ stdout' = IF count > 0 THEN d \o Printed(count, prev) ELSE d
        /\ IF count = 0 THEN s = <<>> /\ prev = NoLine
           ELSE LastGroup(s, count) /\ prev = s[Len(s)]
        /\ IsFiniteSet(ClosedAsked(s)) /\ Lists(o \o d, ClosedAsked(s), s)
    BY <1>3, <1>v DEF ReadEnd, UniqInv
  <2>1. /\ stdout' \in Seq(Entries)
        /\ Lists(o \o stdout', Asked(s), s)
    <3>1. CASE count = 0
      <4>1. s = <<>> /\ stdout' = d
        BY <2>0, <3>1
      <4>2. Groups(s) = {}
        <5>1. Len(<<>>) = 0
          OBVIOUS
        <5> QED
          BY <4>1, <5>1, GroupEnds DEF IsGroup
      <4>3. Asked(s) = ClosedAsked(s)
        BY <4>2 DEF Asked, ClosedAsked, Closed
      <4> QED
        BY <1>t, <2>0, <4>1, <4>3
    <3>2. CASE count # 0
      <4>c. PICK c : c = count
        BY Zenon
      <4>0. LastGroup(s, c) /\ c \in Nat /\ c > 0 /\ prev = s[Len(s)]
        <5>1. LastGroup(s, c) /\ prev = s[Len(s)]
          BY <2>0, <3>2, <4>c
        <5>2. c \in 1 .. Len(s) /\ Len(s) \in Nat
          BY <1>t, <5>1, LenProperties DEF LastGroup
        <5> QED
          BY <5>1, <5>2
      <4> DEFINE P == Printed(c, prev)
      <4>1. P \in Seq(Entries) /\ Lists((o \o d) \o P, Asked(s), s)
        BY <1>t, <2>0, <4>0, CloseLast
      <4>2. stdout' = d \o P
        BY <2>0, <4>0, <4>c
      <4> HIDE DEF P
      <4>3. d \o P \in Seq(Entries) /\ o \o (d \o P) = (o \o d) \o P
        <5>1. d \o P \in Seq(Entries)
          BY <1>t, <4>1, ConcatProperties
        <5>2. o \in Seq(Entries) /\ d \in Seq(Entries) /\ P \in Seq(Entries)
          BY <1>t, <4>1
        <5>3. o \o (d \o P) = (o \o d) \o P
          BY <5>2, ConcatAssociative
        <5> QED
          BY <5>1, <5>3
      <4> QED
        BY <4>1, <4>2, <4>3
    <3> QED
      BY <3>1, <3>2
  <2>2. PICK out, W : out = o \o stdout' /\ W = Asked(s)
    BY Zenon
  <2>3. Lists(out, W, s)'
    BY <1>l, <2>1, <2>2
  <2>4. Lists(outfile \o stdout, Asked(input), input)'
    <3>1. (outfile \o stdout)' = out /\ Asked(input)' = W
      BY <1>s, <2>0, <2>2
    <3> QED
      BY <2>0, <2>3, <3>1 DEF Lists
  <2> QED
    BY <1>t, <2>0, <2>1, <2>4 DEF UniqInv, UniqCorrect
<1> QED
    BY <1>1, <1>2, <1>3 DEF UniqNext

\* uniq: whatever the lines and the options, every group that they ask for is
\* written once, in order and with its count, the last one by the code behind
\* the loop; the output file and stdout, one after the other, have them all.
THEOREM EveryGroupOnce == UniqSpec => []UniqCorrect
<1>1. UniqInv => UniqCorrect
    BY DEF UniqInv
<1> QED
    BY <1>1, UniqStarts, UniqSteps, PTL DEF UniqSpec

-----------------------------------------------------------------------------
(* The cask log: what is in the files                                      *)

Bytes == Seq(CaskBytes)

\* An entry of the index: the value is in its file, byte for byte.
Stored(e) ==
    /\ e.file \in Casks /\ cask[e.file] \in Bytes
    /\ e.pos \in Nat /\ e.value \in Bytes
    /\ e.pos + Len(e.value) <= Len(cask[e.file])
    /\ \A n \in 1 .. Len(e.value) : cask[e.file][e.pos + n] = e.value[n]

\* The active file ends in what has been written of the record, and value_pos
\* counts from where that began.
Appending ==
    /\ rec.key \in Bytes /\ rec.value \in Bytes
    /\ written \in 0 .. Len(Record(rec))
    /\ \E start \in Nat :
          /\ value_pos = ValuePos(start, rec.key)
          /\ Len(cask[active]) = start + written
          /\ \A n \in 1 .. written : cask[active][start + n] = Record(rec)[n]

LogInv ==
    /\ cask \in [Casks -> Bytes \cup {NULL}]
    /\ pc \in {"open", "append"} => active \in Casks /\ cask[active] \in Bytes
    /\ pc = "append" => Appending
    /\ \A e \in index : Stored(e)

-----------------------------------------------------------------------------
(* Records and files                                                       *)

\* A set of cask numbers has a largest one, and bitcask_open finds it.
LEMMA NewestFacts ==
    ASSUME NEW ns, ns \subseteq Casks
    PROVE  Newest(ns) \in Casks /\ (ns # {} => Newest(ns) \in ns)
<1>1. CASE ns = {}
    BY <1>1, LogAssumption DEF Newest, Casks
<1>2. CASE ns # {}
  <2> DEFINE below == {MaxCask - n : n \in ns}
  <2>0. \A n \in ns : n \in Int /\ MaxCask - n \in Nat
    BY LogAssumption DEF Casks
  <2>1. below \subseteq Nat /\ below # {}
    BY <1>2, <2>0
  <2>2. PICK x \in below : \A y \in below : ~(<<y, x>> \in OpToRel(<, Nat))
    BY <2>1, WFMin, NatLessThanWellFounded
  <2>3. \A y \in below : x <= y
    <3>1. OpToRel(<, Nat) = {ss \in Nat \X Nat : ss[1] < ss[2]}
        BY Zenon DEF OpToRel
    <3>2. \A y \in below : ~(<<y, x>> \in {ss \in Nat \X Nat : ss[1] < ss[2]})
        BY <2>2, <3>1, Zenon
    <3> HIDE DEF below
    <3> SUFFICES ASSUME NEW y \in below PROVE x <= y
        OBVIOUS
    <3>3. x \in Nat /\ y \in Nat /\ ~(<<y, x>> \in {ss \in Nat \X Nat : ss[1] < ss[2]})
        BY <2>1, <3>2
    <3>4. ~(y < x)
        BY <3>3
    <3> QED
        BY <3>3, <3>4
  <2>4. PICK n \in ns : x = MaxCask - n
    OBVIOUS
  <2>5. \A m \in ns : m <= n
    <3> SUFFICES ASSUME NEW m \in ns PROVE m <= n
        OBVIOUS
    <3>1. MaxCask - n <= MaxCask - m
        BY <2>3, <2>4
    <3>2. n \in Int /\ m \in Int
        BY LogAssumption DEF Casks
    <3> QED
        BY <3>1, <3>2, LogAssumption
  <2>6. Newest(ns) \in ns
    BY <1>2, <2>5 DEF Newest
  <2> QED
    BY <2>6
<1> QED
    BY <1>1, <1>2

\* Two parts of a file, one behind the other.
LEMMA Joined ==
    ASSUME NEW s \in Bytes, NEW t \in Bytes
    PROVE  /\ s \o t \in Bytes
           /\ Len(s) \in Nat /\ Len(t) \in Nat /\ Len(s \o t) = Len(s) + Len(t)
           /\ \A n \in 1 .. Len(s) : (s \o t)[n] = s[n]
           /\ \A n \in 1 .. Len(t) : (s \o t)[Len(s) + n] = t[n]
<1>1. Len(s) \in Nat /\ Len(t) \in Nat
    BY DEF Bytes
<1>2. /\ s \o t \in Bytes /\ Len(s \o t) = Len(s) + Len(t)
      /\ \A n \in 1 .. Len(s) + Len(t) : (s \o t)[n] =
            IF n <= Len(s) THEN s[n] ELSE t[n - Len(s)]
    BY ConcatProperties DEF Bytes
<1>3. ASSUME NEW n \in 1 .. Len(t) PROVE (s \o t)[Len(s) + n] = t[n]
  <2>1. /\ Len(s) + n \in 1 .. Len(s) + Len(t) /\ ~(Len(s) + n <= Len(s))
        /\ (Len(s) + n) - Len(s) = n
    BY <1>1
  <2> QED
    BY <1>2, <2>1
<1>4. \A n \in 1 .. Len(s) : n \in 1 .. Len(s) + Len(t) /\ n <= Len(s)
    BY <1>1
<1> QED
    BY <1>1, <1>2, <1>3, <1>4

\* A record is its header, the key and the value.
LEMMA RecordFacts ==
    ASSUME NEW k \in Bytes, NEW v \in Bytes, NEW r, r.key = k, r.value = v
    PROVE  /\ Record(r) \in Bytes
           /\ Len(k) \in Nat /\ Len(v) \in Nat
           /\ Len(Record(r)) = HeaderSize + Len(k) + Len(v)
           /\ \A n \in 1 .. Len(v) : Record(r)[HeaderSize + Len(k) + n] = v[n]
<1> DEFINE header == [n \in 1 .. HeaderSize |-> HeaderByte]
<1>1. HeaderByte \in CaskBytes
    BY DEF CaskBytes
<1>2. header \in Bytes /\ Len(header) = HeaderSize
    BY <1>1, LogAssumption DEF Bytes
<1>3. Record(r) = (header \o k) \o v
    BY DEF Record
<1> HIDE DEF header
<1>4. header \o k \in Bytes /\ Len(header \o k) = HeaderSize + Len(k)
    BY <1>2, Joined
<1>5. Len(k) \in Nat /\ Len(v) \in Nat
    BY DEF Bytes
<1> DEFINE front == header \o k
<1>6. Record(r) = front \o v /\ front \in Bytes /\ Len(front) = HeaderSize + Len(k)
    BY <1>3, <1>4
<1> HIDE DEF front
<1>7. /\ front \o v \in Bytes /\ Len(front \o v) = Len(front) + Len(v)
      /\ \A n \in 1 .. Len(v) : (front \o v)[Len(front) + n] = v[n]
    BY <1>6, Joined
<1> QED
    BY <1>5, <1>6, <1>7

\* A file that only got longer still holds what it held.
LEMMA StoredGrows ==
    ASSUME NEW e, Stored(e), NEW old, NEW new, old = cask[e.file], new = cask'[e.file],
           new \in Bytes, Len(old) <= Len(new),
           \A n \in 1 .. Len(old) : new[n] = old[n]
    PROVE  /\ e.file \in Casks /\ cask'[e.file] \in Bytes
           /\ e.pos \in Nat /\ e.value \in Bytes
           /\ e.pos + Len(e.value) <= Len(cask'[e.file])
           /\ \A n \in 1 .. Len(e.value) : cask'[e.file][e.pos + n] = e.value[n]
<1> DEFINE len == Len(e.value)
<1>1. Len(old) \in Nat /\ len \in Nat /\ Len(new) \in Nat /\ e.pos \in Nat
    BY DEF Stored, Bytes
<1>2. e.pos + len <= Len(old)
    BY DEF Stored
<1>3. \A n \in 1 .. len : old[e.pos + n] = e.value[n]
    BY DEF Stored
<1> HIDE DEF len
<1>4. \A n \in 1 .. len : e.pos + n \in 1 .. Len(old)
    BY <1>1, <1>2
<1>5. e.pos + len <= Len(new)
    BY <1>1, <1>2
<1>6. \A n \in 1 .. len : new[e.pos + n] = e.value[n]
    BY <1>3, <1>4
<1> QED
    BY <1>1, <1>5, <1>6 DEF Stored, len

-----------------------------------------------------------------------------
(* The steps                                                               *)

\* Nothing has been appended at first.
LEMMA LogInit == CaskInit => LogInv
<1>1. <<>> \in Bytes
    BY DEF Bytes
<1> QED
    BY <1>1 DEF CaskInit, LogInv

\* Opening makes the newest cask the active one, or the first if there is none.
LEMMA OpenLog ==
    ASSUME LogInv, bitcask_open
    PROVE  LogInv'
<1> DEFINE new == Newest(Exists)
<1>1. new \in Casks
    BY NewestFacts DEF Exists
<1>2. <<>> \in Bytes
    BY DEF Bytes
<1>3. /\ cask' = [cask EXCEPT ![new] = IF cask[new] = NULL THEN <<>> ELSE cask[new]]
      /\ active' = new /\ pc' = "open" /\ index' = index
    BY DEF bitcask_open
<1> HIDE DEF new
<1>4. cask' \in [Casks -> Bytes \cup {NULL}] /\ cask'[new] \in Bytes
    BY <1>1, <1>2, <1>3 DEF LogInv
<1>5. ASSUME NEW e \in index PROVE Stored(e)'
  <2>1. cask'[e.file] = cask[e.file]
    BY <1>3, <1>5, LogAssumption DEF LogInv, Stored, Bytes
  <2> QED
    BY <2>1 DEF LogInv, Stored
<1> QED
    BY <1>1, <1>3, <1>4, <1>5 DEF LogInv

\* An append starts at the end of the file.
LEMMA StartLog ==
    ASSUME LogInv, NEW k \in Keys, NEW v \in Values, AppendStart(k, v)
    PROVE  LogInv'
<1>1. /\ pc = "open" /\ pc' = "append" /\ written' = 0
      /\ rec' = [key |-> k, value |-> v]
      /\ value_pos' = ValuePos(Len(cask[active]), k)
      /\ UNCHANGED <<cask, active, index>>
    BY DEF AppendStart
<1>2. k \in Bytes /\ v \in Bytes
    BY LogAssumption DEF Bytes
<1>3. rec'.key = k /\ rec'.value = v
    BY <1>1
<1>4. Len(Record(rec')) \in Nat
    BY <1>2, <1>3, RecordFacts DEF Bytes
<1>5. active \in Casks /\ cask[active] \in Bytes /\ Len(cask[active]) \in Nat
    BY <1>1 DEF LogInv, Bytes
<1>6. Appending'
    BY <1>1, <1>2, <1>3, <1>4, <1>5 DEF Appending
<1> QED
    BY <1>1, <1>5, <1>6 DEF LogInv, Stored

\* A write puts the next part of the record behind the last.
LEMMA WriteLog ==
    ASSUME LogInv, AppendWrite
    PROVE  LogInv'
<1>0. /\ pc = "append" /\ Appending /\ active \in Casks /\ cask[active] \in Bytes
      /\ UNCHANGED <<pc, active, rec, value_pos, index>>
    BY DEF AppendWrite, LogInv
<1> DEFINE r == Record(rec)
           file == cask[active]
<1>1. PICK k \in 1 .. Len(r) - written :
         /\ cask' = [cask EXCEPT ![active] = file \o SubSeq(r, written + 1, written + k)]
         /\ written' = written + k
    BY DEF AppendWrite
<1> DEFINE part == SubSeq(r, written + 1, written + k)
<1>2. r \in Bytes /\ Len(r) \in Nat /\ written \in 0 .. Len(r)
    BY <1>0, RecordFacts DEF Appending, Bytes
<1>3. k \in Nat \ {0} /\ written \in Nat /\ written + k <= Len(r)
    BY <1>1, <1>2
<1> HIDE DEF r
<1>4. part \in Bytes /\ Len(part) = k /\ \A n \in 1 .. k : part[n] = r[written + n]
  <2>1. \A n \in written + 1 .. written + k : r[n] \in CaskBytes
    BY <1>2, <1>3 DEF Bytes
  <2>2. /\ part \in Seq(CaskBytes)
        /\ Len(part) = IF written + 1 <= written + k THEN (written + k) - (written + 1) + 1 ELSE 0
        /\ \A n \in 1 .. (written + k) - (written + 1) + 1 : part[n] = r[(written + 1) + n - 1]
    BY <1>3, <2>1, SubSeqProperties
  <2> QED
    BY <1>3, <2>2 DEF Bytes
<1> HIDE DEF part
<1>5. cask'[active] = file \o part /\ \A n \in Casks \ {active} : cask'[n] = cask[n]
    BY <1>0, <1>1 DEF LogInv, part
<1>6. /\ file \o part \in Bytes /\ Len(file \o part) = Len(file) + k
      /\ \A n \in 1 .. Len(file) + k : (file \o part)[n] =
            IF n <= Len(file) THEN file[n] ELSE part[n - Len(file)]
    BY <1>0, <1>4, ConcatProperties DEF Bytes
<1>7. Len(file) \in Nat
    BY <1>0 DEF Bytes
<1> HIDE DEF file
<1>8. cask' \in [Casks -> Bytes \cup {NULL}]
    BY <1>0, <1>1, <1>6 DEF LogInv, part
<1>9. Appending'
  <2>1. PICK start \in Nat :
           /\ value_pos = ValuePos(start, rec.key)
           /\ Len(file) = start + written
           /\ \A n \in 1 .. written : file[start + n] = r[n]
    BY <1>0 DEF Appending, file, r
  <2>2. Len(cask'[active]) = start + (written + k)
    BY <1>3, <1>5, <1>6, <2>1
  <2>3. ASSUME NEW n \in 1 .. written + k PROVE cask'[active][start + n] = r[n]
    <3>1. start + n \in 1 .. Len(file) + k
        BY <1>3, <2>1
    <3>2. CASE n <= written
      <4>1. n \in 1 .. written /\ start + n <= Len(file)
        BY <1>3, <2>1, <3>2
      <4> QED
        BY <1>5, <1>6, <2>1, <3>1, <4>1, Zenon
    <3>3. CASE n > written
      <4>1. (start + n) - Len(file) = n - written /\ ~(start + n <= Len(file))
            /\ n - written \in 1 .. k /\ written + (n - written) = n
        BY <1>3, <2>1, <3>3
      <4> QED
        BY <1>4, <1>5, <1>6, <3>1, <4>1
    <3> QED
        BY <1>3, <3>2, <3>3
  <2>4. written + k \in 0 .. Len(r)
    BY <1>2, <1>3
  <2>5. Record(rec') = r
    BY <1>0 DEF r
  <2>6. rec'.key \in Bytes /\ rec'.value \in Bytes /\ value_pos' = ValuePos(start, rec'.key)
    BY <1>0, <2>1 DEF Appending
  <2>7. written' \in 0 .. Len(Record(rec')) /\ Len(cask'[active']) = start + written'
    BY <1>0, <1>1, <2>2, <2>4, <2>5
  <2>8. \A n \in 1 .. written' : cask'[active'][start + n] = Record(rec')[n]
    BY <1>0, <1>1, <2>3, <2>5
  <2> QED
    BY <2>1, <2>6, <2>7, <2>8, Zenon DEF Appending
<1>10. ASSUME NEW e \in index PROVE Stored(e)'
  <2>1. Stored(e)
    BY DEF LogInv
  <2>2. CASE e.file = active
    <3>1. cask'[e.file] \in Bytes /\ Len(cask[e.file]) <= Len(cask'[e.file])
      <4>1. Len(file) <= Len(file \o part) /\ file \o part \in Bytes
        BY <1>3, <1>6, <1>7
      <4> QED
        BY <1>5, <2>2, <4>1 DEF file
    <3>2. \A n \in 1 .. Len(cask[e.file]) : cask'[e.file][n] = cask[e.file][n]
        BY <1>3, <1>5, <1>6, <1>7, <2>2 DEF file
    <3> QED
        BY <2>1, <3>1, <3>2, StoredGrows DEF Stored
  <2>3. CASE e.file # active
    BY <1>5, <2>1, <2>3 DEF Stored
  <2> QED
    BY <2>2, <2>3
<1> QED
    BY <1>0, <1>5, <1>6, <1>8, <1>9, <1>10 DEF LogInv

\* A whole record has its value where value_pos says.
LEMMA DoneLog ==
    ASSUME LogInv, AppendDone
    PROVE  LogInv'
<1>0. /\ pc = "append" /\ Appending /\ active \in Casks /\ cask[active] \in Bytes
      /\ written = Len(Record(rec)) /\ pc' = "open"
      /\ index' = index \cup {[file |-> active, pos |-> value_pos, value |-> rec.value]}
      /\ UNCHANGED <<cask, active>>
    BY DEF AppendDone, Return, LogInv
<1> DEFINE e == [file |-> active, pos |-> value_pos, value |-> rec.value]
<1>1. PICK start \in Nat :
         /\ value_pos = ValuePos(start, rec.key)
         /\ Len(cask[active]) = start + written
         /\ \A n \in 1 .. written : cask[active][start + n] = Record(rec)[n]
    BY <1>0 DEF Appending
<1>2. PICK k \in Bytes, v \in Bytes : rec.key = k /\ rec.value = v
    BY <1>0 DEF Appending
<1>3. /\ Len(k) \in Nat /\ Len(v) \in Nat
      /\ written = HeaderSize + Len(k) + Len(v)
      /\ \A n \in 1 .. Len(v) : Record(rec)[HeaderSize + Len(k) + n] = v[n]
    BY <1>0, <1>2, RecordFacts
<1>4. /\ value_pos = start + HeaderSize + Len(k)
      /\ value_pos \in Nat /\ value_pos + Len(v) <= Len(cask[active])
  <2>1. start \in Nat /\ HeaderSize \in Nat
    BY <1>1, LogAssumption
  <2>2. value_pos = start + HeaderSize + Len(k)
    BY <1>1, <1>2 DEF ValuePos
  <2>3. Len(cask[active]) = start + (HeaderSize + Len(k) + Len(v))
    BY <1>1, <1>3
  <2> QED
    BY <1>3, <2>1, <2>2, <2>3
<1>5. ASSUME NEW n \in 1 .. Len(v) PROVE cask[active][value_pos + n] = v[n]
  <2>1. /\ HeaderSize + Len(k) + n \in 1 .. written
        /\ value_pos + n = start + (HeaderSize + Len(k) + n)
    <3>1. start \in Nat /\ HeaderSize \in Nat /\ value_pos = start + HeaderSize + Len(k)
      BY <1>1, <1>4, LogAssumption
    <3>2. PICK h, z, l : h = HeaderSize /\ z = Len(k) /\ l = Len(v)
      BY Zenon
    <3>3. /\ h \in Nat /\ z \in Nat /\ l \in Nat /\ n \in 1 .. l
          /\ written = h + z + l /\ value_pos = start + h + z
      BY <1>3, <3>1, <3>2, Zenon
    <3>4. h + z + n \in 1 .. written /\ value_pos + n = start + (h + z + n)
      BY <3>1, <3>3
    <3> QED
      BY <3>2, <3>4, Zenon
  <2> QED
    BY <1>1, <1>3, <2>1
<1>6. Stored(e)
    BY <1>0, <1>2, <1>4, <1>5 DEF Stored
<1>7. \A x \in index' : x \in index \/ x = e
    BY <1>0
<1> HIDE DEF e
<1>8. \A x \in index' : Stored(x)
    BY <1>6, <1>7 DEF LogInv
<1> QED
    BY <1>0, <1>8 DEF LogInv, Stored

\* Every step preserves the invariant.
LEMMA LogStep ==
    ASSUME LogInv, [CaskNext]_caskVars
    PROVE  LogInv'
<1>1. ASSUME UNCHANGED <<cask, index>>, pc' \notin {"open", "append"} PROVE LogInv'
    BY <1>1 DEF LogInv, Stored
<1>2. ASSUME UNCHANGED <<pc, logVars>> PROVE LogInv'
    BY <1>2 DEF logVars, LogInv, Stored, Appending
<1>3. CASE UNCHANGED caskVars
    BY <1>2, <1>3 DEF caskVars
<1>4. CASE bitcask_close \/ SaveStart \/ SaveDone \/ Restart
    BY <1>1, <1>4 DEF bitcask_close, SaveStart, SaveDone, Restart, logVars
<1>5. CASE db_load
    BY <1>2, <1>5 DEF db_load
<1>6. ASSUME NEW k \in Keys, SaveItem(k) \/ \E v \in Values : ht_set(k, v) PROVE LogInv'
    BY <1>2, <1>6 DEF SaveItem, ht_set
<1>7. CASE AppendFails
    BY <1>7 DEF AppendFails, Return, LogInv, Stored
<1> QED
    BY <1>3, <1>4, <1>5, <1>6, <1>7, OpenLog, StartLog, WriteLog, DoneLog DEF CaskNext

\* The log's invariant holds in every state.
LEMMA LogInvariance == CaskSpec => []LogInv
<1>1. LogInv /\ [CaskNext]_caskVars => LogInv'
    BY LogStep
<1> QED
    BY <1>1, LogInit, PTL DEF CaskSpec

\* For all keys, values and header sizes: through short writes, failed writes
\* and crashes, SubSeq at the position bitcask_append returned is the value.
THEOREM ValueStays == CaskSpec => []ValueAtPos
<1>1. ASSUME LogInv PROVE ValueAtPos
  <2> SUFFICES ASSUME NEW e \in index
               PROVE  SubSeq(cask[e.file], e.pos + 1, e.pos + Len(e.value)) = e.value
    BY DEF ValueAtPos
  <2> DEFINE found == SubSeq(cask[e.file], e.pos + 1, e.pos + Len(e.value))
             len == Len(e.value)
  <2>1. Stored(e) /\ len \in Nat /\ e.pos \in Nat /\ e.value \in Seq(CaskBytes)
    BY <1>1 DEF LogInv, Stored, Bytes
  <2>2. \A n \in 1 .. len : cask[e.file][e.pos + n] = e.value[n]
    BY <2>1 DEF Stored
  <2>3. /\ found \in Seq(CaskBytes)
        /\ Len(found) = IF e.pos + 1 <= e.pos + len THEN (e.pos + len) - (e.pos + 1) + 1 ELSE 0
        /\ \A n \in 1 .. (e.pos + len) - (e.pos + 1) + 1 :
              found[n] = cask[e.file][(e.pos + 1) + n - 1]
    <3> HIDE DEF len
    <3>1. e.pos + 1 \in Int /\ e.pos + len \in Int
        BY <2>1
    <3>2. cask[e.file] \in Seq(CaskBytes) /\ e.pos + len <= Len(cask[e.file])
        BY <2>1 DEF Stored, Bytes, len
    <3>3. \A n \in e.pos + 1 .. e.pos + len : cask[e.file][n] \in CaskBytes
        BY <2>1, <3>2
    <3>4. found = SubSeq(cask[e.file], e.pos + 1, e.pos + len)
        BY DEF len
    <3> HIDE DEF found
    <3> QED
        BY <3>1, <3>3, <3>4, SubSeqProperties
  <2> HIDE DEF found, len
  <2>4. Len(found) = len
    BY <2>1, <2>3
  <2>5. \A n \in 1 .. len : found[n] = e.value[n]
    <3> SUFFICES ASSUME NEW n \in 1 .. len PROVE found[n] = e.value[n]
        OBVIOUS
    <3>1. n \in 1 .. (e.pos + len) - (e.pos + 1) + 1 /\ (e.pos + 1) + n - 1 = e.pos + n
        BY <2>1
    <3> QED
        BY <2>2, <2>3, <3>1
  <2>6. found = e.value
    BY <2>1, <2>3, <2>4, <2>5, SeqEqual DEF len
  <2> QED
    BY <2>6 DEF found, len
<1> QED
    BY <1>1, LogInvariance, PTL

-----------------------------------------------------------------------------
(* The text of db_save, read line by line                                  *)

Start == [lines |-> <<>>, line |-> <<>>]

ReadEntry(f, s, n) == IF n = 0 THEN Start ELSE ReadChar(f[n - 1], s[n])

\* Reading is defined by its recursion: a function that is right up to any n.
LEMMA ReadingExists ==
    ASSUME NEW s, Len(s) \in Nat
    PROVE  \E f : f = [n \in 0 .. Len(s) |-> ReadEntry(f, s, n)]
<1> DEFINE Good(m) == \E f : \A n \in 0 .. Len(s) : n <= m => f[n] = ReadEntry(f, s, n)
           T == {m \in Nat : Good(m)}
<1>1. Good(0)
  <2> DEFINE f == [n \in 0 .. Len(s) |-> Start]
  <2>1. \A n \in 0 .. Len(s) : n <= 0 => f[n] = ReadEntry(f, s, n)
    BY DEF ReadEntry
  <2> QED
    BY <2>1, Zenon
<1>2. ASSUME NEW m \in Nat, Good(m) PROVE Good(m + 1)
  <2>1. PICK f : \A n \in 0 .. Len(s) : n <= m => f[n] = ReadEntry(f, s, n)
    BY <1>2, Zenon
  <2> DEFINE g == [n \in 0 .. Len(s) |-> ReadEntry(f, s, n)]
  <2>2. \A n \in 0 .. Len(s) : g[n] = ReadEntry(f, s, n)
    OBVIOUS
  <2> HIDE DEF g
  <2>3. \A n \in 0 .. Len(s) : n <= m => f[n] = g[n]
    BY <2>1, <2>2
  <2>4. ASSUME NEW n \in 0 .. Len(s), n <= m + 1 PROVE g[n] = ReadEntry(g, s, n)
    <3>1. n # 0 => n - 1 \in 0 .. Len(s) /\ n - 1 <= m
      BY <2>4
    <3>2. n # 0 => f[n - 1] = g[n - 1]
      BY <2>3, <3>1
    <3> QED
      BY <2>2, <3>2 DEF ReadEntry
  <2> QED
    BY <2>4, Zenon
<1> HIDE DEF Good
<1>3. T = Nat
  <2>1. T \subseteq Nat /\ 0 \in T /\ \A n \in T : n + 1 \in T
    BY <1>1, <1>2
  <2> HIDE DEF T
  <2> QED
    BY <2>1, Induction
<1>4. Good(Len(s))
    BY <1>3
<1>5. PICK f : \A n \in 0 .. Len(s) : n <= Len(s) => f[n] = ReadEntry(f, s, n)
    BY <1>4, Zenon DEF Good
<1> DEFINE g == [n \in 0 .. Len(s) |-> ReadEntry(f, s, n)]
<1>6. g = [n \in 0 .. Len(s) |-> ReadEntry(f, s, n)]
    OBVIOUS
<1>7. \A n \in 0 .. Len(s) : f[n] = g[n]
    BY <1>5
<1> HIDE DEF g
<1>8. \A n \in 0 .. Len(s) : ReadEntry(f, s, n) = ReadEntry(g, s, n)
  <2> TAKE n \in 0 .. Len(s)
  <2>1. n # 0 => n - 1 \in 0 .. Len(s)
    OBVIOUS
  <2> QED
    BY <1>7, <2>1 DEF ReadEntry
<1>9. g = [n \in 0 .. Len(s) |-> ReadEntry(g, s, n)]
    BY <1>6, <1>8
<1> QED
    BY <1>9, Zenon

LEMMA ReadingSteps ==
    ASSUME NEW s, Len(s) \in Nat
    PROVE  /\ Reading(s)[0] = Start
           /\ \A n \in 1 .. Len(s) : Reading(s)[n] = ReadChar(Reading(s)[n - 1], s[n])
<1> DEFINE r == Reading(s)
<1>1. r = CHOOSE f : f = [n \in 0 .. Len(s) |-> ReadEntry(f, s, n)]
    BY Zenon DEF Reading, ReadEntry, Start
<1>2. r = [n \in 0 .. Len(s) |-> ReadEntry(r, s, n)]
    BY <1>1, ReadingExists, Zenon
<1> HIDE DEF r
<1>3. \A n \in 0 .. Len(s) : r[n] = ReadEntry(r, s, n)
    BY <1>2, Zenon
<1>4. 0 \in 0 .. Len(s) /\ \A n \in 1 .. Len(s) : n \in 0 .. Len(s) /\ n # 0
    OBVIOUS
<1>5. r[0] = Start
    BY <1>3, <1>4, Zenon DEF ReadEntry
<1>6. \A n \in 1 .. Len(s) : r[n] = ReadChar(r[n - 1], s[n])
    BY <1>3, <1>4, Zenon DEF ReadEntry
<1> QED
    BY <1>5, <1>6 DEF r

\* What is read of the beginning does not depend on what follows.
LEMMA ReadingPrefix ==
    ASSUME NEW S, NEW s \in Seq(S), NEW t \in Seq(S)
    PROVE  Reading(s \o t)[Len(s)] = Reading(s)[Len(s)]
<1> DEFINE T == {n \in Nat : n <= Len(s) => Reading(s \o t)[n] = Reading(s)[n]}
<1>0. /\ Len(s) \in Nat /\ Len(t) \in Nat /\ Len(s \o t) = Len(s) + Len(t)
      /\ Len(s \o t) \in Nat /\ \A n \in 1 .. Len(s) : (s \o t)[n] = s[n]
    BY LenProperties, ConcatProperties
<1>1. 0 \in T
    BY <1>0, ReadingSteps
<1>2. ASSUME NEW n \in T PROVE n + 1 \in T
  <2> SUFFICES ASSUME n + 1 <= Len(s) PROVE Reading(s \o t)[n + 1] = Reading(s)[n + 1]
    OBVIOUS
  <2>1. /\ n \in Nat /\ n <= Len(s) /\ n + 1 \in 1 .. Len(s) /\ n + 1 \in 1 .. Len(s \o t)
        /\ (n + 1) - 1 = n
    BY <1>0
  <2>2. Reading(s \o t)[n] = Reading(s)[n]
    BY <2>1
  <2>3. Reading(s)[n + 1] = ReadChar(Reading(s)[n], s[n + 1])
    BY <1>0, <2>1, ReadingSteps
  <2>4. Reading(s \o t)[n + 1] = ReadChar(Reading(s \o t)[n], (s \o t)[n + 1])
    BY <1>0, <2>1, ReadingSteps
  <2> QED
    BY <1>0, <2>1, <2>2, <2>3, <2>4
<1>3. T = Nat
  <2>1. T \subseteq Nat
    OBVIOUS
  <2> HIDE DEF T
  <2> QED
    BY <1>1, <1>2, <2>1, Induction
<1> QED
    BY <1>0, <1>3

-----------------------------------------------------------------------------
(* One line of the text                                                    *)

TextBytes == CaskBytes \cup {Separator} \cup Range(ItemEnd)

\* No byte of a key or value ends a line, none of a key is the separator.
LEMMA ItemBytes ==
    ASSUME NEW k \in Keys, NEW v \in Values
    PROVE  /\ k \in Seq(CaskBytes) /\ v \in Seq(CaskBytes) /\ Len(k) \in Nat /\ Len(v) \in Nat
           /\ Len(k) + 1 + Len(v) + 2 < ItemSize
           /\ \A n \in 1 .. Len(k) : k[n] \notin {"\r", "\n", ":"}
           /\ \A n \in 1 .. Len(v) : v[n] \notin {"\r", "\n"}
<1>1. k \in Seq(CaskBytes) /\ v \in Seq(CaskBytes)
    BY LogAssumption
<1>2. /\ Len(k) \in Nat /\ DOMAIN k = 1 .. Len(k)
      /\ Len(v) \in Nat /\ DOMAIN v = 1 .. Len(v)
    BY <1>1, LenProperties
<1>3. Len(k) + 1 + Len(v) + 2 < ItemSize
    BY TextAssumption
<1>4. /\ Separator \notin Range(k) /\ Range(k) \cap Range(ItemEnd) = {}
      /\ Range(v) \cap Range(ItemEnd) = {}
    BY TextAssumption
<1>5. "\r" \in Range(ItemEnd) /\ "\n" \in Range(ItemEnd)
  <2>1. 1 \in DOMAIN ItemEnd /\ 2 \in DOMAIN ItemEnd /\ ItemEnd[1] = "\r" /\ ItemEnd[2] = "\n"
    BY DEF ItemEnd
  <2> QED
    BY <2>1, Zenon DEF Range
<1>6. (\A n \in 1 .. Len(k) : k[n] \in Range(k)) /\ \A n \in 1 .. Len(v) : v[n] \in Range(v)
    BY <1>2, Zenon DEF Range
<1> QED
    BY <1>1, <1>2, <1>3, <1>4, <1>5, <1>6 DEF Separator

LEMMA MinIs ==
    ASSUME NEW I, NEW m \in I, m \in Int, \A y \in I : y \in Int /\ m <= y
    PROVE  Min(I) = m
<1> DEFINE M == Min(I)
<1>1. M \in I /\ \A y \in I : M <= y
    BY DEF Min
<1> HIDE DEF M
<1>2. M = m
    BY <1>1
<1> QED
    BY <1>2 DEF M

\* Two parts, one behind the other.
LEMMA Appended ==
    ASSUME NEW S, NEW s \in Seq(S), NEW t \in Seq(S), NEW p, NEW q, Len(s) = p, Len(t) = q
    PROVE  /\ s \o t \in Seq(S) /\ Len(s \o t) = p + q
           /\ \A n \in 1 .. p : (s \o t)[n] = s[n]
           /\ \A n \in 1 .. q : (s \o t)[p + n] = t[n]
<1> DEFINE r == s \o t
<1>1. /\ r \in Seq(S) /\ Len(r) = Len(s) + Len(t)
      /\ \A n \in 1 .. Len(s) + Len(t) : r[n] = IF n <= Len(s) THEN s[n] ELSE t[n - Len(s)]
    BY ConcatProperties
<1>2. p \in Nat /\ q \in Nat
    BY LenProperties
<1>3. \A n \in 1 .. p : n \in 1 .. p + q /\ n <= p
    BY <1>2
<1>4. \A n \in 1 .. q : p + n \in 1 .. p + q /\ ~(p + n <= p) /\ (p + n) - p = n
    BY <1>2
<1> HIDE DEF r
<1>5. r \in Seq(S) /\ Len(r) = p + q
    BY <1>1
<1>6. \A n \in 1 .. p + q : r[n] = IF n <= p THEN s[n] ELSE t[n - p]
    BY <1>1
<1>7. \A n \in 1 .. p : r[n] = s[n]
    BY <1>3, <1>6
<1>8. \A n \in 1 .. q : r[p + n] = t[n]
    BY <1>4, <1>6
<1> QED
    BY <1>5, <1>7, <1>8 DEF r

\* Two parts, one behind the other, by name.
LEMMA Joins ==
    ASSUME NEW S, NEW s \in Seq(S), NEW t \in Seq(S), NEW r, r = s \o t
    PROVE  /\ r \in Seq(S) /\ Len(r) = Len(s) + Len(t)
           /\ \A k \in 1 .. Len(s) : r[k] = s[k]
           /\ \A k \in 1 .. Len(t) : r[Len(s) + k] = t[k]
BY Appended

\* The line is not cut: key, separator, value and end, byte for byte.
LEMMA ItemFacts ==
    ASSUME NEW k \in Keys, NEW v \in Values
    PROVE  LET it == Item(k, v)
               x == Len(k)
               y == Len(v)
           IN  /\ it \in Seq(TextBytes) /\ Len(it) = x + y + 3 /\ Len(it) < ItemSize
               /\ \A n \in 1 .. x : it[n] = k[n]
               /\ it[x + 1] = ":"
               /\ \A n \in 1 .. y : it[x + 1 + n] = v[n]
               /\ it[x + y + 2] = "\r" /\ it[x + y + 3] = "\n"
<1> DEFINE x == Len(k)
           y == Len(v)
           k1 == k \o <<Separator>>
           kv == k1 \o v
           all == kv \o ItemEnd
<1>0. x \in Nat /\ y \in Nat /\ x + 1 + y + 2 < ItemSize /\ ItemSize \in Nat
    BY ItemBytes, TextAssumption
<1>1. /\ k \in Seq(TextBytes) /\ v \in Seq(TextBytes)
      /\ <<Separator>> \in Seq(TextBytes) /\ Len(<<Separator>>) = 1 /\ <<Separator>>[1] = ":"
      /\ ItemEnd \in Seq(TextBytes) /\ Len(ItemEnd) = 2
      /\ ItemEnd[1] = "\r" /\ ItemEnd[2] = "\n"
  <2>1. k \in Seq(CaskBytes) /\ v \in Seq(CaskBytes) /\ CaskBytes \subseteq TextBytes
    BY ItemBytes DEF TextBytes
  <2>2. k \in Seq(TextBytes) /\ v \in Seq(TextBytes)
    BY <2>1
  <2>3. Len(ItemEnd) = 2 /\ ItemEnd[1] = "\r" /\ ItemEnd[2] = "\n" /\ DOMAIN ItemEnd = 1 .. 2
    BY DEF ItemEnd
  <2>4. "\r" \in TextBytes /\ "\n" \in TextBytes /\ Separator \in TextBytes
    <3>1. 1 \in DOMAIN ItemEnd /\ 2 \in DOMAIN ItemEnd
      BY <2>3
    <3>2. "\r" \in Range(ItemEnd) /\ "\n" \in Range(ItemEnd)
      BY <2>3, <3>1, Zenon DEF Range
    <3> QED
      BY <3>2 DEF TextBytes
  <2>5. ItemEnd \in Seq(TextBytes) /\ <<Separator>> \in Seq(TextBytes)
    BY <2>4 DEF ItemEnd
  <2> QED
    BY <2>2, <2>3, <2>5 DEF Separator
<1>2. /\ k1 \in Seq(TextBytes) /\ Len(k1) = x + 1
      /\ \A n \in 1 .. x : k1[n] = k[n]
      /\ k1[x + 1] = ":"
  <2>1. /\ k1 \in Seq(TextBytes) /\ Len(k1) = x + 1
        /\ \A n \in 1 .. x : k1[n] = k[n]
        /\ \A n \in 1 .. 1 : k1[x + n] = <<Separator>>[n]
    BY <1>1, Appended
  <2>2. 1 \in 1 .. 1
    OBVIOUS
  <2> HIDE DEF k1
  <2> QED
    BY <1>1, <2>1, <2>2
<1> HIDE DEF k1
<1>3. /\ kv \in Seq(TextBytes) /\ Len(kv) = x + 1 + y
      /\ \A n \in 1 .. x + 1 : kv[n] = k1[n]
      /\ \A n \in 1 .. y : kv[x + 1 + n] = v[n]
  <2> DEFINE p == x + 1
  <2>1. Len(k1) = p /\ Len(v) = y /\ k1 \in Seq(TextBytes) /\ v \in Seq(TextBytes)
    BY <1>1, <1>2
  <2> HIDE DEF p, y
  <2>2. /\ k1 \o v \in Seq(TextBytes) /\ Len(k1 \o v) = p + y
        /\ \A n \in 1 .. p : (k1 \o v)[n] = k1[n]
        /\ \A n \in 1 .. y : (k1 \o v)[p + n] = v[n]
    BY <2>1, Appended
  <2> QED
    BY <2>2, Zenon DEF p
<1> HIDE DEF kv
<1>4. /\ all \in Seq(TextBytes) /\ Len(all) = x + y + 3
      /\ \A n \in 1 .. x + 1 + y : all[n] = kv[n]
      /\ all[x + y + 2] = "\r" /\ all[x + y + 3] = "\n"
  <2>1. /\ all \in Seq(TextBytes) /\ Len(all) = (x + 1 + y) + 2
        /\ \A n \in 1 .. x + 1 + y : all[n] = kv[n]
        /\ \A n \in 1 .. 2 : all[(x + 1 + y) + n] = ItemEnd[n]
    <3> DEFINE p == x + 1 + y
               q == 2
    <3>1. /\ Len(kv) = p /\ Len(ItemEnd) = q /\ kv \in Seq(TextBytes)
          /\ ItemEnd \in Seq(TextBytes)
      BY <1>1, <1>3
    <3> HIDE DEF p, q
    <3>2. /\ kv \o ItemEnd \in Seq(TextBytes) /\ Len(kv \o ItemEnd) = p + q
          /\ \A n \in 1 .. p : (kv \o ItemEnd)[n] = kv[n]
          /\ \A n \in 1 .. q : (kv \o ItemEnd)[p + n] = ItemEnd[n]
      BY <3>1, Appended
    <3> QED
      BY <3>2, Zenon DEF p, q
  <2>2. /\ 1 \in 1 .. 2 /\ 2 \in 1 .. 2 /\ (x + 1 + y) + 1 = x + y + 2
        /\ (x + 1 + y) + 2 = x + y + 3
    BY <1>0
  <2> HIDE DEF all
  <2>3. all[(x + 1 + y) + 1] = "\r" /\ all[(x + 1 + y) + 2] = "\n"
    BY <1>1, <2>1, <2>2
  <2> QED
    BY <2>1, <2>2, <2>3
<1>5. all = ((k \o <<Separator>>) \o v) \o ItemEnd
    BY DEF kv, k1
<1> HIDE DEF all
<1>6. Min({Len(all), ItemSize - 1}) = Len(all)
  <2> DEFINE I == {Len(all), ItemSize - 1}
  <2>1. Len(all) \in I /\ Len(all) \in Int /\ \A z \in I : z \in Int /\ Len(all) <= z
    BY <1>0, <1>4
  <2> HIDE DEF I
  <2>2. Min(I) = Len(all)
    BY <2>1, MinIs
  <2> QED
    BY <2>2 DEF I
<1>7. Item(k, v) = all
  <2>1. Item(k, v) = SubSeq(all, 1, Len(all))
    BY <1>5, <1>6 DEF Item, FirstOf
  <2> QED
    BY <1>4, <2>1, SubSeqFull
<1>8. \A n \in 1 .. x : n \in 1 .. x + 1 /\ n \in 1 .. x + 1 + y
    BY <1>0
<1>9. \A n \in 1 .. y : x + 1 + n \in 1 .. x + 1 + y
    BY <1>0
<1>10. x + 1 \in 1 .. x + 1 /\ x + 1 \in 1 .. x + 1 + y /\ x + y + 3 < ItemSize
    BY <1>0
<1>11. /\ \A n \in 1 .. x : all[n] = k[n]
       /\ all[x + 1] = ":"
       /\ \A n \in 1 .. y : all[x + 1 + n] = v[n]
    BY <1>2, <1>3, <1>4, <1>8, <1>9, <1>10
<1> QED
    BY <1>4, <1>7, <1>10, <1>11

\* A whole line behind a text that ends with one is read as one line more.
LEMMA ReadItem ==
    ASSUME NEW s \in Seq(TextBytes), NEW L, NEW k \in Keys, NEW v \in Values,
           Reading(s)[Len(s)] = [lines |-> L, line |-> <<>>]
    PROVE  LET r == s \o Item(k, v)
           IN  r \in Seq(TextBytes)
               /\ Reading(r)[Len(r)] = [lines |-> Append(L, Item(k, v)), line |-> <<>>]
<1> DEFINE it == Item(k, v)
           r == s \o it
           m == Len(it)
           z == Len(s)
           T == {n \in Nat : n < m => Reading(r)[z + n] = [lines |-> L, line |-> SubSeq(it, 1, n)]}
<1>0. /\ it \in Seq(TextBytes) /\ m \in Nat /\ m >= 1 /\ m < ItemSize /\ ItemSize \in Nat
      /\ it[m] = "\n" /\ \A n \in 1 .. m : n < m => it[n] # "\n"
  <2> DEFINE x == Len(k)
             y == Len(v)
  <2>1. /\ it \in Seq(TextBytes) /\ m = x + y + 3 /\ m < ItemSize
        /\ \A n \in 1 .. x : it[n] = k[n]
        /\ it[x + 1] = ":"
        /\ \A n \in 1 .. y : it[x + 1 + n] = v[n]
        /\ it[x + y + 2] = "\r" /\ it[x + y + 3] = "\n"
    BY ItemFacts
  <2>2. /\ x \in Nat /\ y \in Nat /\ \A n \in 1 .. x : k[n] # "\n"
        /\ \A n \in 1 .. y : v[n] # "\n"
    BY ItemBytes
  <2> HIDE DEF it, x, y
  <2>3. ASSUME NEW n \in 1 .. m, n < m PROVE it[n] # "\n"
    <3>1. CASE n \in 1 .. x
      BY <2>1, <2>2, <3>1
    <3>2. CASE n = x + 1
      BY <2>1, <3>2
    <3>3. CASE n \in x + 2 .. x + 1 + y
      <4>1. n - (x + 1) \in 1 .. y /\ x + 1 + (n - (x + 1)) = n
        BY <2>2, <3>3
      <4> QED
        BY <2>1, <2>2, <4>1
    <3>4. CASE n = x + y + 2
      BY <2>1, <3>4
    <3> QED
      BY <2>1, <2>2, <2>3, <3>1, <3>2, <3>3, <3>4
  <2> QED
    BY <2>1, <2>2, <2>3, TextAssumption
<1> HIDE DEF it
<1>1. /\ r \in Seq(TextBytes) /\ z \in Nat /\ Len(r) = z + m
      /\ \A n \in 1 .. m : r[z + n] = it[n]
  <2>1. /\ r \in Seq(TextBytes) /\ z \in Nat /\ Len(r) = z + m
        /\ \A n \in 1 .. z + m : r[n] = IF n <= z THEN s[n] ELSE it[n - z]
    BY <1>0, LenProperties, ConcatProperties
  <2>2. \A n \in 1 .. m : z + n \in 1 .. z + m /\ ~(z + n <= z) /\ (z + n) - z = n
    BY <1>0, <2>1
  <2> HIDE DEF r, z, m
  <2> QED
    BY <2>1, <2>2
<1>2. Reading(r)[z] = [lines |-> L, line |-> <<>>]
    BY <1>0, ReadingPrefix
<1> HIDE DEF r, z, m
<1>3. ASSUME NEW n \in 1 .. m
      PROVE  Reading(r)[z + n] = ReadChar(Reading(r)[z + (n - 1)], it[n])
  <2>1. z + n \in 1 .. Len(r) /\ Len(r) \in Nat /\ (z + n) - 1 = z + (n - 1)
    BY <1>0, <1>1
  <2> QED
    BY <1>1, <2>1, ReadingSteps
<1>4. ASSUME NEW n \in 1 .. m
      PROVE  Append(SubSeq(it, 1, n - 1), it[n]) = SubSeq(it, 1, n) /\ Len(SubSeq(it, 1, n)) = n
  <2>1. n \in Int /\ n - 1 \in Int /\ \A q \in 1 .. n : it[q] \in TextBytes
    BY <1>0 DEF m
  <2>2. \A q \in 1 .. n - 1 : it[q] \in TextBytes
    BY <2>1
  <2>3. /\ SubSeq(it, 1, n) \in Seq(TextBytes) /\ Len(SubSeq(it, 1, n)) = n
        /\ \A q \in 1 .. n : SubSeq(it, 1, n)[q] = it[q]
    BY <2>1, SubSeqProperties
  <2>4. /\ SubSeq(it, 1, n - 1) \in Seq(TextBytes) /\ Len(SubSeq(it, 1, n - 1)) = n - 1
        /\ \A q \in 1 .. n - 1 : SubSeq(it, 1, n - 1)[q] = it[q]
    BY <2>1, <2>2, SubSeqProperties
  <2>5. it[n] \in TextBytes
    BY <2>1
  <2> DEFINE w == SubSeq(it, 1, n - 1)
             u == Append(w, it[n])
  <2>6. /\ u \in Seq(TextBytes) /\ Len(u) = n
        /\ (\A q \in 1 .. n - 1 : u[q] = w[q]) /\ u[n] = it[n]
    <3> HIDE DEF w
    <3>1. w \in Seq(TextBytes) /\ Len(w) = n - 1
      BY <2>4 DEF w
    <3> QED
      BY <2>1, <2>5, <3>1, AppendProperties
  <2> HIDE DEF u, w
  <2>7. \A q \in 1 .. n : u[q] = SubSeq(it, 1, n)[q]
    <3> TAKE q \in 1 .. n
    <3>1. CASE q = n
      BY <2>3, <2>6, <3>1
    <3>2. CASE q # n
      <4>1. q \in 1 .. n - 1
        BY <2>1, <3>2
      <4> QED
        BY <2>3, <2>4, <2>6, <4>1 DEF w
    <3> QED
      BY <3>1, <3>2
  <2>8. u = SubSeq(it, 1, n)
    BY <2>3, <2>6, <2>7, SeqEqual
  <2> QED
    BY <2>3, <2>8 DEF u, w
<1>5. 0 \in T
  <2>1. SubSeq(it, 1, 0) = <<>>
    BY SubSeqEmpty
  <2>2. z + 0 = z
    BY <1>1
  <2> QED
    BY <1>2, <2>1, <2>2
<1>6. ASSUME NEW n \in T PROVE n + 1 \in T
  <2> SUFFICES ASSUME n + 1 < m
               PROVE  Reading(r)[z + (n + 1)] = [lines |-> L, line |-> SubSeq(it, 1, n + 1)]
    OBVIOUS
  <2>1. n + 1 \in 1 .. m /\ (n + 1) - 1 = n /\ n < m /\ n + 1 # ItemSize - 1 /\ n \in Nat
    BY <1>0
  <2>2. Reading(r)[z + n] = [lines |-> L, line |-> SubSeq(it, 1, n)]
    BY <2>1
  <2>3. Reading(r)[z + (n + 1)] = ReadChar([lines |-> L, line |-> SubSeq(it, 1, n)], it[n + 1])
    BY <1>3, <2>1, <2>2
  <2>4. it[n + 1] # "\n"
    BY <1>0, <2>1
  <2>5. Append(SubSeq(it, 1, n), it[n + 1]) = SubSeq(it, 1, n + 1)
        /\ Len(SubSeq(it, 1, n + 1)) # ItemSize - 1
    BY <1>4, <2>1
  <2> QED
    BY <2>3, <2>4, <2>5 DEF ReadChar
<1>7. T = Nat
  <2>1. T \subseteq Nat
    OBVIOUS
  <2> HIDE DEF T
  <2> QED
    BY <1>5, <1>6, <2>1, Induction
<1>8. Reading(r)[z + (m - 1)] = [lines |-> L, line |-> SubSeq(it, 1, m - 1)]
  <2>1. m - 1 \in Nat /\ m - 1 < m
    BY <1>0
  <2> QED
    BY <1>7, <2>1
<1>9. Reading(r)[z + m] = ReadChar([lines |-> L, line |-> SubSeq(it, 1, m - 1)], "\n")
  <2>1. m \in 1 .. m
    BY <1>0
  <2> QED
    BY <1>0, <1>3, <1>8, <2>1
<1>10. Append(SubSeq(it, 1, m - 1), "\n") = it
  <2>1. m \in 1 .. m
    BY <1>0
  <2>2. Append(SubSeq(it, 1, m - 1), it[m]) = SubSeq(it, 1, m)
    BY <1>4, <2>1
  <2>3. SubSeq(it, 1, m) = it
    BY <1>0, SubSeqFull DEF m
  <2> QED
    BY <1>0, <2>2, <2>3
<1>11. Reading(r)[Len(r)] = [lines |-> Append(L, it), line |-> <<>>]
    BY <1>1, <1>9, <1>10 DEF ReadChar
<1> QED
    BY <1>1, <1>11 DEF r, it

-----------------------------------------------------------------------------
(* The table that is loaded                                                *)

LoadEntry(f, table, s, n) == IF n = 0 THEN table ELSE LoadLine(f[n - 1], s[n])

LEMMA LoadingExists ==
    ASSUME NEW table, NEW s, Len(s) \in Nat
    PROVE  \E f : f = [n \in 0 .. Len(s) |-> LoadEntry(f, table, s, n)]
<1> DEFINE Good(m) == \E f : \A n \in 0 .. Len(s) : n <= m => f[n] = LoadEntry(f, table, s, n)
           T == {m \in Nat : Good(m)}
<1>1. Good(0)
  <2> DEFINE f == [n \in 0 .. Len(s) |-> table]
  <2>1. \A n \in 0 .. Len(s) : n <= 0 => f[n] = LoadEntry(f, table, s, n)
    BY DEF LoadEntry
  <2> QED
    BY <2>1, Zenon
<1>2. ASSUME NEW m \in Nat, Good(m) PROVE Good(m + 1)
  <2>1. PICK f : \A n \in 0 .. Len(s) : n <= m => f[n] = LoadEntry(f, table, s, n)
    BY <1>2, Zenon
  <2> DEFINE g == [n \in 0 .. Len(s) |-> LoadEntry(f, table, s, n)]
  <2>2. \A n \in 0 .. Len(s) : g[n] = LoadEntry(f, table, s, n)
    OBVIOUS
  <2> HIDE DEF g
  <2>3. \A n \in 0 .. Len(s) : n <= m => f[n] = g[n]
    BY <2>1, <2>2
  <2>4. ASSUME NEW n \in 0 .. Len(s), n <= m + 1 PROVE g[n] = LoadEntry(g, table, s, n)
    <3>1. n # 0 => n - 1 \in 0 .. Len(s) /\ n - 1 <= m
      BY <2>4
    <3>2. n # 0 => f[n - 1] = g[n - 1]
      BY <2>3, <3>1
    <3> QED
      BY <2>2, <3>2 DEF LoadEntry
  <2> QED
    BY <2>4, Zenon
<1> HIDE DEF Good
<1>3. T = Nat
  <2>1. T \subseteq Nat /\ 0 \in T /\ \A n \in T : n + 1 \in T
    BY <1>1, <1>2
  <2> HIDE DEF T
  <2> QED
    BY <2>1, Induction
<1>4. Good(Len(s))
    BY <1>3
<1>5. PICK f : \A n \in 0 .. Len(s) : n <= Len(s) => f[n] = LoadEntry(f, table, s, n)
    BY <1>4, Zenon DEF Good
<1> DEFINE g == [n \in 0 .. Len(s) |-> LoadEntry(f, table, s, n)]
<1>6. g = [n \in 0 .. Len(s) |-> LoadEntry(f, table, s, n)]
    OBVIOUS
<1>7. \A n \in 0 .. Len(s) : f[n] = g[n]
    BY <1>5
<1> HIDE DEF g
<1>8. \A n \in 0 .. Len(s) : LoadEntry(f, table, s, n) = LoadEntry(g, table, s, n)
  <2> TAKE n \in 0 .. Len(s)
  <2>1. n # 0 => n - 1 \in 0 .. Len(s)
    OBVIOUS
  <2> QED
    BY <1>7, <2>1 DEF LoadEntry
<1>9. g = [n \in 0 .. Len(s) |-> LoadEntry(g, table, s, n)]
    BY <1>6, <1>8
<1> QED
    BY <1>9, Zenon

LEMMA LoadingSteps ==
    ASSUME NEW table, NEW s, Len(s) \in Nat
    PROVE  /\ Loading(table, s)[0] = table
           /\ \A n \in 1 .. Len(s) : Loading(table, s)[n] = LoadLine(Loading(table, s)[n - 1], s[n])
<1> DEFINE r == Loading(table, s)
<1>1. r = CHOOSE f : f = [n \in 0 .. Len(s) |-> LoadEntry(f, table, s, n)]
    BY Zenon DEF Loading, LoadEntry
<1>x. \E f : f = [n \in 0 .. Len(s) |-> LoadEntry(f, table, s, n)]
    BY LoadingExists
<1>2. r = [n \in 0 .. Len(s) |-> LoadEntry(r, table, s, n)]
    BY <1>1, <1>x, Zenon
<1> HIDE DEF r
<1>3. \A n \in 0 .. Len(s) : r[n] = LoadEntry(r, table, s, n)
    BY <1>2, Zenon
<1>4. 0 \in 0 .. Len(s) /\ \A n \in 1 .. Len(s) : n \in 0 .. Len(s) /\ n # 0
    OBVIOUS
<1>5. r[0] = table
    BY <1>3, <1>4, Zenon DEF LoadEntry
<1>6. \A n \in 1 .. Len(s) : r[n] = LoadLine(r[n - 1], s[n])
    BY <1>3, <1>4, Zenon DEF LoadEntry
<1> QED
    BY <1>5, <1>6 DEF r

\* One line more.
LEMMA LoadingAppend ==
    ASSUME NEW table, NEW S, NEW s \in Seq(S), NEW c \in S
    PROVE  LET t == Append(s, c)
           IN  Loading(table, t)[Len(t)] = LoadLine(Loading(table, s)[Len(s)], c)
<1> DEFINE t == Append(s, c)
           T == {n \in Nat : n <= Len(s) => Loading(table, t)[n] = Loading(table, s)[n]}
<1>0. /\ Len(s) \in Nat /\ Len(t) = Len(s) + 1 /\ t[Len(s) + 1] = c
      /\ \A n \in 1 .. Len(s) : t[n] = s[n]
    BY LenProperties, AppendProperties
<1> HIDE DEF t
<1>n. Len(t) \in Nat
    BY <1>0
<1>1. 0 \in T
  <2>1. Loading(table, s)[0] = table
    BY <1>0, LoadingSteps
  <2>2. Loading(table, t)[0] = table
    BY <1>n, LoadingSteps
  <2> QED
    BY <2>1, <2>2
<1>2. ASSUME NEW n \in T PROVE n + 1 \in T
  <2> SUFFICES ASSUME n + 1 <= Len(s) PROVE Loading(table, t)[n + 1] = Loading(table, s)[n + 1]
    OBVIOUS
  <2>1. /\ n \in Nat /\ n <= Len(s) /\ n + 1 \in 1 .. Len(s) /\ n + 1 \in 1 .. Len(t)
        /\ (n + 1) - 1 = n
    BY <1>0
  <2>2. Loading(table, t)[n] = Loading(table, s)[n]
    BY <2>1
  <2>3. Loading(table, s)[n + 1] = LoadLine(Loading(table, s)[n], s[n + 1])
    BY <1>0, <2>1, LoadingSteps
  <2>4. Loading(table, t)[n + 1] = LoadLine(Loading(table, t)[n], t[n + 1])
    BY <1>n, <2>1, LoadingSteps
  <2> QED
    BY <1>0, <2>1, <2>2, <2>3, <2>4
<1>3. T = Nat
  <2>1. T \subseteq Nat
    OBVIOUS
  <2> HIDE DEF T
  <2> QED
    BY <1>1, <1>2, <2>1, Induction
<1>4. Loading(table, t)[Len(s)] = Loading(table, s)[Len(s)]
    BY <1>0, <1>3
<1>5. Len(s) + 1 \in 1 .. Len(t) /\ (Len(s) + 1) - 1 = Len(s)
    BY <1>0
<1>6. Loading(table, t)[Len(s) + 1] = LoadLine(Loading(table, t)[Len(s)], t[Len(s) + 1])
    BY <1>n, <1>5, LoadingSteps
<1>7. Loading(table, t)[Len(t)] = LoadLine(Loading(table, s)[Len(s)], c)
    BY <1>0, <1>4, <1>6
<1> QED
    BY <1>7 DEF t

\* The first byte of a kind.
LEMMA BeforeIs ==
    ASSUME NEW s, NEW cs, NEW m \in 1 .. Len(s), Len(s) \in Nat,
           s[m] \in cs, \A n \in 1 .. Len(s) : n < m => s[n] \notin cs
    PROVE  Before(s, cs) = m
<1> DEFINE I == {n \in 1 .. Len(s) : s[n] \in cs}
<1>1. m \in I /\ m \in Int /\ \A n \in I : n \in Int /\ m <= n
    OBVIOUS
<1>2. Before(s, cs) = IF I # {} THEN Min(I) ELSE 0
    BY Zenon DEF Before, SelectInSeq
<1> HIDE DEF I
<1> QED
    BY <1>1, <1>2, MinIs

\* Loading a line sets the key to the value it was written with, whatever
\* separators the value holds.
LEMMA LoadItem ==
    ASSUME NEW table, NEW k \in Keys, NEW v \in Values
    PROVE  LoadLine(table, Item(k, v)) = Set(table, k, v)
<1> DEFINE it == Item(k, v)
           x == Len(k)
           y == Len(v)
           stop == Before(it, Range(ItemEnd))
           item == Upto(it, stop)
           sep == Before(item, {Separator})
<1>1. /\ it \in Seq(TextBytes) /\ Len(it) = x + y + 3
      /\ \A n \in 1 .. x : it[n] = k[n]
      /\ it[x + 1] = ":"
      /\ \A n \in 1 .. y : it[x + 1 + n] = v[n]
      /\ it[x + y + 2] = "\r" /\ it[x + y + 3] = "\n"
    BY ItemFacts
<1>2. /\ k \in Seq(CaskBytes) /\ v \in Seq(CaskBytes) /\ x \in Nat /\ y \in Nat
      /\ \A n \in 1 .. x : k[n] \notin {"\r", "\n", ":"}
      /\ \A n \in 1 .. y : v[n] \notin {"\r", "\n"}
    BY ItemBytes
<1>e. Range(ItemEnd) = {"\r", "\n"}
  <2>1. DOMAIN ItemEnd = {1, 2} /\ ItemEnd[1] = "\r" /\ ItemEnd[2] = "\n"
    BY DEF ItemEnd
  <2> QED
    BY <2>1 DEF Range
<1> HIDE DEF it, x, y
<1>3. stop = x + y + 2
  <2>1. x + y + 2 \in 1 .. Len(it) /\ Len(it) \in Nat
    BY <1>1, <1>2
  <2>2. ASSUME NEW n \in 1 .. Len(it), n < x + y + 2 PROVE it[n] \notin {"\r", "\n"}
    <3>1. CASE n \in 1 .. x
      BY <1>1, <1>2, <3>1
    <3>2. CASE n = x + 1
      BY <1>1, <3>2
    <3>3. CASE n \in x + 2 .. x + 1 + y
      <4>1. n - (x + 1) \in 1 .. y /\ x + 1 + (n - (x + 1)) = n
        BY <1>2, <3>3
      <4> QED
        BY <1>1, <1>2, <4>1
    <3> QED
      BY <1>1, <1>2, <2>2, <3>1, <3>2, <3>3
  <2>3. it[x + y + 2] \in {"\r", "\n"}
    BY <1>1
  <2> QED
    BY <1>e, <2>1, <2>2, <2>3, BeforeIs
<1>4. /\ item \in Seq(TextBytes) /\ Len(item) = x + y + 1
      /\ \A n \in 1 .. x + y + 1 : item[n] = it[n]
  <2>1. item = SubSeq(it, 1, x + y + 1)
    <3>1. x + y + 2 # 0 /\ (x + y + 2) - 1 = x + y + 1
      BY <1>2
    <3> HIDE DEF stop
    <3> QED
      BY <1>3, <3>1 DEF Upto
  <2>2. \A n \in 1 .. x + y + 1 : it[n] \in TextBytes
    <3> TAKE n \in 1 .. x + y + 1
    <3>1. n \in 1 .. Len(it)
      BY <1>1, <1>2
    <3> QED
      BY <1>1, <3>1
  <2> DEFINE e == x + y + 1
  <2>3. e \in Nat
    BY <1>2
  <2> HIDE DEF e, item
  <2>4. /\ SubSeq(it, 1, e) \in Seq(TextBytes)
        /\ Len(SubSeq(it, 1, e)) = IF 1 <= e THEN e - 1 + 1 ELSE 0
        /\ \A n \in 1 .. e - 1 + 1 : SubSeq(it, 1, e)[n] = it[1 + n - 1]
    <3>1. \A n \in 1 .. e : it[n] \in TextBytes
      BY <2>2 DEF e
    <3> QED
      BY <2>3, <3>1, SubSeqProperties
  <2>5. e - 1 + 1 = e /\ 1 <= e /\ \A n \in 1 .. e : 1 + n - 1 = n
    BY <1>2, <2>3 DEF e
  <2> QED
    BY <2>1, <2>4, <2>5 DEF e
<1> HIDE DEF item
<1>5. sep = x + 1
  <2>1. x + 1 \in 1 .. Len(item) /\ Len(item) \in Nat
    BY <1>2, <1>4
  <2>2. ASSUME NEW n \in 1 .. Len(item), n < x + 1 PROVE item[n] \notin {Separator}
    <3>1. n \in 1 .. x /\ n \in 1 .. x + y + 1
      BY <1>2, <1>4, <2>2
    <3> QED
      BY <1>1, <1>2, <1>4, <3>1 DEF Separator
  <2>3. item[x + 1] \in {Separator}
    <3>1. x + 1 \in 1 .. x + y + 1
      BY <1>2
    <3> QED
      BY <1>1, <1>4, <3>1 DEF Separator
  <2> QED
    BY <2>1, <2>2, <2>3, BeforeIs
<1> HIDE DEF sep
<1>6. SubSeq(item, 1, x) = k
  <2>1. \A n \in 1 .. x : n \in 1 .. x + y + 1 /\ item[n] = k[n] /\ item[n] \in CaskBytes
    <3> TAKE n \in 1 .. x
    <3>1. n \in 1 .. x + y + 1 /\ k[n] \in CaskBytes
      BY <1>2 DEF x
    <3> QED
      BY <1>1, <1>4, <3>1
  <2> DEFINE u == SubSeq(item, 1, x)
  <2>2. /\ u \in Seq(CaskBytes) /\ Len(u) = IF 1 <= x THEN x - 1 + 1 ELSE 0
        /\ \A n \in 1 .. x - 1 + 1 : u[n] = item[1 + n - 1]
    BY <1>2, <2>1, SubSeqProperties
  <2> HIDE DEF u
  <2>3. Len(u) = x /\ \A n \in 1 .. x : u[n] = k[n]
    BY <1>2, <2>1, <2>2
  <2>4. u = k
    BY <1>2, <2>2, <2>3, SeqEqual DEF x
  <2> QED
    BY <2>4 DEF u
<1>7. SubSeq(item, x + 2, x + y + 1) = v
  <2>1. \A n \in 1 .. y : item[x + 1 + n] = v[n]
    <3> TAKE n \in 1 .. y
    <3>1. x + 1 + n \in 1 .. x + y + 1
      BY <1>2
    <3> QED
      BY <1>1, <1>4, <3>1
  <2>2. \A n \in x + 2 .. x + y + 1 : item[n] \in CaskBytes
    <3> TAKE n \in x + 2 .. x + y + 1
    <3>1. n - (x + 1) \in 1 .. y /\ x + 1 + (n - (x + 1)) = n
      BY <1>2
    <3>2. v[n - (x + 1)] \in CaskBytes
      BY <1>2, <3>1 DEF y
    <3> QED
      BY <2>1, <3>1, <3>2
  <2> DEFINE p == x + 2
             q == x + y + 1
             u == SubSeq(item, p, q)
  <2>3. p \in Int /\ q \in Int /\ q - p + 1 = y /\ (p <= q <=> y # 0)
    BY <1>2
  <2>4. \A n \in p .. q : item[n] \in CaskBytes
    BY <2>2
  <2>5. \A n \in 1 .. y : p + n - 1 = x + 1 + n
    BY <1>2
  <2> HIDE DEF p, q
  <2>6. /\ u \in Seq(CaskBytes) /\ Len(u) = IF p <= q THEN q - p + 1 ELSE 0
        /\ \A n \in 1 .. q - p + 1 : u[n] = item[p + n - 1]
    BY <2>3, <2>4, SubSeqProperties
  <2> HIDE DEF u
  <2>7. Len(u) = y /\ \A n \in 1 .. y : u[n] = v[n]
    BY <1>2, <2>1, <2>3, <2>5, <2>6
  <2>8. u = v
    BY <1>2, <2>6, <2>7, SeqEqual DEF y
  <2> QED
    BY <2>8 DEF u, p, q
<1>8. LoadLine(table, it) = IF sep = 0 THEN table
                            ELSE Set(table, SubSeq(item, 1, sep - 1), SubSeq(item, sep + 1, Len(item)))
    BY Zenon DEF LoadLine, item, sep
<1>9. sep # 0 /\ sep - 1 = x /\ sep + 1 = x + 2
    BY <1>2, <1>5
<1>10. LoadLine(table, it) = Set(table, k, v)
    BY <1>4, <1>6, <1>7, <1>8, <1>9
<1> QED
    BY <1>10 DEF it

-----------------------------------------------------------------------------
(* Save and load                                                           *)

Tables     == UNION {[D -> Values] : D \in SUBSET Keys}
SavedLines == {Item(k, v) : k \in Keys, v \in Values}

\* The text is whole lines, whatever db_save was interrupted by, and loads as
\* the part D of the table that was to be saved.
TextInv ==
    /\ text \in Seq(TextBytes)
    /\ \E L \in Seq(SavedLines) : Reading(text)[Len(text)] = [lines |-> L, line |-> <<>>]

SavedPart(D) ==
    /\ D \subseteq DOMAIN saving
    /\ Load(Empty, text) = [k \in D |-> saving[k]]
    /\ complete => D = DOMAIN saving
    /\ pc = "save" => /\ saving = ht /\ left \subseteq DOMAIN saving
                      /\ D = DOMAIN saving \ left

TableInv ==
    /\ ht \in Tables /\ saving \in Tables /\ sets \in Nat
    /\ TextInv
    /\ \E D : SavedPart(D)

\* The lines of the text, and the table they load as.
LEMMA LoadIs ==
    ASSUME NEW s, NEW L, NEW table, Reading(s)[Len(s)] = [lines |-> L, line |-> <<>>]
    PROVE  Load(table, s) = Loading(table, L)[Len(L)]
<1>1. FileLines(s) = L
    BY DEF FileLines
<1> QED
    BY <1>1 DEF Load

LEMMA LoadNothing ==
    ASSUME NEW table
    PROVE  /\ Reading(<<>>)[Len(<<>>)] = [lines |-> <<>>, line |-> <<>>]
           /\ Load(table, <<>>) = table
<1>1. Len(<<>>) = 0 /\ Len(<<>>) \in Nat
    OBVIOUS
<1>2. Reading(<<>>)[0] = Start /\ Loading(table, <<>>)[0] = table
    BY <1>1, ReadingSteps, LoadingSteps
<1>3. Reading(<<>>)[Len(<<>>)] = [lines |-> <<>>, line |-> <<>>]
    BY <1>1, <1>2 DEF Start
<1>4. Load(table, <<>>) = Loading(table, <<>>)[Len(<<>>)]
    BY <1>3, LoadIs
<1> QED
    BY <1>1, <1>2, <1>3, <1>4

LEMMA SetTable ==
    ASSUME NEW table \in Tables, NEW k \in Keys, NEW v \in Values
    PROVE  Set(table, k, v) \in Tables
<1>1. PICK D \in SUBSET Keys : table \in [D -> Values]
    BY DEF Tables
<1>2. D \cup {k} \in SUBSET Keys
    BY <1>1
<1>3. DOMAIN table = D
    BY <1>1
<1>4. Set(table, k, v) \in [D \cup {k} -> Values]
    BY <1>1, <1>3 DEF Set
<1> QED
    BY <1>2, <1>4 DEF Tables

\* Saved lines load into a table.
LEMMA LoadTable ==
    ASSUME NEW table \in Tables, NEW L \in Seq(SavedLines)
    PROVE  Loading(table, L)[Len(L)] \in Tables
<1> DEFINE T == {n \in Nat : n <= Len(L) => Loading(table, L)[n] \in Tables}
<1>0. Len(L) \in Nat /\ \A n \in 1 .. Len(L) : L[n] \in SavedLines
    BY LenProperties
<1>1. 0 \in T
    BY <1>0, LoadingSteps
<1>2. ASSUME NEW n \in T PROVE n + 1 \in T
  <2> SUFFICES ASSUME n + 1 <= Len(L) PROVE Loading(table, L)[n + 1] \in Tables
    OBVIOUS
  <2>1. n \in Nat /\ n <= Len(L) /\ n + 1 \in 1 .. Len(L) /\ (n + 1) - 1 = n
    BY <1>0
  <2>2. Loading(table, L)[n + 1] = LoadLine(Loading(table, L)[n], L[n + 1])
    BY <1>0, <2>1, LoadingSteps
  <2>3. Loading(table, L)[n] \in Tables
    BY <2>1
  <2>4. PICK k \in Keys, v \in Values : L[n + 1] = Item(k, v)
    BY <1>0, <2>1 DEF SavedLines
  <2>5. LoadLine(Loading(table, L)[n], Item(k, v)) = Set(Loading(table, L)[n], k, v)
    BY LoadItem
  <2> QED
    BY <2>2, <2>3, <2>4, <2>5, SetTable
<1>3. T = Nat
  <2>1. T \subseteq Nat
    OBVIOUS
  <2> HIDE DEF T
  <2> QED
    BY <1>1, <1>2, <2>1, Induction
<1> QED
    BY <1>0, <1>3

LEMMA TableInit == CaskInit => TableInv
<1> SUFFICES ASSUME CaskInit PROVE TableInv
    OBVIOUS
<1>1. /\ ht = Empty /\ saving = Empty /\ text = <<>> /\ complete = FALSE
      /\ pc = "idle" /\ sets \in Nat
    BY DEF CaskInit
<1>2. Empty \in Tables /\ DOMAIN Empty = {}
  <2>1. {} \in SUBSET Keys /\ Empty \in [{} -> Values]
    BY DEF Empty
  <2> QED
    BY <2>1 DEF Tables
<1>3. TextInv
  <2>1. <<>> \in Seq(TextBytes) /\ <<>> \in Seq(SavedLines)
    OBVIOUS
  <2> QED
    BY <1>1, <2>1, LoadNothing DEF TextInv
<1>4. SavedPart({})
  <2>1. Load(Empty, text) = Empty
    BY <1>1, LoadNothing
  <2>2. Empty = [k \in {} |-> saving[k]]
    BY DEF Empty
  <2> QED
    BY <1>1, <1>2, <2>1, <2>2 DEF SavedPart
<1> QED
    BY <1>1, <1>2, <1>3, <1>4, Zenon DEF TableInv

\* A step that leaves the text and the table to be saved alone.
LEMMA TextKept ==
    /\ TableInv /\ text' = text /\ saving' = saving /\ pc' # "save" /\ ht' \in Tables
    /\ sets' \in Nat
    /\ complete' => complete \/ (pc = "save" /\ left = {})
    => TableInv'
<1> SUFFICES ASSUME TableInv, text' = text, saving' = saving, pc' # "save", ht' \in Tables,
                    sets' \in Nat, complete' => complete \/ (pc = "save" /\ left = {})
             PROVE  TableInv'
    OBVIOUS
<1>1. TextInv'
    BY DEF TableInv, TextInv
<1>2. PICK D : SavedPart(D)
    BY DEF TableInv
<1>3. complete' => D = DOMAIN saving
    BY <1>2 DEF SavedPart
<1>4. Load(Empty, text)' = Load(Empty, text)
    BY Zenon
<1>5. SavedPart(D)'
    BY <1>2, <1>3 DEF SavedPart
<1> QED
    BY <1>1, <1>5 DEF TableInv

LEMMA SaveItemKeeps ==
    ASSUME TableInv, NEW k \in Keys, SaveItem(k)
    PROVE  TableInv'
<1>1. /\ pc = "save" /\ k \in left /\ text' = text \o Item(k, ht[k]) /\ left' = left \ {k}
      /\ pc' = pc /\ ht' = ht /\ saving' = saving /\ complete' = complete /\ sets' = sets
    BY DEF SaveItem
<1>2. PICK D : SavedPart(D)
    BY DEF TableInv
<1>3. saving = ht /\ k \in DOMAIN saving /\ D = DOMAIN saving \ left /\ D \subseteq DOMAIN saving
      /\ left \subseteq DOMAIN saving
    BY <1>1, <1>2 DEF SavedPart
<1>4. PICK v : v = ht[k]
    BY Zenon
<1>5. v \in Values
  <2>1. PICK E \in SUBSET Keys : ht \in [E -> Values]
    BY DEF TableInv, Tables
  <2> QED
    BY <1>3, <1>4, <2>1
<1>6. PICK s, s2 : s = text /\ s2 = text'
    BY Zenon
<1>7. PICK L \in Seq(SavedLines) : Reading(s)[Len(s)] = [lines |-> L, line |-> <<>>]
    BY <1>6 DEF TableInv, TextInv
<1>8. s \in Seq(TextBytes) /\ s2 = s \o Item(k, v)
    BY <1>1, <1>4, <1>6 DEF TableInv, TextInv
<1>9. /\ s2 \in Seq(TextBytes)
      /\ Reading(s2)[Len(s2)] = [lines |-> Append(L, Item(k, v)), line |-> <<>>]
    BY <1>5, <1>7, <1>8, ReadItem
<1>10. Item(k, v) \in SavedLines /\ Append(L, Item(k, v)) \in Seq(SavedLines)
  <2>1. Item(k, v) \in SavedLines
    BY <1>5 DEF SavedLines
  <2> QED
    BY <2>1, AppendProperties
<1>11. TextInv'
    BY <1>6, <1>9, <1>10 DEF TextInv
<1>12. Load(Empty, s2) = Set(Load(Empty, s), k, v)
  <2> DEFINE c == Item(k, v)
             L2 == Append(L, c)
  <2>1. Load(Empty, s2) = Loading(Empty, L2)[Len(L2)]
    BY <1>9, LoadIs
  <2>2. Load(Empty, s) = Loading(Empty, L)[Len(L)]
    BY <1>7, LoadIs
  <2>3. c \in SavedLines
    BY <1>10
  <2> HIDE DEF c
  <2>4. Loading(Empty, L2)[Len(L2)] = LoadLine(Loading(Empty, L)[Len(L)], c)
    BY <2>3, LoadingAppend
  <2>5. LoadLine(Load(Empty, s), c) = Set(Load(Empty, s), k, v)
    BY <1>5, LoadItem DEF c
  <2> QED
    BY <2>1, <2>2, <2>4, <2>5
<1>13. Load(Empty, s) = [x \in D |-> saving[x]]
    BY <1>2, <1>6 DEF SavedPart
<1>14. Set([x \in D |-> saving[x]], k, v) = [x \in D \cup {k} |-> saving[x]]
    BY <1>3, <1>4 DEF Set
<1>15. PICK E : E = D \cup {k}
    BY Zenon
<1>16. Load(Empty, s2) = [x \in E |-> saving'[x]]
    BY <1>1, <1>12, <1>13, <1>14, <1>15
<1>17. E \subseteq DOMAIN saving' /\ E = DOMAIN saving' \ left' /\ left' \subseteq DOMAIN saving'
    BY <1>1, <1>3, <1>15
<1>18. complete' => E = DOMAIN saving'
    BY <1>1, <1>2, <1>3, <1>15 DEF SavedPart
<1>19. Load(Empty, text)' = Load(Empty, s2)
    BY <1>6
<1>20. SavedPart(E)'
    BY <1>1, <1>3, <1>16, <1>17, <1>18, <1>19 DEF SavedPart
<1> QED
    BY <1>1, <1>11, <1>20 DEF TableInv

LEMMA TableStep == TableInv /\ [CaskNext]_caskVars => TableInv'
<1> SUFFICES ASSUME TableInv, [CaskNext]_caskVars PROVE TableInv'
    OBVIOUS
<1>e. Empty \in Tables /\ DOMAIN Empty = {}
  <2>1. {} \in SUBSET Keys /\ Empty \in [{} -> Values]
    BY DEF Empty
  <2> QED
    BY <2>1 DEF Tables
<1>t. ht \in Tables /\ sets \in Nat
    BY DEF TableInv
<1>1. CASE bitcask_open \/ bitcask_close \/ AppendWrite \/ AppendFails \/ AppendDone
  <2>1. /\ text' = text /\ saving' = saving /\ complete' = complete /\ pc' # "save" /\ ht' = ht
        /\ sets' = sets
    BY <1>1 DEF bitcask_open, bitcask_close, AppendWrite, AppendFails, AppendDone, Return,
                tableVars
  <2> QED
    BY <1>t, <2>1, TextKept
<1>2. ASSUME NEW k \in Keys, NEW v \in Values, AppendStart(k, v) PROVE TableInv'
  <2>1. /\ text' = text /\ saving' = saving /\ complete' = complete /\ pc' # "save" /\ ht' = ht
        /\ sets' = sets
    BY <1>2 DEF AppendStart, tableVars
  <2> QED
    BY <1>t, <2>1, TextKept
<1>3. ASSUME NEW k \in Keys, NEW v \in Values, ht_set(k, v) PROVE TableInv'
  <2>1. /\ text' = text /\ saving' = saving /\ complete' = complete /\ pc' # "save"
        /\ ht' = Set(ht, k, v) /\ sets' = sets + 1
    BY <1>3 DEF ht_set
  <2>2. ht' \in Tables /\ sets' \in Nat
    BY <1>t, <2>1, SetTable
  <2> QED
    BY <2>1, <2>2, TextKept
<1>4. CASE Restart
  <2>1. /\ text' = text /\ saving' = saving /\ complete' = complete /\ pc' # "save" /\ ht' = Empty
        /\ sets' = sets
    BY <1>4 DEF Restart
  <2> QED
    BY <1>e, <1>t, <2>1, TextKept
<1>5. CASE SaveDone
  <2>1. /\ text' = text /\ saving' = saving /\ pc = "save" /\ left = {} /\ pc' # "save"
        /\ ht' = ht /\ sets' = sets
    BY <1>5 DEF SaveDone
  <2> QED
    BY <1>t, <2>1, TextKept
<1>6. CASE db_load
  <2>1. /\ text' = text /\ saving' = saving /\ complete' = complete /\ pc' # "save"
        /\ ht' = Load(ht, text) /\ sets' = sets
    BY <1>6 DEF db_load
  <2>2. PICK L \in Seq(SavedLines) : Reading(text)[Len(text)] = [lines |-> L, line |-> <<>>]
    BY DEF TableInv, TextInv
  <2>3. Load(ht, text) = Loading(ht, L)[Len(L)]
    BY <2>2, LoadIs
  <2>4. ht' \in Tables
    BY <1>t, <2>1, <2>3, LoadTable
  <2> QED
    BY <1>t, <2>1, <2>4, TextKept
<1>7. CASE SaveStart
  <2>1. /\ text' = <<>> /\ left' = DOMAIN ht /\ saving' = ht /\ complete' = FALSE
        /\ pc' = "save" /\ ht' = ht /\ sets' = sets
    BY <1>7 DEF SaveStart
  <2>2. TextInv'
    <3>1. <<>> \in Seq(TextBytes) /\ <<>> \in Seq(SavedLines)
      OBVIOUS
    <3> QED
      BY <2>1, <3>1, LoadNothing DEF TextInv
  <2>3. Load(Empty, <<>>) = Empty
    BY LoadNothing
  <2>4. Empty = [k \in {} |-> saving'[k]]
    BY DEF Empty
  <2>5. Load(Empty, text)' = Load(Empty, <<>>)
    BY <2>1
  <2>6. SavedPart({})'
    BY <2>1, <2>3, <2>4, <2>5 DEF SavedPart
  <2> QED
    BY <1>t, <2>1, <2>2, <2>6 DEF TableInv
<1>8. CASE UNCHANGED caskVars
  <2>1. /\ text' = text /\ saving' = saving /\ complete' = complete /\ pc' = pc /\ ht' = ht
        /\ left' = left /\ sets' = sets
    BY <1>8 DEF caskVars, tableVars
  <2>2. PICK D : SavedPart(D)
    BY DEF TableInv
  <2>3. SavedPart(D)' /\ TextInv'
    BY <2>1, <2>2 DEF SavedPart, TextInv, TableInv
  <2> QED
    BY <2>1, <2>3 DEF TableInv
<1> QED
    BY <1>1, <1>2, <1>3, <1>4, <1>5, <1>6, <1>7, <1>8, SaveItemKeeps DEF CaskNext

LEMMA TableInvariance == CaskSpec => []TableInv
<1> QED
    BY TableInit, TableStep, PTL DEF CaskSpec

\* For all keys and values the format can hold: a table that db_save wrote to
\* the end is what db_load makes of the file.
THEOREM SavedComesBack == CaskSpec => []SaveLoadRoundTrip
<1>1. ASSUME TableInv PROVE SaveLoadRoundTrip
  <2> SUFFICES ASSUME complete PROVE Load(Empty, text) = saving
    BY DEF SaveLoadRoundTrip
  <2>1. PICK D : SavedPart(D)
    BY <1>1 DEF TableInv
  <2>2. Load(Empty, text) = [k \in DOMAIN saving |-> saving[k]]
    BY <2>1 DEF SavedPart
  <2>3. PICK E \in SUBSET Keys : saving \in [E -> Values]
    BY <1>1 DEF TableInv, Tables
  <2> QED
    BY <2>2, <2>3
<1> QED
    BY <1>1, TableInvariance, PTL

\* And a db_save that was killed between two writes leaves a file from which
\* db_load takes nothing that was not in the table.
THEOREM NothingInvented == CaskSpec => LoadInventsNothing
<1>1. ASSUME TableInv, CaskNext, ht = Empty, ht' # ht, UNCHANGED sets
      PROVE  \A k \in DOMAIN ht' : k \in DOMAIN saving /\ ht'[k] = saving[k]
  <2>1. db_load
    <3>1. \A k \in Keys, v \in Values : ~ht_set(k, v)
      BY <1>1 DEF ht_set, TableInv
    <3>2. ~(bitcask_open \/ bitcask_close \/ AppendWrite \/ AppendFails \/ AppendDone)
      BY <1>1 DEF bitcask_open, bitcask_close, AppendWrite, AppendFails, AppendDone, tableVars
    <3>3. ~(SaveStart \/ SaveDone \/ Restart)
      BY <1>1 DEF SaveStart, SaveDone, Restart
    <3>4. \A k \in Keys, v \in Values : ~AppendStart(k, v)
      BY <1>1 DEF AppendStart, tableVars
    <3>5. \A k \in Keys : ~SaveItem(k)
      BY <1>1 DEF SaveItem
    <3> QED
      BY <1>1, <3>1, <3>2, <3>3, <3>4, <3>5, Zenon DEF CaskNext
  <2>2. ht' = Load(Empty, text)
    BY <1>1, <2>1 DEF db_load
  <2>3. PICK D : SavedPart(D)
    BY <1>1 DEF TableInv
  <2> QED
    BY <2>2, <2>3 DEF SavedPart
<1>2. TableInv /\ [CaskNext]_caskVars =>
         [ht = Empty /\ ht' # ht /\ UNCHANGED sets =>
             \A k \in DOMAIN ht' : k \in DOMAIN saving /\ ht'[k] = saving[k]]_caskVars
    BY <1>1
<1> QED
    BY <1>2, TableInvariance, PTL DEF CaskSpec, LoadInventsNothing

-----------------------------------------------------------------------------
(* grep: the lines of the text                                             *)

LEMMA LineEndIs ==
    ASSUME NEW s, Len(s) \in Nat, Len(s) > 0
    PROVE  /\ LineEnd(s) \in 1 .. Len(s)
           /\ \A k \in 1 .. LineEnd(s) - 1 : s[k] # "\n"
           /\ LineEnd(s) = Len(s) \/ s[LineEnd(s)] = "\n"
<1> DEFINE I == {n \in 1 .. Len(s) : s[n] = "\n"}
           nl == IF I # {} THEN Min(I) ELSE 0
<1>1. LineEnd(s) = IF nl = 0 THEN Len(s) ELSE nl
    BY Zenon DEF LineEnd, SelectInSeq
<1>2. I \subseteq Nat /\ \A n \in I : n \in 1 .. Len(s) /\ s[n] = "\n"
    OBVIOUS
<1>3. \A n \in 1 .. Len(s) : n \in I \/ s[n] # "\n"
    OBVIOUS
<1>4. CASE I = {}
  <2>1. LineEnd(s) = Len(s)
    BY <1>1, <1>4
  <2> HIDE DEF I
  <2> QED
    BY <1>3, <1>4, <2>1
<1>5. CASE I # {}
  <2> HIDE DEF I
  <2>1. PICK m \in I : \A n \in I : m <= n
    BY <1>2, <1>5, Smallest
  <2>2. Min(I) = m
    <3>1. m \in Int /\ \A y \in I : y \in Int /\ m <= y
      BY <1>2, <2>1
    <3> QED
      BY <3>1, MinIs
  <2>3. m \in 1 .. Len(s) /\ s[m] = "\n"
    BY <1>2
  <2>4. LineEnd(s) = m
    BY <1>1, <1>5, <2>2, <2>3
  <2>5. \A k \in 1 .. m - 1 : k \in 1 .. Len(s) /\ k \notin I
    BY <2>1, <2>3
  <2> QED
    BY <1>3, <2>3, <2>4, <2>5
<1> QED
    BY <1>4, <1>5

\* A place where a line may begin.
Boundary(s, n) == n = 0 \/ s[n] = "\n"

\* fgets reads m characters at n: a whole line, if it begins where a line does
\* and the lines fit.
Reads(s, n, m) ==
    /\ fgets = SubSeq(s, n + 1, n + m)
    /\ fgets \in Seq(GrepChars) /\ Len(fgets) = m
    /\ \A k \in 1 .. m : fgets[k] = s[n + k]
    /\ Boundary(s, n) /\ LinesFit => m > 0 /\ <<n + 1, n + m>> \in TextLines(s)

LEMMA FgetsIs ==
    ASSUME NEW s, NEW n, gtext = s, gpos = n, s \in Seq(GrepChars), n \in 0 .. Len(s), n < Len(s)
    PROVE  \E m \in 0 .. Len(s) - n : Reads(s, n, m)
<1> DEFINE l    == Len(s) - n
           rest == SubSeq(s, n + 1, Len(s))
           e    == LineEnd(rest)
           m    == IF e < BufSize THEN e ELSE BufSize - 1
<1>0. Len(s) \in Nat /\ n \in Nat /\ l \in Nat /\ l > 0 /\ n + l = Len(s)
    BY LenProperties
<1>1. rest \in Seq(GrepChars) /\ Len(rest) = l /\ \A k \in 1 .. l : rest[k] = s[n + k]
  <2>1. \A k \in n + 1 .. Len(s) : s[k] \in GrepChars
    BY <1>0
  <2>2. /\ rest \in Seq(GrepChars)
        /\ Len(rest) = IF n + 1 <= Len(s) THEN Len(s) - (n + 1) + 1 ELSE 0
        /\ \A k \in 1 .. Len(s) - (n + 1) + 1 : rest[k] = s[(n + 1) + k - 1]
    BY <1>0, <2>1, SubSeqProperties
  <2> HIDE DEF rest
  <2>3. Len(rest) = l
    <3>1. n + 1 <= Len(s) /\ Len(s) - (n + 1) + 1 = l
      BY <1>0
    <3> HIDE DEF l
    <3> QED
      BY <2>2, <3>1, Zenon
  <2>4. ASSUME NEW k \in 1 .. l PROVE rest[k] = s[n + k]
    <3>1. k \in 1 .. Len(s) - (n + 1) + 1 /\ (n + 1) + k - 1 = n + k
      BY <1>0
    <3> QED
      BY <2>2, <3>1
  <2> QED
    BY <2>2, <2>3, <2>4
<1> HIDE DEF l, rest
<1>2. /\ e \in 1 .. l /\ (\A k \in 1 .. e - 1 : rest[k] # "\n")
      /\ e = l \/ rest[e] = "\n"
  <2>1. Len(rest) \in Nat /\ Len(rest) > 0
    BY <1>0, <1>1
  <2>2. /\ LineEnd(rest) \in 1 .. Len(rest)
        /\ \A k \in 1 .. LineEnd(rest) - 1 : rest[k] # "\n"
        /\ LineEnd(rest) = Len(rest) \/ rest[LineEnd(rest)] = "\n"
    BY <2>1, LineEndIs
  <2> QED
    BY <1>1, <2>2
<1>3. fgets = SubSeq(rest, 1, m)
    BY Zenon DEF fgets, rest
<1> HIDE DEF e
<1>4. m \in 0 .. e /\ m \in 0 .. l
    BY <1>0, <1>2, GrepAssumption
<1>5. e < BufSize => m = e
    OBVIOUS
<1> HIDE DEF m
<1>6. fgets \in Seq(GrepChars) /\ Len(fgets) = m /\ \A k \in 1 .. m : fgets[k] = rest[k]
  <2>1. \A k \in 1 .. m : rest[k] \in GrepChars
    BY <1>0, <1>1, <1>4
  <2>2. /\ SubSeq(rest, 1, m) \in Seq(GrepChars)
        /\ Len(SubSeq(rest, 1, m)) = IF 1 <= m THEN m - 1 + 1 ELSE 0
        /\ \A k \in 1 .. m - 1 + 1 : SubSeq(rest, 1, m)[k] = rest[1 + k - 1]
    BY <1>4, <2>1, SubSeqProperties
  <2> HIDE DEF fgets
  <2> QED
    BY <1>0, <1>3, <1>4, <2>2
<1>7. \A k \in 1 .. m : fgets[k] = s[n + k]
    BY <1>0, <1>1, <1>4, <1>6
<1>8. fgets = SubSeq(s, n + 1, n + m)
  <2> DEFINE t == SubSeq(s, n + 1, n + m)
  <2>1. \A k \in n + 1 .. n + m : s[k] \in GrepChars
    BY <1>0, <1>4
  <2>2. /\ t \in Seq(GrepChars)
        /\ Len(t) = IF n + 1 <= n + m THEN (n + m) - (n + 1) + 1 ELSE 0
        /\ \A k \in 1 .. (n + m) - (n + 1) + 1 : t[k] = s[(n + 1) + k - 1]
    <3>1. n + 1 \in Int /\ n + m \in Int
      BY <1>0, <1>4
    <3> QED
      BY <2>1, <3>1, SubSeqProperties
  <2> HIDE DEF t
  <2>3. Len(t) = m /\ \A k \in 1 .. m : t[k] = s[n + k]
    BY <1>0, <1>4, <2>2
  <2>4. \A k \in 1 .. Len(fgets) : fgets[k] = t[k]
    BY <1>6, <1>7, <2>3
  <2>5. fgets = t
    BY <1>6, <2>2, <2>3, <2>4, SeqEqual
  <2> QED
    BY <2>5 DEF t
<1>9. ASSUME Boundary(s, n), LinesFit PROVE m > 0 /\ <<n + 1, n + m>> \in TextLines(s)
  <2>1. \A k \in (n + 1) .. (n + e) - 1 : s[k] # "\n"
    <3> TAKE k \in (n + 1) .. (n + e) - 1
    <3>1. k - n \in 1 .. e - 1 /\ k - n \in 1 .. l /\ n + (k - n) = k
      BY <1>0, <1>2
    <3> QED
      BY <1>1, <1>2, <3>1
  <2>2. n + e = Len(s) \/ s[n + e] = "\n"
    BY <1>0, <1>1, <1>2
  <2>3. n + 1 \in 1 .. Len(s) /\ n + e \in 1 .. Len(s) /\ n + 1 <= n + e /\ (n + 1) - 1 = n
    BY <1>0, <1>2
  <2>4. n + 1 = 1 \/ s[(n + 1) - 1] = "\n"
    BY <1>0, <1>9, <2>3 DEF Boundary
  <2> DEFINE p == n + 1
             q == n + e
  <2>5. p \in 1 .. Len(s) /\ q \in 1 .. Len(s) /\ p <= q /\ (p = 1 \/ s[p - 1] = "\n")
        /\ (q = Len(s) \/ s[q] = "\n") /\ \A k \in p .. q - 1 : s[k] # "\n"
    BY <2>1, <2>2, <2>3, <2>4
  <2>6. q - p + 1 = e
    BY <1>0, <1>2
  <2> HIDE DEF p, q
  <2>7. <<p, q>> \in TextLines(s)
    BY <2>5 DEF TextLines
  <2>8. e < BufSize
    BY <1>9, <2>6, <2>7 DEF LinesFit
  <2> QED
    BY <1>2, <1>5, <2>7, <2>8 DEF p, q
<1> QED
    BY <1>4, <1>6, <1>7, <1>8, <1>9 DEF l, Reads

\* The line that begins at n + 1 is the only one that ends after n and not after
\* n + m.
LEMMA OneLineMore ==
    ASSUME NEW s \in Seq(GrepChars), NEW n \in Nat, NEW m \in Nat, Boundary(s, n),
           <<n + 1, n + m>> \in TextLines(s), NEW g \in TextLines(s), n < g[2], g[2] <= n + m
    PROVE  g = <<n + 1, n + m>>
<1>0. Len(s) \in Nat
    BY LenProperties
<1>1. /\ g = <<g[1], g[2]>> /\ g[1] \in 1 .. Len(s) /\ g[2] \in 1 .. Len(s) /\ g[1] <= g[2]
      /\ \A k \in g[1] .. g[2] - 1 : s[k] # "\n"
      /\ g[1] = 1 \/ s[g[1] - 1] = "\n"
      /\ g[2] = Len(s) \/ s[g[2]] = "\n"
    BY DEF TextLines
<1>2. n + m \in 1 .. Len(s) /\ \A k \in (n + 1) .. (n + m) - 1 : s[k] # "\n"
  <2> DEFINE p == n + 1
             q == n + m
  <2>1. <<p, q>> \in TextLines(s)
    OBVIOUS
  <2> HIDE DEF p, q
  <2>2. q \in 1 .. Len(s) /\ \A k \in p .. q - 1 : s[k] # "\n"
    BY <2>1 DEF TextLines
  <2> QED
    BY <2>2 DEF p, q
<1> DEFINE x == g[1]
           y == g[2]
<1>3. x \in Nat /\ y \in Nat /\ x >= 1 /\ x <= y /\ n < y /\ y <= n + m
    BY <1>0, <1>1
<1> HIDE DEF x, y
<1>4. y = n + m
  <2> SUFFICES ASSUME y # n + m PROVE FALSE
    OBVIOUS
  <2>1. y \in (n + 1) .. (n + m) - 1 /\ y # Len(s)
    <3>1. y < n + m /\ n + m <= Len(s)
      BY <1>0, <1>2, <1>3
    <3> QED
      BY <1>0, <1>3, <3>1
  <2> QED
    BY <1>1, <1>2, <2>1 DEF y
<1>5. x > n
  <2> SUFFICES ASSUME ~(x > n) PROVE FALSE
    OBVIOUS
  <2>1. n \in x .. y - 1 /\ n # 0
    BY <1>3
  <2> QED
    BY <1>1, <2>1 DEF Boundary, x, y
<1>6. x = n + 1
  <2> SUFFICES ASSUME x # n + 1 PROVE FALSE
    OBVIOUS
  <2>1. x - 1 \in (n + 1) .. (n + m) - 1 /\ x # 1
    BY <1>3, <1>4, <1>5
  <2> QED
    BY <1>1, <1>2, <2>1 DEF x
<1> QED
    BY <1>1, <1>4, <1>6 DEF x, y

\* More of the text, behind what was taken from it.
LEMMA ExtractMore ==
    ASSUME NEW S, NEW s, NEW n \in Nat, NEW m \in Nat, NEW P, P \subseteq 1 .. n,
           NEW out \in Seq(S), Extracts(out, P, s),
           NEW piece \in Seq(S), Len(piece) = m, \A k \in 1 .. m : piece[k] = s[n + k]
    PROVE  Extracts(out \o piece, P \cup ((n + 1) .. (n + m)), s)
<1> DEFINE Q == (n + 1) .. (n + m)
           V == P \cup Q
           c == Cardinality(P)
           r == out \o piece
           upto(X, x) == {q \in X : q <= x}
<1>1. IsFiniteSet(P) /\ c \in Nat /\ Len(out) = c
  <2>1. IsFiniteSet(1 .. n)
    BY FS_Interval
  <2> QED
    BY <2>1, FS_Subset, FS_CardinalityType DEF Extracts
<1>2. ASSUME NEW k \in 0 .. m
      PROVE  /\ IsFiniteSet(P \cup ((n + 1) .. (n + k)))
             /\ Cardinality(P \cup ((n + 1) .. (n + k))) = c + k
  <2> DEFINE K == (n + 1) .. (n + k)
  <2>1. IsFiniteSet(K) /\ Cardinality(K) = k
    <3>1. n + 1 \in Int /\ n + k \in Int
      OBVIOUS
    <3>2. IsFiniteSet(K) /\ Cardinality(K) = IF n + 1 > n + k THEN 0 ELSE (n + k) - (n + 1) + 1
      BY <3>1, FS_Interval
    <3> HIDE DEF K
    <3> QED
      BY <3>2
  <2>2. P \cap K = {}
    OBVIOUS
  <2> HIDE DEF K
  <2>3. Cardinality(P \cap K) = 0
    BY <2>2, FS_EmptySet
  <2>4. IsFiniteSet(P \cup K) /\ Cardinality(P \cup K) = c + Cardinality(K) - Cardinality(P \cap K)
    BY <1>1, <2>1, FS_Union
  <2> QED
    <3>1. Cardinality(P \cup K) = c + k
      BY <1>1, <2>1, <2>3, <2>4
    <3> QED
      BY <2>4, <3>1, Zenon DEF K
<1>3. /\ Len(r) = c + m /\ (\A k \in 1 .. c : r[k] = out[k])
      /\ \A k \in 1 .. m : r[c + k] = piece[k]
  <2>1. PICK d : d = c
    BY Zenon
  <2>2. Len(out) = d /\ Len(piece) = m
    BY <1>1, <2>1, Zenon
  <2>3. /\ Len(r) = d + m /\ (\A k \in 1 .. d : r[k] = out[k])
        /\ \A k \in 1 .. m : r[d + k] = piece[k]
    BY <2>2, Appended, SMTT(30)
  <2> QED
    BY <2>1, <2>3, Zenon
<1> HIDE DEF r
<1>4. Len(r) = Cardinality(V)
  <2>1. m \in 0 .. m
    OBVIOUS
  <2>2. Cardinality(V) = c + m
    BY <1>2, <2>1
  <2> QED
    BY <1>3, <2>2
<1>5. ASSUME NEW x \in P PROVE r[Cardinality(upto(V, x))] = s[x]
  <2>0. x \in Nat /\ x <= n
    OBVIOUS
  <2>1. upto(V, x) = upto(P, x)
    <3>1. \A q \in Q : ~(q <= x)
      BY <2>0
    <3> HIDE DEF Q
    <3> QED
      BY <3>1, Zenon
  <2> DEFINE U == upto(P, x)
  <2>2. U \in SUBSET P /\ x \in U /\ out[Cardinality(U)] = s[x]
    <3>1. out[Cardinality(U)] = s[x]
      BY <1>5, Zenon DEF Extracts
    <3>2. x <= x
      BY <2>0
    <3> QED
      BY <1>5, <3>1, <3>2, Zenon
  <2>3. U = upto(V, x)
    BY <2>1
  <2> HIDE DEF U
  <2>4. IsFiniteSet(U) /\ Cardinality(U) <= c
    BY <1>1, <2>2, FS_Subset
  <2>5. Cardinality(U) \in Nat /\ Cardinality(U) # 0
    BY <2>2, <2>4, FS_CardinalityType, FS_EmptySet
  <2>6. Cardinality(U) \in 1 .. c
    BY <1>1, <2>4, <2>5
  <2> HIDE DEF c
  <2>7. r[Cardinality(U)] = s[x]
    BY <1>3, <2>2, <2>6
  <2> QED
    BY <2>3, <2>7, Zenon
<1>6. ASSUME NEW x \in Q PROVE r[Cardinality(upto(V, x))] = s[x]
  <2>1. PICK k \in 1 .. m : x = n + k
    <3>1. x - n \in 1 .. m /\ x = n + (x - n)
      OBVIOUS
    <3> QED
      BY <3>1
  <2> DEFINE K == (n + 1) .. (n + k)
  <2>2. upto(V, x) = P \cup K
    <3>1. \A q \in P : q <= x
      BY <2>1
    <3>2. \A q : q \in Q /\ q <= x <=> q \in K
      BY <2>1
    <3> HIDE DEF Q, K
    <3> QED
      BY <3>1, <3>2, Zenon
  <2>3. Cardinality(P \cup K) = c + k
    <3>1. k \in 0 .. m
      OBVIOUS
    <3> QED
      BY <1>2, <3>1, Zenon
  <2>4. Cardinality(upto(V, x)) = c + k
    BY <2>2, <2>3, Zenon
  <2> HIDE DEF c, V
  <2>5. r[c + k] = s[n + k]
    BY <1>3
  <2> QED
    BY <2>1, <2>4, <2>5, Zenon
<1>7. \A x \in V : x \in P \/ x \in Q
    OBVIOUS
<1> HIDE DEF V, Q
<1>8. \A x \in V : r[Cardinality(upto(V, x))] = s[x]
    BY <1>5, <1>6, <1>7, Zenon
<1>9. Extracts(r, V, s)
    BY <1>4, <1>8, Zenon DEF Extracts
<1> QED
    BY <1>9 DEF r, V, Q

\* The selected lines that end within the first n characters.
UpTo(n) == {g \in Hits(gtext) : g[2] <= n}

\* What holds as long as every line fits: grep stands between two lines, and
\* has treated those before.
BetweenLines ==
    /\ gpos = Len(gtext) \/ Boundary(gtext, gpos)
    /\ Extracts(gout, Covered(UpTo(gpos)), gtext)
    /\ single <=> opt.mode = "char" /\ gpos > 0
    /\ opt.mode = "char" => (matched = 0 <=> UpTo(gpos) = {})

GrepInv ==
    /\ gtext \in Seq(GrepChars) /\ gpos \in 0 .. Len(gtext) /\ gout \in Seq(GrepChars)
    /\ matched \in Nat /\ files \in Nat /\ depth \in Nat /\ fds = files + depth
    /\ grep = "walk" => opt.mode = "recursive"
    /\ grep = "crash" => locked \/ files + depth >= MaxFds
    /\ grep \in {"0", "1"} /\ opt.mode \notin {"other", "recursive"} =>
          gpos = Len(gtext) /\ (grep = "1" <=> single /\ matched = 0)
    /\ opt.mode = "all" => gout = SubSeq(gtext, 1, gpos)
    /\ LinesFit => BetweenLines

LEMMA UpToPlaces ==
    ASSUME NEW n \in Nat, gtext \in Seq(GrepChars)
    PROVE  Covered(UpTo(n)) \subseteq 1 .. n
<1>1. ASSUME NEW g \in UpTo(n) PROVE g[1] \in 1 .. Len(gtext) /\ g[2] \in 1 .. Len(gtext) /\ g[2] <= n
    BY DEF UpTo, Hits, TextLines
<1>2. Len(gtext) \in Nat
    BY LenProperties
<1>3. ASSUME NEW g \in UpTo(n), NEW k \in g[1] .. g[2] PROVE k \in 1 .. n
    BY <1>1, <1>2
<1> QED
    BY <1>3 DEF Covered

LEMMA GrepStarts == GrepInit => GrepInv
<1> SUFFICES ASSUME GrepInit PROVE GrepInv
    OBVIOUS
<1>1. gtext \in Seq(GrepChars)
  <2>1. CASE gtext \in BoundedSeq(GrepChars, MaxGrep)
    <3>1. PICK m \in 0 .. MaxGrep : gtext \in [1 .. m -> GrepChars]
      BY <2>1, GrepAssumption, BoundedSequences
    <3>2. m \in Nat
      BY GrepAssumption
    <3> QED
      BY <3>1, <3>2
  <2>2. CASE gtext = <<>>
    BY <2>2
  <2> QED
    BY <2>1, <2>2 DEF GrepInit
<1>2. /\ gpos = 0 /\ gout = <<>> /\ single = FALSE /\ matched = 0
      /\ fds = 0 /\ depth = 0 /\ files = 0 /\ locked = FALSE
      /\ grep = "read" \/ (grep = "walk" /\ opt.mode = "recursive")
    BY DEF GrepInit, GrepStart, Pattern
<1>3. Len(gtext) \in Nat /\ gpos \in 0 .. Len(gtext) /\ gout \in Seq(GrepChars)
    BY <1>1, <1>2, LenProperties
<1>4. gout = SubSeq(gtext, 1, gpos)
    BY <1>2, SubSeqEmpty
<1>5. BetweenLines
  <2>1. UpTo(0) = {} /\ Covered({}) = {}
    <3>1. \A g \in UpTo(0) : g[2] \in 1 .. Len(gtext) /\ g[2] <= 0
      BY DEF UpTo, Hits, TextLines
    <3>2. \A k \in 1 .. Len(gtext) : ~(k <= 0)
      BY <1>3
    <3>3. UpTo(0) = {}
      BY <3>1, <3>2, Zenon
    <3> QED
      BY <3>3 DEF Covered
  <2>2. Len(gout) = 0 /\ Cardinality({}) = 0
    BY <1>2, FS_EmptySet
  <2>3. Extracts(gout, {}, gtext)
    BY <2>2 DEF Extracts
  <2>4. Extracts(gout, Covered(UpTo(gpos)), gtext)
    BY <1>2, <2>1, <2>3, Zenon
  <2>5. single <=> opt.mode = "char" /\ gpos > 0
    BY <1>2
  <2> QED
    BY <1>2, <2>1, <2>4, <2>5, Zenon DEF BetweenLines, Boundary
<1> QED
    BY <1>1, <1>2, <1>3, <1>4, <1>5 DEF GrepInv

\* One turn of the loop, on texts whose lines fit.
LEMMA LineTreated ==
    ASSUME GrepInv, GrepLine, LinesFit
    PROVE  BetweenLines'
<1>v. PICK s, n, o : s = gtext /\ n = gpos /\ o = opt
    BY Zenon
<1>0. /\ s \in Seq(GrepChars) /\ n \in 0 .. Len(s) /\ n < Len(s) /\ Len(s) \in Nat /\ n \in Nat
      /\ gtext' = s /\ opt' = o /\ gpos' = n + Len(fgets) /\ (single' <=> o.mode = "char")
      /\ gout \in Seq(GrepChars) /\ matched \in Nat /\ BetweenLines
  <2>1. /\ gtext \in Seq(GrepChars) /\ gpos \in 0 .. Len(gtext) /\ gout \in Seq(GrepChars)
        /\ matched \in Nat /\ BetweenLines
    BY Zenon DEF GrepInv
  <2>2. /\ gpos < Len(gtext) /\ gtext' = gtext /\ opt' = opt /\ gpos' = gpos + Len(fgets)
        /\ single' <=> opt.mode = "char"
    BY Zenon DEF GrepLine
  <2>3. Len(gtext) \in Nat
    BY <2>1, LenProperties
  <2>4. gpos \in Nat
    BY <2>1, <2>3
  <2> QED
    BY <1>v, <2>1, <2>2, <2>3, <2>4, Zenon
<1>b. Boundary(s, n)
    BY <1>0, <1>v DEF BetweenLines
<1>r. PICK m \in 0 .. Len(s) - n : Reads(s, n, m)
    BY <1>0, <1>v, FgetsIs, Zenon
<1>1. /\ fgets = SubSeq(s, n + 1, n + m)
      /\ fgets \in Seq(GrepChars) /\ Len(fgets) = m
      /\ \A k \in 1 .. m : fgets[k] = s[n + k]
      /\ m > 0 /\ <<n + 1, n + m>> \in TextLines(s)
    BY <1>r, <1>b, Zenon DEF Reads
<1>2. PICK e, piece, out : e = n + m /\ piece = fgets /\ out = gout
    BY Zenon
<1> DEFINE line == <<n + 1, e>>
           Before1 == UpTo(n)
           After1  == UpTo(e)
<1>3. /\ m \in Nat /\ m > 0 /\ e \in Nat /\ e <= Len(s) /\ n < e /\ gpos' = e
      /\ line \in TextLines(s) /\ piece = SubSeq(s, n + 1, e)
  <2>1. m \in Nat /\ e \in Nat /\ e <= Len(s) /\ n < e
    BY <1>0, <1>1, <1>2
  <2>2. gpos' = e
    BY <1>0, <1>1, <1>2, Zenon
  <2>3. line \in TextLines(s) /\ piece = SubSeq(s, n + 1, e)
    BY <1>1, <1>2, Zenon
  <2> QED
    BY <1>1, <2>1, <2>2, <2>3, Zenon
<1>4. After1 = IF Selected(o, piece) THEN Before1 \cup {line} ELSE Before1
  <2>1. ASSUME NEW g \in TextLines(s), n < g[2], g[2] <= e PROVE g = line
    BY <1>0, <1>2, <1>3, <1>b, <2>1, OneLineMore
  <2>2. line[1] = n + 1 /\ line[2] = e /\ (line \in Hits(s) <=> Selected(o, piece))
    BY <1>3, <1>v DEF Hits
  <2>3. \A g \in Hits(s) : g \in TextLines(s) /\ g[2] \in Nat
    BY <1>0 DEF Hits, TextLines
  <2> HIDE DEF line
  <2>4. \A g : g \in After1 <=> g \in Hits(s) /\ g[2] <= e
    BY <1>v DEF UpTo
  <2>5. \A g : g \in Before1 <=> g \in Hits(s) /\ g[2] <= n
    BY <1>v DEF UpTo
  <2>6. \A g \in Hits(s) : g[2] <= e <=> (g[2] <= n \/ g = line)
    BY <1>0, <1>3, <2>1, <2>2, <2>3
  <2> HIDE DEF Before1, After1
  <2> QED
    BY <2>2, <2>4, <2>5, <2>6, Zenon
<1>5. Extracts(out, Covered(Before1), s) /\ Covered(Before1) \subseteq 1 .. n
    BY <1>0, <1>2, <1>v, UpToPlaces DEF BetweenLines
<1>6. Covered(Before1 \cup {line}) = Covered(Before1) \cup ((n + 1) .. e)
  <2>1. line[1] = n + 1 /\ line[2] = e
    OBVIOUS
  <2> HIDE DEF line, Before1
  <2>2. Covered(Before1 \cup {line}) = Covered(Before1) \cup (line[1] .. line[2])
    BY Zenon DEF Covered
  <2> QED
    BY <2>1, <2>2, Zenon
<1>p. PICK B, A, w, PB, PA : B = Before1 /\ A = After1 /\ w = line /\ PB = Covered(B) /\ PA = Covered(A)
    BY Zenon
<1>7. Extracts(gout', PA, s)
  <2>1. CASE Selected(o, piece)
    <3>1. gout' = out \o piece
      BY <1>2, <1>v, <2>1 DEF GrepLine
    <3>2. PA = PB \cup ((n + 1) .. (n + m))
      BY <1>2, <1>4, <1>6, <1>p, <2>1
    <3>3. Extracts(out \o piece, PB \cup ((n + 1) .. (n + m)), s)
      BY <1>0, <1>1, <1>2, <1>3, <1>5, <1>p, ExtractMore
    <3> QED
      BY <3>1, <3>2, <3>3
  <2>2. CASE ~Selected(o, piece)
    <3>1. gout' = out
      BY <1>2, <1>v, <2>2 DEF GrepLine
    <3>2. PA = PB
      BY <1>4, <1>p, <2>2
    <3> QED
      BY <1>5, <1>p, <3>1, <3>2
  <2> QED
    BY <2>1, <2>2
<1>8. o.mode = "char" => (matched' = 0 <=> A = {})
  <2> SUFFICES ASSUME o.mode = "char" PROVE matched' = 0 <=> A = {}
    OBVIOUS
  <2>1. matched = 0 <=> B = {}
    BY <1>0, <1>p, <1>v DEF BetweenLines
  <2>2. CASE Selected(o, piece)
    <3>1. matched' = matched + 1
      BY <1>2, <1>v, <2>2 DEF GrepLine
    <3>2. A = B \cup {w}
      BY <1>4, <1>p, <2>2
    <3> QED
      BY <1>0, <3>1, <3>2
  <2>3. CASE ~Selected(o, piece)
    <3>1. matched' = matched
      BY <1>2, <1>v, <2>3 DEF GrepLine
    <3>2. A = B
      BY <1>4, <1>p, <2>3
    <3> QED
      BY <2>1, <3>1, <3>2
  <2> QED
    BY <2>2, <2>3
<1>9. UpTo(e)' = A /\ Covered(A)' = PA
  <2>1. Hits(s)' = Hits(s)
    BY <1>0, <1>v DEF Hits, TextLines
  <2>2. UpTo(e)' = {g \in Hits(s)' : g[2] <= e}
    BY <1>0 DEF UpTo
  <2>3. UpTo(e) = {g \in Hits(s) : g[2] <= e}
    BY <1>v DEF UpTo
  <2> QED
    BY <1>p, <2>1, <2>2, <2>3 DEF Covered
<1>10. Extracts(gout, Covered(UpTo(gpos)), gtext)'
  <2>1. UpTo(gpos)' = A
    BY <1>3, <1>9
  <2>2. Extracts(gout', PA, s)
    BY <1>7
  <2> QED
    BY <1>0, <1>9, <2>1, <2>2 DEF Extracts, Covered
<1>11. gpos' = Len(gtext') \/ Boundary(gtext, gpos)'
  <2>1. e = Len(s) \/ s[e] = "\n"
    BY <1>3 DEF TextLines
  <2> QED
    BY <1>0, <1>3, <2>1 DEF Boundary
<1>12. single' <=> opt'.mode = "char" /\ gpos' > 0
    BY <1>0, <1>3
<1>13. opt'.mode = "char" => (matched' = 0 <=> UpTo(gpos)' = {})
    BY <1>0, <1>3, <1>8, <1>9
<1> QED
    BY <1>10, <1>11, <1>12, <1>13, Zenon DEF BetweenLines

LEMMA GrepLineKeeps ==
    ASSUME GrepInv, GrepLine
    PROVE  GrepInv'
<1>v. PICK s, n : s = gtext /\ n = gpos
    BY Zenon
<1>0. /\ s \in Seq(GrepChars) /\ n \in 0 .. Len(s) /\ n < Len(s)
      /\ gout \in Seq(GrepChars) /\ matched \in Nat
      /\ files \in Nat /\ depth \in Nat /\ fds = files + depth
      /\ opt.mode = "all" => gout = SubSeq(s, 1, n)
    BY <1>v, Zenon DEF GrepInv, GrepLine
<1>1. /\ gtext' = s /\ opt' = opt /\ gpos' = n + Len(fgets)
      /\ fds' = fds /\ files' = files /\ depth' = depth /\ grep' = "read"
    BY <1>v, Zenon DEF GrepLine, walkVars
<1>2. PICK m \in 0 .. Len(s) - n : Reads(s, n, m)
    BY <1>0, <1>v, FgetsIs, Zenon
<1>3. fgets = SubSeq(s, n + 1, n + m) /\ fgets \in Seq(GrepChars) /\ Len(fgets) = m
    BY <1>2, Zenon DEF Reads
<1>4. Len(s) \in Nat /\ n \in Nat /\ m \in Nat /\ n + m \in 0 .. Len(s) /\ n + m \in n .. Len(s)
  <2>1. Len(s) \in Nat
    BY <1>0, LenProperties
  <2> QED
    BY <1>0, <2>1
<1>5. gpos' = n + m /\ gpos' \in 0 .. Len(gtext')
    BY <1>1, <1>3, <1>4
<1>6. gout' \in Seq(GrepChars) /\ matched' \in Nat
  <2>1. gout' = gout \o fgets \/ gout' = gout
    BY DEF GrepLine
  <2>2. matched' = matched + 1 \/ matched' = matched
    BY <1>0 DEF GrepLine
  <2>3. gout \o fgets \in Seq(GrepChars)
    BY <1>0, <1>3, ConcatProperties
  <2>4. matched + 1 \in Nat
    BY <1>0
  <2> QED
    BY <1>0, <2>1, <2>2, <2>3, <2>4, Zenon
<1>7. ASSUME opt.mode = "all" PROVE gout' = SubSeq(gtext', 1, gpos')
  <2>1. Selected(opt, fgets)
    BY <1>7 DEF Selected
  <2>2. gout' = SubSeq(s, 1, n) \o SubSeq(s, n + 1, n + m)
    BY <1>0, <1>3, <1>7, <2>1, Zenon DEF GrepLine
  <2>3. 1 \in 1 .. Len(s) + 1 /\ n \in 1 - 1 .. Len(s)
    BY <1>0, <1>4
  <2>4. SubSeq(s, 1, n) \o SubSeq(s, n + 1, n + m) = SubSeq(s, 1, n + m)
    BY <1>0, <1>4, <2>3, ConcatAdjacentSubSeq
  <2> QED
    BY <1>1, <1>5, <2>2, <2>4, Zenon
<1>8. LinesFit' => BetweenLines'
  <2>1. LinesFit' => LinesFit
    BY <1>1, <1>v DEF LinesFit, TextLines
  <2> QED
    BY <2>1, LineTreated
<1>9. files' \in Nat /\ depth' \in Nat /\ fds' = files' + depth'
    BY <1>0, <1>1, Zenon
<1>10. grep' # "walk" /\ grep' # "crash" /\ grep' \notin {"0", "1"} /\ gtext' \in Seq(GrepChars)
    BY <1>0, <1>1
<1>11. opt'.mode = "all" => gout' = SubSeq(gtext', 1, gpos')
    BY <1>1, <1>7, Zenon
<1> QED
    BY <1>5, <1>6, <1>8, <1>9, <1>10, <1>11, Zenon DEF GrepInv

\* The other steps leave the text, the output and the counts alone.
LEMMA StreamKept ==
    ASSUME GrepInv, opt' = opt, UNCHANGED streamVars
    PROVE  /\ gtext' \in Seq(GrepChars) /\ gpos' \in 0 .. Len(gtext') /\ gout' \in Seq(GrepChars)
           /\ matched' \in Nat
           /\ opt'.mode = "all" => gout' = SubSeq(gtext', 1, gpos')
           /\ LinesFit' => BetweenLines'
<1>1. gtext' = gtext /\ gpos' = gpos /\ gout' = gout /\ single' = single /\ matched' = matched
    BY Zenon DEF streamVars
<1>2. LinesFit' <=> LinesFit
    BY <1>1 DEF LinesFit, TextLines
<1>3. PICK s, n : s = gtext /\ n = gpos
    BY Zenon
<1>4. UpTo(n)' = UpTo(n)
  <2>1. Hits(s)' = Hits(s)
    BY <1>1, <1>3 DEF Hits, TextLines
  <2> QED
    BY <1>1, <1>3, <2>1 DEF UpTo
<1>5. PICK A, P, out : A = UpTo(n) /\ P = Covered(A) /\ out = gout
    BY Zenon
<1>6. Covered(UpTo(gpos))' = P
    BY <1>1, <1>3, <1>4, <1>5 DEF Covered
<1>7. ASSUME BetweenLines PROVE BetweenLines'
  <2>1. Extracts(out, P, s)
    BY <1>3, <1>5, <1>7, Zenon DEF BetweenLines
  <2>2. Extracts(out, P, s)'
    BY <2>1 DEF Extracts
  <2>3. Extracts(gout, Covered(UpTo(gpos)), gtext)'
    BY <1>1, <1>3, <1>5, <1>6, <2>1 DEF Extracts
  <2>4. gpos' = Len(gtext') \/ Boundary(gtext, gpos)'
    BY <1>1, <1>7 DEF BetweenLines, Boundary
  <2>5. single' <=> opt'.mode = "char" /\ gpos' > 0
    BY <1>1, <1>7, Zenon DEF BetweenLines
  <2>6. UpTo(gpos)' = A
    BY <1>1, <1>3, <1>4, <1>5
  <2>7. opt'.mode = "char" => (matched' = 0 <=> UpTo(gpos)' = {})
    BY <1>1, <1>3, <1>5, <1>7, <2>6, Zenon DEF BetweenLines
  <2> QED
    BY <2>3, <2>4, <2>5, <2>7, Zenon DEF BetweenLines
<1>8. LinesFit' => BetweenLines'
    BY <1>2, <1>7, Zenon DEF GrepInv
<1> QED
    BY <1>1, <1>8, Zenon DEF GrepInv

LEMMA GrepSteps == GrepInv /\ [GrepNext]_grepVars => GrepInv'
<1> SUFFICES ASSUME GrepInv, [GrepNext]_grepVars PROVE GrepInv'
    OBVIOUS
<1> DEFINE Rest == GrepOpenFails \/ GrepUndefined \/ GrepEnd \/ WalkDir \/ WalkDirFails
                     \/ WalkFile \/ WalkFileFails \/ WalkClose \/ UNCHANGED grepVars
<1>1. CASE GrepLine
    BY <1>1, GrepLineKeeps
<1>2. CASE Rest
  <2>1. opt' = opt /\ UNCHANGED streamVars
    BY <1>2, Zenon DEF GrepOpenFails, GrepUndefined, GrepEnd, WalkDir, WalkDirFails, WalkFile,
                       WalkFileFails, WalkClose, grepVars
  <2>2. /\ gtext' \in Seq(GrepChars) /\ gpos' \in 0 .. Len(gtext') /\ gout' \in Seq(GrepChars)
        /\ matched' \in Nat
        /\ opt'.mode = "all" => gout' = SubSeq(gtext', 1, gpos')
        /\ LinesFit' => BetweenLines'
    BY <2>1, StreamKept
  <2>3. gtext' = gtext /\ gpos' = gpos /\ single' = single /\ matched' = matched
    BY <2>1, Zenon DEF streamVars
  <2>4. /\ files \in Nat /\ depth \in Nat /\ fds = files + depth
        /\ grep = "walk" => opt.mode = "recursive"
        /\ grep = "crash" => locked \/ files + depth >= MaxFds
    BY Zenon DEF GrepInv
  <2>5. files' \in Nat /\ depth' \in Nat /\ fds' = files' + depth'
    <3>1. CASE GrepOpenFails \/ GrepUndefined \/ GrepEnd \/ WalkDirFails \/ UNCHANGED grepVars
      <4>1. files' = files /\ depth' = depth /\ fds' = fds
        BY <3>1, Zenon DEF GrepOpenFails, GrepUndefined, GrepEnd, WalkDirFails, grepVars, walkVars
      <4> QED
        BY <2>4, <4>1, Zenon
    <3>2. CASE WalkDir
      BY <2>4, <3>2 DEF WalkDir
    <3>3. CASE WalkFile
      BY <2>4, <3>3 DEF WalkFile
    <3>4. CASE WalkFileFails
      BY <2>4, <3>4 DEF WalkFileFails
    <3>5. CASE WalkClose
      BY <2>4, <3>5 DEF WalkClose
    <3> QED
      BY <1>2, <3>1, <3>2, <3>3, <3>4, <3>5, Zenon
  <2>6. grep' = "walk" => opt'.mode = "recursive"
    BY <2>1, <2>4, <1>2 DEF GrepOpenFails, GrepUndefined, GrepEnd, WalkDir, WalkDirFails, WalkFile,
                       WalkFileFails, WalkClose, grepVars, Entry
  <2>7. grep' = "crash" => locked' \/ files' + depth' >= MaxFds
    <3> SUFFICES ASSUME grep' = "crash" PROVE locked' \/ files' + depth' >= MaxFds
      OBVIOUS
    <3>1. CASE WalkFileFails
      <4>1. /\ files' = files /\ depth' = depth
            /\ locked' <=> (locked \/ fds < MaxFds)
        BY <3>1, Zenon DEF WalkFileFails
      <4>2. CASE fds < MaxFds
        BY <4>1, <4>2, Zenon
      <4>3. CASE ~(fds < MaxFds)
        <5>1. files' + depth' >= MaxFds
          BY <2>4, <4>1, <4>3, GrepAssumption
        <5> QED
          BY <5>1, Zenon
      <4> QED
        BY <4>2, <4>3
    <3>2. CASE UNCHANGED grepVars
      <4>1. files' = files /\ depth' = depth /\ locked' = locked /\ grep = "crash"
        BY <3>2, Zenon DEF grepVars, walkVars
      <4> QED
        BY <2>4, <4>1, Zenon
    <3>3. ~(GrepOpenFails \/ GrepUndefined \/ GrepEnd \/ WalkDir \/ WalkDirFails \/ WalkFile \/ WalkClose)
      BY DEF GrepOpenFails, GrepUndefined, GrepEnd, WalkDir, WalkDirFails, WalkFile, WalkClose, Entry
    <3> QED
      BY <1>2, <3>1, <3>2, <3>3, Zenon
  <2>8. ASSUME grep' \in {"0", "1"}, opt'.mode \notin {"other", "recursive"}
        PROVE  gpos' = Len(gtext') /\ (grep' = "1" <=> single' /\ matched' = 0)
    <3>1. ~(GrepOpenFails \/ GrepUndefined)
      BY <2>1, <2>8 DEF GrepOpenFails, GrepUndefined
    <3>2. ~(WalkDir \/ WalkDirFails \/ WalkFile \/ WalkFileFails \/ WalkClose)
      <4>1. grep # "walk"
        BY <2>1, <2>4, <2>8
      <4> QED
        BY <4>1 DEF WalkDir, WalkDirFails, WalkFile, WalkFileFails, WalkClose, Entry
    <3>3. CASE GrepEnd
      <4>1. gpos = Len(gtext) /\ grep' = IF single /\ matched = 0 THEN "1" ELSE "0"
        BY <3>3, Zenon DEF GrepEnd
      <4>2. CASE single /\ matched = 0
        BY <2>3, <4>1, <4>2, Zenon
      <4>3. CASE ~(single /\ matched = 0)
        <5>1. grep' = "0" /\ "0" # "1"
          BY <4>1, <4>3
        <5> QED
          BY <2>3, <4>1, <4>3, <5>1, Zenon
      <4> QED
        BY <4>2, <4>3
    <3>4. CASE UNCHANGED grepVars
      <4>1. grep' = grep
        BY <3>4, Zenon DEF grepVars
      <4> QED
        BY <2>1, <2>3, <2>8, <4>1, Zenon DEF GrepInv
    <3> QED
      BY <1>2, <3>1, <3>2, <3>3, <3>4, Zenon
  <2> QED
    BY <2>2, <2>5, <2>6, <2>7, <2>8, Zenon DEF GrepInv
<1> QED
    BY <1>1, <1>2, Zenon DEF GrepNext

LEMMA GrepInvariance == GrepSpec => []GrepInv
BY GrepStarts, GrepSteps, PTL DEF GrepSpec

\* For a text of any length and every pattern, a tree of any size and any number
\* of descriptors.
THEOREM SelectedLinesOnce == GrepSpec => []GrepCorrect
<1>1. ASSUME GrepInv PROVE GrepCorrect
  <2>1. ASSUME grep \in {"0", "1"}, opt.mode \notin {"other", "recursive"}, LinesFit
        PROVE  /\ Extracts(gout, Covered(Hits(gtext)), gtext)
               /\ grep = "1" <=> opt.mode = "char" /\ gtext # <<>> /\ Hits(gtext) = {}
    <3>1. gpos = Len(gtext) /\ (grep = "1" <=> single /\ matched = 0) /\ BetweenLines
      BY <1>1, <2>1, Zenon DEF GrepInv
    <3>2. gtext \in Seq(GrepChars) /\ Len(gtext) \in Nat
      BY <1>1, LenProperties DEF GrepInv
    <3>3. UpTo(gpos) = Hits(gtext)
      <4>1. \A g \in Hits(gtext) : g[2] <= Len(gtext)
        BY <3>2 DEF Hits, TextLines
      <4> QED
        BY <3>1, <4>1, Zenon DEF UpTo
    <3>4. gtext # <<>> <=> gpos > 0
      <4>1. gtext # <<>> <=> Len(gtext) > 0
        BY <3>2, EmptySeq
      <4> QED
        BY <3>1, <4>1, Zenon
    <3>5. /\ Extracts(gout, Covered(UpTo(gpos)), gtext)
          /\ single <=> opt.mode = "char" /\ gpos > 0
          /\ opt.mode = "char" => (matched = 0 <=> UpTo(gpos) = {})
      BY <3>1, Zenon DEF BetweenLines
    <3> QED
      BY <3>1, <3>3, <3>4, <3>5, Zenon
  <2>2. ASSUME grep = "0", opt.mode = "all" PROVE gout = gtext
    <3>1. gpos = Len(gtext) /\ gout = SubSeq(gtext, 1, gpos) /\ gtext \in Seq(GrepChars)
      BY <1>1, <2>2 DEF GrepInv
    <3> QED
      BY <3>1, SubSeqFull
  <2>3. grep = "crash" => locked \/ files + depth >= MaxFds
    BY <1>1, Zenon DEF GrepInv
  <2> QED
    BY <2>1, <2>2, <2>3, Zenon DEF GrepCorrect
<1> QED
    BY <1>1, GrepInvariance, PTL

-----------------------------------------------------------------------------
(* cut: the value of a list of digits                                      *)

\* One entry of the value of the digits from p on.
DecimalEntry(f, s, p, n) == IF n < p THEN 0 ELSE 10 * f[n - 1] + Figure(s[n])

LEMMA DecimalExists ==
    ASSUME NEW s, Len(s) \in Nat, NEW p \in Nat, p > 0
    PROVE  \E f : f = [n \in 0 .. Len(s) |-> DecimalEntry(f, s, p, n)]
<1> DEFINE Good(m) == \E f : \A n \in 0 .. Len(s) : n <= m => f[n] = DecimalEntry(f, s, p, n)
           T == {m \in Nat : Good(m)}
<1>1. Good(0)
  <2> DEFINE f == [n \in 0 .. Len(s) |-> 0]
  <2>1. \A n \in 0 .. Len(s) : n <= 0 => f[n] = DecimalEntry(f, s, p, n)
    BY DEF DecimalEntry
  <2> QED
    BY <2>1, Zenon
<1>2. ASSUME NEW m \in Nat, Good(m) PROVE Good(m + 1)
  <2>1. PICK f : \A n \in 0 .. Len(s) : n <= m => f[n] = DecimalEntry(f, s, p, n)
    BY <1>2, Zenon
  <2> DEFINE g == [n \in 0 .. Len(s) |-> DecimalEntry(f, s, p, n)]
  <2>2. \A n \in 0 .. Len(s) : g[n] = DecimalEntry(f, s, p, n)
    OBVIOUS
  <2> HIDE DEF g
  <2>3. \A n \in 0 .. Len(s) : n <= m => f[n] = g[n]
    BY <2>1, <2>2
  <2>4. ASSUME NEW n \in 0 .. Len(s), n <= m + 1 PROVE g[n] = DecimalEntry(g, s, p, n)
    <3>1. ~(n < p) => n - 1 \in 0 .. Len(s) /\ n - 1 <= m
      BY <2>4
    <3>2. ~(n < p) => f[n - 1] = g[n - 1]
      BY <2>3, <3>1
    <3> QED
      BY <2>2, <3>2, Zenon DEF DecimalEntry
  <2> QED
    BY <2>4, Zenon
<1> HIDE DEF Good
<1>3. T = Nat
  <2>1. T \subseteq Nat /\ 0 \in T /\ \A n \in T : n + 1 \in T
    BY <1>1, <1>2
  <2> HIDE DEF T
  <2> QED
    BY <2>1, Induction
<1>4. Good(Len(s))
    BY <1>3
<1>5. PICK f : \A n \in 0 .. Len(s) : n <= Len(s) => f[n] = DecimalEntry(f, s, p, n)
    BY <1>4, Zenon DEF Good
<1> DEFINE g == [n \in 0 .. Len(s) |-> DecimalEntry(f, s, p, n)]
<1>6. g = [n \in 0 .. Len(s) |-> DecimalEntry(f, s, p, n)]
    OBVIOUS
<1>7. \A n \in 0 .. Len(s) : f[n] = g[n]
    BY <1>5
<1> HIDE DEF g
<1>8. \A n \in 0 .. Len(s) : DecimalEntry(f, s, p, n) = DecimalEntry(g, s, p, n)
  <2> TAKE n \in 0 .. Len(s)
  <2>1. ~(n < p) => n - 1 \in 0 .. Len(s)
    OBVIOUS
  <2> QED
    BY <1>7, <2>1, Zenon DEF DecimalEntry
<1>9. g = [n \in 0 .. Len(s) |-> DecimalEntry(g, s, p, n)]
    BY <1>6, <1>8
<1> QED
    BY <1>9, Zenon

LEMMA DecimalSteps ==
    ASSUME NEW s, Len(s) \in Nat, NEW p \in Nat, p > 0
    PROVE  /\ \A n \in 0 .. Len(s) : n < p => Decimal(s, p)[n] = 0
           /\ \A n \in 0 .. Len(s) - 1 :
                 p <= n + 1 => Decimal(s, p)[n + 1] = 10 * Decimal(s, p)[n] + Figure(s[n + 1])
<1> DEFINE r == Decimal(s, p)
<1>1. r = CHOOSE f : f = [n \in 0 .. Len(s) |-> DecimalEntry(f, s, p, n)]
    BY Zenon DEF Decimal, DecimalEntry
<1>2. r = [n \in 0 .. Len(s) |-> DecimalEntry(r, s, p, n)]
    BY <1>1, DecimalExists, Zenon
<1> HIDE DEF r
<1>3. \A n \in 0 .. Len(s) : r[n] = DecimalEntry(r, s, p, n)
    BY <1>2, Zenon
<1>4. \A n \in 0 .. Len(s) : n < p => r[n] = 0
    BY <1>3, Zenon DEF DecimalEntry
<1>5. ASSUME NEW n \in 0 .. Len(s) - 1, p <= n + 1
      PROVE  r[n + 1] = 10 * r[n] + Figure(s[n + 1])
  <2>1. n + 1 \in 0 .. Len(s) /\ ~(n + 1 < p) /\ (n + 1) - 1 = n
    BY <1>5
  <2>2. r[n + 1] = 10 * r[(n + 1) - 1] + Figure(s[n + 1])
    BY <1>3, <2>1, Zenon DEF DecimalEntry
  <2> QED
    BY <2>1, <2>2
<1> QED
    BY <1>4, <1>5 DEF r

-----------------------------------------------------------------------------
(* cut: the numbers of a list                                              *)

\* The number that ends at n, or goes on there, begins at p.
Begins(s, p, n) ==
    /\ p \in 1 .. n + 1 /\ (p = 1 \/ s[p - 1] \in Between)
    /\ \A k \in p .. n : s[k] \notin Between

EndedBefore(s, n) == {g \in ListNumbers(s) : g[2] < n}

\* The bits of the numbers that end before n.
BitsBefore(s, n) == {Decimal(s, g[1])[g[2]] % Bits : g \in EndedBefore(s, n)}

\* A number ends at n exactly if a separator or the end follows; it is the one
\* that goes on there.
LEMMA EndsHere ==
    ASSUME NEW s \in Seq(STRING), NEW n \in 0 .. Len(s), NEW p, Begins(s, p, n)
    PROVE  /\ n = Len(s) \/ s[n + 1] \in Between => EndedBefore(s, n + 1) = EndedBefore(s, n) \cup {<<p, n>>}
           /\ ~(n = Len(s) \/ s[n + 1] \in Between) => EndedBefore(s, n + 1) = EndedBefore(s, n)
<1>0. Len(s) \in Nat /\ n \in Nat /\ n <= Len(s)
  <2>1. Len(s) \in Nat
    BY LenProperties
  <2> QED
    BY <2>1
<1>1. /\ p \in Nat /\ p >= 1 /\ p <= n + 1 /\ (p = 1 \/ s[p - 1] \in Between)
      /\ \A k \in p .. n : s[k] \notin Between
    BY <1>0 DEF Begins
<1>2. \A g \in ListNumbers(s) :
        /\ g = <<g[1], g[2]>> /\ g[1] \in Nat /\ g[1] >= 1 /\ g[2] \in Nat /\ g[1] <= g[2] + 1
        /\ \A k \in g[1] .. g[2] : s[k] \notin Between
        /\ g[1] = 1 \/ s[g[1] - 1] \in Between
        /\ g[2] = Len(s) \/ s[g[2] + 1] \in Between
    BY <1>0 DEF ListNumbers
<1>3. ASSUME NEW g \in ListNumbers(s), g[2] = n PROVE g = <<p, n>>
  <2>1. PICK x : x = g[1]
    BY Zenon
  <2>2. /\ x \in Nat /\ x >= 1 /\ x <= n + 1 /\ (x = 1 \/ s[x - 1] \in Between)
        /\ \A k \in x .. n : s[k] \notin Between
    BY <1>2, <1>3, <2>1
  <2>3. ~(x < p)
    <3> SUFFICES ASSUME x < p PROVE FALSE
      OBVIOUS
    <3>1. p - 1 \in x .. n /\ p # 1
      BY <1>0, <1>1, <2>2
    <3> QED
      BY <1>1, <2>2, <3>1
  <2>4. ~(p < x)
    <3> SUFFICES ASSUME p < x PROVE FALSE
      OBVIOUS
    <3>1. x - 1 \in p .. n /\ x # 1
      BY <1>0, <1>1, <2>2
    <3> QED
      BY <1>1, <2>2, <3>1
  <2>5. x = p
    BY <1>1, <2>2, <2>3, <2>4
  <2>6. g = <<g[1], g[2]>>
    BY <1>2
  <2> QED
    BY <1>3, <2>1, <2>5, <2>6, Zenon
<1>4. ASSUME n = Len(s) \/ s[n + 1] \in Between PROVE <<p, n>> \in ListNumbers(s)
  <2>1. p \in 1 .. Len(s) + 1 /\ n \in 0 .. Len(s)
    BY <1>0, <1>1
  <2> QED
    BY <1>1, <1>4, <2>1 DEF ListNumbers
<1>5. \A g \in ListNumbers(s) : g[2] < n + 1 <=> g[2] < n \/ g[2] = n
    BY <1>0, <1>2
<1>6. <<p, n>>[2] = n /\ n < n + 1
    BY <1>0
<1>7. CASE n = Len(s) \/ s[n + 1] \in Between
  <2>1. EndedBefore(s, n + 1) = EndedBefore(s, n) \cup {<<p, n>>}
    BY <1>3, <1>4, <1>5, <1>6, <1>7, Zenon DEF EndedBefore
  <2> QED
    BY <1>7, <2>1, Zenon
<1>8. CASE ~(n = Len(s) \/ s[n + 1] \in Between)
  <2>1. \A g \in ListNumbers(s) : g[2] # n
    BY <1>2, <1>8, Zenon
  <2>2. EndedBefore(s, n + 1) = EndedBefore(s, n)
    BY <1>5, <2>1, Zenon DEF EndedBefore
  <2> QED
    BY <1>8, <2>2, Zenon
<1> QED
    BY <1>7, <1>8, Zenon

\* A number that ends sets its bit.
LEMMA BitSet ==
    ASSUME NEW s \in Seq(STRING), NEW n \in 0 .. Len(s), NEW p, Begins(s, p, n),
           n = Len(s) \/ s[n + 1] \in Between
    PROVE  BitsBefore(s, n + 1) = BitsBefore(s, n) \cup {Decimal(s, p)[n] % Bits}
<1>1. EndedBefore(s, n + 1) = EndedBefore(s, n) \cup {<<p, n>>}
    BY EndsHere
<1>2. <<p, n>>[1] = p /\ <<p, n>>[2] = n
    OBVIOUS
<1> QED
    BY <1>1, <1>2, Zenon DEF BitsBefore

\* At the end of the list they are the bits asked for.
LEMMA AllBits ==
    ASSUME NEW s \in Seq(STRING)
    PROVE  BitsBefore(s, Len(s) + 1) = {w % Bits : w \in Wanted(s)}
<1>1. Len(s) \in Nat
    BY LenProperties
<1>2. \A g \in ListNumbers(s) : g[2] < Len(s) + 1
    BY <1>1 DEF ListNumbers
<1>3. EndedBefore(s, Len(s) + 1) = ListNumbers(s)
    BY <1>2, Zenon DEF EndedBefore
<1> QED
    BY <1>3, Zenon DEF BitsBefore, Wanted

LEMMA FigurePlaces ==
    /\ Figures = [k \in 1 .. 10 |-> Figures[k]] /\ Len(Figures) = 10 /\ DOMAIN Figures = 1 .. 10
    /\ Figures[1] = "0" /\ Figures[2] = "1" /\ Figures[3] = "2" /\ Figures[4] = "3"
    /\ Figures[5] = "4" /\ Figures[6] = "5" /\ Figures[7] = "6" /\ Figures[8] = "7"
    /\ Figures[9] = "8" /\ Figures[10] = "9"
BY DEF Figures

LEMMA OneToTen ==
    ASSUME NEW k \in 1 .. 10
    PROVE  k = 1 \/ k = 2 \/ k = 3 \/ k = 4 \/ k = 5 \/ k = 6 \/ k = 7 \/ k = 8 \/ k = 9 \/ k = 10
OBVIOUS

LEMMA FiguresApart == \A c \in Range(Figures) : c \notin Between
<1> SUFFICES ASSUME NEW c \in Range(Figures) PROVE c \notin Between
    OBVIOUS
<1>1. PICK k \in 1 .. 10 : c = Figures[k]
    BY FigurePlaces, Zenon DEF Range
<1>2. c \in {"0", "1", "2", "3", "4", "5", "6", "7", "8", "9"}
    BY <1>1, OneToTen, FigurePlaces, Zenon
<1> QED
    BY <1>2 DEF Between

-----------------------------------------------------------------------------
(* cut: the fields of a line                                               *)

LEMMA FieldSteps ==
    ASSUME NEW s, NEW n \in Nat
    PROVE  /\ FieldOf(s, 0) = 1 /\ FieldOf(s, n) \in Nat
           /\ s[n + 1] = delimiter => FieldOf(s, n + 1) = FieldOf(s, n) + 1
           /\ s[n + 1] # delimiter => FieldOf(s, n + 1) = FieldOf(s, n)
<1> DEFINE D(m) == {k \in 1 .. m : s[k] = delimiter}
<1>1. \A m : FieldOf(s, m) = 1 + Cardinality(D(m))
    BY Zenon DEF FieldOf
<1>2. D(0) = {} /\ Cardinality({}) = 0
    BY FS_EmptySet
<1>3. IsFiniteSet(D(n)) /\ Cardinality(D(n)) \in Nat
  <2>1. IsFiniteSet(1 .. n) /\ D(n) \in SUBSET (1 .. n)
    BY FS_Interval
  <2> HIDE DEF D
  <2> QED
    BY <2>1, FS_Subset, FS_CardinalityType
<1>4. CASE s[n + 1] = delimiter
  <2>1. D(n + 1) = D(n) \cup {n + 1} /\ n + 1 \notin D(n)
    BY <1>4
  <2> HIDE DEF D
  <2>2. Cardinality(D(n + 1)) = Cardinality(D(n)) + 1
    BY <1>3, <2>1, FS_AddElement
  <2>3. FieldOf(s, 0) = 1 + 0 /\ FieldOf(s, n) = 1 + Cardinality(D(n))
        /\ FieldOf(s, n + 1) = 1 + Cardinality(D(n + 1))
    BY <1>1, <1>2, Zenon
  <2> QED
    BY <1>3, <1>4, <2>2, <2>3
<1>5. CASE s[n + 1] # delimiter
  <2>1. D(n + 1) = D(n)
    BY <1>5
  <2> HIDE DEF D
  <2>2. FieldOf(s, 0) = 1 + 0 /\ FieldOf(s, n) = 1 + Cardinality(D(n))
        /\ FieldOf(s, n + 1) = 1 + Cardinality(D(n))
    BY <1>1, <1>2, <2>1, Zenon
  <2> QED
    BY <1>3, <1>5, <2>2
<1> QED
    BY <1>4, <1>5

\* While nothing reaches the width of the word, its bits are the fields.
LEMMA FetchedIs ==
    ASSUME NEW F, F \subseteq 0 .. Bits - 1, col_fetch = {w % Bits : w \in F},
           NEW x \in Nat, x < Bits
    PROVE  Fetched(x) <=> x \in F
<1>1. ASSUME NEW y \in Nat, y < Bits PROVE y % Bits = y
    BY <1>1, CutAssumption
<1>2. \A w \in F : w % Bits = w
  <2> TAKE w \in F
  <2>1. w \in Nat /\ w < Bits
    BY CutAssumption
  <2> QED
    BY <1>1, <2>1
<1>3. x % Bits = x
    BY <1>1
<1> QED
    BY <1>2, <1>3, Zenon DEF Fetched

\* One more character of the places of P.
LEMMA TakeOne ==
    ASSUME NEW s \in Seq(STRING), NEW n \in Nat, n < Len(s), NEW P, P \subseteq 1 .. Len(s),
           NEW out \in Seq(STRING), Extracts(out, {m \in P : m <= n}, s)
    PROVE  /\ n + 1 \in P => Extracts(Append(out, s[n + 1]), {m \in P : m <= n + 1}, s)
           /\ n + 1 \notin P => Extracts(out, {m \in P : m <= n + 1}, s)
<1> DEFINE Q == {m \in P : m <= n}
           R == {m \in P : m <= n + 1}
<1>0. Len(s) \in Nat
    BY LenProperties
<1>1. \A m \in P : m \in Nat /\ m >= 1 /\ (m <= n + 1 <=> m <= n \/ m = n + 1)
    BY <1>0
<1>2. CASE n + 1 \in P
  <2>1. R = Q \cup {n + 1}
    BY <1>1, <1>2, Zenon
  <2>2. {n + 1} = (n + 1) .. (n + 1)
    OBVIOUS
  <2>3. Q \subseteq 1 .. n
    <3>1. \A m \in Q : m \in P /\ m <= n
      OBVIOUS
    <3>2. \A m \in Q : m \in Nat /\ m >= 1 /\ m <= n
      BY <1>1, <3>1, Zenon
    <3> HIDE DEF Q
    <3> QED
      BY <3>2
  <2> HIDE DEF Q, R
  <2>4. s[n + 1] \in STRING
    <3>1. n + 1 \in 1 .. Len(s)
      BY <1>0
    <3> QED
      BY <3>1, ElementOfSeq
  <2> DEFINE piece == <<s[n + 1]>>
  <2>5. /\ piece \in Seq(STRING) /\ Len(piece) = 1 /\ \A k \in 1 .. 1 : piece[k] = s[n + k]
        /\ Append(out, s[n + 1]) = out \o piece
    <3>1. PICK c : c = s[n + 1]
      BY Zenon
    <3>2. c \in STRING
      BY <2>4, <3>1
    <3>3. <<c>> \in Seq(STRING) /\ Len(<<c>>) = 1 /\ <<c>>[1] = c
      <4>1. PICK S : S = STRING
        BY Zenon
      <4>2. \A e \in S : <<e>> \in Seq(S) /\ Len(<<e>>) = 1 /\ <<e>>[1] = e
        OBVIOUS
      <4> QED
        BY <3>2, <4>1, <4>2, Zenon
    <3>4. Append(out, c) = out \o <<c>>
      BY <3>2, AppendIsConcat
    <3>5. \A k \in 1 .. 1 : k = 1
      OBVIOUS
    <3> QED
      BY <3>1, <3>3, <3>4, <3>5, Zenon
  <2> HIDE DEF piece
  <2>6. Extracts(out \o piece, Q \cup ((n + 1) .. (n + 1)), s)
    <3>1. Extracts(out, Q, s)
      BY DEF Q
    <3>2. PICK S, m : S = STRING /\ m = 1
      BY Zenon
    <3>3. m \in Nat /\ out \in Seq(S) /\ piece \in Seq(S) /\ Len(piece) = m
          /\ \A k \in 1 .. m : piece[k] = s[n + k]
      BY <2>5, <3>2
    <3>4. Extracts(out \o piece, Q \cup ((n + 1) .. (n + m)), s)
      BY <2>3, <3>1, <3>3, ExtractMore
    <3> QED
      BY <3>2, <3>4, Zenon
  <2>7. Extracts(Append(out, s[n + 1]), R, s)
    BY <2>1, <2>2, <2>5, <2>6, Zenon
  <2> QED
    BY <1>2, <2>7, Zenon DEF R
<1>3. CASE n + 1 \notin P
  <2>1. R = Q
    BY <1>1, <1>3, Zenon
  <2> QED
    BY <1>3, <2>1, Zenon
<1> QED
    BY <1>2, <1>3, Zenon

-----------------------------------------------------------------------------
(* cut: the invariant                                                      *)

\* What is set of the list s, with n characters behind.
ListInv(s, n) ==
    col_fetch = BitsBefore(s, n) /\ \E p \in Nat : Begins(s, p, n) /\ cval = Decimal(s, p)[n]

Taken(s, F) == ChosenChars(s, F) \cup ChosenDelimiters(s, F)

\* What is written of the line s, with n characters behind, for the fields F.
LineInv(s, n, F) ==
    /\ field = FieldOf(s, n)
    /\ pfch <=> \E m \in ChosenChars(s, F) : m <= n
    /\ Extracts(cout, {m \in Taken(s, F) : m <= n}, s)

CutInv ==
    /\ cstr \in Seq(STRING) /\ cp \in 0 .. Len(cstr) /\ cout \in Seq(STRING)
    /\ given \in Seq(Seq(STRING))
    /\ cut = "args" /\ given = <<>> => col_fetch = {} /\ cval = 0
    /\ cut = "list" => given # <<>>
    /\ cut = "list" /\ Len(given) = 1 => cstr = given[1] /\ ListInv(cstr, cp)
    /\ cut \notin {"list", "error"} /\ Len(given) = 1 =>
          col_fetch = {w % Bits : w \in Wanted(given[1])}
    /\ cut = "line" /\ Len(given) = 1 /\ FieldsFit => LineInv(cstr, cp, Wanted(given[1]))

\* Nothing is taken of the next character, or it is.
LEMMA NextTaken ==
    ASSUME NEW s \in Seq(STRING), NEW n \in Nat, n < Len(s), NEW F
    PROVE  /\ s[n + 1] # delimiter =>
                /\ n + 1 \in Taken(s, F) <=> FieldOf(s, n) \in F
                /\ (\E m \in ChosenChars(s, F) : m <= n + 1)
                     <=> (\E m \in ChosenChars(s, F) : m <= n) \/ FieldOf(s, n) \in F
           /\ s[n + 1] = delimiter =>
                /\ n + 1 \in Taken(s, F) <=>
                      FieldOf(s, n) + 1 \in F /\ \E m \in ChosenChars(s, F) : m <= n
                /\ (\E m \in ChosenChars(s, F) : m <= n + 1)
                     <=> (\E m \in ChosenChars(s, F) : m <= n)
<1>0. Len(s) \in Nat
    BY LenProperties
<1>1. n + 1 \in 1 .. Len(s)
    BY <1>0
<1>2. \A m \in ChosenChars(s, F) : m \in Nat
    BY <1>0 DEF ChosenChars
<1>3. \A m \in Nat : (m < n + 1 <=> m <= n) /\ (m <= n + 1 <=> m <= n \/ m = n + 1)
    OBVIOUS
<1>4. n + 1 \in Taken(s, F) <=> n + 1 \in ChosenChars(s, F) \/ n + 1 \in ChosenDelimiters(s, F)
    BY Zenon DEF Taken
<1>5. /\ s[n + 1] = delimiter => FieldOf(s, n + 1) = FieldOf(s, n) + 1
      /\ s[n + 1] # delimiter => FieldOf(s, n + 1) = FieldOf(s, n)
    BY FieldSteps
<1>6. n + 1 \in ChosenChars(s, F) <=> s[n + 1] # delimiter /\ FieldOf(s, n + 1) \in F
    BY <1>1, Zenon DEF ChosenChars
<1>7. n + 1 \in ChosenDelimiters(s, F) <=>
         s[n + 1] = delimiter /\ FieldOf(s, n + 1) \in F /\ \E m \in ChosenChars(s, F) : m < n + 1
    BY <1>1, Zenon DEF ChosenDelimiters
<1>8. (\E m \in ChosenChars(s, F) : m < n + 1) <=> (\E m \in ChosenChars(s, F) : m <= n)
    BY <1>2, <1>3, Zenon
<1>9. (\E m \in ChosenChars(s, F) : m <= n + 1)
         <=> (\E m \in ChosenChars(s, F) : m <= n) \/ n + 1 \in ChosenChars(s, F)
    BY <1>2, <1>3, Zenon
<1>10. CASE s[n + 1] = delimiter
    BY <1>4, <1>5, <1>6, <1>7, <1>8, <1>9, <1>10, Zenon
<1>11. CASE s[n + 1] # delimiter
    BY <1>4, <1>5, <1>6, <1>7, <1>8, <1>9, <1>11, Zenon
<1> QED
    BY <1>10, <1>11, Zenon

LEMMA PlacesKept ==
    ASSUME delimiter' = delimiter, NEW s, NEW F
    PROVE  /\ \A m : FieldOf(s, m)' = FieldOf(s, m)
           /\ ChosenChars(s, F)' = ChosenChars(s, F) /\ Taken(s, F)' = Taken(s, F)
<1>1. \A m : FieldOf(s, m)' = FieldOf(s, m)
    BY DEF FieldOf
<1>2. ChosenChars(s, F)' = ChosenChars(s, F)
    BY <1>1 DEF ChosenChars
<1>3. ChosenDelimiters(s, F)' = ChosenDelimiters(s, F)
    BY <1>1, <1>2 DEF ChosenDelimiters
<1> QED
    BY <1>1, <1>2, <1>3 DEF Taken

LEMMA TakenPlaces ==
    ASSUME NEW s, NEW F
    PROVE  Taken(s, F) \subseteq 1 .. Len(s)
BY Zenon DEF Taken, ChosenChars, ChosenDelimiters

\* A character of a line does what the line's places ask for.
LEMMA LineStep ==
    ASSUME CutInv, cut = "line", Len(given) = 1, FieldsFit, Delimiter \/ Character
    PROVE  LineInv(cstr, cp, Wanted(given[1]))'
<1>v. PICK s, n, F, d, x, out : /\ s = cstr /\ n = cp /\ F = Wanted(given[1]) /\ d = delimiter
                                /\ x = field /\ out = cout
    BY Zenon
<1>0. /\ s \in Seq(STRING) /\ n \in 0 .. Len(s) /\ out \in Seq(STRING) /\ n < Len(s)
      /\ cstr' = s /\ cp' = n + 1 /\ given' = given /\ delimiter' = d
      /\ LineInv(s, n, F) /\ col_fetch = {w % Bits : w \in F}
  <2>1. cut \notin {"list", "error"}
    OBVIOUS
  <2>2. /\ s \in Seq(STRING) /\ n \in 0 .. Len(s) /\ out \in Seq(STRING)
        /\ LineInv(s, n, F) /\ col_fetch = {w % Bits : w \in F}
    BY <1>v, <2>1, Zenon DEF CutInv
  <2>3. n < Len(s) /\ cstr' = s /\ cp' = n + 1 /\ given' = given /\ delimiter' = d
    BY <1>v, Zenon DEF Delimiter, Character, Ahead
  <2> QED
    BY <2>2, <2>3, Zenon
<1>1. Len(s) \in Nat /\ n \in Nat /\ n + 1 \in 1 .. Len(s)
  <2>1. Len(s) \in Nat
    BY <1>0, LenProperties
  <2> QED
    BY <1>0, <2>1
<1>2. /\ x = FieldOf(s, n) /\ (pfch <=> \E m \in ChosenChars(s, F) : m <= n)
      /\ Extracts(out, {m \in Taken(s, F) : m <= n}, s)
    BY <1>0, <1>v, Zenon DEF LineInv
<1>3. Wanted(given[1])' = F
    BY <1>0, <1>v DEF Wanted, ListNumbers, Decimal
<1>4. /\ FieldOf(s, n + 1)' = FieldOf(s, n + 1)
      /\ ChosenChars(s, F)' = ChosenChars(s, F) /\ Taken(s, F)' = Taken(s, F)
    BY <1>0, <1>v, PlacesKept, Zenon
<1>5. FieldOf(s, n + 1) \in Nat /\ FieldOf(s, n + 1) < Bits
  <2>1. FieldOf(s, n + 1) < Bits
    BY <1>1, <1>v, Zenon DEF FieldsFit
  <2> QED
    BY <1>1, <2>1, FieldSteps
<1>6. Fetched(FieldOf(s, n + 1)) <=> FieldOf(s, n + 1) \in F
  <2>1. F \subseteq 0 .. Bits - 1
    BY <1>v, Zenon DEF FieldsFit
  <2> QED
    BY <1>0, <1>5, <2>1, FetchedIs
<1>7. /\ n + 1 \in Taken(s, F) => Extracts(Append(out, s[n + 1]), {m \in Taken(s, F) : m <= n + 1}, s)
      /\ n + 1 \notin Taken(s, F) => Extracts(out, {m \in Taken(s, F) : m <= n + 1}, s)
  <2>1. PICK P : P = Taken(s, F)
    BY Zenon
  <2>2. P \subseteq 1 .. Len(s) /\ Extracts(out, {m \in P : m <= n}, s)
    BY <1>2, <2>1, TakenPlaces, Zenon
  <2>3. /\ n + 1 \in P => Extracts(Append(out, s[n + 1]), {m \in P : m <= n + 1}, s)
        /\ n + 1 \notin P => Extracts(out, {m \in P : m <= n + 1}, s)
    BY <1>0, <1>1, <2>2, TakeOne
  <2> QED
    BY <2>1, <2>3, Zenon
<1>8. /\ s[n + 1] = d => FieldOf(s, n + 1) = FieldOf(s, n) + 1
      /\ s[n + 1] # d => FieldOf(s, n + 1) = FieldOf(s, n)
    BY <1>1, <1>v, FieldSteps
<1>9. /\ field' = FieldOf(s, n + 1)
      /\ pfch' <=> \E m \in ChosenChars(s, F) : m <= n + 1
      /\ cout' = IF n + 1 \in Taken(s, F) THEN Append(out, s[n + 1]) ELSE out
  <2>1. CASE Delimiter
    <3>1. /\ s[n + 1] = d /\ field' = x + 1 /\ pfch' = pfch
          /\ cout' = IF pfch /\ Fetched(x + 1) THEN Append(out, d) ELSE out
      BY <1>v, <2>1, Zenon DEF Delimiter, Char
    <3>2. /\ n + 1 \in Taken(s, F) <=> x + 1 \in F /\ \E m \in ChosenChars(s, F) : m <= n
          /\ (\E m \in ChosenChars(s, F) : m <= n + 1) <=> (\E m \in ChosenChars(s, F) : m <= n)
      BY <1>0, <1>1, <1>2, <1>v, <3>1, NextTaken
    <3>3. FieldOf(s, n + 1) = x + 1
      BY <1>2, <1>8, <3>1, Zenon
    <3> QED
      BY <1>2, <1>6, <3>1, <3>2, <3>3, Zenon
  <2>2. CASE Character
    <3>1. /\ s[n + 1] # d /\ field' = x
          /\ Fetched(x) => cout' = Append(out, s[n + 1]) /\ pfch' = TRUE
          /\ ~Fetched(x) => cout' = out /\ pfch' = pfch
      BY <1>v, <2>2, Zenon DEF Character, Char
    <3>2. /\ n + 1 \in Taken(s, F) <=> x \in F
          /\ (\E m \in ChosenChars(s, F) : m <= n + 1)
                <=> (\E m \in ChosenChars(s, F) : m <= n) \/ x \in F
      BY <1>0, <1>1, <1>2, <1>v, <3>1, NextTaken
    <3>3. FieldOf(s, n + 1) = x
      BY <1>2, <1>8, <3>1, Zenon
    <3>4. CASE Fetched(x)
      <4>1. x \in F /\ n + 1 \in Taken(s, F) /\ \E m \in ChosenChars(s, F) : m <= n + 1
        BY <1>6, <3>2, <3>3, <3>4, Zenon
      <4> QED
        BY <3>1, <3>3, <3>4, <4>1, Zenon
    <3>5. CASE ~Fetched(x)
      <4>1. /\ n + 1 \notin Taken(s, F)
            /\ (\E m \in ChosenChars(s, F) : m <= n + 1) <=> (\E m \in ChosenChars(s, F) : m <= n)
        BY <1>6, <3>2, <3>3, <3>5, Zenon
      <4>2. field' = x /\ cout' = out /\ pfch' = pfch
        BY <3>1, <3>5, Zenon
      <4>3. pfch' <=> \E m \in ChosenChars(s, F) : m <= n + 1
        BY <1>2, <4>1, <4>2, Zenon
      <4> QED
        BY <3>3, <4>1, <4>2, <4>3, Zenon
    <3> QED
      BY <3>4, <3>5
  <2> QED
    BY <2>1, <2>2
<1>10. Extracts(cout', {m \in Taken(s, F) : m <= n + 1}, s)
    BY <1>7, <1>9, Zenon
<1>11. PICK P : P = {m \in Taken(s, F) : m <= n + 1}
    BY Zenon
<1>12. Extracts(cout', P, s)
    BY <1>10, <1>11, Zenon
<1>13. {m \in Taken(cstr, Wanted(given[1])) : m <= cp}' = P
    BY <1>0, <1>3, <1>4, <1>11
<1>14. Extracts(cout, {m \in Taken(cstr, Wanted(given[1])) : m <= cp}, cstr)'
    BY <1>0, <1>12, <1>13 DEF Extracts
<1>15. (field = FieldOf(cstr, cp))'
    BY <1>0, <1>4, <1>9
<1>16. (pfch <=> \E m \in ChosenChars(cstr, Wanted(given[1])) : m <= cp)'
    BY <1>0, <1>3, <1>4, <1>9
<1> QED
    BY <1>14, <1>15, <1>16, Zenon DEF LineInv

\* A character of a list, and its end.
LEMMA ListStep ==
    ASSUME CutInv, cut = "list", Len(given) = 1, ListBetween \/ ListDigit
    PROVE  ListInv(cstr, cp)'
<1>v. PICK s, n, C, v : s = cstr /\ n = cp /\ C = col_fetch /\ v = cval
    BY Zenon
<1>0. /\ s \in Seq(STRING) /\ n \in 0 .. Len(s) /\ n < Len(s) /\ cstr' = s /\ cp' = n + 1
      /\ ListInv(s, n)
  <2>1. s \in Seq(STRING) /\ n \in 0 .. Len(s) /\ ListInv(s, n)
    BY <1>v, Zenon DEF CutInv
  <2>2. n < Len(s) /\ cstr' = s /\ cp' = n + 1
    BY <1>v, Zenon DEF ListBetween, ListDigit, Ahead
  <2> QED
    BY <2>1, <2>2, Zenon
<1>1. Len(s) \in Nat /\ n \in Nat /\ n + 1 \in 0 .. Len(s) /\ n \in 0 .. Len(s) - 1
  <2>1. Len(s) \in Nat
    BY <1>0, LenProperties
  <2> QED
    BY <1>0, <2>1
<1>2. C = BitsBefore(s, n)
    BY <1>0, <1>v, Zenon DEF ListInv
<1>3. PICK p \in Nat : Begins(s, p, n) /\ v = Decimal(s, p)[n]
    BY <1>0, <1>v, Zenon DEF ListInv
<1>4. p > 0 /\ p <= n + 1 /\ (p = 1 \/ s[p - 1] \in Between) /\ \A k \in p .. n : s[k] \notin Between
    BY <1>1, <1>3 DEF Begins
<1>5. \E C1, v1 : /\ col_fetch' = C1 /\ cval' = v1 /\ C1 = BitsBefore(s, n + 1)
                  /\ \E q \in Nat : Begins(s, q, n + 1) /\ v1 = Decimal(s, q)[n + 1]
  <2>1. CASE ListBetween
    <3>1. s[n + 1] \in Between /\ col_fetch' = C \cup {v % Bits} /\ cval' = 0
      BY <1>v, <2>1, Zenon DEF ListBetween, Char
    <3>2. BitsBefore(s, n + 1) = C \cup {v % Bits}
      BY <1>0, <1>2, <1>3, <3>1, BitSet
    <3>3. PICK q : q = n + 2
      BY Zenon
    <3>4. Begins(s, q, n + 1)
      <4>1. q \in 1 .. (n + 1) + 1 /\ q - 1 = n + 1 /\ \A k \in q .. n + 1 : FALSE
        BY <1>1, <3>3
      <4> QED
        BY <3>1, <4>1 DEF Begins
    <3>5. Decimal(s, q)[n + 1] = 0
      <4>1. q \in Nat /\ q > 0 /\ n + 1 < q
        BY <1>1, <3>3
      <4> QED
        BY <1>1, <4>1, DecimalSteps
    <3>6. q \in Nat
      BY <1>1, <3>3
    <3> QED
      BY <3>1, <3>2, <3>4, <3>5, <3>6, Zenon
  <2>2. CASE ListDigit
    <3>1. s[n + 1] \in Range(Figures) /\ col_fetch' = C /\ cval' = 10 * v + Figure(s[n + 1])
      BY <1>v, <2>2, Zenon DEF ListDigit, Char
    <3>2. s[n + 1] \notin Between
      BY <3>1, FiguresApart, Zenon
    <3>3. BitsBefore(s, n + 1) = C
      <4>1. n # Len(s)
        BY <1>0, <1>1
      <4>2. EndedBefore(s, n + 1) = EndedBefore(s, n)
        BY <1>0, <1>3, <3>2, <4>1, EndsHere
      <4> QED
        BY <1>2, <4>2, Zenon DEF BitsBefore
    <3>4. Begins(s, p, n + 1)
      <4>1. p \in 1 .. (n + 1) + 1
        BY <1>1, <1>4
      <4>2. \A k \in p .. n + 1 : k \in p .. n \/ k = n + 1
        BY <1>1
      <4>3. \A k \in p .. n + 1 : s[k] \notin Between
        BY <1>4, <3>2, <4>2, Zenon
      <4> QED
        BY <1>4, <4>1, <4>3, Zenon DEF Begins
    <3>5. Decimal(s, p)[n + 1] = 10 * v + Figure(s[n + 1])
      <4>1. Decimal(s, p)[n + 1] = 10 * Decimal(s, p)[n] + Figure(s[n + 1])
        BY <1>1, <1>4, DecimalSteps
      <4> QED
        BY <1>3, <4>1, Zenon
    <3> QED
      BY <3>1, <3>3, <3>4, <3>5, Zenon
  <2> QED
    BY <2>1, <2>2, Zenon
<1>6. PICK C1, v1, q : /\ col_fetch' = C1 /\ cval' = v1 /\ C1 = BitsBefore(s, n + 1)
                       /\ q \in Nat /\ Begins(s, q, n + 1) /\ v1 = Decimal(s, q)[n + 1]
    BY <1>5, Zenon
<1>7. /\ cstr' = s /\ cp' = n + 1
      /\ BitsBefore(s, n + 1)' = BitsBefore(s, n + 1)
      /\ Begins(s, q, n + 1)' <=> Begins(s, q, n + 1)
      /\ Decimal(s, q)[n + 1]' = Decimal(s, q)[n + 1]
    BY <1>0, Zenon
<1> QED
    BY <1>6, <1>7 DEF ListInv

LEMMA ListClosed ==
    ASSUME CutInv, Len(given) = 1, ListEnd
    PROVE  col_fetch' = {w % Bits : w \in Wanted(given[1])}
<1>v. PICK s, n, v : s = cstr /\ n = cp /\ v = cval
    BY Zenon
<1>1. /\ cut = "list" /\ n = Len(s) /\ col_fetch' = col_fetch \cup {v % Bits}
    BY <1>v, Zenon DEF ListEnd
<1>2. s \in Seq(STRING) /\ s = given[1] /\ ListInv(s, n)
    BY <1>1, <1>v, Zenon DEF CutInv
<1>3. PICK p \in Nat : Begins(s, p, n) /\ v = Decimal(s, p)[n]
    BY <1>2, <1>v, Zenon DEF ListInv
<1>4. Len(s) \in Nat /\ n \in 0 .. Len(s)
  <2>1. Len(s) \in Nat
    BY <1>2, LenProperties
  <2> QED
    BY <1>1, <2>1
<1>5. BitsBefore(s, n + 1) = BitsBefore(s, n) \cup {v % Bits}
    BY <1>1, <1>2, <1>3, <1>4, BitSet
<1>6. BitsBefore(s, n + 1) = {w % Bits : w \in Wanted(s)}
    BY <1>1, <1>2, AllBits, Zenon
<1>7. col_fetch = BitsBefore(s, n)
    BY <1>2, Zenon DEF ListInv
<1> QED
    BY <1>1, <1>2, <1>5, <1>6, <1>7, Zenon

LEMMA CutStarts == CutInit => CutInv
<1> SUFFICES ASSUME CutInit PROVE CutInv
    OBVIOUS
<1>1. /\ given = <<>> /\ col_fetch = {} /\ cval = 0 /\ cstr = <<>> /\ cp = 0 /\ cout = <<>>
      /\ cut = "args"
    BY Zenon DEF CutInit
<1>2. \A S : <<>> \in Seq(S) /\ Len(<<>>) = 0
    BY EmptySeq
<1>3. Len(given) # 1 /\ 0 \in 0 .. Len(cstr) /\ cut # "list" /\ cut # "line"
    BY <1>1, <1>2
<1> QED
    BY <1>1, <1>2, <1>3, Zenon DEF CutInv

LEMMA CutTypes ==
    ASSUME CutInv, [CutNext]_cutVars
    PROVE  /\ cstr' \in Seq(STRING) /\ cp' \in 0 .. Len(cstr') /\ cout' \in Seq(STRING)
           /\ given' \in Seq(Seq(STRING))
<1>0. /\ cstr \in Seq(STRING) /\ cp \in 0 .. Len(cstr) /\ cout \in Seq(STRING)
      /\ given \in Seq(Seq(STRING))
    BY Zenon DEF CutInv
<1>1. Len(cstr) \in Nat
    BY <1>0, LenProperties
<1>2. FieldLists \subseteq Seq(STRING) /\ CutLines \subseteq Seq(STRING)
    BY CutAssumption, Zenon
<1>3. ASSUME NEW s \in Seq(STRING), cstr' = s, cp' = 0 PROVE cp' \in 0 .. Len(cstr')
  <2>1. Len(s) \in Nat
    BY LenProperties
  <2> QED
    BY <1>3, <2>1
<1>4. CASE \E list \in FieldLists : OptionF(list)
  <2>1. PICK list \in FieldLists : OptionF(list)
    BY <1>4
  <2>2. list \in Seq(STRING) /\ cstr' = list /\ cp' = 0 /\ cout' = cout /\ given' = Append(given, list)
    BY <1>2, <2>1, Zenon DEF OptionF, lineVars
  <2>3. given' \in Seq(Seq(STRING))
    BY <1>0, <2>2, AppendProperties
  <2> QED
    BY <1>0, <1>3, <2>2, <2>3, Zenon
<1>5. CASE \E line \in CutLines : ReadCut(line)
  <2>1. PICK line \in CutLines : ReadCut(line)
    BY <1>5
  <2>2. line \in Seq(STRING) /\ cstr' = line /\ cp' = 0 /\ cout' = <<>> /\ given' = given
    BY <1>2, <2>1, Zenon DEF ReadCut
  <2>3. cout' \in Seq(STRING)
    BY <2>2
  <2> QED
    BY <1>0, <1>3, <2>2, <2>3, Zenon
<1>6. CASE ListBetween \/ ListDigit \/ Delimiter \/ Character
  <2>1. Ahead /\ cp' = cp + 1 /\ cstr' = cstr /\ given' = given
    BY <1>6, Zenon DEF ListBetween, ListDigit, Delimiter, Character
  <2>2. cp + 1 \in 1 .. Len(cstr) /\ cp + 1 \in 0 .. Len(cstr)
    BY <1>0, <1>1, <2>1 DEF Ahead
  <2>3. Char \in STRING
    BY <1>0, <2>2, ElementOfSeq DEF Char
  <2>4. Append(cout, Char) \in Seq(STRING)
    BY <1>0, <2>3, AppendProperties
  <2>5. cout' = cout \/ cout' = Append(cout, Char)
    BY <1>6, Zenon DEF ListBetween, ListDigit, Delimiter, Character, lineVars
  <2> QED
    BY <1>0, <2>1, <2>2, <2>4, <2>5, Zenon
<1>7. CASE ListInvalid \/ ListEnd \/ OptionD \/ ArgsEnd \/ CutLineEnd \/ EndCut \/ UNCHANGED cutVars
  <2>1. cstr' = cstr /\ cp' = cp /\ cout' = cout /\ given' = given
    BY <1>7, Zenon DEF ListInvalid, ListEnd, OptionD, ArgsEnd, CutLineEnd, EndCut, cutVars, lineVars
  <2> QED
    BY <1>0, <2>1, Zenon
<1> QED
    BY <1>4, <1>5, <1>6, <1>7, Zenon DEF CutNext

\* The list begins: no bit, and a number that begins with it.
LEMMA ListBegins ==
    ASSUME CutInv, NEW list \in FieldLists, OptionF(list), Len(given') = 1
    PROVE  cstr' = given'[1] /\ ListInv(cstr, cp)'
<1>1. /\ cut = "args" /\ given' = Append(given, list) /\ cstr' = list /\ cp' = 0
      /\ col_fetch' = col_fetch /\ cval' = cval /\ given \in Seq(Seq(STRING))
      /\ list \in Seq(STRING)
    BY CutAssumption, Zenon DEF OptionF, CutInv
<1>2. Len(list) \in Nat /\ Len(given) \in Nat
    BY <1>1, LenProperties
<1>3. Len(given') = Len(given) + 1 /\ given'[Len(given) + 1] = list
    BY <1>1, AppendProperties
<1>4. given = <<>> /\ given'[1] = list
  <2>1. Len(given) = 0
    BY <1>2, <1>3
  <2> QED
    BY <1>1, <1>3, <2>1, EmptySeq
<1>5. col_fetch' = {} /\ cval' = 0
    BY <1>1, <1>4, Zenon DEF CutInv
<1>6. BitsBefore(list, 0) = {}
  <2>1. \A g \in ListNumbers(list) : ~(g[2] < 0)
    BY <1>2 DEF ListNumbers
  <2> QED
    BY <2>1, Zenon DEF BitsBefore, EndedBefore
<1>7. Begins(list, 1, 0)
    BY DEF Begins
<1>8. Decimal(list, 1)[0] = 0
    BY <1>2, DecimalSteps
<1>9. 1 \in Nat
    OBVIOUS
<1> QED
    BY <1>1, <1>4, <1>5, <1>6, <1>7, <1>8, <1>9 DEF ListInv

\* A line begins: nothing is written.
LEMMA LineBegins ==
    ASSUME CutInv, NEW line \in CutLines, ReadCut(line), NEW F
    PROVE  LineInv(line, 0, F)'
<1>1. /\ field' = 1 /\ pfch' = FALSE /\ cout' = <<>> /\ delimiter' = delimiter
      /\ line \in Seq(STRING)
    BY CutAssumption, Zenon DEF ReadCut
<1>2. Len(line) \in Nat
    BY <1>1, LenProperties
<1>3. FieldOf(line, 0)' = 1
  <2>1. FieldOf(line, 0) = 1
    BY FieldSteps
  <2> QED
    BY <1>1, <2>1 DEF FieldOf
<1>4. \A m \in Taken(line, F)' : ~(m <= 0)
    BY <1>2 DEF Taken, ChosenChars, ChosenDelimiters
<1>5. \A m \in ChosenChars(line, F)' : ~(m <= 0)
    BY <1>2 DEF ChosenChars
<1>6. {m \in Taken(line, F)' : m <= 0} = {}
    BY <1>4, Zenon
<1>7. Extracts(<<>>, {}, line)
    BY FS_EmptySet DEF Extracts
<1>8. Extracts(cout', {m \in Taken(line, F)' : m <= 0}, line)
    BY <1>1, <1>6, <1>7, Zenon
<1> QED
    BY <1>1, <1>3, <1>5, <1>8 DEF LineInv, Extracts

LEMMA CutSteps == CutInv /\ [CutNext]_cutVars => CutInv'
<1> SUFFICES ASSUME CutInv, [CutNext]_cutVars PROVE CutInv'
    OBVIOUS
<1> DEFINE Bits1 == {w % Bits : w \in Wanted(given[1])}
<1>0. /\ cstr' \in Seq(STRING) /\ cp' \in 0 .. Len(cstr') /\ cout' \in Seq(STRING)
      /\ given' \in Seq(Seq(STRING))
    BY CutTypes
<1>1. ASSUME given' = given PROVE Bits1' = Bits1 /\ Wanted(given[1])' = Wanted(given[1])
    BY <1>1 DEF Wanted, ListNumbers, Decimal
<1>2. /\ cut = "list" => given # <<>>
      /\ cut = "list" /\ Len(given) = 1 => cstr = given[1] /\ ListInv(cstr, cp)
      /\ cut \notin {"list", "error"} /\ Len(given) = 1 => col_fetch = Bits1
      /\ cut = "line" /\ Len(given) = 1 /\ FieldsFit => LineInv(cstr, cp, Wanted(given[1]))
    BY Zenon DEF CutInv
<1> HIDE DEF Bits1
<1>3. CASE \E list \in FieldLists : OptionF(list)
  <2>1. PICK list \in FieldLists : OptionF(list)
    BY <1>3
  <2>2. cut' = "list" /\ given' = Append(given, list) /\ given \in Seq(Seq(STRING)) /\ list \in Seq(STRING)
    BY <2>1, CutAssumption, Zenon DEF OptionF, CutInv
  <2>3. given' # <<>>
    BY <2>2, AppendProperties
  <2>4. Len(given') = 1 => cstr' = given'[1] /\ ListInv(cstr, cp)'
    BY <2>1, ListBegins
  <2>5. cut' # "args" /\ cut' # "line" /\ ~(cut' \notin {"list", "error"})
    BY <2>2
  <2> QED
    BY <1>0, <2>3, <2>4, <2>5, Zenon DEF CutInv
<1>4. CASE ListBetween \/ ListDigit
  <2>1. cut = "list" /\ cut' = "list" /\ given' = given /\ cstr' = cstr
    BY <1>4, Zenon DEF ListBetween, ListDigit
  <2>2. Len(given') = 1 => cstr' = given'[1] /\ ListInv(cstr, cp)'
    BY <1>2, <1>4, <2>1, ListStep, Zenon
  <2>3. cut' # "args" /\ cut' # "line" /\ ~(cut' \notin {"list", "error"})
    BY <2>1
  <2> QED
    BY <1>0, <1>2, <2>1, <2>2, <2>3, Zenon DEF CutInv
<1>5. CASE ListInvalid
  <2>1. cut' = "error"
    BY <1>5, Zenon DEF ListInvalid
  <2>2. cut' # "args" /\ cut' # "line" /\ cut' # "list" /\ ~(cut' \notin {"list", "error"})
    BY <2>1
  <2> QED
    BY <1>0, <2>2, Zenon DEF CutInv
<1>6. CASE ListEnd
  <2>1. cut = "list" /\ cut' = "args" /\ given' = given
    BY <1>6, Zenon DEF ListEnd
  <2>2. Len(given') = 1 => col_fetch' = Bits1'
    BY <1>1, <1>6, <2>1, ListClosed, Zenon DEF Bits1
  <2>3. cut' # "line" /\ cut' # "list" /\ given' # <<>>
    BY <1>2, <2>1
  <2> QED
    BY <1>0, <2>2, <2>3, Zenon DEF CutInv, Bits1
<1>7. CASE OptionD \/ ArgsEnd \/ CutLineEnd \/ EndCut
  <2>1. /\ given' = given /\ col_fetch' = col_fetch /\ cval' = cval
        /\ cut \in {"args", "line", "read"} /\ cut' \in {"args", "read", "done"}
        /\ cut' = "args" => cut = "args"
    BY <1>7 DEF OptionD, ArgsEnd, CutLineEnd, EndCut
  <2>2. cut' # "line" /\ cut' # "list" /\ cut \notin {"list", "error"}
    BY <2>1
  <2>3. Len(given') = 1 => col_fetch' = Bits1'
    BY <1>1, <1>2, <2>1, <2>2, Zenon
  <2>4. cut' = "args" /\ given' = <<>> => col_fetch' = {} /\ cval' = 0
    BY <2>1, Zenon DEF CutInv
  <2> QED
    BY <1>0, <2>2, <2>3, <2>4, Zenon DEF CutInv, Bits1
<1>8. CASE \E line \in CutLines : ReadCut(line)
  <2>1. PICK line \in CutLines : ReadCut(line)
    BY <1>8
  <2>2. cut = "read" /\ cut' = "line" /\ given' = given /\ col_fetch' = col_fetch /\ cstr' = line /\ cp' = 0
    BY <2>1, Zenon DEF ReadCut
  <2>3. cut' # "args" /\ cut' # "list" /\ cut \notin {"list", "error"}
    BY <2>2
  <2>4. Len(given') = 1 => col_fetch' = Bits1'
    BY <1>1, <1>2, <2>2, <2>3, Zenon
  <2>5. PICK F : F = Wanted(given[1])
    BY Zenon
  <2>6. LineInv(line, 0, F)'
    BY <2>1, LineBegins
  <2>7. LineInv(cstr, cp, Wanted(given[1]))'
    <3>1. Wanted(given[1])' = F
      BY <1>1, <2>2, <2>5
    <3> QED
      BY <2>2, <2>6, <3>1
  <2> QED
    BY <1>0, <2>3, <2>4, <2>7, Zenon DEF CutInv, Bits1
<1>9. CASE Delimiter \/ Character
  <2>1. /\ cut = "line" /\ cut' = "line" /\ given' = given /\ col_fetch' = col_fetch
        /\ cstr' = cstr /\ delimiter' = delimiter
    BY <1>9, Zenon DEF Delimiter, Character
  <2>2. cut' # "args" /\ cut' # "list" /\ cut \notin {"list", "error"}
    BY <2>1
  <2>3. Len(given') = 1 => col_fetch' = Bits1'
    BY <1>1, <1>2, <2>1, <2>2, Zenon
  <2>4. FieldsFit' => FieldsFit
    BY <1>1, <2>1 DEF FieldsFit, FieldOf
  <2>5. Len(given') = 1 /\ FieldsFit' => LineInv(cstr, cp, Wanted(given[1]))'
    BY <1>9, <2>1, <2>4, LineStep, Zenon
  <2> QED
    BY <1>0, <2>2, <2>3, <2>5, Zenon DEF CutInv, Bits1
<1>10. CASE UNCHANGED cutVars
  <2>1. /\ given' = given /\ col_fetch' = col_fetch /\ cval' = cval /\ cstr' = cstr /\ cp' = cp
        /\ delimiter' = delimiter /\ field' = field /\ pfch' = pfch /\ cout' = cout /\ cut' = cut
    BY <1>10, Zenon DEF cutVars, lineVars
  <2>2. Bits1' = Bits1 /\ Wanted(given[1])' = Wanted(given[1])
    BY <1>1, <2>1
  <2>3. FieldsFit' => FieldsFit
    BY <2>1, <2>2 DEF FieldsFit, FieldOf
  <2>4. ListInv(cstr, cp) => ListInv(cstr, cp)'
    <3> SUFFICES ASSUME ListInv(cstr, cp) PROVE ListInv(cstr, cp)'
      OBVIOUS
    <3>1. PICK s, n, C, v : s = cstr /\ n = cp /\ C = col_fetch /\ v = cval
      BY Zenon
    <3>2. PICK p \in Nat : Begins(s, p, n) /\ v = Decimal(s, p)[n]
      BY <3>1, Zenon DEF ListInv
    <3>3. C = BitsBefore(s, n)
      BY <3>1, Zenon DEF ListInv
    <3>4. cstr' = s /\ cp' = n /\ col_fetch' = C /\ cval' = v
      BY <2>1, <3>1
    <3> QED
      BY <3>2, <3>3, <3>4 DEF ListInv
  <2>5. LineInv(cstr, cp, Wanted(given[1])) => LineInv(cstr, cp, Wanted(given[1]))'
    <3> SUFFICES ASSUME LineInv(cstr, cp, Wanted(given[1])) PROVE LineInv(cstr, cp, Wanted(given[1]))'
      OBVIOUS
    <3>1. PICK s, n, F, out : s = cstr /\ n = cp /\ F = Wanted(given[1]) /\ out = cout
      BY Zenon
    <3>2. /\ field = FieldOf(s, n) /\ (pfch <=> \E m \in ChosenChars(s, F) : m <= n)
          /\ Extracts(out, {m \in Taken(s, F) : m <= n}, s)
      BY <3>1, Zenon DEF LineInv
    <3>3. /\ cstr' = s /\ cp' = n /\ Wanted(given[1])' = F /\ cout' = out
          /\ field' = field /\ pfch' = pfch
      BY <2>1, <2>2, <3>1, Zenon
    <3>4. /\ FieldOf(s, n)' = FieldOf(s, n) /\ ChosenChars(s, F)' = ChosenChars(s, F)
          /\ Taken(s, F)' = Taken(s, F)
      BY <2>1, PlacesKept, Zenon
    <3>5. PICK P : P = {m \in Taken(s, F) : m <= n}
      BY Zenon
    <3>6. {m \in Taken(cstr, Wanted(given[1])) : m <= cp}' = P
      BY <3>3, <3>4, <3>5
    <3>7. Extracts(cout, {m \in Taken(cstr, Wanted(given[1])) : m <= cp}, cstr)'
      BY <3>2, <3>3, <3>5, <3>6 DEF Extracts
    <3>8. (field = FieldOf(cstr, cp))'
      BY <3>2, <3>3, <3>4
    <3>9. (pfch <=> \E m \in ChosenChars(cstr, Wanted(given[1])) : m <= cp)'
      BY <3>2, <3>3, <3>4, Zenon
    <3> QED
      BY <3>7, <3>8, <3>9, Zenon DEF LineInv
  <2> QED
    BY <1>0, <1>2, <2>1, <2>2, <2>3, <2>4, <2>5, Zenon DEF CutInv, Bits1
<1> QED
    BY <1>3, <1>4, <1>5, <1>6, <1>7, <1>8, <1>9, <1>10, Zenon DEF CutNext

LEMMA CutInvariance == CutSpec => []CutInv
BY CutStarts, CutSteps, PTL DEF CutSpec

\* For any list of numbers, any lines and any width of the word: see CutCorrect.
THEOREM ChosenFieldsOnly == CutSpec => []CutCorrect
<1>1. ASSUME CutInv PROVE CutCorrect
  <2> SUFFICES ASSUME cut = "line", cp = Len(cstr), Len(given) = 1, FieldsFit
               PROVE  Extracts(cout, Taken(cstr, Wanted(given[1])), cstr)
    BY Zenon DEF CutCorrect, Taken
  <2>1. PICK s, F : s = cstr /\ F = Wanted(given[1])
    BY Zenon
  <2>2. s \in Seq(STRING) /\ LineInv(s, Len(s), F)
    BY <1>1, <2>1, Zenon DEF CutInv
  <2>3. Len(s) \in Nat
    BY <2>2, LenProperties
  <2>4. \A m \in Taken(s, F) : m <= Len(s)
    BY <2>3, TakenPlaces
  <2>5. {m \in Taken(s, F) : m <= Len(s)} = Taken(s, F)
    BY <2>4, Zenon
  <2> QED
    BY <2>1, <2>2, <2>5, Zenon DEF LineInv
<1> QED
    BY <1>1, CutInvariance, PTL
=============================================================================
