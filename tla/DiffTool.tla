------------------------------ MODULE DiffTool ------------------------------
(***************************************************************************)
(* lcs_lines of the diff tool (13. diff tool/diff_tool.c): the longest     *)
(* common subsequence of two lists of lines, by a table and a walk back    *)
(* through it.                                                             *)
(***************************************************************************)
EXTENDS Integers, Sequences, FiniteSets, SequencesExt

CONSTANTS
    DiffLines,  \* the lines of the two texts
    MaxText,    \* bound on the lines of each text
    LEN,        \* rows, and columns, of the table
    Unset       \* an item that was allocated and never written

ASSUME TextBoundAssumption == MaxText \in Nat /\ LEN \in Nat \ {0}

VARIABLES
    a, b,       \* the texts
    i, j, idx,  \* the walk
    items,      \* result.items
    diff        \* "walk", "done", "undefined"

diffVars == <<a, b, i, j, idx, items, diff>>

\* The entry that looks at one neighbour only.
CellLeft(left, above, diagonal, same) == IF same THEN diagonal + 1 ELSE left

Cell(left, above, diagonal, same) ==
    IF same THEN diagonal + 1 ELSE IF above >= left THEN above ELSE left

\* dp: row 0 and column 0 are zero.
dp ==
    LET t[p \in (0 .. Len(a)) \X (0 .. Len(b))] ==
            IF p[1] = 0 \/ p[2] = 0 THEN 0
            ELSE Cell(t[<<p[1], p[2] - 1>>], t[<<p[1] - 1, p[2]>>],
                      t[<<p[1] - 1, p[2] - 1>>], a[p[1]] = b[p[2]])
    IN  t

\* The table is filled; of longer texts, without a check, beyond its end, and
\* nothing is said of a process after that.
DiffInit ==
    /\ a \in BoundedSeq(DiffLines, MaxText) /\ b \in BoundedSeq(DiffLines, MaxText)
    /\ \/ /\ Len(a) < LEN /\ Len(b) < LEN
          /\ i = Len(a) /\ j = Len(b) /\ idx = dp[<<i, j>>]
          /\ items = [k \in 1 .. idx |-> Unset]
          /\ diff = "walk"
       \/ /\ Len(a) >= LEN \/ Len(b) >= LEN
          /\ i = 0 /\ j = 0 /\ idx = 0 /\ items = <<>>
          /\ diff = "undefined"

\* Equal lines: the next item from the end (idx is decremented first).
WalkMatch ==
    /\ diff = "walk" /\ i > 0 /\ j > 0 /\ a[i] = b[j]
    /\ items' = [items EXCEPT ![idx] = a[i]]
    /\ idx' = idx - 1 /\ i' = i - 1 /\ j' = j - 1
    /\ UNCHANGED <<a, b, diff>>

WalkSkip ==
    /\ diff = "walk" /\ i > 0 /\ j > 0 /\ a[i] # b[j]
    /\ IF dp[<<i - 1, j>>] > dp[<<i, j - 1>>]
       THEN i' = i - 1 /\ UNCHANGED j
       ELSE j' = j - 1 /\ UNCHANGED i
    /\ UNCHANGED <<a, b, idx, items, diff>>

WalkEnd ==
    /\ diff = "walk" /\ (i = 0 \/ j = 0)
    /\ diff' = "done"
    /\ UNCHANGED <<a, b, i, j, idx, items>>

DiffNext == WalkMatch \/ WalkSkip \/ WalkEnd

DiffSpec == DiffInit /\ [][DiffNext]_diffVars

-----------------------------------------------------------------------------
\* The lists that s keeps when lines are left out of it.
Rising(n) ==
    {f \in BoundedSeq(1 .. n, n) : \A k, l \in DOMAIN f : k < l => f[k] < f[l]}

Subsequences(s) == {[k \in DOMAIN f |-> s[f[k]]] : f \in Rising(Len(s))}

\* The walk of texts that fit the table fills every item it allocated, never one
\* before the first, and what it returns is a common subsequence of the two texts
\* that no other one exceeds, although the table breaks ties the one way and the
\* walk the other.
LcsCorrect ==
    diff = "done" =>
        LET common == Subsequences(a) \cap Subsequences(b)
        IN  idx = 0 /\ items \in common /\ \A s \in common : Len(s) <= Len(items)
=============================================================================
