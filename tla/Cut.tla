-------------------------------- MODULE Cut --------------------------------
(***************************************************************************)
(* cut (4. cut tool/main.c): the fields chosen by -f, kept as the bits of  *)
(* one word, are copied from every line.  Arguments and lines are          *)
(* sequences of characters, read one by one.                               *)
(***************************************************************************)
EXTENDS Integers, Sequences, FiniteSets, SequencesExt, TextPlaces

CONSTANTS
    Bits,        \* bits of unsigned int (32); a shift counts modulo it
    FieldLists,  \* what may follow -f
    CutLines,    \* lines of the input, without their newline; "\t" or "," between fields
    MaxOptions   \* bound on the -f options

ASSUME CutAssumption ==
    Bits \in Nat \ {0} /\ MaxOptions \in Nat /\ FieldLists \cup CutLines \subseteq Seq(STRING)

Between == {" ", ","}

VARIABLES
    given,      \* auxiliary: the field lists given
    col_fetch,  \* the bits set
    cval,
    delimiter,
    cstr,       \* the list or line being read
    cp,         \* carg or p: the characters of it that are behind
    field,
    pfch,
    cout,       \* what is written of the line
    cut         \* "args", "list", "read", "line", "done", "error"

lineVars == <<field, pfch, cout>>
cutVars == <<given, col_fetch, cval, delimiter, cstr, cp, lineVars, cut>>

CutInit ==
    /\ given = <<>> /\ col_fetch = {} /\ cval = 0 /\ delimiter = "\t"
    /\ cstr = <<>> /\ cp = 0 /\ field = 1 /\ pfch = FALSE /\ cout = <<>> /\ cut = "args"

CutIdle == CutInit

-----------------------------------------------------------------------------
(* The arguments                                                           *)

OptionF(list) ==
    /\ cut = "args" /\ Len(given) < MaxOptions
    /\ given' = Append(given, list)
    /\ cstr' = list /\ cp' = 0 /\ cut' = "list"
    /\ UNCHANGED <<col_fetch, cval, delimiter, lineVars>>

\* The next character of the list or line, if there is one.
Ahead == cp < Len(cstr)
Char  == cstr[cp + 1]

\* A number is closed by a blank, a comma or the end.
ListBetween ==
    /\ cut = "list" /\ Ahead /\ Char \in Between
    /\ cp' = cp + 1 /\ col_fetch' = col_fetch \cup {cval % Bits} /\ cval' = 0
    /\ UNCHANGED <<given, delimiter, cstr, lineVars, cut>>

ListDigit ==
    /\ cut = "list" /\ Ahead /\ Char \in Range(Figures)
    /\ cp' = cp + 1 /\ cval' = 10 * cval + Figure(Char)
    /\ UNCHANGED <<given, col_fetch, delimiter, cstr, lineVars, cut>>

ListInvalid ==
    /\ cut = "list" /\ Ahead /\ Char \notin Range(Figures) \cup Between
    /\ cut' = "error"
    /\ UNCHANGED <<given, col_fetch, cval, delimiter, cstr, cp, lineVars>>

\* cval stays: the next -f option goes on from it.
ListEnd ==
    /\ cut = "list" /\ cp = Len(cstr)
    /\ col_fetch' = col_fetch \cup {cval % Bits} /\ cut' = "args"
    /\ UNCHANGED <<given, cval, delimiter, cstr, cp, lineVars>>

OptionD ==
    /\ cut = "args"
    /\ delimiter' = ","
    /\ UNCHANGED <<given, col_fetch, cval, cstr, cp, lineVars, cut>>

\* Without any field the program ends at once.
ArgsEnd ==
    /\ cut = "args"
    /\ cut' = IF col_fetch = {} THEN "done" ELSE "read"
    /\ UNCHANGED <<given, col_fetch, cval, delimiter, cstr, cp, lineVars>>

-----------------------------------------------------------------------------
(* The lines                                                               *)

Fetched(n) == n % Bits \in col_fetch

ReadCut(line) ==
    /\ cut = "read" /\ cut' = "line"
    /\ cstr' = line /\ cp' = 0 /\ field' = 1 /\ pfch' = FALSE /\ cout' = <<>>
    /\ UNCHANGED <<given, col_fetch, cval, delimiter>>

\* A delimiter treated as part of the field it ends.
DelimiterBehind ==
    /\ cut = "line" /\ Ahead /\ Char = delimiter
    /\ cp' = cp + 1 /\ field' = field + 1
    /\ cout' = IF pfch /\ Fetched(field) THEN Append(cout, delimiter) ELSE cout
    /\ UNCHANGED <<given, col_fetch, cval, delimiter, cstr, pfch, cut>>

\* A delimiter is written in front of a chosen field only if something was
\* written before (pfch).
Delimiter ==
    /\ cut = "line" /\ Ahead /\ Char = delimiter
    /\ cp' = cp + 1 /\ field' = field + 1
    /\ cout' = IF pfch /\ Fetched(field + 1) THEN Append(cout, delimiter) ELSE cout
    /\ UNCHANGED <<given, col_fetch, cval, delimiter, cstr, pfch, cut>>

Character ==
    /\ cut = "line" /\ Ahead /\ Char # delimiter
    /\ cp' = cp + 1
    /\ IF Fetched(field)
       THEN cout' = Append(cout, Char) /\ pfch' = TRUE
       ELSE UNCHANGED <<cout, pfch>>
    /\ UNCHANGED <<given, col_fetch, cval, delimiter, cstr, field, cut>>

\* putchar('\n')
CutLineEnd ==
    /\ cut = "line" /\ cp = Len(cstr)
    /\ cut' = "read"
    /\ UNCHANGED <<given, col_fetch, cval, delimiter, cstr, cp, lineVars>>

EndCut ==
    /\ cut = "read"
    /\ cut' = "done"
    /\ UNCHANGED <<given, col_fetch, cval, delimiter, cstr, cp, lineVars>>

CutNext ==
    \/ \E list \in FieldLists : OptionF(list)
    \/ ListBetween \/ ListDigit \/ ListInvalid \/ ListEnd
    \/ OptionD \/ ArgsEnd
    \/ \E line \in CutLines : ReadCut(line)
    \/ Delimiter \/ Character \/ CutLineEnd \/ EndCut

CutSpec == CutInit /\ [][CutNext]_cutVars

-----------------------------------------------------------------------------
(* Properties                                                              *)

\* The numbers of a list, as pairs of first and last position; one may be empty.
ListNumbers(s) ==
    {g \in (1 .. Len(s) + 1) \X (0 .. Len(s)) :
        /\ g[1] <= g[2] + 1 /\ \A k \in g[1] .. g[2] : s[k] \notin Between
        /\ g[1] = 1 \/ s[g[1] - 1] \in Between
        /\ g[2] = Len(s) \/ s[g[2] + 1] \in Between}

Wanted(s) == {Decimal(s, g[1])[g[2]] : g \in ListNumbers(s)}

\* The number of the field that character n of a line belongs to; a delimiter
\* belongs to the field behind it.
FieldOf(s, n) == 1 + Cardinality({k \in 1 .. n : s[k] = delimiter})

\* Of a line: the characters of the chosen fields, and the delimiters in front
\* of chosen fields that have such a character before them.
ChosenChars(s, fields) == {n \in 1 .. Len(s) : s[n] # delimiter /\ FieldOf(s, n) \in fields}
ChosenDelimiters(s, fields) ==
    {n \in 1 .. Len(s) : /\ s[n] = delimiter /\ FieldOf(s, n) \in fields
                         /\ \E m \in ChosenChars(s, fields) : m < n}

FieldsFit ==
    /\ Wanted(given[1]) \subseteq 0 .. Bits - 1
    /\ \A n \in 1 .. Len(cstr) : FieldOf(cstr, n) < Bits

\* With one -f option, every line is cut down to the chosen fields with the
\* delimiter between them; chosen fields that are empty vanish as long as
\* nothing stands in front of them.  It holds while no number asked for and no
\* line's fields reach the width of col_fetch.
CutCorrect ==
    cut = "line" /\ cp = Len(cstr) /\ Len(given) = 1 /\ FieldsFit =>
        LET fields == Wanted(given[1])
        IN  Extracts(cout, ChosenChars(cstr, fields) \cup ChosenDelimiters(cstr, fields), cstr)
=============================================================================
