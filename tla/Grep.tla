-------------------------------- MODULE Grep --------------------------------
(***************************************************************************)
(* grep (9. grep/grep.c): the lines of a file, or of all the files of a    *)
(* directory, that a pattern selects.  The first argument is the pattern   *)
(* and decides what it means; fgets gives a line longer than the buffer    *)
(* out in pieces, and every piece is treated as a line.                    *)
(*                                                                         *)
(* With -r the tree is chosen while it is walked.                          *)
(***************************************************************************)
EXTENDS Integers, Sequences, FiniteSets, SequencesExt, TextPlaces

CONSTANTS
    Letters, Numerals,  \* characters of the input, besides blanks and newlines
    MaxGrep,            \* bound on the characters of the input
    BufSize,            \* MAX_LINE_LENGTH
    MaxFds,             \* descriptors a process may have open
    MaxEntries          \* bound on the directory entries

Blanks == {" ", "\n"}
GrepChars == Letters \cup Numerals \cup Blanks

ASSUME GrepAssumption == MaxGrep \in Nat /\ BufSize \in Nat \ {0} /\ MaxFds \in Nat

VARIABLES
    opt,      \* what argv[1] means, and the string it looks for
    gtext,    \* the input
    gpos,     \* how much of it was read
    gout,     \* what was printed
    single,   \* type = SINGLE_CHARACTER
    matched,  \* matched_line_count
    fds, depth, files,  \* -r: descriptors open, directories open, files read
    locked,   \* -r: a file could not be read
    grep      \* "read", "walk", "crash", "failed", or the exit status 0 or 1

streamVars == <<gtext, gpos, gout, single, matched>>
walkVars   == <<fds, depth, files, locked>>
grepVars   == <<opt, streamVars, walkVars, grep>>

Pattern(mode, s) == [mode |-> mode, str |-> s]
Patterns ==
    { Pattern("prefix", <<>>), Pattern("digit", <<>>), Pattern("word", <<>>),
      Pattern("all", <<>>), Pattern("other", <<>>) }
    \cup {Pattern(m, <<c>>) : m \in {"prefix", "char", "invert"}, c \in Letters}
    \cup {Pattern(m, <<c, d>>) : m \in {"prefix", "invert"}, c \in Letters, d \in Letters}

GrepStart ==
    /\ gpos = 0 /\ gout = <<>> /\ single = FALSE /\ matched = 0
    /\ fds = 0 /\ depth = 0 /\ files = 0 /\ locked = FALSE

GrepInit ==
    /\ GrepStart
    /\ \/ opt \in Patterns /\ gtext \in BoundedSeq(GrepChars, MaxGrep) /\ grep = "read"
       \/ opt = Pattern("recursive", <<>>) /\ gtext = <<>> /\ grep = "walk"

GrepIdle == GrepStart /\ opt = Pattern("all", <<>>) /\ gtext = <<>> /\ grep = "0"

-----------------------------------------------------------------------------
(* main                                                                    *)

\* fgets: up to the newline, or as much as the buffer takes.
LineEnd(s) ==
    LET nl == SelectInSeq(s, LAMBDA c : c = "\n")
    IN  IF nl = 0 THEN Len(s) ELSE nl

fgets ==
    LET rest == SubSeq(gtext, gpos + 1, Len(gtext))
        n    == LineEnd(rest)
    IN  SubSeq(rest, 1, IF n < BufSize THEN n ELSE BufSize - 1)

strstr(s, t) == \E k \in 0 .. Len(s) - Len(t) : SubSeq(s, k + 1, k + Len(t)) = t

Selected(o, s) ==
    CASE o.mode = "prefix" -> IsPrefix(o.str, s)
      [] o.mode = "digit"  -> Range(s) \cap Numerals # {}
      [] o.mode = "word"   -> Range(s) \subseteq Letters \cup Blanks
      [] o.mode = "invert" -> ~strstr(s, o.str)
      [] o.mode = "all"    -> TRUE
      [] o.mode = "char"   -> o.str[1] \in Range(s)

\* The single-character search without its break.
GrepLineNoBreak ==
    /\ grep = "read" /\ gpos < Len(gtext) /\ opt.mode # "other"
    /\ LET hits == IF opt.mode = "char"
                   THEN Cardinality({k \in DOMAIN fgets : fgets[k] = opt.str[1]})
                   ELSE IF Selected(opt, fgets) THEN 1 ELSE 0
       IN  /\ gout' = gout \o FlattenSeq([k \in 1 .. hits |-> fgets])
           /\ matched' = matched + (IF opt.mode = "char" THEN hits ELSE 0)
    /\ single' = (opt.mode = "char")
    /\ gpos' = gpos + Len(fgets)
    /\ UNCHANGED <<opt, gtext, walkVars, grep>>

\* One turn of the loop.
GrepLine ==
    /\ grep = "read" /\ gpos < Len(gtext) /\ opt.mode # "other"
    /\ IF Selected(opt, fgets)
       THEN /\ gout' = gout \o fgets
            /\ matched' = matched + (IF opt.mode = "char" THEN 1 ELSE 0)
       ELSE UNCHANGED <<gout, matched>>
    /\ single' = (opt.mode = "char")
    /\ gpos' = gpos + Len(fgets)
    /\ UNCHANGED <<opt, gtext, walkVars, grep>>

\* The file cannot be opened: exit(1).  With -v the input is stdin.
GrepOpenFails ==
    /\ grep = "read" /\ gpos = 0 /\ opt.mode # "invert"
    /\ grep' = "failed"
    /\ UNCHANGED <<opt, streamVars, walkVars>>

\* An option it does not know is noticed at the first line.
GrepUndefined ==
    /\ grep = "read" /\ gpos < Len(gtext) /\ opt.mode = "other"
    /\ grep' = "1"
    /\ UNCHANGED <<opt, streamVars, walkVars>>

GrepEnd ==
    /\ grep = "read" /\ gpos = Len(gtext)
    /\ grep' = IF single /\ matched = 0 THEN "1" ELSE "0"
    /\ UNCHANGED <<opt, streamVars, walkVars>>

-----------------------------------------------------------------------------
(* list_lines_recursively                                                  *)

\* The tree has another entry: the root, or one of an open directory.
Entry ==
    /\ grep = "walk" /\ files + depth < MaxEntries
    /\ (files = 0 /\ depth = 0) \/ depth > 0

WalkDir ==
    /\ Entry /\ fds < MaxFds
    /\ fds' = fds + 1 /\ depth' = depth + 1
    /\ UNCHANGED <<opt, streamVars, files, locked, grep>>

\* opendir fails: the directory is left out, and nobody is told.
WalkDirFails ==
    /\ Entry
    /\ grep' = IF depth = 0 THEN "0" ELSE grep
    /\ UNCHANGED <<opt, streamVars, walkVars>>

\* The file is searched, and stays open.
WalkFile ==
    /\ Entry /\ depth > 0 /\ fds < MaxFds
    /\ files' = files + 1
    /\ fds' = fds + 1
    /\ UNCHANGED <<opt, streamVars, depth, locked, grep>>

\* fopen fails, and fgets is called with NULL.
WalkFileFails ==
    /\ Entry /\ depth > 0
    /\ locked' = (locked \/ fds < MaxFds)
    /\ grep' = "crash"
    /\ UNCHANGED <<opt, streamVars, fds, depth, files>>

\* closedir; main returns 0 after the root.
WalkClose ==
    /\ grep = "walk" /\ depth > 0
    /\ fds' = fds - 1 /\ depth' = depth - 1
    /\ grep' = IF depth = 1 THEN "0" ELSE grep
    /\ UNCHANGED <<opt, streamVars, files, locked>>

GrepNext ==
    \/ GrepLine \/ GrepOpenFails \/ GrepUndefined \/ GrepEnd
    \/ WalkDir \/ WalkDirFails \/ WalkFile \/ WalkFileFails \/ WalkClose

GrepSpec == GrepInit /\ [][GrepNext]_grepVars

-----------------------------------------------------------------------------
(* Properties                                                              *)

\* The lines of s, each with its newline, as pairs of first and last position.
TextLines(s) ==
    {g \in (1 .. Len(s)) \X (1 .. Len(s)) :
        /\ g[1] <= g[2] /\ \A k \in g[1] .. g[2] - 1 : s[k] # "\n"
        /\ g[1] = 1 \/ s[g[1] - 1] = "\n"
        /\ g[2] = Len(s) \/ s[g[2]] = "\n"}

Hits(s) == {g \in TextLines(s) : Selected(opt, SubSeq(s, g[1], g[2]))}

Covered(lines) == UNION {g[1] .. g[2] : g \in lines}

LinesFit == \A g \in TextLines(gtext) : g[2] - g[1] + 1 < BufSize

\* If every line fits the buffer, the output is the selected lines in their
\* order, each once, and the status says whether there were any (asked for one
\* character, of an input that has lines).  The pattern "" copies any input.
\* With -r, files that can be read crash the program only when those searched
\* so far and the open directories have used up the descriptors.
GrepCorrect ==
    /\ grep \in {"0", "1"} /\ opt.mode \notin {"other", "recursive"} /\ LinesFit =>
          /\ Extracts(gout, Covered(Hits(gtext)), gtext)
          /\ grep = "1" <=> opt.mode = "char" /\ gtext # <<>> /\ Hits(gtext) = {}
    /\ grep = "0" /\ opt.mode = "all" => gout = gtext
    /\ grep = "crash" => locked \/ files + depth >= MaxFds
=============================================================================
