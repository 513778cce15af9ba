-------------------------------- MODULE Uniq --------------------------------
(***************************************************************************)
(* uniq (10. uniq/uniq.c): equal lines in a row are written once.  Lines   *)
(* are model values; every line ends in a newline and fits the buffer.     *)
(***************************************************************************)
EXTENDS Integers, Sequences, FiniteSets, SequencesExt

CONSTANTS
    Lines,     \* the lines of the input
    MaxLines,  \* bound on the input
    MaxArgs,   \* bound on the arguments
    NoLine     \* the empty buffer

ASSUME NoLineAssumption == NoLine \notin Lines

Args == {"-c", "-d", "-u", "-", "path"}

VARIABLES
    opts,   \* what the arguments asked for
    input,  \* auxiliary: the lines read so far
    prev, count,
    outfile, stdout,
    uniq    \* "open", "read", "done", "error"

uniqVars == <<opts, input, prev, count, outfile, stdout, uniq>>

-----------------------------------------------------------------------------
(* The arguments                                                           *)

NoOptions == [c |-> FALSE, d |-> FALSE, u |-> FALSE, in |-> FALSE, out |-> FALSE,
              take |-> FALSE]

\* An argument that is no option is the input file, unless the FIRST argument
\* of all is "-": then it makes the next one the output file.
Argument(dash, o, a) ==
    IF o.take THEN [o EXCEPT !.take = FALSE, !.out = TRUE]
    ELSE CASE a = "-c" -> [o EXCEPT !.c = TRUE]
           [] a = "-d" -> [o EXCEPT !.d = TRUE]
           [] a = "-u" -> [o EXCEPT !.u = TRUE]
           [] OTHER    -> IF dash THEN [o EXCEPT !.take = TRUE]
                          ELSE [o EXCEPT !.in = TRUE]

Options(args) ==
    LET arg(o, a) == Argument(args # <<>> /\ args[1] = "-", o, a)
    IN  FoldLeft(arg, NoOptions, args)

UniqInit ==
    /\ \E args \in BoundedSeq(Args, MaxArgs) : opts = Options(args)
    /\ input = <<>> /\ prev = NoLine /\ count = 0
    /\ outfile = <<>> /\ stdout = <<>> /\ uniq = "open"

\* fopen of a file that was named fails.
OpenFails ==
    /\ uniq = "open" /\ (opts.in \/ opts.out)
    /\ uniq' = "error"
    /\ UNCHANGED <<opts, input, prev, count, outfile, stdout>>

Open ==
    /\ uniq = "open"
    /\ uniq' = "read"
    /\ UNCHANGED <<opts, input, prev, count, outfile, stdout>>

-----------------------------------------------------------------------------
(* The loop over the lines                                                 *)

\* -u, given with -d, wins.
ShouldPrint(n) == IF opts.u THEN n = 1 ELSE opts.d => n > 1

Shown(n, line) == IF opts.c THEN <<n, line>> ELSE <<line>>

Printed(n, line) == IF ShouldPrint(n) THEN <<Shown(n, line)>> ELSE <<>>

\* The count of the new line started at none.
NewLineZero(line) ==
    /\ count' = 0
    /\ IF opts.out
       THEN outfile' = outfile \o Printed(count, prev) /\ UNCHANGED stdout
       ELSE stdout' = stdout \o Printed(count, prev) /\ UNCHANGED outfile

\* A line that differs from the one before: that one is complete.
NewLine(line) ==
    /\ count' = 1
    /\ IF opts.out
       THEN outfile' = outfile \o Printed(count, prev) /\ UNCHANGED stdout
       ELSE stdout' = stdout \o Printed(count, prev) /\ UNCHANGED outfile

SameLine == count' = count + 1 /\ UNCHANGED <<outfile, stdout>>

ReadLine(line) ==
    /\ uniq = "read" /\ Len(input) < MaxLines
    /\ IF prev # NoLine /\ line # prev THEN NewLine(line) ELSE SameLine
    /\ prev' = line
    /\ input' = Append(input, line)
    /\ UNCHANGED <<opts, uniq>>

\* The end of the input: the last line goes to stdout, whatever was asked.
ReadEnd ==
    /\ uniq = "read"
    /\ stdout' = IF count > 0 THEN stdout \o Printed(count, prev) ELSE stdout
    /\ uniq' = "done"
    /\ UNCHANGED <<opts, input, prev, count, outfile>>

UniqNext ==
    \/ OpenFails \/ Open \/ ReadEnd
    \/ \E line \in Lines : ReadLine(line)

UniqSpec == UniqInit /\ [][UniqNext]_uniqVars

-----------------------------------------------------------------------------
\* The longest stretches of equal lines, as pairs of first and last position.
Groups(s) ==
    {g \in (1 .. Len(s)) \X (1 .. Len(s)) :
        /\ g[1] <= g[2] /\ \A k \in g[1] .. g[2] : s[k] = s[g[1]]
        /\ g[1] = 1 \/ s[g[1] - 1] # s[g[1]]
        /\ g[2] = Len(s) \/ s[g[2] + 1] # s[g[2]]}

Asked(s) == {g \in Groups(s) : ShouldPrint(g[2] - g[1] + 1)}

\* out has the groups of the set, each once and in the order of the input.
Lists(out, groups, s) ==
    /\ Len(out) = Cardinality(groups)
    /\ \A g \in groups :
          out[Cardinality({h \in groups : h[1] <= g[1]})] = Shown(g[2] - g[1] + 1, s[g[1]])

\* Every group that the options ask for is written exactly once and in the
\* order of the input, with its true count, the group still open at the end of
\* the input included; the output file comes first, stdout has the rest.
UniqCorrect == uniq = "done" => Lists(outfile \o stdout, Asked(input), input)
=============================================================================
