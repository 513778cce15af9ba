----------------------------- MODULE Calculator -----------------------------
(***************************************************************************)
(* The calculator (7. calculator/calculator.c): to_postfix turns an        *)
(* expression into postfix order with a stack of operators, eval_postfix   *)
(* evaluates that with a stack of values.  Both use the one global stack,  *)
(* and eval may be called many times in a process.                         *)
(*                                                                         *)
(* The expression is chosen while it is scanned.  A number is one token    *)
(* (with a digit in it: eval_postfix never gets past points alone), and a  *)
(* value is the tree of the operations that gave it, so that two values    *)
(* are equal only if they were computed in the same way.                   *)
(***************************************************************************)
EXTENDS Integers, Sequences, FiniteSets, SequencesExt

CONSTANTS
    Numbers,    \* numbers
    Operators,  \* some of "+", "-", "*", "/"
    LowBytes,   \* what the low byte of a value may be
    Slacks,     \* how much more than it is asked for malloc may give
    MaxTokens   \* bound on the tokens of all the expressions together

Opening == {"("}
Closing == {")"}
Blank   == " "

\* A zero byte; strchr finds it in every string.
NUL == "NUL"

\* A byte that is none of the others.
Junk == "junk"

\* A number is none of the other tokens.
ASSUME CalcAssumption ==
    /\ Operators \subseteq {"+", "-", "*", "/"}
    /\ Numbers \cap ({"+", "-", "*", "/", Blank, NUL, Junk} \cup Opening \cup Closing) = {}
    /\ LowBytes # {}
    /\ LowBytes \subseteq Numbers \cup Operators \cup Opening \cup Closing \cup {Blank, NUL, Junk}
    /\ Slacks \subseteq Nat

VARIABLES
    expr,        \* the tokens scanned so far
    stack,       \* the global stack, top first
    pstfix,      \* the tokens written
    tail,        \* the byte that happens to follow them
    calc,        \* "scan", "eval", "done", "exit", "undefined"
    result,      \* the value eval returned, in a set; {} before it returns
    scanned,     \* tokens of all expressions so far
    remains      \* auxiliary: the stack as the last expression left it

calcVars == <<expr, stack, pstfix, tail, calc, result, scanned, remains>>

CalcInit ==
    /\ expr = <<>> /\ stack = <<>> /\ pstfix = <<>>
    /\ tail = NUL /\ calc = "scan" /\ result = {} /\ scanned = 0
    /\ remains = <<>>

-----------------------------------------------------------------------------
(* to_postfix                                                              *)

prec(op) == CASE op \in {"+", "-"} -> 1 [] op \in {"*", "/"} -> 2 [] OTHER -> 0

\* Operators of equal precedence taken to group from the right.
should_popRight(stack_op, incoming_op) == prec(stack_op) > prec(incoming_op)

\* No operator of this calculator is right associative ('^' is never pushed).
should_pop(stack_op, incoming_op) == prec(stack_op) >= prec(incoming_op)

InOpening(c)  == c \in Opening \cup {NUL}
InBrackets(c) == c \in Opening \cup Closing \cup {NUL}

\* The stack above its first item at which Stop holds.
Above(Stop(_)) ==
    LET n == SelectInSeq(stack, Stop)
    IN  IF n = 0 THEN stack ELSE SubSeq(stack, 1, n - 1)
Drop(n) == SubSeq(stack, n + 1, Len(stack))

Scan(t) ==
    /\ calc = "scan" /\ scanned < MaxTokens
    /\ expr' = Append(expr, t)
    /\ scanned' = scanned + 1
    /\ UNCHANGED <<tail, calc, result, remains>>

\* Two numbers in a row would be one number.
AfterNumber == expr # <<>> /\ Last(expr) \in Numbers

ScanNumber(n) ==
    /\ ~AfterNumber
    /\ Scan(n)
    /\ pstfix' = Append(pstfix, n)
    /\ UNCHANGED stack

\* Blanks, and all characters that mean nothing, are skipped.
ScanBlank == Scan(Blank) /\ UNCHANGED <<stack, pstfix>>

ScanOpening(b) == Scan(b) /\ stack' = <<b>> \o stack /\ UNCHANGED pstfix

\* Any closing bracket closes any opening one; one too many pops everything.
ScanClosing(b) ==
    LET ops == Above(InOpening)
    IN  /\ Scan(b)
        /\ pstfix' = pstfix \o ops
        /\ stack' = Drop(Min({Len(ops) + 1, Len(stack)}))

ScanOperator(op) ==
    LET ops == Above(LAMBDA c : InBrackets(c) \/ ~should_pop(c, op))
    IN  /\ Scan(op)
        /\ pstfix' = pstfix \o ops
        /\ stack' = <<op>> \o Drop(Len(ops))

\* pstfix has room for the expression and its NUL, and what malloc gives besides.
\* It gets its tokens with a separator before each but the first.  (A number has
\* its digits in both, and is counted as one.)
Overflows(slack) == 2 * Len(pstfix') - 1 > Len(expr) + 1 + slack

\* The end of the expression: the stack is emptied.  No NUL is written, so
\* what follows depends on what the memory of pstfix held before; and nothing is
\* said of a process that has written beyond pstfix, here or earlier.
ScanEnd ==
    /\ calc = "scan"
    /\ pstfix' = pstfix \o stack
    /\ stack' = <<>>
    /\ tail' \in {NUL, Junk} \cup Numbers \cup Operators
    /\ \E slack \in Slacks : calc' = IF Overflows(slack) THEN "undefined" ELSE "eval"
    /\ UNCHANGED <<expr, result, scanned, remains>>

-----------------------------------------------------------------------------
(* eval_postfix                                                            *)

\* What is read as a string: up to the first NUL.  A digit behind a number
\* makes it another number.
Text ==
    LET s == IF pstfix # <<>> /\ {Last(pstfix), tail} \subseteq Numbers
             THEN Front(pstfix) \o <<tail, NUL>>
             ELSE pstfix \o <<tail, NUL>>
    IN  SubSeq(s, 1, SelectInSeq(s, LAMBDA t : t = NUL) - 1)

Leaf(n)        == [number |-> n]
Node(op, l, r) == [op |-> op, left |-> l, right |-> r]

\* One token; values are top first.  A bracket or a stray byte takes two
\* values and gives none back.
EvalToken(st, t) ==
    IF st.underflow THEN st
    ELSE IF t \in Numbers THEN [st EXCEPT !.values = <<Leaf(t)>> \o @]
    ELSE IF t = Blank THEN st
    ELSE IF Len(st.values) < 2 THEN [st EXCEPT !.underflow = TRUE]
    ELSE [st EXCEPT !.values =
             (IF t \in Operators THEN <<Node(t, @[2], @[1])>> ELSE <<>>)
                 \o SubSeq(@, 3, Len(@))]

\* The values after each token of s.
Evaluated(s) ==
    LET st[n \in 0 .. Len(s)] ==
            IF n = 0 THEN [values |-> <<>>, underflow |-> FALSE] ELSE EvalToken(st[n - 1], s[n])
    IN  st

\* pop() on an empty stack ends the process.  Values left over stay there, and
\* to_postfix will take their low bytes for characters.
eval_postfix ==
    /\ calc = "eval"
    /\ LET st == Evaluated(Text)[Len(Text)]
       IN  IF st.underflow \/ st.values = <<>>
           THEN calc' = "exit" /\ UNCHANGED <<stack, result>>
           ELSE /\ calc' = "done"
                /\ result' = {Head(st.values)}
                /\ stack' \in [1 .. Len(st.values) - 1 -> LowBytes]
    /\ UNCHANGED <<expr, pstfix, tail, scanned, remains>>

\* The next call of eval.
eval ==
    /\ calc = "done"
    /\ calc' = "scan" /\ expr' = <<>> /\ pstfix' = <<>> /\ result' = {}
    /\ tail' = NUL /\ remains' = stack
    /\ UNCHANGED <<stack, scanned>>

CalcNext ==
    \/ \E n \in Numbers : ScanNumber(n)
    \/ \E op \in Operators : ScanOperator(op)
    \/ \E b \in Opening : ScanOpening(b)
    \/ \E b \in Closing : ScanClosing(b)
    \/ ScanBlank \/ ScanEnd \/ eval_postfix \/ eval

CalcSpec == CalcInit /\ [][CalcNext]_calcVars

-----------------------------------------------------------------------------
(* The meaning of an expression: {} if it has none, else the one value.    *)

Depth(s, i) ==
    Cardinality({j \in 1 .. i : s[j] \in Opening})
        - Cardinality({j \in 1 .. i : s[j] \in Closing})

\* The operators outside all brackets that open between from and to, and the
\* one applied last: the rightmost of the weakest.
TopLevel(s, from, to) ==
    {k \in from .. to : s[k] \in Operators /\ Depth(s, k) = Depth(s, from - 1)}
LastApplied(s, top) ==
    CHOOSE i \in top : \A j \in top :
        prec(s[i]) < prec(s[j]) \/ (prec(s[i]) = prec(s[j]) /\ j <= i)

Nodes(op, lefts, rights) == {Node(op, l, r) : l \in lefts, r \in rights}

\* That of every part of s, given by its first and its last place.
Meanings(s) ==
    LET means[g \in (1 .. Len(s) + 1) \X (0 .. Len(s))] ==
            LET from == g[1]
                to   == g[2]
                top  == TopLevel(s, from, to)
                last == LastApplied(s, top)
            IN  IF from > to THEN {}
                ELSE IF s[from] = Blank THEN means[<<from + 1, to>>]
                ELSE IF s[to] = Blank THEN means[<<from, to - 1>>]
                ELSE IF from = to THEN {Leaf(n) : n \in {s[from]} \cap Numbers}
                ELSE IF top # {}
                THEN Nodes(s[last], means[<<from, last - 1>>], means[<<last + 1, to>>])
                ELSE IF s[from] \in Opening /\ s[to] \in Closing
                THEN means[<<from + 1, to - 1>>]
                ELSE {}
    IN  means
Meaning(s) == Meanings(s)[<<1, Len(s)>>]

\* An expression that has a meaning is given it by eval, even if expressions
\* before it, malformed ones too, have left values on the global stack, as long
\* as those all end in a zero byte, the way small whole numbers do.  It holds
\* whenever malloc's slack takes the postfix text and a NUL happens to follow it,
\* which to_postfix does not write.  (Of 1/3 the low byte is 0x55: with that left
\* over by "(1/3) 1", eval ends the process at "2+3".)
CalculatorCorrect ==
    calc \in {"done", "exit"} /\ tail = NUL /\ remains \in Seq({NUL}) /\ Meaning(expr) # {} =>
        result = Meaning(expr)
=============================================================================
