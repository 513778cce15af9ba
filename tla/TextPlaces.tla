----------------------------- MODULE TextPlaces -----------------------------
(***************************************************************************)
(* What the programs read in a text, said by its places: the characters    *)
(* taken from it, and the decimal numbers in it.                           *)
(***************************************************************************)
EXTENDS Integers, Sequences, FiniteSets, SequencesExt

\* out is what stands at these places of s, in order.
Extracts(out, places, s) ==
    /\ Len(out) = Cardinality(places)
    /\ \A p \in places : out[Cardinality({q \in places : q <= p})] = s[p]

Figures == <<"0", "1", "2", "3", "4", "5", "6", "7", "8", "9">>
Figure(c) == SelectInSeq(Figures, LAMBDA x : x = c) - 1

\* What the digits of s from p on say, up to each place.
Decimal(s, p) ==
    LET value[n \in 0 .. Len(s)] == IF n < p THEN 0 ELSE 10 * value[n - 1] + Figure(s[n])
    IN  value
=============================================================================
