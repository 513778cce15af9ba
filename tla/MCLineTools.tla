---- MODULE MCLineTools ----
(* An instance of LineTools for TLC. *)
EXTENDS LineTools

MCKeys   == { <<"a">>, <<"a", "b">> }
MCValues == { <<"w", ":">>, <<>> }

\* Strings with all that has a meaning in the text of a message.
MCStrings == { <<>>, <<"G">>, <<"\r", "\n">>, <<"$", "1">>, <<"a", ZERO, "b">>,
               [k \in 1 .. 12 |-> "1"] }
MCRespChars == {"G", "a", "b", "O", "K", "S", "E", "T", "k", "v"}

MCArray(parts) == [type |-> "array", count |-> Len(parts), parts |-> parts]
MCLine(type, s) == [type |-> type, count |-> 0, parts |-> <<s>>]

MCMessages ==
    {MCArray(parts) : parts \in BoundedSeq(MCStrings, 2)}
    \cup {MCLine(t, s) : t \in {"simple", "error", "bulk"},
                          s \in {<<>>, <<"O", "K">>, <<"\r", "O">>, <<"-", "\n">>}}
    \cup {[MCArray(<<>>) EXCEPT !.count = -1]}
    \cup {[MCLine("integer", Signed(n)) EXCEPT !.count = n] : n \in {-7, 0, 120}}

\* Nothing yet, or a longer request of the same shape.
MCEarlier == { <<>>, Wire(MCArray(<<<<"S", "E", "T">>, <<"k">>, <<"v", "v">>>>)) }

MCFieldLists == { <<>>, <<"1">>, <<"2">>, <<"1", ",", "3">>, <<"2", ",", " ", "3">>,
                  <<"1", "2">>, <<"x">> }
MCCutLines == BoundedSeq({"a", ",", "\t"}, 4)
====
