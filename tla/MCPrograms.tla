---- MODULE MCPrograms ----
(* An instance of Programs for TLC. *)
EXTENDS Programs

MCScripts ==
    { <<>>, <<"blank">>, <<"bad">>, <<"request", "header", "blank", "header">> }

\* Earlier sessions left a long pipeline to recall, one with "exit" in it, and a
\* way out.
MCSaved == << <<"endless", "|", "filter", "|", "head">>,
              <<"history", "|", "exit">>,
              <<"exit">> >>
====
