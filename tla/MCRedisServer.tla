---- MODULE MCRedisServer ----
(* Instances of RedisServer for TLC. *)
EXTENDS RedisServer

CONSTANTS k1, k2, w

Flag(f) == [kind |-> "flag", flag |-> f, num |-> 0]
Num(n)  == [kind |-> "num", flag |-> "", num |-> n]

Req(name, keys, value, opts) ==
    [type |-> "array", name |-> name, keys |-> keys, value |-> value, opts |-> opts]
Simple(name) == [Req(name, <<>>, NULL, <<>>) EXCEPT !.type = "simple"]

\* Commands that meet each other on two keys.
MCRequests == {
    Req("SET", <<k1>>, w, <<>>),
    Req("SET", <<k2>>, 1, <<Flag("PXAT"), Num(1), Flag("PX"), Num(1)>>),
    Req("GET", <<k2>>, NULL, <<>>),
    Req("INCR", <<k1>>, NULL, <<>>),
    Req("DEL", <<k1>>, NULL, <<>>),
    Req("DEL", <<k1, k2>>, NULL, <<>>) }

\* One client's view of every option, at the limits of the arithmetic.
MCOptionRequests ==
    {Req("SET", <<k1>>, 1, <<Flag(f), Num(n)>>) :
        f \in {"EX", "PX", "EXAT", "PXAT"}, n \in {1, 7}}
    \cup {Req("SET", <<k1>>, 1, <<Flag("EX"), Num(0)>>),
          Req("SET", <<k1>>, 1, <<Num(1), Flag("EX")>>), Req("SET", <<k1>>, NULL, <<>>),
          Req("SET", <<k1>>, 1, <<Flag("EX"), Num(0), Flag("PX")>>),
          Req("GET", <<k1>>, NULL, <<>>), Simple("GET"), Req("EXISTS", <<k1>>, NULL, <<>>),
          Req("PING", <<>>, NULL, <<>>), Req("INCR", <<>>, NULL, <<>>),
          Simple("ECHO"), Req("ECHO", <<>>, w, <<>>), Req("QUIT", <<>>, NULL, <<>>)}

MCAllRequests == MCRequests \cup MCOptionRequests

\* Times from now on, the longest of which is as long as a word holds: with three
\* milliseconds to the second and words below 64, EX 21 is 63 of the 64.
MCLongExpiries == {Req("SET", <<k1>>, 1, <<Flag(f), Num(n)>>) : f \in {"EX", "PX"}, n \in {1, 21}}

\* Requests for the runs about delivery.
MCFewRequests == { Req("SET", <<k1>>, w, <<>>), Req("GET", <<k1>>, NULL, <<>>),
                   Simple("EXISTS") }
====
