-------------------------------- MODULE Resp --------------------------------
(***************************************************************************)
(* The RESP parser (redis_clone/src/resp.c) on the buffer that per_client  *)
(* gives it: the bytes one read() returned, a terminating zero, and behind *)
(* it what earlier reads left there.  parse_array trusts the lengths in    *)
(* the text, so on a request that arrived in part it reads past the zero.  *)
(*                                                                         *)
(* A request is sent whole or cut after any byte.  Its text is a sequence  *)
(* of characters, so that lengths and positions are those of the code.     *)
(***************************************************************************)
EXTENDS Integers, Sequences, FiniteSets, SequencesExt, TextPlaces

CONSTANTS
    IntMax,    \* the largest int (a size) and the largest long (an integer)
    LongMax,
    ReadMax,   \* bytes that one read() takes at most (1023)
    RespChars, \* other characters than those of the protocol
    Messages,  \* the messages sent: [type, count, parts], parts a sequence of strings
    Earlier    \* the text read into the buffer before (or none)

ZERO == "zero"  \* the terminating zero byte
CRLF == <<"\r", "\n">>

\* The decimal text of a number.
Numeral[n \in Nat] ==
    IF n < 10 THEN <<Figures[n + 1]>> ELSE Append(Numeral[n \div 10], Figures[(n % 10) + 1])
Signed(n) == IF n < 0 THEN <<"-">> \o Numeral[0 - n] ELSE Numeral[n]

Mark == [simple |-> "+", error |-> "-", integer |-> ":", bulk |-> "$"]

\* The text of an array up to each of its parts (the nil array has no parts
\* and count -1), and that of a message.
BulkText(s) == <<"$">> \o Numeral[Len(s)] \o CRLF \o s \o CRLF
ArrayText(m) ==
    LET text[k \in 0 .. Len(m.parts)] ==
            IF k = 0 THEN <<"*">> \o Signed(m.count) \o CRLF
            ELSE text[k - 1] \o BulkText(m.parts[k])
    IN  text
Wire(m) ==
    IF m.type = "array" THEN ArrayText(m)[Len(m.parts)]
    ELSE <<Mark[m.type]>> \o m.parts[1] \o CRLF

RespBytes ==
    RespChars \cup Range(Figures) \cup Range(CRLF) \cup {"*", "+", "-", ":", "$", ZERO}

\* A client sends what the protocol allows: lines without an end of line
\* inside, true counts, and numbers the code has a type for.
ASSUME RespAssumption ==
    /\ IntMax \in Nat /\ LongMax \in Nat /\ ReadMax \in Nat
    /\ Earlier \subseteq Seq(RespBytes)
    /\ \A m \in Messages :
        /\ m.type \in {"array"} \cup DOMAIN Mark /\ m.parts \in Seq(Seq(RespBytes)) /\ m.count \in Int
        /\ m.type = "array" =>
              m.count <= IntMax /\ (m.count = Len(m.parts) \/ (m.count = -1 /\ m.parts = <<>>))
        /\ m.type # "array" =>
              /\ Len(m.parts) = 1
              /\ \A k \in 1 .. Len(m.parts[1]) - 1 : ~(m.parts[1][k] = "\r" /\ m.parts[1][k + 1] = "\n")
        /\ m.type = "integer" =>
              m.count \in 0 - LongMax - 1 .. LongMax /\ m.parts[1] = Signed(m.count)

VARIABLES
    message,  \* auxiliary: what was sent, and how many bytes arrived
    arrived,
    memory,   \* the buffer
    resp,     \* "parse", "array", "parsed", "exit", "undefined"
    at,       \* buf, the position parse_array has reached
    value     \* the RespValue: type, count, items (those set so far)

respVars == <<message, arrived, memory, resp, at, value>>

\* buffer[n] = '\0' on top of the earlier message.
Overlay(s, old) ==
    s \o <<ZERO>> \o SubSeq(old, Len(s) + 2, Len(old))

NoValue == [type |-> "none", count |-> 0, items |-> <<>>]

RespInit ==
    /\ message \in Messages
    /\ arrived \in 1 .. Len(Wire(message)) /\ arrived <= ReadMax
    /\ \E e \in Earlier : memory = Overlay(SubSeq(Wire(message), 1, arrived), e)
    /\ resp = "parse" /\ at = 1 /\ value = NoValue

RespIdle ==
    /\ message = CHOOSE m \in Messages : TRUE
    /\ arrived = 0 /\ memory = <<>> /\ resp = "parsed" /\ at = 1 /\ value = NoValue

-----------------------------------------------------------------------------
\* A byte of the buffer; nobody knows what is behind the bytes ever written.
Byte(i) == IF i <= Len(memory) THEN memory[i] ELSE "?"

\* The first place of s, from i on, that has none of the characters cs.
PastAll(s, i, cs) == Min({j \in i .. Len(s) + 1 : j = Len(s) + 1 \/ s[j] \notin cs})

\* strtol at place i of s: blanks are skipped, a sign is taken; end is where
\* it stopped, i if there was no digit.
strtol(s, i) ==
    LET first == PastAll(s, i, {" ", "\t", "\r", "\n"})
        start == IF first <= Len(s) /\ s[first] \in {"-", "+"} THEN first + 1 ELSE first
        end   == PastAll(s, start, Range(Figures))
        n     == Decimal(s, start)[end - 1]
    IN  IF end = start THEN [n |-> 0, end |-> i]
        ELSE [n |-> IF s[first] = "-" THEN 0 - n ELSE n, end |-> end]

\* make_string's strdup ends at the first zero.
make_string(s) ==
    LET z == SelectInSeq(s, LAMBDA c : c = ZERO)
    IN  IF z = 0 THEN s ELSE SubSeq(s, 1, z - 1)

get_word(i, sz) == [k \in 1 .. sz |-> Byte(i + k - 1)]

\* parse_simple_string: up to the end of line or the zero.
Stops(j) == Byte(j) = ZERO \/ (Byte(j) = "\r" /\ Byte(j + 1) = "\n")
Word == SubSeq(memory, 2, Min({j \in 2 .. Len(memory) : Stops(j)}) - 1)

ParsedAs(type, items) ==
    /\ value' = [type |-> type, count |-> 0, items |-> items]
    /\ resp' = "parsed"

\* parse, with get_identify_type's exit(1), and its own for a bulk string.
parse ==
    /\ resp = "parse"
    /\ \/ Byte(1) = "+" /\ ParsedAs("simple", <<make_string(Word)>>) /\ UNCHANGED at
       \/ Byte(1) = "-" /\ ParsedAs("error", <<make_string(Word)>>) /\ UNCHANGED at
       \/ Byte(1) = ":" /\ ParsedAs("integer", <<strtol(Word, 1).n>>) /\ UNCHANGED at
       \/ /\ Byte(1) = "*"
          /\ value' = [NoValue EXCEPT !.type = "array", !.count = strtol(memory, 2).n]
          /\ at' = strtol(memory, 2).end + 2
          /\ resp' = "array"
       \/ Byte(1) \notin {"+", "-", ":", "*"} /\ resp' = "exit" /\ UNCHANGED <<at, value>>
    /\ UNCHANGED <<message, arrived, memory>>

\* The step to the next item without the end of line behind this one.
AfterWordShort(i, sz) == i + 2 + sz
AfterWord(i, sz)      == i + 2 + sz + 2

Turn == Len(value.items)

\* One turn of parse_array's loop; a negative length goes to memcpy as it is.
ArrayItem ==
    /\ resp = "array" /\ Turn < value.count /\ Byte(at) = "$"
    /\ LET sz == strtol(memory, at + 1)
       IN  IF sz.n < 0 THEN resp' = "undefined" /\ UNCHANGED <<at, value>>
           ELSE /\ value' = [value EXCEPT !.items =
                                Append(@, make_string(get_word(sz.end + 2, sz.n)))]
                /\ at' = AfterWord(sz.end, sz.n)
                /\ UNCHANGED resp
    /\ UNCHANGED <<message, arrived, memory>>

\* The loop ends, or breaks at a byte that is not '$'.  The items that are
\* missing then stay unset, and exec_command and free_resp follow them.
ArrayEnd ==
    /\ resp = "array" /\ (Turn >= value.count \/ Byte(at) # "$")
    /\ resp' = IF Turn < value.count THEN "undefined" ELSE "parsed"
    /\ UNCHANGED <<message, arrived, memory, at, value>>

RespNext == parse \/ ArrayItem \/ ArrayEnd

RespSpec == RespInit /\ [][RespNext]_respVars

-----------------------------------------------------------------------------
(* Properties                                                              *)

Whole == arrived = Len(Wire(message))

\* Where the text of item k of the message ends.
ItemEnds(k) == Len(ArrayText(message)[k]) - 2

\* A message that arrived whole is parsed into what was sent, whatever an
\* earlier one left behind it in the buffer, and whatever its strings hold (the
\* end of a line, a '$', a zero, which ends the string).  Of an array that
\* arrived in part, the items that are there in full are right.
RespCorrect ==
    /\ resp \in {"parsed", "exit", "undefined"} /\ arrived > 0 /\ Whole =>
          IF message.type = "bulk" THEN resp = "exit"
          ELSE /\ resp = "parsed" /\ value.type = message.type
               /\ CASE message.type = "array" ->
                         /\ value.count = message.count
                         /\ value.items = [k \in DOMAIN message.parts |->
                                             make_string(message.parts[k])]
                    [] message.type = "integer" -> value.items = <<message.count>>
                    [] OTHER -> value.items = <<make_string(message.parts[1])>>
    /\ resp \in {"parsed", "undefined"} /\ message.type = "array" /\ arrived > 0 =>
          \A k \in DOMAIN message.parts :
              arrived >= ItemEnds(k) =>
                  k <= Turn /\ value.items[k] = make_string(message.parts[k])
=============================================================================
