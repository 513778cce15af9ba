---------------------------- MODULE RedisServer ----------------------------
(***************************************************************************)
(* The Redis clone's server (redis_clone/src/server.c, resp.c): one thread *)
(* per connection that reads, parses, executes and answers, over the store *)
(* that KVStore specifies and RedisStore implements.                       *)
(*                                                                         *)
(* TCP carries bytes, not requests: here a request travels as two pieces,  *)
(* and read() returns as many pieces as the network chose to deliver.  The *)
(* code takes what one read() returns for exactly one request.             *)
(*                                                                         *)
(* A parsed request is a record: its RESP type, the command name, its keys *)
(* and value, and the tokens that follow them (SET's options).             *)
(***************************************************************************)
EXTENDS KVStore, Sequences, FiniteSets, Functions

CONSTANTS
    Requests,   \* the requests clients send
    MaxSent,    \* bound on the requests of all clients
    Second,     \* milliseconds in a second (1000)
    Word64,     \* one more than the largest uint64_t
    Segments,   \* how many pieces one read() may return
    Impatient,  \* clients send on, or leave, before they are answered
    Cut         \* a value whose tail is still on the wire

Numbers == IntMin .. IntMax

\* What follows the key and the value of a SET.
Tokens == [kind : {"flag", "num"}, flag : STRING, num : Int]

ASSUME RequestAssumption ==
    /\ IntMin \in Int /\ IntMax \in Int /\ 1 \in Numbers
    /\ \A r \in Requests : r.keys \in Seq(Keys) /\ r.opts \in Seq(Tokens)

ASSUME ServerAssumption ==
    /\ Second \in Nat \ {0} /\ Word64 \in Nat \ {0} /\ MaxSent \in Nat
    /\ MaxTime \in Nat \ {0}
    /\ Segments \subseteq Nat \ {0}
    /\ Impatient \in BOOLEAN

VARIABLES
    up,        \* the server process is alive
    peer,      \* the client's end: "away", "waiting" to be accepted, "here", "left"
    fd,        \* the server's descriptor: "none", "open", "closed"
    wire,      \* pieces sent and not read yet
    sent, got, \* the requests a client has sent, the replies it has received
    pc,        \* where the connection's thread is in per_client
    buf,       \* what the last read() returned
    cmd,       \* the request being executed
    todo,      \* keys DEL still has to delete
    count,     \* del_success
    reply      \* the reply to send

netVars == <<peer, fd, wire, sent, got>>
thrVars == <<pc, buf, cmd, todo, count, reply>>
srvVars == <<up, netVars, thrVars>>
serverVars == <<srvVars, kvVars>>

-----------------------------------------------------------------------------
(* Requests, replies                                                       *)

Piece(r, h) == [req |-> r, half |-> h]

Reply(kind, text, data) == [kind |-> kind, text |-> text, data |-> data]

resp_simple(text) == Reply("simple", text, NULL)
resp_error(text)  == Reply("error", text, NULL)
resp_integer(n)   == Reply("integer", "", n)
\* A NULL string is sent as the nil bulk string.
resp_bulk(s)      == IF s = NULL THEN Reply("nil", "", NULL) ELSE Reply("bulk", "", s)

NoReply == Reply("none", "", NULL)
NoCmd   == [type |-> "none", name |-> "", keys |-> <<>>, value |-> NULL, opts |-> <<>>]

\* cmd->data.array.count
Count(r) == 1 + Len(r.keys) + (IF r.value = NULL THEN 0 ELSE 1) + Len(r.opts)

Short(r, n) == r.type # "array" \/ Count(r) < n

-----------------------------------------------------------------------------
(* SET's options, server.c:98-136.  The loop takes two tokens a turn, stops *)
(* at the first pair it rejects, and a later pair overrides an earlier one. *)

Flags == {"EX", "PX", "EXAT", "PXAT"}

Turns(opts)       == {i \in 1 .. Len(opts) : i % 2 = 1}
BadFlag(opts, i)  == ~(opts[i].kind = "flag" /\ opts[i].flag \in Flags) \/ i = Len(opts)
BadNumber(opts, i) == opts[i+1].kind # "num" \/ opts[i+1].num <= 0
BadTurns(opts)    == {i \in Turns(opts) : BadFlag(opts, i) \/ BadNumber(opts, i)}

\* The first turn rejected decides the error.
OptionError(opts) ==
    LET first == CHOOSE i \in BadTurns(opts) : \A j \in BadTurns(opts) : i <= j
    IN  IF BadFlag(opts, first) THEN "ERR syntax error"
        ELSE "ERR value is not an integer or out of range"

\* now_ms() + (uint64_t)n * 1000, and its three variants: nothing but n <= 0 is
\* rejected before, so the product and the sum may both wrap.
ExpiresAt(flag, n) ==
    CASE flag = "EX"   -> (clock + n * Second) % Word64
      [] flag = "PX"   -> (clock + n) % Word64
      [] flag = "EXAT" -> (n * Second) % Word64
      [] flag = "PXAT" -> n % Word64

SetExpiry(opts) ==
    IF opts = <<>> THEN 0
    ELSE ExpiresAt(opts[Len(opts) - 1].flag, opts[Len(opts)].num)

-----------------------------------------------------------------------------
Init ==
    /\ KVInit
    /\ up = TRUE
    /\ peer = [c \in Threads |-> "away"]
    /\ fd = [c \in Threads |-> "none"]
    /\ wire = [c \in Threads |-> <<>>]
    /\ sent = [c \in Threads |-> <<>>]
    /\ got = [c \in Threads |-> <<>>]
    /\ pc = [c \in Threads |-> "none"]
    /\ buf = [c \in Threads |-> <<>>]
    /\ cmd = [c \in Threads |-> NoCmd]
    /\ todo = [c \in Threads |-> <<>>]
    /\ count = [c \in Threads |-> 0]
    /\ reply = [c \in Threads |-> NoReply]

Goto(c, label) == pc' = [pc EXCEPT ![c] = label]

(* The clients (external)                                                  *)

Connect(c) ==
    /\ up /\ peer[c] = "away"
    /\ peer' = [peer EXCEPT ![c] = "waiting"]
    /\ UNCHANGED <<up, fd, wire, sent, got, thrVars, kvVars>>

TotalSent == FoldFunction(LAMBDA s, n : Len(s) + n, 0, sent)

\* A patient client waits for the answer before it sends the next request.
ClientSend(c, r) ==
    /\ up /\ peer[c] = "here" /\ TotalSent < MaxSent
    /\ Impatient \/ Len(got[c]) = Len(sent[c])
    /\ sent' = [sent EXCEPT ![c] = Append(@, r)]
    /\ wire' = [wire EXCEPT ![c] = @ \o <<Piece(r, 1), Piece(r, 2)>>]
    /\ UNCHANGED <<up, peer, fd, got, thrVars, kvVars>>

ClientLeave(c) ==
    /\ peer[c] = "here"
    /\ Impatient \/ Len(got[c]) = Len(sent[c])
    /\ peer' = [peer EXCEPT ![c] = "left"]
    /\ UNCHANGED <<up, fd, wire, sent, got, thrVars, kvVars>>

-----------------------------------------------------------------------------
(* start_server and handle_client: accept, then a detached thread          *)

\* The process ends: exit(1), or a crash.
Down ==
    /\ up' = FALSE
    /\ UNCHANGED <<netVars, thrVars, kvVars>>

Accept(c) ==
    /\ up /\ peer[c] = "waiting"
    /\ peer' = [peer EXCEPT ![c] = "here"]
    /\ fd' = [fd EXCEPT ![c] = "open"]
    /\ Goto(c, "read")
    /\ UNCHANGED <<up, wire, sent, got, buf, cmd, todo, count, reply, kvVars>>

\* pthread_create fails: the connection is closed, and pthread_detach is called
\* on a thread id that was never set.
AcceptNoThread(c) ==
    /\ up /\ peer[c] = "waiting" /\ MayFail
    /\ \/ Down
       \/ /\ peer' = [peer EXCEPT ![c] = "here"]
          /\ fd' = [fd EXCEPT ![c] = "closed"]
          /\ Goto(c, "ended")
          /\ UNCHANGED <<up, wire, sent, got, buf, cmd, todo, count, reply, kvVars>>

(* per_client                                                              *)

\* read() returns the first pieces on the wire.
Read(c) ==
    /\ up /\ pc[c] = "read"
    /\ \E n \in Segments :
          /\ n <= Len(wire[c])
          /\ buf' = [buf EXCEPT ![c] = SubSeq(wire[c], 1, n)]
          /\ wire' = [wire EXCEPT ![c] = SubSeq(@, n + 1, Len(@))]
    /\ Goto(c, "parse")
    /\ UNCHANGED <<up, peer, fd, sent, got, cmd, todo, count, reply, kvVars>>

\* A thread that leaves its loop without closing the connection.
ReadEofNoClose(c) ==
    /\ up /\ pc[c] = "read" /\ peer[c] = "left"
    /\ Goto(c, "ended")
    /\ UNCHANGED <<up, netVars, buf, cmd, todo, count, reply, kvVars>>

\* read() returns 0, or -1 when the client's leaving reset the connection and
\* what it had sent is lost: the loop ends, close(conn).
ReadEof(c) ==
    /\ up /\ pc[c] = "read" /\ peer[c] = "left"
    /\ fd' = [fd EXCEPT ![c] = "closed"]
    /\ Goto(c, "ended")
    /\ UNCHANGED <<up, peer, wire, sent, got, buf, cmd, todo, count, reply, kvVars>>

Parsed(c, r) ==
    /\ cmd' = [cmd EXCEPT ![c] = r]
    /\ Goto(c, "exec")
    /\ UNCHANGED <<up, netVars, buf, todo, count, reply, kvVars>>

\* parse() of a buffer that begins with a whole request; what follows the
\* request in the buffer is dropped.
ParseWhole(c) ==
    /\ up /\ pc[c] = "parse" /\ buf[c][1].half = 1 /\ Len(buf[c]) > 1
    /\ Parsed(c, buf[c][1].req)

\* The requests of which the server has read nothing yet.
Unread(c) == Cardinality({j \in DOMAIN wire[c] : wire[c][j].half = 1})

\* ... of a request whose end is missing: parse_array reads past the text.  It
\* leaves items[] unset, which crashes later, or takes a name or a value short;
\* cut within its first bytes, it goes on in an earlier request, whose text the
\* buffer still holds.
ParseTruncated(c) ==
    /\ up /\ pc[c] = "parse" /\ buf[c][1].half = 1 /\ Len(buf[c]) = 1
    /\ \/ Down
       \/ Parsed(c, [buf[c][1].req EXCEPT !.name = "?"])
       \/ /\ buf[c][1].req.value # NULL
          /\ Parsed(c, [buf[c][1].req EXCEPT !.value = Cut, !.opts = <<>>])
       \/ \E i \in 1 .. Len(sent[c]) - Unread(c) - 1 : Parsed(c, sent[c][i])

\* ... of the tail of a request: get_identify_type or parse calls exit(1),
\* unless the tail happens to begin with '+', '-', ':' or '*'.
ParseTail(c) ==
    /\ up /\ pc[c] = "parse" /\ buf[c][1].half = 2
    /\ \/ Down
       \/ Parsed(c, [NoCmd EXCEPT !.type = "simple", !.name = "?"])

\* Only successful replies are sent.
SendSkipsErrors(c) ==
    /\ up /\ pc[c] = "send"
    /\ got' = [got EXCEPT ![c] = IF reply[c].kind = "error" THEN @ ELSE Append(@, reply[c])]
    /\ reply' = [reply EXCEPT ![c] = NoReply]
    /\ cmd' = [cmd EXCEPT ![c] = NoCmd]
    /\ buf' = [buf EXCEPT ![c] = <<>>]
    /\ Goto(c, "read")
    /\ UNCHANGED <<up, peer, fd, wire, sent, todo, count, kvVars>>

\* send_str and free(reply).  The reply to a client that has left goes nowhere.
Send(c) ==
    /\ up /\ pc[c] = "send"
    /\ got' = [got EXCEPT ![c] = IF peer[c] = "left" THEN @ ELSE Append(@, reply[c])]
    /\ reply' = [reply EXCEPT ![c] = NoReply]
    /\ cmd' = [cmd EXCEPT ![c] = NoCmd]
    /\ buf' = [buf EXCEPT ![c] = <<>>]
    /\ Goto(c, "read")
    /\ UNCHANGED <<up, peer, fd, wire, sent, todo, count, kvVars>>

\* A client that left with requests unanswered resets the connection; the
\* next send() raises SIGPIPE, which nothing handles.
SendReset(c) ==
    /\ up /\ pc[c] = "send" /\ peer[c] = "left"
    /\ Down

-----------------------------------------------------------------------------
(* exec_command: the commands that need no database                        *)

Immediate(r) ==
    CASE r.name = "PING" -> resp_simple("PONG")
      [] r.name = "ECHO" ->
           IF Short(r, 2) THEN resp_error("ERR wrong number of arguments for 'echo'")
           ELSE resp_bulk(r.value)
      [] r.name = "SET" /\ Short(r, 3) ->
           resp_error("ERR wrong number of arguments for 'set'")
      [] r.name = "SET" /\ ~Short(r, 3) /\ BadTurns(r.opts) # {} ->
           resp_error(OptionError(r.opts))
      [] r.name = "GET" /\ Short(r, 2) ->
           resp_error("ERR wrong number of arguments for 'get'")
      [] r.name = "INCR" /\ Short(r, 2) ->
           resp_error("ERR wrong number of arguments for 'incr'")
      [] r.name \notin {"PING", "ECHO", "SET", "GET", "EXISTS", "DEL", "INCR"} ->
           resp_error("ERR unknown command")
      [] OTHER -> NoReply

\* EXISTS and DEL do not check what they were given: items[1] or the union's
\* array member is read although it is not there.
Undefined(r) ==
    \/ r.name = "EXISTS" /\ Short(r, 2)
    \/ r.name = "DEL" /\ Short(r, 1)

Answer(c, a) ==
    /\ reply' = [reply EXCEPT ![c] = a]
    /\ Goto(c, "send")

ExecImmediate(c) ==
    /\ up /\ pc[c] = "exec" /\ Immediate(cmd[c]) # NoReply
    /\ Answer(c, Immediate(cmd[c]))
    /\ UNCHANGED <<up, netVars, buf, cmd, todo, count, kvVars>>

ExecUndefined(c) ==
    /\ up /\ pc[c] = "exec" /\ Undefined(cmd[c])
    /\ Down

(* exec_command: the commands that call the database                       *)

Ready(c, names) ==
    /\ up /\ pc[c] = "exec" /\ cmd[c].name \in names
    /\ Immediate(cmd[c]) = NoReply /\ ~Undefined(cmd[c])

ExecSet(c) ==
    /\ Ready(c, {"SET"})
    /\ KVInvoke(c, [op |-> "SET", key |-> cmd[c].keys[1], value |-> cmd[c].value,
                    expires |-> SetExpiry(cmd[c].opts)])
    /\ Goto(c, "db")
    /\ UNCHANGED <<up, netVars, buf, cmd, todo, count, reply>>

\* EXISTS is a db_get whose copy is thrown away.
ExecGet(c) ==
    /\ Ready(c, {"GET", "EXISTS"})
    /\ KVInvoke(c, [op |-> "GET", key |-> cmd[c].keys[1]])
    /\ Goto(c, "db")
    /\ UNCHANGED <<up, netVars, buf, cmd, todo, count, reply>>

ExecIncr(c) ==
    /\ Ready(c, {"INCR"})
    /\ KVInvoke(c, [op |-> "INCR", key |-> cmd[c].keys[1]])
    /\ Goto(c, "db")
    /\ UNCHANGED <<up, netVars, buf, cmd, todo, count, reply>>

\* DEL deletes its keys one call at a time.
ExecDel(c) ==
    /\ Ready(c, {"DEL"})
    /\ todo' = [todo EXCEPT ![c] = cmd[c].keys]
    /\ count' = [count EXCEPT ![c] = 0]
    /\ Goto(c, "del")
    /\ UNCHANGED <<up, netVars, buf, cmd, reply, kvVars>>

DelNext(c) ==
    /\ up /\ pc[c] = "del" /\ todo[c] # <<>>
    /\ KVInvoke(c, [op |-> "DEL", key |-> Head(todo[c])])
    /\ todo' = [todo EXCEPT ![c] = Tail(@)]
    /\ Goto(c, "db")
    /\ UNCHANGED <<up, netVars, buf, cmd, count, reply>>

\* Every DEL answered with a number.
DelDoneNumber(c) ==
    /\ up /\ pc[c] = "del" /\ todo[c] = <<>>
    /\ Answer(c, resp_integer(count[c]))
    /\ UNCHANGED <<up, netVars, buf, cmd, todo, count, kvVars>>

\* One key is answered +OK or :0, several with their number.
DelDone(c) ==
    /\ up /\ pc[c] = "del" /\ todo[c] = <<>>
    /\ Answer(c, IF Len(cmd[c].keys) = 1 /\ count[c] # 0 THEN resp_simple("OK")
                 ELSE resp_integer(count[c]))
    /\ UNCHANGED <<up, netVars, buf, cmd, todo, count, kvVars>>

\* The store executes the call of c.  SET is answered +OK even when the store
\* had no memory for it.
Database(c) ==
    /\ up /\ pc[c] = "db"
    /\ KVSet(c) \/ KVGet(c) \/ KVIncr(c) \/ KVDel(c) \/ KVFail(c)
    /\ UNCHANGED srvVars

\* The reply to a database call that answered a.  The two error texts of
\* db_incr are not told apart.
DbReply(r, a) ==
    CASE r.name = "SET" -> resp_simple("OK")
      [] r.name = "GET" -> resp_bulk(a)
      [] r.name = "EXISTS" -> resp_integer(IF a = NULL THEN 0 ELSE 1)
      [] r.name = "INCR" /\ a = Err ->
           resp_error("not a number, or not saved")
      [] OTHER -> resp_integer(a)

DbReturn(c) ==
    /\ up /\ pc[c] = "db" /\ cmd[c].name # "DEL"
    /\ KVReturn(c)
    /\ Answer(c, DbReply(cmd[c], answer[c]))
    /\ UNCHANGED <<up, netVars, buf, cmd, todo, count>>

DelReturn(c) ==
    /\ up /\ pc[c] = "db" /\ cmd[c].name = "DEL"
    /\ KVReturn(c)
    /\ count' = [count EXCEPT ![c] = @ + answer[c]]
    /\ Goto(c, "del")
    /\ UNCHANGED <<up, netVars, buf, cmd, todo, reply>>

Clock == up /\ KVTick /\ UNCHANGED srvVars

-----------------------------------------------------------------------------
\* What the thread of c, or the accept loop on its behalf, does.
Serve(c) ==
    \/ Accept(c) \/ AcceptNoThread(c) \/ Read(c) \/ ReadEof(c)
    \/ ParseWhole(c) \/ ParseTruncated(c) \/ ParseTail(c)
    \/ ExecImmediate(c) \/ ExecUndefined(c)
    \/ ExecSet(c) \/ ExecGet(c) \/ ExecIncr(c)
    \/ ExecDel(c) \/ DelNext(c) \/ DelDone(c)
    \/ Database(c) \/ DbReturn(c) \/ DelReturn(c)
    \/ Send(c) \/ SendReset(c)

Next ==
    \/ \E c \in Threads :
          \/ Connect(c) \/ ClientLeave(c)
          \/ \E r \in Requests : ClientSend(c, r)
          \/ Serve(c)
    \/ Clock

Spec == Init /\ [][Next]_serverVars

\* The scheduler runs every thread of the server that can go on.
FairSpec == Spec /\ \A c \in Threads : WF_serverVars(Serve(c))

-----------------------------------------------------------------------------
(* Properties                                                              *)

\* server_main.c:3 ("listen on :6379 and serve forever"): clients that send only
\* complete requests and wait for each answer cannot end the process.
ServerUp == up

\* Reply a is one that request r can get.
Matches(r, a) ==
    IF Immediate(r) # NoReply THEN a = Immediate(r)
    ELSE CASE r.name = "SET" -> a = resp_simple("OK")
           [] r.name = "GET" -> a.kind \in {"nil", "bulk"}
           [] r.name = "EXISTS" -> a.kind = "integer" /\ a.data \in {0, 1}
           [] r.name = "INCR" -> \/ a.kind = "integer" /\ a.data \in Numbers
                                 \/ a.kind = "error"
           [] r.name = "DEL" /\ Len(r.keys) = 1 ->
                a = resp_simple("OK") \/ a = resp_integer(0)
           [] r.name = "DEL" /\ Len(r.keys) # 1 ->
                a.kind = "integer" /\ a.data \in 0 .. Len(r.keys)

\* Each client gets one reply per request, in the order of its requests: the
\* i-th reply answers the i-th request.
RepliesMatch ==
    \A c \in Threads :
        /\ Len(got[c]) <= Len(sent[c])
        /\ \A i \in 1 .. Len(got[c]) : Matches(sent[c][i], got[c][i])

\* tests/test_server.c:84-90 ("SET name=hasan with a 2-second TTL", "within the
\* TTL, the value is still there"): a SET answered +OK that names a time from now
\* on (EX, PX) asks the store for an expiry that lies ahead, and not for one in
\* the past or for 0, "no expiry".
ExpiryAhead ==
    [][\A c \in Threads :
          /\ pc[c] = "exec" /\ call'[c] # call[c] /\ cmd[c].name = "SET"
          /\ cmd[c].opts # <<>> /\ cmd[c].opts[Len(cmd[c].opts) - 1].flag \in {"EX", "PX"}
          => call'[c].expires > clock]_serverVars

\* Every request of a client that stays is answered.
RequestsAnswered ==
    \A c \in Threads :
        Len(sent[c]) > Len(got[c]) ~> Len(sent[c]) = Len(got[c])

\* When a client leaves, its thread ends and its descriptor is closed, unless
\* the whole process has ended.
DescriptorReleased ==
    \A c \in Threads : peer[c] = "left" ~> fd[c] = "closed" \/ ~up
=============================================================================
