------------------------- MODULE RedisServerProofs -------------------------
(***************************************************************************)
(* For any number of clients and of requests, and for every store that     *)
(* KVStore allows: as long as each read() returns one whole request, every *)
(* reply answers the request it should.                                    *)
(***************************************************************************)
EXTENDS RedisServer, TLAPS, SequenceTheorems

\* One read() returns the two pieces of one request.
WholeReads == Segments = {2}

\* The thread has a request of its client in hand.
Busy == {"parse", "exec", "db", "del", "send"}

Domains ==
    /\ DOMAIN peer = Threads /\ DOMAIN wire = Threads
    /\ DOMAIN sent = Threads /\ DOMAIN got = Threads
    /\ DOMAIN pc = Threads /\ DOMAIN buf = Threads /\ DOMAIN cmd = Threads
    /\ DOMAIN todo = Threads /\ DOMAIN count = Threads /\ DOMAIN reply = Threads
    /\ DOMAIN call = Threads /\ DOMAIN done = Threads /\ DOMAIN answer = Threads

IsSeq(s) == \E S : s \in Seq(S)

Shapes(c) ==
    /\ sent[c] \in Seq(Requests)
    /\ IsSeq(wire[c]) /\ IsSeq(got[c])
    /\ peer[c] \in {"away", "waiting"} => pc[c] = "none"

\* The requests after the n-th are on the wire, whole and in order.
OnWire(c, n) ==
    /\ Len(wire[c]) = 2 * (Len(sent[c]) - n)
    /\ \A j \in 1 .. Len(sent[c]) - n : wire[c][2 * j - 1] = Piece(sent[c][n + j], 1)

\* The thread works on the n-th request.
InHand(c, n) ==
    /\ pc[c] \in Busy => n > 0
    /\ pc[c] = "parse" => Len(buf[c]) = 2 /\ buf[c][1] = Piece(sent[c][n], 1)
    /\ pc[c] \in Busy \ {"parse"} => cmd[c] = sent[c][n]

\* What was read before has been answered, unless the client left.
Answered(c, n) ==
    LET m == IF pc[c] \in Busy THEN n - 1 ELSE n
    IN  /\ Len(got[c]) <= m
        /\ peer[c] # "left" => Len(got[c]) = m
        /\ \A k \in 1 .. Len(got[c]) : Matches(sent[c][k], got[c][k])

\* The database call belongs to the command, and the reply answers it.
DbNames == {"SET", "GET", "EXISTS", "INCR", "DEL"}

Executing(c) ==
    /\ done[c] => pc[c] = "db"
    /\ pc[c] \in {"db", "del"} =>
          Immediate(cmd[c]) = NoReply /\ cmd[c].name \in DbNames
    /\ pc[c] = "db" =>
          call[c].op = IF cmd[c].name = "EXISTS" THEN "GET" ELSE cmd[c].name
    /\ done[c] /\ cmd[c].name = "INCR" => answer[c] \in Numbers \cup {Err}
    /\ done[c] /\ cmd[c].name = "DEL" => answer[c] \in {0, 1}
    /\ pc[c] = "del" => cmd[c].name = "DEL"
    /\ pc[c] = "send" => Matches(cmd[c], reply[c])

\* DEL has counted no more than the keys it is through with.
Tally(c) ==
    pc[c] \in {"db", "del"} /\ cmd[c].name = "DEL" =>
        /\ count[c] \in Nat /\ todo[c] \in Seq(Keys)
        /\ count[c] + Len(todo[c]) + (IF pc[c] = "db" THEN 1 ELSE 0) <= Len(cmd[c].keys)

Turn(c) == \E n \in 0 .. Len(sent[c]) : OnWire(c, n) /\ InHand(c, n) /\ Answered(c, n)

ThreadInv(c) == Shapes(c) /\ Turn(c) /\ Executing(c) /\ Tally(c)

TurnInv ==
    /\ Domains
    /\ \A c \in Threads : ThreadInv(c)

-----------------------------------------------------------------------------
(* Sequences                                                               *)

\* One more at the end.
LEMMA OneMore ==
    ASSUME NEW s, IsSeq(s), NEW x
    PROVE  /\ IsSeq(Append(s, x)) /\ Len(s) \in Nat /\ Len(Append(s, x)) = Len(s) + 1
           /\ \A k \in 1 .. Len(s) : Append(s, x)[k] = s[k]
           /\ Append(s, x)[Len(s) + 1] = x
<1>1. PICK S : s \in Seq(S)
    BY DEF IsSeq
<1>2. s \in Seq(S \cup {x}) /\ x \in S \cup {x}
    BY <1>1, SeqMonotonic
<1>3. Append(s, x) \in Seq(S \cup {x})
    BY <1>2
<1> QED
    BY <1>2, <1>3 DEF IsSeq

\* Two pieces more at the end.
LEMMA TwoMore ==
    ASSUME NEW s, IsSeq(s), NEW x, NEW y
    PROVE  /\ IsSeq(s \o <<x, y>>) /\ Len(s \o <<x, y>>) = Len(s) + 2
           /\ \A k \in 1 .. Len(s) : (s \o <<x, y>>)[k] = s[k]
           /\ (s \o <<x, y>>)[Len(s) + 1] = x
<1>1. PICK S : s \in Seq(S)
    BY DEF IsSeq
<1> DEFINE T == S \cup {x, y}
           t == <<x, y>>
<1>2. s \in Seq(T) /\ Len(s) \in Nat
    BY <1>1, SeqMonotonic
<1>3. t \in Seq(T) /\ Len(t) = 2 /\ t[1] = x
    OBVIOUS
<1> HIDE DEF T, t
<1>4. /\ s \o t \in Seq(T) /\ Len(s \o t) = Len(s) + 2
      /\ \A k \in 1 .. Len(s) + 2 : (s \o t)[k] = IF k <= Len(s) THEN s[k] ELSE t[k - Len(s)]
  <2>1. /\ s \o t \in Seq(T) /\ Len(s \o t) = Len(s) + Len(t)
        /\ \A k \in 1 .. Len(s) + Len(t) :
              (s \o t)[k] = IF k <= Len(s) THEN s[k] ELSE t[k - Len(s)]
    BY <1>2, <1>3, ConcatProperties
  <2> QED
    BY <1>3, <2>1
<1>5. \A k \in 1 .. Len(s) : (s \o t)[k] = s[k]
    BY <1>2, <1>4
<1>6. (s \o t)[Len(s) + 1] = x
  <2>1. /\ Len(s) + 1 \in 1 .. Len(s) + 2 /\ ~(Len(s) + 1 <= Len(s))
        /\ (Len(s) + 1) - Len(s) = 1
    BY <1>2
  <2> QED
    BY <1>3, <1>4, <2>1
<1>7. IsSeq(s \o t)
    BY <1>4 DEF IsSeq
<1> QED
    BY <1>2, <1>4, <1>5, <1>6, <1>7 DEF t

\* The first two, and the rest.
LEMMA TwoLess ==
    ASSUME NEW s, IsSeq(s), Len(s) >= 2
    PROVE  /\ Len(SubSeq(s, 1, 2)) = 2 /\ SubSeq(s, 1, 2)[1] = s[1]
           /\ IsSeq(SubSeq(s, 3, Len(s))) /\ Len(s) \in Nat
           /\ Len(SubSeq(s, 3, Len(s))) = Len(s) - 2
           /\ \A k \in 1 .. Len(s) - 2 : SubSeq(s, 3, Len(s))[k] = s[k + 2]
<1>1. PICK S : s \in Seq(S)
    BY DEF IsSeq
<1>2. Len(s) \in Nat /\ \A k \in 1 .. Len(s) : s[k] \in S
    BY <1>1
<1>3. \A k \in 1 .. 2 : s[k] \in S
    BY <1>2
<1>4. /\ Len(SubSeq(s, 1, 2)) = (IF 1 <= 2 THEN 2 - 1 + 1 ELSE 0)
      /\ \A k \in 1 .. 2 - 1 + 1 : SubSeq(s, 1, 2)[k] = s[1 + k - 1]
    BY <1>3, SubSeqProperties
<1>5. \A k \in 3 .. Len(s) : s[k] \in S
    BY <1>2
<1> DEFINE rest == SubSeq(s, 3, Len(s))
<1>6. /\ rest \in Seq(S)
      /\ Len(rest) = (IF 3 <= Len(s) THEN Len(s) - 3 + 1 ELSE 0)
      /\ \A k \in 1 .. Len(s) - 3 + 1 : rest[k] = s[3 + k - 1]
    BY <1>2, <1>5, SubSeqProperties
<1>7. Len(SubSeq(s, 1, 2)) = 2 /\ SubSeq(s, 1, 2)[1] = s[1]
    BY <1>4
<1> HIDE DEF rest
<1>8. IsSeq(rest)
    BY <1>6 DEF IsSeq
<1>9. Len(rest) = Len(s) - 2
  <2>1. \A n \in Nat : n >= 2 => (IF 3 <= n THEN n - 3 + 1 ELSE 0) = n - 2
    OBVIOUS
  <2> QED
    BY <1>2, <1>6, <2>1
<1>10. ASSUME NEW k \in 1 .. Len(s) - 2 PROVE rest[k] = s[k + 2]
  <2>1. k \in 1 .. Len(s) - 3 + 1 /\ 3 + k - 1 = k + 2
    BY <1>2
  <2> QED
    BY <1>6, <2>1
<1> QED
    BY <1>2, <1>7, <1>8, <1>9, <1>10 DEF rest

\* The lengths of what a client has sent and received.
LEMMA Lengths ==
    ASSUME NEW c \in Threads, Shapes(c)
    PROVE  Len(sent[c]) \in Nat /\ Len(wire[c]) \in Nat /\ Len(got[c]) \in Nat
<1>1. Len(sent[c]) \in Nat
    BY DEF Shapes
<1>2. Len(wire[c]) \in Nat /\ Len(got[c]) \in Nat
    BY OneMore DEF Shapes
<1> QED
    BY <1>1, <1>2

-----------------------------------------------------------------------------
(* One thread at a time                                                    *)

\* A step leaves the connection of d alone.
Same(d) ==
    /\ peer'[d] = peer[d] /\ wire'[d] = wire[d] /\ sent'[d] = sent[d] /\ got'[d] = got[d]
    /\ pc'[d] = pc[d] /\ buf'[d] = buf[d] /\ cmd'[d] = cmd[d]
    /\ todo'[d] = todo[d] /\ count'[d] = count[d] /\ reply'[d] = reply[d]
    /\ call'[d] = call[d] /\ done'[d] = done[d] /\ answer'[d] = answer[d]

\* ... and so its invariant.
LEMMA SameKept ==
    ASSUME NEW d \in Threads, ThreadInv(d), Same(d)
    PROVE  ThreadInv(d)'
<1>1. Shapes(d)'
    BY DEF ThreadInv, Shapes, Same
<1>2. Turn(d)'
    BY DEF ThreadInv, Turn, OnWire, InHand, Answered, Same
<1>3. Executing(d)' /\ Tally(d)'
    BY DEF ThreadInv, Executing, Tally, Same
<1> QED
    BY <1>1, <1>2, <1>3 DEF ThreadInv

\* A step of c has to be looked at for c only.
LEMMA OneThread ==
    ASSUME TurnInv, Domains', NEW c \in Threads, ThreadInv(c)',
           \A d \in Threads \ {c} : Same(d)
    PROVE  TurnInv'
<1>1. ASSUME NEW d \in Threads PROVE ThreadInv(d)'
    BY SameKept DEF TurnInv
<1> QED
    BY <1>1 DEF TurnInv

\* Nothing of c but its place, its call or its reply changes: the order of its
\* requests and replies is kept.
LEMMA TurnKept ==
    ASSUME NEW c \in Threads, ThreadInv(c),
           peer'[c] = peer[c], wire'[c] = wire[c], sent'[c] = sent[c], got'[c] = got[c],
           cmd'[c] = cmd[c], pc[c] \in Busy \ {"parse"}, pc'[c] \in Busy \ {"parse"}
    PROVE  Shapes(c)' /\ Turn(c)'
<1>1. Shapes(c)'
    BY DEF ThreadInv, Shapes, Busy
<1>2. PICK n \in 0 .. Len(sent[c]) : OnWire(c, n) /\ InHand(c, n) /\ Answered(c, n)
    BY DEF ThreadInv, Turn
<1>3. (OnWire(c, n) /\ InHand(c, n) /\ Answered(c, n))'
    BY <1>2 DEF OnWire, InHand, Answered, Busy
<1> QED
    BY <1>1, <1>2, <1>3 DEF Turn

\* At first nobody has sent anything.
LEMMA TurnInit == Init => TurnInv
<1> SUFFICES ASSUME Init PROVE TurnInv
    OBVIOUS
<1>1. Domains
    BY DEF Init, KVInit, Domains
<1>2. ASSUME NEW c \in Threads PROVE ThreadInv(c)
  <2>1. <<>> \in Seq(Requests) /\ Len(<<>>) = 0
    OBVIOUS
  <2>2. /\ peer[c] = "away" /\ wire[c] = <<>> /\ sent[c] = <<>> /\ got[c] = <<>>
        /\ pc[c] = "none" /\ done[c] = FALSE
    BY Zenon DEF Init, KVInit
  <2>3. Shapes(c)
    BY <2>1, <2>2 DEF Shapes, IsSeq
  <2>4. OnWire(c, 0) /\ InHand(c, 0) /\ Answered(c, 0)
    BY <2>1, <2>2 DEF OnWire, InHand, Answered, Busy
  <2>5. Executing(c) /\ Tally(c)
    BY <2>2 DEF Executing, Tally
  <2> QED
    BY <2>1, <2>2, <2>3, <2>4, <2>5 DEF ThreadInv, Turn
<1> QED
    BY <1>1, <1>2 DEF TurnInv

-----------------------------------------------------------------------------
(* Every step is a step of one connection                                  *)

\* What a client does and what the accept loop and read() do for it.
LEMMA ConnectionLocal ==
    ASSUME Domains, NEW c \in Threads,
           \/ Connect(c) \/ ClientLeave(c) \/ \E r \in Requests : ClientSend(c, r)
           \/ Accept(c) \/ AcceptNoThread(c) \/ Read(c) \/ ReadEof(c) \/ Send(c)
           \/ Down
    PROVE  Domains' /\ \A d \in Threads \ {c} : Same(d)
<1> USE DEF netVars, thrVars, kvVars, Goto, Domains, Same
<1>1. CASE Connect(c) \/ ClientLeave(c) \/ \E r \in Requests : ClientSend(c, r)
    BY <1>1 DEF Connect, ClientLeave, ClientSend
<1>2. CASE Accept(c) \/ AcceptNoThread(c) \/ Down
    BY <1>2 DEF Accept, AcceptNoThread, Down
<1>3. CASE Read(c) \/ ReadEof(c) \/ Send(c)
    BY <1>3 DEF Read, ReadEof, Send
<1> QED
    BY <1>1, <1>2, <1>3

\* What its thread does with a request.
LEMMA CommandLocal ==
    ASSUME Domains, NEW c \in Threads,
           \/ \E r : Parsed(c, r)
           \/ ExecImmediate(c)
           \/ ExecSet(c) \/ ExecGet(c) \/ ExecIncr(c) \/ ExecDel(c)
           \/ DelNext(c) \/ DelDone(c) \/ Database(c) \/ DbReturn(c) \/ DelReturn(c)
    PROVE  Domains' /\ \A d \in Threads \ {c} : Same(d)
<1> USE DEF netVars, thrVars, srvVars, kvVars, Goto, Domains, Same
<1>1. CASE \E r : Parsed(c, r)
    BY <1>1 DEF Parsed
<1>2. CASE ExecImmediate(c) \/ ExecDel(c) \/ DelDone(c)
    BY <1>2 DEF ExecImmediate, ExecDel, DelDone, Answer
<1>3. CASE ExecSet(c) \/ ExecGet(c) \/ ExecIncr(c) \/ DelNext(c)
    BY <1>3 DEF ExecSet, ExecGet, ExecIncr, DelNext, KVInvoke
<1>4. CASE Database(c)
    BY <1>4 DEF Database, KVSet, KVGet, KVIncr, KVDel, KVFail, Effect
<1>5. CASE DbReturn(c) \/ DelReturn(c)
    BY <1>5 DEF DbReturn, DelReturn, KVReturn, Answer
<1> QED
    BY <1>1, <1>2, <1>3, <1>4, <1>5

-----------------------------------------------------------------------------
(* The steps                                                               *)

\* A client comes or goes, or its thread ends.
LEMMA ComeAndGo ==
    ASSUME Domains, NEW c \in Threads, ThreadInv(c),
           \/ Connect(c) \/ ClientLeave(c) \/ Accept(c) \/ ReadEof(c)
           \/ AcceptNoThread(c) /\ ~Down
    PROVE  ThreadInv(c)'
<1>1. /\ wire'[c] = wire[c] /\ sent'[c] = sent[c] /\ got'[c] = got[c] /\ cmd'[c] = cmd[c]
      /\ buf'[c] = buf[c] /\ UNCHANGED <<todo, count, reply, call, done, answer>>
      /\ peer'[c] # "left" => peer[c] # "left"
    BY DEF Connect, ClientLeave, Accept, ReadEof, AcceptNoThread, netVars, thrVars, kvVars,
           Domains
<1>2. \/ pc'[c] = pc[c]
      \/ pc[c] \notin Busy /\ pc'[c] \in {"read", "ended"}
    BY DEF Connect, ClientLeave, Accept, ReadEof, AcceptNoThread, netVars, thrVars, kvVars,
           Goto, Domains, ThreadInv, Shapes, Busy
<1>3. peer'[c] \in {"away", "waiting"} => pc'[c] = "none"
    BY DEF Connect, ClientLeave, Accept, ReadEof, AcceptNoThread, thrVars, Domains,
           ThreadInv, Shapes
<1>4. Shapes(c)'
    BY <1>1, <1>3 DEF ThreadInv, Shapes
<1>5. Turn(c)'
  <2>1. PICK n \in 0 .. Len(sent[c]) : OnWire(c, n) /\ InHand(c, n) /\ Answered(c, n)
    BY DEF ThreadInv, Turn
  <2>2. (OnWire(c, n) /\ InHand(c, n) /\ Answered(c, n))'
    BY <1>1, <1>2, <2>1 DEF OnWire, InHand, Answered, Busy
  <2> QED
    BY <1>1, <2>1, <2>2 DEF Turn
<1>6. Executing(c)' /\ Tally(c)'
    BY <1>1, <1>2 DEF ThreadInv, Executing, Tally, Busy
<1> QED
    BY <1>4, <1>5, <1>6 DEF ThreadInv

\* A request goes to the end of the wire.
LEMMA SendRequest ==
    ASSUME Domains, NEW c \in Threads, ThreadInv(c), NEW r \in Requests, ClientSend(c, r)
    PROVE  ThreadInv(c)'
<1>1. /\ sent'[c] = Append(sent[c], r) /\ wire'[c] = wire[c] \o <<Piece(r, 1), Piece(r, 2)>>
      /\ peer[c] = "here" /\ UNCHANGED <<peer, got, pc, buf, cmd, todo, count, reply>>
      /\ UNCHANGED <<call, done, answer>>
    BY DEF ClientSend, thrVars, kvVars, Domains
<1> DEFINE len == Len(sent[c])
<1>2. Shapes(c) /\ len \in Nat /\ Len(wire[c]) \in Nat /\ Len(got[c]) \in Nat
    BY Lengths DEF ThreadInv
<1>3. /\ sent'[c] \in Seq(Requests) /\ Len(sent'[c]) = len + 1 /\ sent'[c][len + 1] = r
      /\ \A k \in 1 .. len : sent'[c][k] = sent[c][k]
    BY <1>1, <1>2 DEF Shapes
<1>4. /\ IsSeq(wire'[c]) /\ Len(wire'[c]) = Len(wire[c]) + 2
      /\ \A k \in 1 .. Len(wire[c]) : wire'[c][k] = wire[c][k]
      /\ wire'[c][Len(wire[c]) + 1] = Piece(r, 1)
  <2> DEFINE p1 == Piece(r, 1)
             p2 == Piece(r, 2)
             new == wire[c] \o <<p1, p2>>
  <2>1. wire'[c] = new
    BY <1>1
  <2> HIDE DEF p1, p2
  <2>2. /\ IsSeq(new) /\ Len(new) = Len(wire[c]) + 2
        /\ \A k \in 1 .. Len(wire[c]) : new[k] = wire[c][k]
        /\ new[Len(wire[c]) + 1] = p1
    <3>1. IsSeq(wire[c])
        BY <1>2 DEF Shapes
    <3> QED
        BY <3>1, TwoMore
  <2> HIDE DEF new
  <2> QED
    BY <2>1, <2>2 DEF p1
<1>5. Shapes(c)'
    BY <1>1, <1>2, <1>3, <1>4 DEF Shapes
<1>6. PICK n \in 0 .. len : OnWire(c, n) /\ InHand(c, n) /\ Answered(c, n)
    BY DEF ThreadInv, Turn
<1> HIDE DEF len
<1>7. OnWire(c, n)'
  <2>0. Len(sent'[c]) = len + 1
    BY <1>3
  <2>1. Len(wire[c]) = 2 * (len - n)
    BY <1>6 DEF OnWire, len
  <2>2. Len(wire'[c]) = 2 * (Len(sent'[c]) - n)
    BY <1>2, <1>3, <1>4, <2>1
  <2>3. ASSUME NEW j \in 1 .. Len(sent'[c]) - n
        PROVE  wire'[c][2 * j - 1] = Piece(sent'[c][n + j], 1)
    <3>1. CASE j = len + 1 - n
      <4>1. 2 * j - 1 = Len(wire[c]) + 1 /\ n + j = len + 1
        BY <1>2, <2>1, <3>1
      <4> QED
        BY <1>3, <1>4, <4>1
    <3>2. CASE j # len + 1 - n
      <4>1. /\ j \in 1 .. len - n /\ n + j \in 1 .. len
            /\ 2 * j - 1 \in 1 .. Len(wire[c])
        BY <1>2, <2>0, <2>1, <3>2
      <4>2. wire[c][2 * j - 1] = Piece(sent[c][n + j], 1)
        BY <1>6, <4>1 DEF OnWire, len
      <4> QED
        BY <1>3, <1>4, <4>1, <4>2
    <3> QED
        BY <3>1, <3>2
  <2> QED
    BY <2>2, <2>3 DEF OnWire
<1>8. InHand(c, n)'
    BY <1>1, <1>2, <1>3, <1>6 DEF InHand, Busy
<1>9. Answered(c, n)'
  <2>1. Len(got[c]) <= len
    BY <1>2, <1>6 DEF Answered
  <2>2. \A k \in 1 .. Len(got[c]) : sent'[c][k] = sent[c][k]
    BY <1>2, <1>3, <2>1
  <2> QED
    BY <1>1, <1>6, <2>2 DEF Answered
<1>10. n \in 0 .. Len(sent'[c])
    BY <1>2, <1>3
<1>11. Executing(c)' /\ Tally(c)'
    BY <1>1 DEF ThreadInv, Executing, Tally
<1> QED
    BY <1>5, <1>7, <1>8, <1>9, <1>10, <1>11 DEF ThreadInv, Turn

\* read() takes the next request, whole, off the wire.
LEMMA ReadRequest ==
    ASSUME WholeReads, Domains, NEW c \in Threads, ThreadInv(c), Read(c)
    PROVE  ThreadInv(c)'
<1>1. /\ 2 <= Len(wire[c]) /\ pc[c] = "read" /\ pc'[c] = "parse"
      /\ buf'[c] = SubSeq(wire[c], 1, 2) /\ wire'[c] = SubSeq(wire[c], 2 + 1, Len(wire[c]))
      /\ UNCHANGED <<peer, sent, got, cmd, todo, count, reply, call, done, answer>>
    BY DEF Read, WholeReads, Goto, kvVars, Domains
<1>2. 2 + 1 = 3
    OBVIOUS
<1> DEFINE len == Len(sent[c])
<1>3. Shapes(c) /\ len \in Nat /\ Len(wire[c]) \in Nat /\ Len(got[c]) \in Nat
    BY Lengths DEF ThreadInv
<1>4. /\ Len(buf'[c]) = 2 /\ buf'[c][1] = wire[c][1]
      /\ IsSeq(wire'[c]) /\ Len(wire'[c]) = Len(wire[c]) - 2
      /\ \A k \in 1 .. Len(wire[c]) - 2 : wire'[c][k] = wire[c][k + 2]
    BY <1>1, <1>2, <1>3, TwoLess DEF Shapes
<1>5. Shapes(c)'
    BY <1>1, <1>3, <1>4 DEF Shapes
<1>6. PICK n \in 0 .. len : OnWire(c, n) /\ InHand(c, n) /\ Answered(c, n)
    BY DEF ThreadInv, Turn
<1> HIDE DEF len
<1>7. Len(wire[c]) = 2 * (len - n) /\ n + 1 \in 0 .. len
    BY <1>1, <1>3, <1>6 DEF OnWire, len
<1>8. \A m : m = n + 1 => OnWire(c, m)'
  <2>1. Len(wire'[c]) = 2 * (len - (n + 1))
    BY <1>3, <1>4, <1>7
  <2>2. ASSUME NEW j \in 1 .. len - (n + 1)
        PROVE  wire'[c][2 * j - 1] = Piece(sent[c][(n + 1) + j], 1)
    <3>1. /\ 2 * j - 1 \in 1 .. Len(wire[c]) - 2 /\ (2 * j - 1) + 2 = 2 * (j + 1) - 1
          /\ j + 1 \in 1 .. len - n /\ n + (j + 1) = (n + 1) + j
        BY <1>3, <1>7
    <3>2. wire[c][2 * (j + 1) - 1] = Piece(sent[c][n + (j + 1)], 1)
        BY <1>6, <3>1 DEF OnWire, len
    <3> QED
        BY <1>4, <3>1, <3>2
  <2> QED
    BY <1>1, <2>1, <2>2 DEF OnWire, len
<1>9. wire[c][1] = Piece(sent[c][n + 1], 1)
  <2>1. 1 \in 1 .. len - n /\ 2 * 1 - 1 = 1
    BY <1>3, <1>7
  <2> QED
    BY <1>6, <2>1 DEF OnWire, len
<1>10. \A m : m = n + 1 => InHand(c, m)'
    BY <1>1, <1>4, <1>9 DEF InHand, Busy
<1>11. \A m : m = n + 1 => Answered(c, m)'
    BY <1>1, <1>6 DEF Answered, Busy
<1>12. Turn(c)'
    BY <1>1, <1>7, <1>8, <1>10, <1>11 DEF Turn, len
<1>13. Executing(c)' /\ Tally(c)'
    BY <1>1 DEF ThreadInv, Executing, Tally
<1> QED
    BY <1>5, <1>12, <1>13 DEF ThreadInv

\* parse() finds the request; ParseTruncated and ParseTail have nothing to do.
LEMMA ParseRequest ==
    ASSUME Domains, NEW c \in Threads, ThreadInv(c),
           ParseWhole(c) \/ ParseTruncated(c) \/ ParseTail(c)
    PROVE  ThreadInv(c)' /\ ParseWhole(c)
<1>1. PICK n \in 0 .. Len(sent[c]) : OnWire(c, n) /\ InHand(c, n) /\ Answered(c, n)
    BY DEF ThreadInv, Turn
<1>2. pc[c] = "parse"
    BY DEF ParseWhole, ParseTruncated, ParseTail
<1>3. Len(buf[c]) = 2 /\ buf[c][1].half = 1 /\ buf[c][1].req = sent[c][n]
    BY <1>1, <1>2 DEF InHand, Piece
<1>4. ParseWhole(c) /\ Parsed(c, sent[c][n])
    BY <1>3 DEF ParseWhole, ParseTruncated, ParseTail
<1>5. /\ pc'[c] = "exec" /\ cmd'[c] = sent[c][n]
      /\ UNCHANGED <<peer, wire, sent, got, buf, todo, count, reply, call, done, answer>>
    BY <1>4 DEF Parsed, Goto, netVars, kvVars, Domains
<1>6. Shapes(c)'
    BY <1>2, <1>5 DEF ThreadInv, Shapes
<1>7. (OnWire(c, n) /\ InHand(c, n) /\ Answered(c, n))'
    BY <1>1, <1>2, <1>5 DEF OnWire, InHand, Answered, Busy
<1>8. Turn(c)'
    BY <1>5, <1>7 DEF Turn
<1>9. Executing(c)' /\ Tally(c)'
    BY <1>2, <1>5 DEF ThreadInv, Executing, Tally
<1> QED
    BY <1>4, <1>6, <1>8, <1>9 DEF ThreadInv

\* The request in hand is one that the client sent.
LEMMA CmdSent ==
    ASSUME NEW c \in Threads, ThreadInv(c), pc[c] \in Busy \ {"parse"}
    PROVE  cmd[c] \in Requests /\ cmd[c].keys \in Seq(Keys) /\ cmd[c].opts \in Seq(Tokens)
<1>1. PICK n \in 0 .. Len(sent[c]) : InHand(c, n)
    BY DEF ThreadInv, Turn
<1>2. Len(sent[c]) \in Nat
    BY Lengths DEF ThreadInv
<1>3. n \in 1 .. Len(sent[c]) /\ cmd[c] = sent[c][n]
    BY <1>1, <1>2 DEF InHand
<1>4. cmd[c] \in Requests
    BY <1>3 DEF ThreadInv, Shapes
<1> QED
    BY <1>4, RequestAssumption

\* An answer that needs no database is the one it should be.
LEMMA ImmediateAnswer ==
    ASSUME Domains, NEW c \in Threads, ThreadInv(c), ExecImmediate(c)
    PROVE  ThreadInv(c)'
<1>1. /\ pc[c] = "exec" /\ pc'[c] = "send" /\ reply'[c] = Immediate(cmd[c])
      /\ Immediate(cmd[c]) # NoReply
      /\ UNCHANGED <<peer, wire, sent, got, buf, cmd, todo, count, call, done, answer>>
    BY DEF ExecImmediate, Answer, Goto, netVars, kvVars, Domains
<1>2. Shapes(c)' /\ Turn(c)'
    BY <1>1, TurnKept DEF Busy
<1>3. Executing(c)' /\ Tally(c)'
    BY <1>1 DEF ThreadInv, Executing, Tally, Matches
<1> QED
    BY <1>2, <1>3 DEF ThreadInv

\* The database is called for the command in hand.
LEMMA CallDatabase ==
    ASSUME Domains, NEW c \in Threads, ThreadInv(c), ExecSet(c) \/ ExecGet(c) \/ ExecIncr(c)
    PROVE  ThreadInv(c)'
<1>1. /\ pc[c] = "exec" /\ pc'[c] = "db" /\ Immediate(cmd[c]) = NoReply
      /\ cmd[c].name \in {"SET", "GET", "EXISTS", "INCR"}
      /\ UNCHANGED <<peer, wire, sent, got, buf, cmd, todo, count, reply, done, answer>>
    BY DEF ExecSet, ExecGet, ExecIncr, Ready, KVInvoke, Goto, netVars, Domains
<1>2. call'[c].op = IF cmd[c].name = "EXISTS" THEN "GET" ELSE cmd[c].name
    BY DEF ExecSet, ExecGet, ExecIncr, Ready, KVInvoke, Domains
<1>3. Shapes(c)' /\ Turn(c)'
    BY <1>1, TurnKept DEF Busy
<1>4. Executing(c)' /\ Tally(c)'
    BY <1>1, <1>2 DEF ThreadInv, Executing, Tally, DbNames
<1> QED
    BY <1>3, <1>4 DEF ThreadInv

\* DEL counts its keys one after the other.
LEMMA DeleteKeys ==
    ASSUME Domains, NEW c \in Threads, ThreadInv(c), ExecDel(c) \/ DelNext(c) \/ DelReturn(c)
    PROVE  ThreadInv(c)'
<1>1. CASE ExecDel(c)
  <2>1. /\ pc[c] = "exec" /\ pc'[c] = "del" /\ Immediate(cmd[c]) = NoReply
        /\ cmd[c].name = "DEL" /\ todo'[c] = cmd[c].keys /\ count'[c] = 0
        /\ UNCHANGED <<peer, wire, sent, got, buf, cmd, reply, call, done, answer>>
    BY <1>1 DEF ExecDel, Ready, Goto, netVars, kvVars, Domains
  <2>2. Shapes(c)' /\ Turn(c)'
    BY <2>1, TurnKept DEF Busy
  <2>3. cmd[c].keys \in Seq(Keys) /\ Len(cmd[c].keys) \in Nat
    BY <2>1, CmdSent DEF Busy
  <2>4. Executing(c)' /\ Tally(c)'
    BY <2>1, <2>3 DEF ThreadInv, Executing, Tally, DbNames
  <2> QED
    BY <2>2, <2>4 DEF ThreadInv
<1>2. CASE DelNext(c)
  <2>1. /\ pc[c] = "del" /\ pc'[c] = "db" /\ todo[c] # <<>> /\ todo'[c] = Tail(todo[c])
        /\ call'[c].op = "DEL"
        /\ UNCHANGED <<peer, wire, sent, got, buf, cmd, count, reply, done, answer>>
    BY <1>2 DEF DelNext, KVInvoke, Goto, netVars, Domains
  <2>2. Shapes(c)' /\ Turn(c)'
    BY <2>1, TurnKept DEF Busy
  <2>3. /\ cmd[c].name = "DEL" /\ count[c] \in Nat /\ todo[c] \in Seq(Keys)
        /\ count[c] + Len(todo[c]) <= Len(cmd[c].keys) /\ Len(cmd[c].keys) \in Nat
    BY <2>1, CmdSent DEF ThreadInv, Executing, Tally, Busy
  <2>4. Tail(todo[c]) \in Seq(Keys) /\ Len(Tail(todo[c])) = Len(todo[c]) - 1 /\ Len(todo[c]) \in Nat
    BY <2>1, <2>3
  <2>5. count[c] + Len(Tail(todo[c])) + 1 <= Len(cmd[c].keys)
    BY <2>3, <2>4
  <2>6. Executing(c)' /\ Tally(c)'
    BY <2>1, <2>3, <2>4, <2>5 DEF ThreadInv, Executing, Tally
  <2> QED
    BY <2>2, <2>6 DEF ThreadInv
<1>3. CASE DelReturn(c)
  <2>1. /\ pc[c] = "db" /\ pc'[c] = "del" /\ cmd[c].name = "DEL"
        /\ done[c] /\ done'[c] = FALSE /\ count'[c] = count[c] + answer[c]
        /\ UNCHANGED <<peer, wire, sent, got, buf, cmd, todo, reply>>
    BY <1>3 DEF DelReturn, KVReturn, Goto, netVars, Domains
  <2>2. Shapes(c)' /\ Turn(c)'
    BY <2>1, TurnKept DEF Busy
  <2>3. /\ count[c] \in Nat /\ todo[c] \in Seq(Keys) /\ answer[c] \in {0, 1}
        /\ count[c] + Len(todo[c]) + 1 <= Len(cmd[c].keys)
        /\ Len(cmd[c].keys) \in Nat /\ Len(todo[c]) \in Nat
    BY <2>1, CmdSent DEF ThreadInv, Executing, Tally, Busy
  <2>4. count'[c] \in Nat /\ count'[c] + Len(todo[c]) <= Len(cmd[c].keys)
    BY <2>1, <2>3
  <2>5. count'[c] + Len(todo[c]) + 0 <= Len(cmd[c].keys)
    BY <2>3, <2>4
  <2>6. Executing(c)' /\ Tally(c)'
    BY <2>1, <2>3, <2>4, <2>5 DEF ThreadInv, Executing, Tally
  <2> QED
    BY <2>2, <2>6 DEF ThreadInv
<1> QED
    BY <1>1, <1>2, <1>3

\* The store's answer is one the command can get, whatever the store holds.
LEMMA DatabaseAnswers ==
    ASSUME Domains, NEW c \in Threads, ThreadInv(c), Database(c)
    PROVE  ThreadInv(c)'
<1>1. /\ pc[c] = "db"
      /\ UNCHANGED <<peer, wire, sent, got, buf, pc, cmd, todo, count, reply>>
    BY DEF Database, srvVars, netVars, thrVars
<1>2. /\ UNCHANGED call
      /\ call[c].op = "INCR" => answer'[c] \in Numbers \cup {Err}
      /\ call[c].op = "DEL" => answer'[c] \in {0, 1}
  <2>1. CASE KVSet(c) \/ KVGet(c)
    BY <2>1 DEF KVSet, KVGet, Effect
  <2>2. CASE KVDel(c) \/ KVFail(c)
    BY <2>2 DEF KVDel, KVFail, Effect, Domains
  <2>3. CASE KVIncr(c)
    <3>2. UNCHANGED call /\ call[c].op = "INCR"
        BY <2>3 DEF KVIncr, Effect
    <3>3. answer'[c] \in Numbers \cup {Err}
        BY <2>3, RequestAssumption DEF KVIncr, Missing, Effect, Domains, Numbers
    <3> QED
        BY <3>2, <3>3
  <2> QED
    BY <2>1, <2>2, <2>3 DEF Database
<1>3. Shapes(c)' /\ Turn(c)'
    BY <1>1, TurnKept DEF Busy
<1>4. Executing(c)' /\ Tally(c)'
    BY <1>1, <1>2 DEF ThreadInv, Executing, Tally, DbNames
<1> QED
    BY <1>3, <1>4 DEF ThreadInv

\* What the thread makes of it is the reply.
LEMMA DatabaseReply ==
    ASSUME Domains, NEW c \in Threads, ThreadInv(c), DbReturn(c) \/ DelDone(c)
    PROVE  ThreadInv(c)'
<1>1. CASE DbReturn(c)
  <2>1. /\ pc[c] = "db" /\ pc'[c] = "send" /\ cmd[c].name # "DEL" /\ done[c] /\ done'[c] = FALSE
        /\ reply'[c] = DbReply(cmd[c], answer[c])
        /\ UNCHANGED <<peer, wire, sent, got, buf, cmd, todo, count>>
    BY <1>1 DEF DbReturn, KVReturn, Answer, Goto, netVars, Domains
  <2>2. Shapes(c)' /\ Turn(c)'
    BY <2>1, TurnKept DEF Busy
  <2>3. /\ Immediate(cmd[c]) = NoReply /\ cmd[c].name \in {"SET", "GET", "EXISTS", "INCR"}
        /\ cmd[c].name = "INCR" => answer[c] \in Numbers \cup {Err}
    BY <2>1 DEF ThreadInv, Executing, DbNames
  <2>4. Matches(cmd[c], DbReply(cmd[c], answer[c]))
    BY <2>3 DEF Matches, DbReply, resp_simple, resp_error, resp_integer, resp_bulk, Reply
  <2>5. Executing(c)' /\ Tally(c)'
    BY <2>1, <2>4 DEF Executing, Tally
  <2> QED
    BY <2>2, <2>5 DEF ThreadInv
<1>2. CASE DelDone(c)
  <2>1. /\ pc[c] = "del" /\ pc'[c] = "send" /\ todo[c] = <<>>
        /\ reply'[c] = IF Len(cmd[c].keys) = 1 /\ count[c] # 0 THEN resp_simple("OK")
                       ELSE resp_integer(count[c])
        /\ UNCHANGED <<peer, wire, sent, got, buf, cmd, todo, count, call, done, answer>>
    BY <1>2 DEF DelDone, Answer, Goto, netVars, kvVars, Domains
  <2>2. Shapes(c)' /\ Turn(c)'
    BY <2>1, TurnKept DEF Busy
  <2>3. Len(<<>>) = 0
    OBVIOUS
  <2>4. /\ Immediate(cmd[c]) = NoReply /\ cmd[c].name = "DEL" /\ Len(cmd[c].keys) \in Nat
        /\ count[c] \in 0 .. Len(cmd[c].keys)
    BY <2>1, <2>3, CmdSent DEF ThreadInv, Executing, Tally, Busy
  <2>5. Matches(cmd[c], reply'[c])
    <3>1. CASE Len(cmd[c].keys) = 1
      <4>1. count[c] = 0 \/ count[c] # 0
        OBVIOUS
      <4>2. reply'[c] = resp_simple("OK") \/ reply'[c] = resp_integer(0)
        BY <2>1, <3>1, <4>1
      <4> QED
        BY <2>4, <3>1, <4>2 DEF Matches
    <3>2. CASE Len(cmd[c].keys) # 1
      <4>1. reply'[c] = resp_integer(count[c])
        BY <2>1, <3>2
      <4>2. reply'[c].kind = "integer" /\ reply'[c].data = count[c]
        <5>1. \A n : resp_integer(n).kind = "integer" /\ resp_integer(n).data = n
            BY DEF resp_integer, Reply
        <5> QED
            BY <4>1, <5>1
      <4> QED
        BY <2>4, <3>2, <4>2 DEF Matches
    <3> QED
        BY <3>1, <3>2
  <2>6. Executing(c)' /\ Tally(c)'
    BY <2>1, <2>5 DEF ThreadInv, Executing, Tally
  <2> QED
    BY <2>2, <2>6 DEF ThreadInv
<1> QED
    BY <1>1, <1>2

\* The reply follows the earlier ones.
LEMMA SendReply ==
    ASSUME Domains, NEW c \in Threads, ThreadInv(c), Send(c)
    PROVE  ThreadInv(c)'
<1>1. /\ pc[c] = "send" /\ pc'[c] = "read"
      /\ got'[c] = IF peer[c] = "left" THEN got[c] ELSE Append(got[c], reply[c])
      /\ UNCHANGED <<peer, wire, sent, todo, count, call, done, answer>>
    BY DEF Send, Goto, kvVars, Domains
<1>2. Shapes(c) /\ Matches(cmd[c], reply[c])
    BY <1>1 DEF ThreadInv, Executing
<1>3. PICK n \in 0 .. Len(sent[c]) : OnWire(c, n) /\ InHand(c, n) /\ Answered(c, n)
    BY DEF ThreadInv, Turn
<1>4. n > 0 /\ cmd[c] = sent[c][n] /\ Len(got[c]) <= n - 1 /\ n \in Nat /\ Len(got[c]) \in Nat
    BY <1>1, <1>2, <1>3, Lengths DEF InHand, Answered, Busy
<1>5. /\ IsSeq(Append(got[c], reply[c]))
      /\ Len(Append(got[c], reply[c])) = Len(got[c]) + 1
      /\ \A k \in 1 .. Len(got[c]) : Append(got[c], reply[c])[k] = got[c][k]
      /\ Append(got[c], reply[c])[Len(got[c]) + 1] = reply[c]
    BY <1>2, OneMore DEF Shapes
<1>6. Shapes(c)'
    BY <1>1, <1>2, <1>5 DEF Shapes
<1>7. (OnWire(c, n) /\ InHand(c, n))'
    BY <1>1, <1>3 DEF OnWire, InHand, Busy
<1>8. Answered(c, n)'
  <2>1. CASE peer[c] = "left"
    BY <1>1, <1>3, <1>4, <2>1 DEF Answered, Busy
  <2>2. CASE peer[c] # "left"
    <3>1. got'[c] = Append(got[c], reply[c]) /\ Len(got[c]) = n - 1
        BY <1>1, <1>3, <2>2 DEF Answered, Busy
    <3>2. Len(got'[c]) = n
        BY <1>4, <1>5, <3>1
    <3>3. ASSUME NEW k \in 1 .. n PROVE Matches(sent[c][k], got'[c][k])
      <4>1. CASE k = n
        BY <1>2, <1>4, <1>5, <3>1, <4>1
      <4>2. CASE k # n
        <5>1. k \in 1 .. Len(got[c])
            BY <1>4, <3>1, <4>2
        <5> QED
            BY <1>3, <1>5, <3>1, <5>1 DEF Answered
      <4> QED
        BY <4>1, <4>2
    <3> QED
        BY <1>1, <1>4, <3>2, <3>3 DEF Answered, Busy
  <2> QED
    BY <2>1, <2>2
<1>9. Turn(c)'
    BY <1>1, <1>7, <1>8 DEF Turn
<1>10. Executing(c)' /\ Tally(c)'
    BY <1>1 DEF ThreadInv, Executing, Tally
<1> QED
    BY <1>6, <1>9, <1>10 DEF ThreadInv

\* Every step preserves the invariant.
LEMMA TurnStep ==
    ASSUME WholeReads, TurnInv, [Next]_serverVars
    PROVE  TurnInv'
<1>1. Domains /\ \A c \in Threads : ThreadInv(c)
    BY DEF TurnInv
<1>2. ASSUME \A d \in Threads : Same(d), Domains' PROVE TurnInv'
    BY <1>2, SameKept DEF TurnInv
<1>3. CASE UNCHANGED serverVars \/ Clock
    BY <1>1, <1>2, <1>3 DEF serverVars, srvVars, netVars, thrVars, kvVars, Clock, KVTick,
                            Same, Domains
<1>4. CASE Down
    BY <1>1, <1>2, <1>4 DEF Down, netVars, thrVars, kvVars, Same, Domains
<1>5. ASSUME NEW c \in Threads,
             \/ Connect(c) \/ ClientLeave(c) \/ \E r \in Requests : ClientSend(c, r)
             \/ Accept(c) \/ (AcceptNoThread(c) /\ ~Down) \/ Read(c) \/ ReadEof(c) \/ Send(c)
      PROVE  TurnInv'
  <2>1. ThreadInv(c)'
    BY <1>1, <1>5, ComeAndGo, SendRequest, ReadRequest, SendReply
  <2> QED
    BY <1>1, <1>5, <2>1, ConnectionLocal, OneThread
<1>6. ASSUME NEW c \in Threads, ParseWhole(c) \/ ParseTruncated(c) \/ ParseTail(c)
      PROVE  TurnInv'
  <2>1. ThreadInv(c)' /\ ParseWhole(c)
    BY <1>1, <1>6, ParseRequest
  <2>2. \E r : Parsed(c, r)
    BY <2>1 DEF ParseWhole
  <2> QED
    BY <1>1, <2>1, <2>2, CommandLocal, OneThread
<1>7. ASSUME NEW c \in Threads,
             \/ ExecImmediate(c)
             \/ ExecSet(c) \/ ExecGet(c) \/ ExecIncr(c) \/ ExecDel(c)
             \/ DelNext(c) \/ DelDone(c) \/ Database(c) \/ DbReturn(c) \/ DelReturn(c)
      PROVE  TurnInv'
  <2>1. ThreadInv(c)'
    BY <1>1, <1>7, ImmediateAnswer, CallDatabase, DeleteKeys, DatabaseAnswers, DatabaseReply
  <2> QED
    BY <1>1, <1>7, <2>1, CommandLocal, OneThread
<1>8. ASSUME NEW c \in Threads, Serve(c), ~Down PROVE TurnInv'
    BY <1>5, <1>6, <1>7, <1>8 DEF Serve, ExecUndefined, SendReset
<1> QED
    BY <1>3, <1>4, <1>5, <1>8 DEF Next

\* The invariant holds as long as read() returns whole requests.
LEMMA TurnInvariance == ASSUME WholeReads PROVE Spec => []TurnInv
<1>1. TurnInv /\ [Next]_serverVars => TurnInv'
    BY TurnStep
<1> QED
    BY <1>1, TurnInit, PTL DEF Spec

\* Whatever clients send, however many at once and whenever they leave, and
\* whatever the store answers: the k-th reply a client gets answers its k-th
\* request, if each read() returns one request.
THEOREM RepliesInOrder == ASSUME WholeReads PROVE Spec => []RepliesMatch
<1>1. ASSUME TurnInv PROVE RepliesMatch
  <2> SUFFICES ASSUME NEW c \in Threads
               PROVE  /\ Len(got[c]) <= Len(sent[c])
                      /\ \A k \in 1 .. Len(got[c]) : Matches(sent[c][k], got[c][k])
    BY DEF RepliesMatch
  <2>1. ThreadInv(c)
    BY <1>1 DEF TurnInv
  <2>2. PICK n \in 0 .. Len(sent[c]) : Answered(c, n)
    BY <2>1 DEF ThreadInv, Turn
  <2>3. Len(sent[c]) \in Nat /\ Len(got[c]) \in Nat
    BY <2>1, Lengths DEF ThreadInv
  <2> QED
    BY <2>2, <2>3 DEF Answered
<1> QED
    BY <1>1, TurnInvariance, PTL

=============================================================================
