--------------------------- MODULE ServersProofs ---------------------------
(***************************************************************************)
(* For any number of backends and of clients: the forking balancer hands   *)
(* out its backends in turn, and unless a fork fails or a process is       *)
(* killed a client that stays sees the end of its connection only after    *)
(* the answer of the backend whose turn it was.                            *)
(*                                                                         *)
(* For any clients of the web server, and whatever lines they send: a page *)
(* names the path of the client it goes to.                                *)
(***************************************************************************)
EXTENDS Programs, TLAPS

-----------------------------------------------------------------------------
(* The forking balancer                                                    *)

\* The processes: the parents, and the children, named after their links.
Processes == Links \cup {main(s) : s \in Servers}

\* The types; a child serves a link the way its side does.
ForkTypeOK ==
    /\ rr \in Backends
    /\ idx \in [Clients -> Backends \cup {None}]
    /\ parent \in [Servers -> {"accept", "fork", "close", "dead"}]
    /\ conn \in [Servers -> Links \cup {None}]
    /\ \A s \in Servers : parent[s] \in {"fork", "close"} => conn[s] \in Links
    /\ child \in [Links -> {"none", "start", "read", "dial", "forward", "relay",
                            "answer", "exit", "done"}]
    /\ queue \in [Servers -> Seq(Links)]
    /\ fds \in [Links -> SUBSET Processes]
    /\ listen \in [Servers -> SUBSET Processes]
    /\ asked \in SUBSET Links /\ ended \in SUBSET Links
    /\ DOMAIN reply = Links
    /\ faults \in Nat

\* l waits in the backlog of s.
InQueue(s, l) == \E n \in 1 .. Len(queue[s]) : queue[s][n] = l

\* No connection is twice in the backlog of s.
Distinct(s) ==
    \A m, n \in 1 .. Len(queue[s]) : queue[s][m] = queue[s][n] => m = n

\* What waits for the balancer are clients that have no backend yet.
FrontQueue ==
    \A l \in Links : InQueue(Balancer, l) =>
        \E c \in Clients : l = front(c) /\ idx[c] = None

RotInv == ForkTypeOK /\ Distinct(Balancer) /\ FrontQueue

-----------------------------------------------------------------------------
(* As long as nothing has failed ...                                       *)

\* ... every parent runs and has its listener open;
AtWork ==
    \A s \in Servers : main(s) \in listen[s] /\ parent[s] # "dead"

\* ... what waits in a backlog, or has been accepted but not forked for, is a
\* connection of that server that has had no child yet;
Fresh(s, l) ==
    /\ child[l] = "none"
    /\ IF s = Balancer
       THEN \E c \in Clients : l = front(c)
       ELSE \E c \in Clients : /\ l = back(c) /\ idx[c] = s
                               /\ child[front(c)] \in {"forward", "relay", "exit", "done"}

Waiting ==
    \A s \in Servers :
        /\ Distinct(s)
        /\ \A l \in Links : InQueue(s, l) =>
              Fresh(s, l) /\ (s = Balancer => idx[l[1]] = None)

Accepted ==
    \A s \in Servers : parent[s] = "fork" =>
        /\ conn[s] \in Links
        /\ Fresh(s, conn[s])
        /\ main(s) \in fds[conn[s]]
        /\ ~InQueue(s, conn[s])
        /\ s = Balancer => idx[conn[s][1]] # None

\* ... a child has its own connection open until it is done;
Holding ==
    \A l \in Links :
        child[l] \in {"start", "read", "dial", "forward", "relay", "answer", "exit"} =>
            l \in fds[l]

\* ... a client has a backend once its connection is accepted, and a child from
\* the fork on;
Served ==
    \A c \in Clients :
        IF child[front(c)] = "none"
        THEN idx[c] # None => conn[Balancer] = front(c) /\ parent[Balancer] = "fork"
        ELSE idx[c] # None

\* ... and the two children of a client keep in step: the backend's reads after
\* the balancer's has sent, and answers before that one goes on.
Sides ==
    \A c \in Clients :
        /\ child[front(c)] # "answer"
        /\ child[back(c)] \notin {"dial", "forward", "relay"}
        /\ child[back(c)] # "none" => child[front(c)] \in {"forward", "relay", "exit", "done"}
        /\ child[front(c)] \in {"forward", "relay"} /\ child[back(c)] = "none" =>
              \/ InQueue(idx[c], back(c))
              \/ conn[idx[c]] = back(c) /\ parent[idx[c]] = "fork"
        /\ back(c) \in asked => child[front(c)] \in {"relay", "exit", "done"}
        /\ back(c) \in ended => child[front(c)] \in {"exit", "done"}
        /\ child[back(c)] \in {"answer", "exit", "done"} =>
              back(c) \in asked \/ back(c) \in ended
        /\ child[back(c)] \in {"exit", "done"} =>
              reply[back(c)] = idx[c] \/ back(c) \in ended
        /\ child[front(c)] \in {"exit", "done"} =>
              reply[front(c)] = idx[c] \/ front(c) \in ended

Calm == AtWork /\ Waiting /\ Accepted /\ Holding /\ Served /\ Sides

ForkInv == RotInv /\ (faults = 0 => Calm)

-----------------------------------------------------------------------------
(* Links, processes and backlogs                                           *)

\* The links of different clients, and the two of one, are different; no link
\* is named like a parent.
LEMMA LinkFacts ==
    /\ \A c \in Clients : /\ front(c) \in Links /\ back(c) \in Links
                          /\ front(c) \in Fronts /\ back(c) \in Backs
                          /\ front(c)[1] = c /\ back(c)[1] = c
    /\ \A c, d \in Clients : /\ front(c) # back(d)
                             /\ front(c) = front(d) => c = d
                             /\ back(c) = back(d) => c = d
    /\ \A l \in Links : \E c \in Clients : l = front(c) \/ l = back(c)
    /\ \A l \in Backs : \E c \in Clients : l = back(c)
    /\ \A l \in Fronts : \E c \in Clients : l = front(c)
    /\ \A s, t \in Servers : main(s) = main(t) => s = t
    /\ \A s \in Servers : main(s) \in Processes /\ \A l \in Links : l # main(s)
    /\ \A l \in Links : l \in Processes
  BY ForkAssumption DEF front, back, main, Fronts, Backs, Links, Processes

\* The balancer is no backend, and None is neither.
LEMMA ServerFacts ==
    /\ Balancer \in Servers /\ Balancer \notin Backends
    /\ \A b \in Backends : b \in Servers
    /\ \A s \in Servers : s # Balancer => s \in Backends
    /\ None \notin Servers /\ 0 \in Backends
  BY ForkAssumption DEF Balancer, Servers, Backends

\* A connection joins the end of a backlog.
LEMMA QueueAppend ==
    ASSUME queue \in [Servers -> Seq(Links)], NEW s \in Servers, NEW l \in Links,
           queue' = [queue EXCEPT ![s] = Append(queue[s], l)]
    PROVE  /\ queue' \in [Servers -> Seq(Links)]
           /\ \A t \in Servers : Distinct(t) /\ (t = s => ~InQueue(s, l)) => Distinct(t)'
           /\ \A t \in Servers, m \in Links :
                 InQueue(t, m)' <=> InQueue(t, m) \/ (t = s /\ m = l)
<1>1. /\ queue'[s] = Append(queue[s], l) /\ queue[s] \in Seq(Links)
      /\ \A t \in Servers : t # s => queue'[t] = queue[t]
      /\ queue' \in [Servers -> Seq(Links)]
    OBVIOUS
<1>2. /\ Len(queue'[s]) = Len(queue[s]) + 1 /\ Len(queue[s]) \in Nat
      /\ queue'[s][Len(queue[s]) + 1] = l
      /\ \A n \in 1 .. Len(queue[s]) : queue'[s][n] = queue[s][n]
    BY <1>1
<1>3. ASSUME NEW t \in Servers, Distinct(t), t = s => ~InQueue(s, l) PROVE Distinct(t)'
  <2>1. CASE t = s
    BY <1>2, <1>3, <2>1 DEF Distinct, InQueue
  <2>2. CASE t # s
    BY <1>1, <1>3, <2>2 DEF Distinct
  <2> QED
    BY <2>1, <2>2
<1>4. ASSUME NEW t \in Servers, NEW m \in Links
      PROVE  InQueue(t, m)' <=> InQueue(t, m) \/ (t = s /\ m = l)
  <2>1. CASE t = s
    BY <1>2, <2>1 DEF InQueue
  <2>2. CASE t # s
    BY <1>1, <2>2 DEF InQueue
  <2> QED
    BY <2>1, <2>2
<1> QED
    BY <1>1, <1>3, <1>4

\* accept() takes the first connection of a backlog out of it.
LEMMA QueueTail ==
    ASSUME queue \in [Servers -> Seq(Links)], NEW s \in Servers,
           queue[s] # <<>>, queue' = [queue EXCEPT ![s] = Tail(queue[s])]
    PROVE  /\ queue' \in [Servers -> Seq(Links)]
           /\ Head(queue[s]) \in Links /\ InQueue(s, Head(queue[s]))
           /\ \A t \in Servers : Distinct(t) => Distinct(t)'
           /\ \A m \in Links : Distinct(s) /\ m = Head(queue[s]) => ~InQueue(s, m)'
           /\ \A t \in Servers, m \in Links : InQueue(t, m)' => InQueue(t, m)
           /\ \A t \in Servers, m \in Links :
                 InQueue(t, m) /\ ~(t = s /\ m = Head(queue[s])) => InQueue(t, m)'
<1>1. /\ queue'[s] = Tail(queue[s]) /\ queue[s] \in Seq(Links)
      /\ \A t \in Servers : t # s => queue'[t] = queue[t]
      /\ queue' \in [Servers -> Seq(Links)]
    OBVIOUS
<1>2. /\ Len(queue'[s]) = Len(queue[s]) - 1 /\ Len(queue[s]) \in Nat \ {0}
      /\ Head(queue[s]) = queue[s][1] /\ queue[s][1] \in Links
      /\ \A n \in 1 .. Len(queue'[s]) : queue'[s][n] = queue[s][n + 1]
    BY <1>1
<1>3. ASSUME NEW t \in Servers, Distinct(t) PROVE Distinct(t)'
  <2>1. ASSUME NEW m \in 1 .. Len(queue'[t]), NEW n \in 1 .. Len(queue'[t]),
               queue'[t][m] = queue'[t][n]
        PROVE  m = n
    <3>1. CASE t = s
        BY <1>2, <1>3, <2>1, <3>1 DEF Distinct
    <3>2. CASE t # s
        BY <1>1, <1>3, <2>1, <3>2 DEF Distinct
    <3> QED
        BY <3>1, <3>2
  <2> QED
    BY <2>1 DEF Distinct
<1>4. \A m \in Links : Distinct(s) /\ m = Head(queue[s]) => ~InQueue(s, m)'
    BY <1>2 DEF InQueue, Distinct
<1>5. ASSUME NEW t \in Servers, NEW m \in Links, InQueue(t, m)' PROVE InQueue(t, m)
  <2>1. CASE t = s
    BY <1>2, <1>5, <2>1 DEF InQueue
  <2>2. CASE t # s
    BY <1>1, <1>5, <2>2 DEF InQueue
  <2> QED
    BY <2>1, <2>2
<1>6. ASSUME NEW t \in Servers, NEW m \in Links,
             InQueue(t, m), ~(t = s /\ m = Head(queue[s]))
      PROVE  InQueue(t, m)'
  <2>1. CASE t = s
    <3>1. PICK n \in 1 .. Len(queue[s]) : queue[s][n] = m
        BY <1>6, <2>1 DEF InQueue
    <3>2. n - 1 \in 1 .. Len(queue'[s])
        BY <1>2, <1>6, <2>1, <3>1
    <3>3. PICK k \in 1 .. Len(queue'[s]) : k + 1 = n
        BY <1>2, <3>2
    <3>4. queue'[s][k] = m
        BY <1>2, <3>1, <3>3
    <3> QED
        BY <2>1, <3>4 DEF InQueue
  <2>2. CASE t # s
    BY <1>1, <1>6, <2>2 DEF InQueue
  <2> QED
    BY <2>1, <2>2
<1>7. InQueue(s, Head(queue[s]))
    BY <1>2 DEF InQueue
<1> QED
    BY <1>1, <1>2, <1>3, <1>4, <1>5, <1>6, <1>7

\* A process closing a listener may empty a backlog and adds nothing to it.
LEMMA QueueClose ==
    ASSUME queue \in [Servers -> Seq(Links)], listen \in [Servers -> SUBSET Processes],
           NEW s, NEW p, CloseListener(s, p)
    PROVE  /\ queue' \in [Servers -> Seq(Links)]
           /\ listen' \in [Servers -> SUBSET Processes]
           /\ \A t \in Servers : Distinct(t) => Distinct(t)'
           /\ \A t \in Servers, m \in Links : InQueue(t, m)' => InQueue(t, m)
           /\ (s \in Servers => listen[s] # {p}) => queue' = queue
<1>1. \A t \in Servers : queue'[t] = queue[t] \/ queue'[t] = <<>>
    BY DEF CloseListener
<1>2. <<>> \in Seq(Links) /\ Len(<<>>) = 0
    OBVIOUS
<1>3. /\ queue' \in [Servers -> Seq(Links)]
      /\ listen' \in [Servers -> SUBSET Processes]
    BY <1>2 DEF CloseListener
<1>4. \A t \in Servers : Distinct(t) => Distinct(t)'
    BY <1>1, <1>2 DEF Distinct
<1>5. \A t \in Servers, m \in Links : InQueue(t, m)' => InQueue(t, m)
    BY <1>1, <1>2 DEF InQueue
<1>6. (s \in Servers => listen[s] # {p}) => queue' = queue
    BY DEF CloseListener
<1> QED
    BY <1>3, <1>4, <1>5, <1>6

-----------------------------------------------------------------------------
(* The rotation                                                            *)

\* Nothing is queued at first.
LEMMA ForkInitInv == ForkInit => ForkInv
<1> SUFFICES ASSUME ForkInit PROVE ForkInv
    OBVIOUS
<1>1. \A s \in Servers : queue[s] = <<>> /\ Len(queue[s]) = 0
  <2>1. Len(<<>>) = 0
    OBVIOUS
  <2>2. queue = [s \in Servers |-> <<>>]
    BY DEF ForkInit
  <2>3. \A s \in Servers : queue[s] = <<>>
    BY <2>2, Zenon
  <2> QED
    BY <2>1, <2>3, Zenon
<1>2. ForkTypeOK
  <2>1. <<>> \in Seq(Links)
    OBVIOUS
  <2>2. \A s \in Servers : {main(s)} \in SUBSET Processes
    BY LinkFacts
  <2> QED
    BY <2>1, <2>2, ServerFacts DEF ForkInit, ForkTypeOK
<1>3. \A s \in Servers, l \in Links : ~InQueue(s, l)
    BY <1>1 DEF InQueue
<1>4. FrontQueue /\ \A s \in Servers : Distinct(s)
    BY <1>1, <1>3, ServerFacts DEF Distinct, FrontQueue
<1>5. Calm
    BY <1>3, <1>4, LinkFacts
       DEF ForkInit, Calm, AtWork, Waiting, Accepted, Holding, Served, Sides
<1> QED
    BY <1>2, <1>4, <1>5, ServerFacts DEF ForkInv, RotInv

\* A backlog that gains nothing, and a choice that is not changed.
LEMMA RotKept ==
    ASSUME RotInv, ForkTypeOK', Distinct(Balancer)', UNCHANGED idx,
           \A l \in Links : InQueue(Balancer, l)' => InQueue(Balancer, l)
    PROVE  RotInv'
  BY DEF RotInv, FrontQueue

\* Steps that leave all backlogs and the balancer's choices alone.
LEMMA RotQuiet ==
    ASSUME RotInv, ForkTypeOK', UNCHANGED <<idx, queue>>
    PROVE  RotInv'
  BY DEF RotInv, FrontQueue, Distinct, InQueue

\* A client joins the balancer's backlog while it has no backend.
LEMMA ClientConnectRot ==
    ASSUME RotInv, NEW c \in Clients, ClientConnect(c)
    PROVE  RotInv'
<1>1. ~InQueue(Balancer, front(c)) /\ idx[c] = None
    BY ServerFacts DEF ClientConnect, Closed, Queued, InQueue
<1>2. /\ queue' \in [Servers -> Seq(Links)]
      /\ Distinct(Balancer)'
      /\ \A t \in Servers, m \in Links :
            InQueue(t, m)' <=> InQueue(t, m) \/ (t = Balancer /\ m = front(c))
    BY <1>1, QueueAppend, LinkFacts, ServerFacts DEF ClientConnect, RotInv, ForkTypeOK
<1>3. ForkTypeOK'
    BY <1>2 DEF ClientConnect, serverVars, RotInv, ForkTypeOK
<1>4. FrontQueue'
    BY <1>1, <1>2, ServerFacts DEF ClientConnect, serverVars, RotInv, FrontQueue
<1> QED
    BY <1>2, <1>3, <1>4 DEF RotInv

\* accept() of a backend leaves the rotation alone; the balancer gives the
\* client it takes from its backlog a backend, and no other client waits there
\* under that name.
LEMMA ParentAcceptRot ==
    ASSUME RotInv, NEW s \in Servers, ParentAccept(s)
    PROVE  /\ RotInv'
           /\ s = Balancer => \E c \in Clients : /\ Head(queue[s]) = front(c)
                                                 /\ idx[c] = None
                                                 /\ next_backend(c)
           /\ s # Balancer => UNCHANGED <<idx, rr>>
<1>1. /\ queue' \in [Servers -> Seq(Links)]
      /\ Distinct(Balancer)'
      /\ Head(queue[s]) \in Links /\ InQueue(s, Head(queue[s]))
      /\ \A t \in Servers, m \in Links : InQueue(t, m)' => InQueue(t, m)
      /\ \A m \in Links : s = Balancer /\ m = Head(queue[s]) => ~InQueue(s, m)'
    BY QueueTail, ServerFacts DEF ParentAccept, RotInv, ForkTypeOK
<1>2. fds' \in [Links -> SUBSET Processes]
    BY <1>1, LinkFacts DEF ParentAccept, RotInv, ForkTypeOK
<1>3. (rr + 1) % N \in Backends
    BY ForkAssumption DEF RotInv, ForkTypeOK, Backends
<1>4. CASE s = Balancer
  <2>1. PICK c \in Clients : Head(queue[s]) = front(c) /\ idx[c] = None
    BY <1>1, <1>4 DEF RotInv, FrontQueue
  <2>2. next_backend(c)
    BY <1>4, <2>1, LinkFacts DEF ParentAccept
  <2>3. ForkTypeOK'
    BY <1>1, <1>2, <1>3, <2>2 DEF ParentAccept, next_backend, RotInv, ForkTypeOK
  <2>4. FrontQueue'
    <3> SUFFICES ASSUME NEW l \in Links, InQueue(Balancer, l)'
                 PROVE  \E d \in Clients : l = front(d) /\ idx'[d] = None
        BY DEF FrontQueue
    <3>1. InQueue(Balancer, l) /\ l # front(c)
        BY <1>1, <1>4, <2>1, ServerFacts
    <3>2. PICK d \in Clients : l = front(d) /\ idx[d] = None
        BY <3>1 DEF RotInv, FrontQueue
    <3>3. idx'[d] = idx[d]
        BY <2>2, <3>1, <3>2 DEF next_backend, RotInv, ForkTypeOK
    <3> QED
        BY <3>2, <3>3
  <2> QED
    BY <1>1, <1>4, <2>1, <2>2, <2>3, <2>4 DEF RotInv
<1>5. CASE s # Balancer
  <2>1. UNCHANGED <<idx, rr>>
    BY <1>5 DEF ParentAccept
  <2>2. ForkTypeOK'
    BY <1>1, <1>2, <2>1 DEF ParentAccept, RotInv, ForkTypeOK
  <2> QED
    BY <1>1, <1>5, <2>1, <2>2, RotKept, ServerFacts
<1> QED
    BY <1>4, <1>5

\* Forking and closing copy and drop descriptors.
LEMMA ForkCloseRot ==
    ASSUME RotInv, NEW s \in Servers, Fork(s) \/ ForkFails(s) \/ ParentClose(s)
    PROVE  RotInv'
<1>1. CASE Fork(s)
  <2>1. fds' \in [Links -> SUBSET Processes] /\ listen' \in [Servers -> SUBSET Processes]
    <3>1. conn[s] \in Processes
        BY <1>1, LinkFacts DEF Fork, RotInv, ForkTypeOK
    <3> QED
        BY <1>1, <3>1 DEF Fork, RotInv, ForkTypeOK
  <2> QED
    BY <1>1, <2>1, RotQuiet DEF Fork, RotInv, ForkTypeOK
<1>2. CASE ForkFails(s)
    BY <1>2, RotQuiet DEF ForkFails, netVars, RotInv, ForkTypeOK
<1>3. CASE ParentClose(s)
    BY <1>3, RotQuiet DEF ParentClose, RotInv, ForkTypeOK
<1> QED
    BY <1>1, <1>2, <1>3

\* The children and the clients do not choose backends.
LEMMA QuietRot ==
    ASSUME RotInv,
           \/ \E c \in Clients : \/ ClientSend(c) \/ ClientLeaves(c)
                                 \/ DialRefused(c) \/ Forward(c) \/ ForwardFails(c)
                                 \/ Relay(c) \/ RelayEnds(c)
           \/ \E l \in Links : ChildRead(l) \/ ChildReadNothing(l) \/ ChildExit(l)
           \/ \E l \in Backs : Answer(l)
           \/ \E b \in Backends : Restart(b)
    PROVE  RotInv' /\ UNCHANGED <<rr, idx>>
<1> USE DEF RotInv, ForkTypeOK, serverVars, netVars, Goto
<1>1. ASSUME NEW c \in Clients, ClientSend(c) PROVE RotInv' /\ UNCHANGED <<rr, idx>>
    BY <1>1, RotQuiet, LinkFacts, ServerFacts DEF ClientSend
<1>2. ASSUME NEW c \in Clients, ClientLeaves(c) PROVE RotInv' /\ UNCHANGED <<rr, idx>>
    BY <1>2, RotQuiet, LinkFacts, ServerFacts DEF ClientLeaves
<1>3. ASSUME NEW c \in Clients, DialRefused(c) PROVE RotInv' /\ UNCHANGED <<rr, idx>>
    BY <1>3, RotQuiet, LinkFacts, ServerFacts DEF DialRefused, Sent
<1>4. ASSUME NEW c \in Clients, Relay(c) PROVE RotInv' /\ UNCHANGED <<rr, idx>>
    BY <1>4, RotQuiet, LinkFacts, ServerFacts DEF Relay
<1>5. ASSUME NEW c \in Clients, Forward(c) PROVE RotInv' /\ UNCHANGED <<rr, idx>>
    BY <1>5, RotQuiet, LinkFacts, ServerFacts DEF Forward
<1>6. ASSUME NEW c \in Clients, ForwardFails(c) PROVE RotInv' /\ UNCHANGED <<rr, idx>>
    BY <1>6, RotQuiet, LinkFacts, ServerFacts DEF ForwardFails
<1>7. ASSUME NEW c \in Clients, RelayEnds(c) PROVE RotInv' /\ UNCHANGED <<rr, idx>>
    BY <1>7, RotQuiet, LinkFacts, ServerFacts DEF RelayEnds
<1>8. ASSUME NEW l \in Links, ChildRead(l) PROVE RotInv' /\ UNCHANGED <<rr, idx>>
    BY <1>8, RotQuiet, LinkFacts, ServerFacts DEF ChildRead
<1>9. ASSUME NEW l \in Links, ChildReadNothing(l) PROVE RotInv' /\ UNCHANGED <<rr, idx>>
    BY <1>9, RotQuiet, LinkFacts, ServerFacts DEF ChildReadNothing
<1>10. ASSUME NEW l \in Links, ChildExit(l) PROVE RotInv' /\ UNCHANGED <<rr, idx>>
    BY <1>10, RotQuiet, LinkFacts, ServerFacts DEF ChildExit
<1>11. ASSUME NEW l \in Backs, Answer(l) PROVE RotInv' /\ UNCHANGED <<rr, idx>>
    BY <1>11, RotQuiet, LinkFacts, ServerFacts DEF Answer, Sent
<1>12. ASSUME NEW b \in Backends, Restart(b) PROVE RotInv' /\ UNCHANGED <<rr, idx>>
    BY <1>12, RotQuiet, LinkFacts, ServerFacts DEF Restart
<1> QED
    BY <1>1, <1>2, <1>3, <1>4, <1>5, <1>6, <1>7, <1>8, <1>9, <1>10, <1>11, <1>12

\* dial() adds to the backlog of a backend, not of the balancer.
LEMMA DialRot ==
    ASSUME RotInv, NEW c \in Clients, Dial(c)
    PROVE  RotInv' /\ UNCHANGED <<rr, idx>>
<1>1. idx[c] \in Backends \cup {None} /\ back(c) \in Links
    BY LinkFacts DEF RotInv, ForkTypeOK
<1>2. CASE idx[c] \in Backends
  <2>1. idx[c] \in Servers /\ idx[c] # Balancer
    BY <1>2, ServerFacts
  <2>2. queue' = [queue EXCEPT ![idx[c]] = Append(queue[idx[c]], back(c))]
    BY DEF Dial
  <2>3. /\ queue' \in [Servers -> Seq(Links)]
        /\ Distinct(Balancer)'
        /\ \A m \in Links : InQueue(Balancer, m)' => InQueue(Balancer, m)
    BY <1>1, <2>1, <2>2, QueueAppend, ServerFacts DEF RotInv, ForkTypeOK
  <2>4. ForkTypeOK' /\ UNCHANGED <<rr, idx>>
    BY <2>3 DEF Dial, Goto, serverVars, RotInv, ForkTypeOK
  <2> QED
    BY <2>3, <2>4, RotKept
<1>3. CASE idx[c] = None
  <2>1. UNCHANGED queue
    BY <1>3, ServerFacts DEF Dial, RotInv, ForkTypeOK
  <2>2. ForkTypeOK' /\ UNCHANGED <<rr, idx>>
    BY <2>1 DEF Dial, Goto, serverVars, RotInv, ForkTypeOK
  <2> QED
    BY <2>1, <2>2, RotQuiet
<1> QED
    BY <1>1, <1>2, <1>3

\* A process that closes a listener can only empty a backlog.
LEMMA CloseRot ==
    ASSUME RotInv,
           \/ \E l \in Links : ChildStart(l)
           \/ \E l \in Backs : KillChild(l)
           \/ \E b \in Backends : KillParent(b)
    PROVE  RotInv' /\ UNCHANGED <<rr, idx>>
<1>1. ASSUME NEW s, NEW p, CloseListener(s, p), UNCHANGED idx
      PROVE  /\ queue' \in [Servers -> Seq(Links)]
             /\ listen' \in [Servers -> SUBSET Processes]
             /\ ForkTypeOK' => RotInv'
  <2>1. /\ queue' \in [Servers -> Seq(Links)]
        /\ listen' \in [Servers -> SUBSET Processes]
        /\ Distinct(Balancer)'
        /\ \A m \in Links : InQueue(Balancer, m)' => InQueue(Balancer, m)
    BY <1>1, QueueClose, ServerFacts DEF RotInv, ForkTypeOK
  <2> QED
    BY <1>1, <2>1, RotKept
<1>2. ASSUME NEW l \in Links, ChildStart(l) PROVE RotInv' /\ UNCHANGED <<rr, idx>>
  <2>1. CloseListener(ServerOf(l), l) /\ UNCHANGED <<rr, idx>>
    BY <1>2 DEF ChildStart, serverVars
  <2>2. /\ queue' \in [Servers -> Seq(Links)]
        /\ listen' \in [Servers -> SUBSET Processes]
        /\ ForkTypeOK' => RotInv'
    BY <2>1, <1>1
  <2>3. ForkTypeOK'
    BY <1>2, <2>2 DEF ChildStart, Goto, serverVars, RotInv, ForkTypeOK
  <2> QED
    BY <2>1, <2>2, <2>3
<1>3. ASSUME NEW l \in Backs, KillChild(l) PROVE RotInv' /\ UNCHANGED <<rr, idx>>
  <2>1. CloseListener(ServerOf(l), l) /\ UNCHANGED <<rr, idx>>
    BY <1>3 DEF KillChild, serverVars
  <2>2. /\ queue' \in [Servers -> Seq(Links)]
        /\ listen' \in [Servers -> SUBSET Processes]
        /\ ForkTypeOK' => RotInv'
    BY <2>1, <1>1
  <2>3. ForkTypeOK'
    <3>1. fds' \in [Links -> SUBSET Processes] /\ faults' \in Nat
        BY <1>3 DEF KillChild, RotInv, ForkTypeOK
    <3> QED
        BY <1>3, <2>2, <3>1 DEF KillChild, Goto, serverVars, RotInv, ForkTypeOK
  <2> QED
    BY <2>1, <2>2, <2>3
<1>4. ASSUME NEW b \in Backends, KillParent(b) PROVE RotInv' /\ UNCHANGED <<rr, idx>>
  <2>1. CloseListener(b, main(b)) /\ UNCHANGED <<rr, idx>>
    BY <1>4 DEF KillParent
  <2>2. /\ queue' \in [Servers -> Seq(Links)]
        /\ listen' \in [Servers -> SUBSET Processes]
        /\ ForkTypeOK' => RotInv'
    BY <2>1, <1>1
  <2>3. ForkTypeOK'
    <3>1. fds' \in [Links -> SUBSET Processes] /\ faults' \in Nat
        BY <1>4 DEF KillParent, RotInv, ForkTypeOK
    <3> QED
        BY <1>4, <2>2, <3>1, ServerFacts, ZenonT(30) DEF KillParent, RotInv, ForkTypeOK
  <2> QED
    BY <2>1, <2>2, <2>3
<1> QED
    BY <1>2, <1>3, <1>4

\* Every step preserves the invariant of the rotation, and only the balancer's
\* accept changes the cursor or a choice.
LEMMA ForkNextRot ==
    ASSUME RotInv, [ForkNext]_forkVars
    PROVE  /\ RotInv'
           /\ \/ UNCHANGED <<rr, idx>>
              \/ \E c \in Clients : idx[c] = None /\ next_backend(c)
<1>1. CASE UNCHANGED forkVars
  <2>1. ForkTypeOK' /\ UNCHANGED <<rr, idx, queue>>
    BY <1>1 DEF forkVars, serverVars, netVars, RotInv, ForkTypeOK
  <2> QED
    BY <2>1, RotQuiet
<1>2. ASSUME NEW c \in Clients, ClientConnect(c) PROVE RotInv' /\ UNCHANGED <<rr, idx>>
    BY <1>2, ClientConnectRot DEF ClientConnect, serverVars
<1>3. ASSUME NEW s \in Servers, ParentStep(s)
      PROVE  /\ RotInv'
             /\ \/ UNCHANGED <<rr, idx>>
                \/ \E c \in Clients : idx[c] = None /\ next_backend(c)
  <2>1. CASE ParentAccept(s)
    BY <2>1, ParentAcceptRot
  <2>2. CASE Fork(s) \/ ForkFails(s) \/ ParentClose(s)
    BY <2>2, ForkCloseRot DEF Fork, ForkFails, ParentClose
  <2> QED
    BY <1>3, <2>1, <2>2 DEF ParentStep
<1>4. ASSUME NEW l \in Links, ChildStep(l) PROVE RotInv' /\ UNCHANGED <<rr, idx>>
    BY <1>4, QuietRot, CloseRot DEF ChildStep
<1>5. ASSUME NEW c \in Clients, Proxy(c) PROVE RotInv' /\ UNCHANGED <<rr, idx>>
    BY <1>5, QuietRot, DialRot DEF Proxy
<1> QED
    BY <1>1, <1>2, <1>3, <1>4, <1>5, QuietRot, CloseRot DEF ForkNext

\* For every number of backends and of clients, the parent of lesson 5 hands out
\* its backends in turn, one for every connection it accepts, whatever forks
\* fail and whichever processes die.
THEOREM BackendsInTurn == ForkSpec => ForkRotation
<1>1. ForkInit => RotInv
    BY ForkInitInv DEF ForkInv
<1>2. RotInv /\ [ForkNext]_forkVars => RotInv'
    BY ForkNextRot
<1>3. ForkInit => Rot!Init
    BY DEF ForkInit, Rot!Init, Rot!Backends, Backends
<1>4. ASSUME NEW r \in Backends, NEW j \in Backends
      PROVE  ~((j - r) % N < (r - r) % N)
    BY ForkAssumption DEF Backends
<1>5. ASSUME RotInv, [ForkNext]_forkVars PROVE [Rot!Next]_(Rot!vars)
  <2>1. CASE UNCHANGED <<rr, idx>>
    BY <2>1 DEF Rot!vars
  <2>2. ASSUME NEW c \in Clients, idx[c] = None, next_backend(c) PROVE Rot!Pick(c)
    <3>1. rr \in Backends
        BY <1>5 DEF RotInv, ForkTypeOK
    <3>2. Rot!First(rr)
        BY <1>4, <3>1 DEF Rot!First, Rot!Backends, Backends
    <3> QED
        BY <2>2, <3>1, <3>2 DEF Rot!Pick, Rot!Backends, Backends, next_backend
  <2> QED
    BY <1>5, <2>1, <2>2, ForkNextRot DEF Rot!Next
<1> QED
    BY <1>1, <1>2, <1>3, <1>5, PTL DEF ForkSpec, ForkRotation, Rot!Spec

-----------------------------------------------------------------------------
(* Nothing has failed                                                      *)

\* While the balancer's child talks to a backend, that connection waits in the
\* backend's backlog or is open in a process of the backend, until its child is
\* done with it.
LEMMA BackOpen ==
    ASSUME RotInv, Calm, NEW c \in Clients,
           child[front(c)] \in {"forward", "relay"}, Closed(back(c))
    PROVE  child[back(c)] = "done"
<1>1. idx[c] \in Servers /\ back(c) \in Links
    BY LinkFacts, ServerFacts DEF RotInv, ForkTypeOK, Calm, Served
<1>2. fds[back(c)] = {} /\ ~InQueue(idx[c], back(c))
    BY <1>1 DEF Closed, Queued, InQueue
<1>3. child[back(c)] # "none"
    BY <1>1, <1>2 DEF Calm, Sides, Accepted
<1> QED
    BY <1>1, <1>2, <1>3 DEF RotInv, ForkTypeOK, Calm, Holding, Sides

\* A request is sent on a link that the balancer's side does not look at yet.
LEMMA ClientSendCalm ==
    ASSUME RotInv, Calm, NEW c \in Clients, ClientSend(c)
    PROVE  Calm'
<1>1. /\ \A t \in Servers : Distinct(t)' <=> Distinct(t)
      /\ \A t \in Servers, m \in Links : InQueue(t, m)' <=> InQueue(t, m)
    BY DEF ClientSend, netVars, InQueue, Distinct
<1>2. AtWork'
    BY DEF ClientSend, serverVars, netVars, Calm, AtWork
<1>3. Waiting'
    BY <1>1, LinkFacts, ServerFacts
       DEF ClientSend, serverVars, netVars, RotInv, ForkTypeOK, Calm, Waiting, Fresh
<1>4. Accepted'
    BY <1>1, LinkFacts, ServerFacts
       DEF ClientSend, serverVars, netVars, RotInv, ForkTypeOK, Calm, Accepted, Fresh
<1>5. Holding'
    BY LinkFacts
       DEF ClientSend, serverVars, netVars, RotInv, ForkTypeOK, Calm, Holding
<1>6. Served'
    BY LinkFacts, ServerFacts
       DEF ClientSend, serverVars, netVars, RotInv, ForkTypeOK, Calm, Served
<1>7. Sides'
    BY <1>1, LinkFacts, ServerFacts
       DEF ClientSend, serverVars, netVars, RotInv, ForkTypeOK, Calm, Sides, Served
<1> QED
    BY <1>2, <1>3, <1>4, <1>5, <1>6, <1>7 DEF Calm

\* A client that left is owed nothing.
LEMMA ClientLeavesCalm ==
    ASSUME RotInv, Calm, NEW c \in Clients, ClientLeaves(c)
    PROVE  Calm'
<1>1. /\ \A t \in Servers : Distinct(t)' <=> Distinct(t)
      /\ \A t \in Servers, m \in Links : InQueue(t, m)' <=> InQueue(t, m)
    BY DEF ClientLeaves, netVars, InQueue, Distinct
<1>2. AtWork'
    BY DEF ClientLeaves, serverVars, netVars, Calm, AtWork
<1>3. Waiting'
    BY <1>1, LinkFacts, ServerFacts
       DEF ClientLeaves, serverVars, netVars, RotInv, ForkTypeOK, Calm, Waiting, Fresh
<1>4. Accepted'
    BY <1>1, LinkFacts, ServerFacts
       DEF ClientLeaves, serverVars, netVars, RotInv, ForkTypeOK, Calm, Accepted, Fresh
<1>5. Holding'
    BY LinkFacts
       DEF ClientLeaves, serverVars, netVars, RotInv, ForkTypeOK, Calm, Holding
<1>6. Served'
    BY LinkFacts, ServerFacts
       DEF ClientLeaves, serverVars, netVars, RotInv, ForkTypeOK, Calm, Served
<1>7. Sides'
    BY <1>1, LinkFacts, ServerFacts
       DEF ClientLeaves, serverVars, netVars, RotInv, ForkTypeOK, Calm, Sides, Served
<1> QED
    BY <1>2, <1>3, <1>4, <1>5, <1>6, <1>7 DEF Calm

\* The child of a backend reads only what the balancer's child has sent.
LEMMA ChildReadCalm ==
    ASSUME RotInv, Calm, NEW l \in Links, ChildRead(l)
    PROVE  Calm'
<1>1. /\ \A t \in Servers : Distinct(t)' <=> Distinct(t)
      /\ \A t \in Servers, m \in Links : InQueue(t, m)' <=> InQueue(t, m)
    BY DEF ChildRead, netVars, InQueue, Distinct
<1>2. AtWork'
    BY DEF ChildRead, Goto, serverVars, netVars, Calm, AtWork
<1>3. Waiting'
  <2> SUFFICES ASSUME NEW t \in Servers, NEW m \in Links, InQueue(t, m)'
               PROVE  Fresh(t, m)' /\ (t = Balancer => idx'[m[1]] = None)
    BY <1>1 DEF Calm, Waiting
  <2>1. Fresh(t, m) /\ (t = Balancer => idx[m[1]] = None)
    BY <1>1 DEF Calm, Waiting
  <2> QED
    BY <2>1, LinkFacts DEF ChildRead, Goto, serverVars, RotInv, ForkTypeOK, Fresh
<1>4. Accepted'
    BY <1>1, LinkFacts, ServerFacts
       DEF ChildRead, Goto, serverVars, netVars, RotInv, ForkTypeOK, Calm, Accepted, Fresh
<1>5. Holding'
    BY LinkFacts
       DEF ChildRead, Goto, serverVars, netVars, RotInv, ForkTypeOK, Calm, Holding
<1>6. Served'
    BY LinkFacts, ServerFacts
       DEF ChildRead, Goto, serverVars, netVars, RotInv, ForkTypeOK, Calm, Served
<1>7. Sides'
    BY <1>1, LinkFacts, ServerFacts
       DEF ChildRead, Goto, serverVars, netVars, RotInv, ForkTypeOK, Calm, Sides, Served
<1> QED
    BY <1>2, <1>3, <1>4, <1>5, <1>6, <1>7 DEF Calm

\* A child that reads nothing has a peer that left.
LEMMA ChildReadNothingCalm ==
    ASSUME RotInv, Calm, NEW l \in Links, ChildReadNothing(l)
    PROVE  Calm'
<1>1. /\ \A t \in Servers : Distinct(t)' <=> Distinct(t)
      /\ \A t \in Servers, m \in Links : InQueue(t, m)' <=> InQueue(t, m)
    BY DEF ChildReadNothing, netVars, InQueue, Distinct
<1>2. AtWork'
    BY DEF ChildReadNothing, Goto, serverVars, netVars, Calm, AtWork
<1>3. Waiting'
    BY <1>1, LinkFacts, ServerFacts
       DEF ChildReadNothing, Goto, serverVars, netVars, RotInv, ForkTypeOK, Calm, Waiting, Fresh
<1>4. Accepted'
    BY <1>1, LinkFacts, ServerFacts
       DEF ChildReadNothing, Goto, serverVars, netVars, RotInv, ForkTypeOK, Calm, Accepted, Fresh
<1>5. Holding'
    BY LinkFacts
       DEF ChildReadNothing, Goto, serverVars, netVars, RotInv, ForkTypeOK, Calm, Holding
<1>6. Served'
    BY LinkFacts, ServerFacts
       DEF ChildReadNothing, Goto, serverVars, netVars, RotInv, ForkTypeOK, Calm, Served
<1>7. Sides'
    BY <1>1, LinkFacts, ServerFacts
       DEF ChildReadNothing, Goto, serverVars, netVars, RotInv, ForkTypeOK, Calm, Sides, Served
<1> QED
    BY <1>2, <1>3, <1>4, <1>5, <1>6, <1>7 DEF Calm

\* A child gives up its own copies only.
LEMMA ChildExitCalm ==
    ASSUME RotInv, Calm, NEW l \in Links, ChildExit(l)
    PROVE  Calm'
<1>1. /\ \A t \in Servers : Distinct(t)' <=> Distinct(t)
      /\ \A t \in Servers, m \in Links : InQueue(t, m)' <=> InQueue(t, m)
    BY DEF ChildExit, InQueue, Distinct
<1>2. AtWork'
    BY DEF ChildExit, Goto, serverVars, Calm, AtWork
<1>3. Waiting'
    BY <1>1, LinkFacts, ServerFacts
       DEF ChildExit, Goto, serverVars, RotInv, ForkTypeOK, Calm, Waiting, Fresh
<1>4. Accepted'
    BY <1>1, LinkFacts, ServerFacts
       DEF ChildExit, Goto, serverVars, RotInv, ForkTypeOK, Calm, Accepted, Fresh
<1>5. Holding'
    BY LinkFacts
       DEF ChildExit, Goto, serverVars, RotInv, ForkTypeOK, Calm, Holding
<1>6. Served'
    BY LinkFacts, ServerFacts
       DEF ChildExit, Goto, serverVars, RotInv, ForkTypeOK, Calm, Served
<1>7. Sides'
    BY <1>1, LinkFacts, ServerFacts
       DEF ChildExit, Goto, serverVars, RotInv, ForkTypeOK, Calm, Sides, Served
<1> QED
    BY <1>2, <1>3, <1>4, <1>5, <1>6, <1>7 DEF Calm

\* The answer of a backend names it.
LEMMA AnswerCalm ==
    ASSUME RotInv, Calm, NEW l \in Backs, Answer(l)
    PROVE  Calm'
<1>1. /\ \A t \in Servers : Distinct(t)' <=> Distinct(t)
      /\ \A t \in Servers, m \in Links : InQueue(t, m)' <=> InQueue(t, m)
    BY DEF Answer, netVars, InQueue, Distinct
<1>2. AtWork'
    BY DEF Answer, Goto, serverVars, netVars, Calm, AtWork
<1>3. Waiting'
    BY <1>1, LinkFacts, ServerFacts
       DEF Answer, Goto, serverVars, netVars, RotInv, ForkTypeOK, Calm, Waiting, Fresh
<1>4. Accepted'
    BY <1>1, LinkFacts, ServerFacts
       DEF Answer, Goto, serverVars, netVars, RotInv, ForkTypeOK, Calm, Accepted, Fresh
<1>5. Holding'
    BY LinkFacts
       DEF Answer, Goto, serverVars, netVars, RotInv, ForkTypeOK, Calm, Holding
<1>6. Served'
    BY LinkFacts, ServerFacts
       DEF Answer, Goto, serverVars, netVars, RotInv, ForkTypeOK, Calm, Served
<1>7. Sides'
    BY <1>1, LinkFacts, ServerFacts
       DEF Answer, Goto, serverVars, netVars, RotInv, ForkTypeOK, Calm, Sides, Sent, ServerOf, Served
<1> QED
    BY <1>2, <1>3, <1>4, <1>5, <1>6, <1>7 DEF Calm

\* Nobody is refused while every parent listens.
LEMMA DialRefusedCalm ==
    ASSUME RotInv, Calm, NEW c \in Clients, DialRefused(c)
    PROVE  Calm'
<1>1. /\ \A t \in Servers : Distinct(t)' <=> Distinct(t)
      /\ \A t \in Servers, m \in Links : InQueue(t, m)' <=> InQueue(t, m)
    BY DEF DialRefused, netVars, InQueue, Distinct
<1>2. AtWork'
    BY DEF DialRefused, Goto, serverVars, netVars, Calm, AtWork
<1>3. Waiting'
    BY <1>1, LinkFacts, ServerFacts
       DEF DialRefused, Goto, serverVars, netVars, RotInv, ForkTypeOK, Calm, Waiting, Fresh
<1>4. Accepted'
    BY <1>1, LinkFacts, ServerFacts
       DEF DialRefused, Goto, serverVars, netVars, RotInv, ForkTypeOK, Calm, Accepted, Fresh
<1>5. Holding'
    BY LinkFacts
       DEF DialRefused, Goto, serverVars, netVars, RotInv, ForkTypeOK, Calm, Holding
<1>6. Served'
    BY LinkFacts, ServerFacts
       DEF DialRefused, Goto, serverVars, netVars, RotInv, ForkTypeOK, Calm, Served
<1>7. Sides'
    BY <1>1, LinkFacts, ServerFacts
       DEF DialRefused, Goto, serverVars, netVars, RotInv, ForkTypeOK, Calm, Sides, Sent, AtWork, Served
<1> QED
    BY <1>2, <1>3, <1>4, <1>5, <1>6, <1>7 DEF Calm

\* The request reaches the backend's side.
LEMMA ForwardCalm ==
    ASSUME RotInv, Calm, NEW c \in Clients, Forward(c)
    PROVE  Calm'
<1>1. /\ \A t \in Servers : Distinct(t)' <=> Distinct(t)
      /\ \A t \in Servers, m \in Links : InQueue(t, m)' <=> InQueue(t, m)
    BY DEF Forward, netVars, InQueue, Distinct
<1>2. AtWork'
    BY DEF Forward, Goto, serverVars, netVars, Calm, AtWork
<1>3. Waiting'
    BY <1>1, LinkFacts, ServerFacts
       DEF Forward, Goto, serverVars, netVars, RotInv, ForkTypeOK, Calm, Waiting, Fresh
<1>4. Accepted'
    BY <1>1, LinkFacts, ServerFacts
       DEF Forward, Goto, serverVars, netVars, RotInv, ForkTypeOK, Calm, Accepted, Fresh
<1>5. Holding'
    BY LinkFacts
       DEF Forward, Goto, serverVars, netVars, RotInv, ForkTypeOK, Calm, Holding
<1>6. Served'
    BY LinkFacts, ServerFacts
       DEF Forward, Goto, serverVars, netVars, RotInv, ForkTypeOK, Calm, Served
<1>7. Sides'
    BY <1>1, LinkFacts, ServerFacts
       DEF Forward, Goto, serverVars, netVars, RotInv, ForkTypeOK, Calm, Sides, Served
<1> QED
    BY <1>2, <1>3, <1>4, <1>5, <1>6, <1>7 DEF Calm

\* The connection to a backend cannot be closed before its request is read.
LEMMA ForwardFailsCalm ==
    ASSUME RotInv, Calm, NEW c \in Clients, ForwardFails(c)
    PROVE  Calm'
<1>1. /\ \A t \in Servers : Distinct(t)' <=> Distinct(t)
      /\ \A t \in Servers, m \in Links : InQueue(t, m)' <=> InQueue(t, m)
    BY DEF ForwardFails, netVars, InQueue, Distinct
<1>2. Closed(back(c)) => child[back(c)] = "done"
    BY BackOpen DEF ForwardFails
<1>3. AtWork'
    BY DEF ForwardFails, Goto, serverVars, netVars, Calm, AtWork
<1>4. Waiting'
    BY <1>1, LinkFacts, ServerFacts
       DEF ForwardFails, Goto, serverVars, netVars, RotInv, ForkTypeOK, Calm, Waiting, Fresh
<1>5. Accepted'
    BY <1>1, LinkFacts, ServerFacts
       DEF ForwardFails, Goto, serverVars, netVars, RotInv, ForkTypeOK, Calm, Accepted, Fresh
<1>6. Holding'
    BY LinkFacts
       DEF ForwardFails, Goto, serverVars, netVars, RotInv, ForkTypeOK, Calm, Holding
<1>7. Served'
    BY LinkFacts, ServerFacts
       DEF ForwardFails, Goto, serverVars, netVars, RotInv, ForkTypeOK, Calm, Served
<1>8. Sides'
    BY <1>1, <1>2, LinkFacts, ServerFacts
       DEF ForwardFails, Goto, serverVars, netVars, RotInv, ForkTypeOK, Calm, Sides, Served
<1> QED
    BY <1>3, <1>4, <1>5, <1>6, <1>7, <1>8 DEF Calm

\* What the backend answered goes to its client.
LEMMA RelayCalm ==
    ASSUME RotInv, Calm, NEW c \in Clients, Relay(c)
    PROVE  Calm'
<1>1. /\ \A t \in Servers : Distinct(t)' <=> Distinct(t)
      /\ \A t \in Servers, m \in Links : InQueue(t, m)' <=> InQueue(t, m)
    BY DEF Relay, netVars, InQueue, Distinct
<1>2. AtWork'
    BY DEF Relay, serverVars, netVars, Calm, AtWork
<1>3. Waiting'
    BY <1>1, LinkFacts, ServerFacts
       DEF Relay, serverVars, netVars, RotInv, ForkTypeOK, Calm, Waiting, Fresh
<1>4. Accepted'
    BY <1>1, LinkFacts, ServerFacts
       DEF Relay, serverVars, netVars, RotInv, ForkTypeOK, Calm, Accepted, Fresh
<1>5. Holding'
    BY LinkFacts
       DEF Relay, serverVars, netVars, RotInv, ForkTypeOK, Calm, Holding
<1>6. Served'
    BY LinkFacts, ServerFacts
       DEF Relay, serverVars, netVars, RotInv, ForkTypeOK, Calm, Served
<1>7. Sides'
    BY <1>1, LinkFacts, ServerFacts
       DEF Relay, serverVars, netVars, RotInv, ForkTypeOK, Calm, Sides, Served
<1> QED
    BY <1>2, <1>3, <1>4, <1>5, <1>6, <1>7 DEF Calm

\* The relay ends after the answer.
LEMMA RelayEndsCalm ==
    ASSUME RotInv, Calm, NEW c \in Clients, RelayEnds(c)
    PROVE  Calm'
<1>1. /\ \A t \in Servers : Distinct(t)' <=> Distinct(t)
      /\ \A t \in Servers, m \in Links : InQueue(t, m)' <=> InQueue(t, m)
    BY DEF RelayEnds, netVars, InQueue, Distinct
<1>2. Closed(back(c)) => child[back(c)] = "done"
    BY BackOpen DEF RelayEnds
<1>3. AtWork'
    BY DEF RelayEnds, Goto, serverVars, netVars, Calm, AtWork
<1>4. Waiting'
    BY <1>1, LinkFacts, ServerFacts
       DEF RelayEnds, Goto, serverVars, netVars, RotInv, ForkTypeOK, Calm, Waiting, Fresh
<1>5. Accepted'
    BY <1>1, LinkFacts, ServerFacts
       DEF RelayEnds, Goto, serverVars, netVars, RotInv, ForkTypeOK, Calm, Accepted, Fresh
<1>6. Holding'
    BY LinkFacts
       DEF RelayEnds, Goto, serverVars, netVars, RotInv, ForkTypeOK, Calm, Holding
<1>7. Served'
    BY LinkFacts, ServerFacts
       DEF RelayEnds, Goto, serverVars, netVars, RotInv, ForkTypeOK, Calm, Served
<1>8. Sides'
    BY <1>1, <1>2, LinkFacts, ServerFacts
       DEF RelayEnds, Goto, serverVars, netVars, RotInv, ForkTypeOK, Calm, Sides, Served
<1> QED
    BY <1>3, <1>4, <1>5, <1>6, <1>7, <1>8 DEF Calm

\* A client joins the backlog before it has a child.
LEMMA ClientConnectCalm ==
    ASSUME RotInv, Calm, NEW c \in Clients, ClientConnect(c)
    PROVE  Calm'
<1>1. ~InQueue(Balancer, front(c)) /\ idx[c] = None /\ child[front(c)] = "none"
    BY ServerFacts DEF ClientConnect, Closed, Queued, InQueue
<1>2. /\ \A t \in Servers : Distinct(t) => Distinct(t)'
      /\ \A t \in Servers, m \in Links :
            InQueue(t, m)' <=> InQueue(t, m) \/ (t = Balancer /\ m = front(c))
    BY <1>1, QueueAppend, LinkFacts, ServerFacts DEF ClientConnect, RotInv, ForkTypeOK
<1>3. UNCHANGED <<idx, parent, conn, child, fds, listen, asked, ended, reply>>
    BY DEF ClientConnect, serverVars
<1>4. AtWork'
    BY <1>3 DEF Calm, AtWork
<1>5. Waiting'
  <2>1. Distinct(Balancer)
    BY DEF RotInv
  <2> QED
    BY <1>1, <1>2, <1>3, <2>1, LinkFacts DEF Calm, Waiting, Fresh
<1>6. Accepted'
    BY <1>1, <1>2, <1>3, LinkFacts DEF Calm, Accepted, Fresh
<1>7. Holding' /\ Served'
    BY <1>3 DEF Calm, Holding, Served
<1>8. Sides'
    BY <1>2, <1>3, LinkFacts, ServerFacts DEF RotInv, ForkTypeOK, Calm, Served, Sides
<1> QED
    BY <1>4, <1>5, <1>6, <1>7, <1>8 DEF Calm

\* dial() queues a connection that has not been there, at the backend chosen.
LEMMA DialCalm ==
    ASSUME RotInv, Calm, NEW c \in Clients, Dial(c)
    PROVE  Calm'
<1>1. /\ idx[c] \in Servers /\ idx[c] # Balancer /\ child[front(c)] = "dial"
      /\ back(c) \in Links /\ front(c) \in Links
    BY LinkFacts, ServerFacts DEF Dial, RotInv, ForkTypeOK, Calm, Served
<1>2. PICK b \in Servers : b = idx[c]
    BY <1>1
<1>3. ~InQueue(b, back(c))
    BY <1>1, <1>2, LinkFacts DEF Calm, Waiting, Fresh
<1>4. queue' = [queue EXCEPT ![b] = Append(queue[b], back(c))]
    BY <1>2 DEF Dial
<1>5. /\ \A t \in Servers : Distinct(t) => Distinct(t)'
      /\ \A t \in Servers, m \in Links :
            InQueue(t, m)' <=> InQueue(t, m) \/ (t = b /\ m = back(c))
    BY <1>1, <1>3, <1>4, QueueAppend DEF RotInv, ForkTypeOK
<1>6. /\ UNCHANGED <<idx, parent, conn, fds, listen, asked, ended, reply>>
      /\ child' = [child EXCEPT ![front(c)] = "forward"]
    BY DEF Dial, Goto, serverVars
<1>7. child[back(c)] = "none"
    BY <1>1 DEF Calm, Sides
<1>8. AtWork'
    BY <1>6 DEF Calm, AtWork
<1>9. Waiting'
  <2> SUFFICES ASSUME NEW t \in Servers, NEW m \in Links, InQueue(t, m)'
               PROVE  Fresh(t, m)' /\ (t = Balancer => idx'[m[1]] = None)
    BY <1>5 DEF Calm, Waiting
  <2>1. CASE InQueue(t, m)
    <3>1. Fresh(t, m) /\ (t = Balancer => idx[m[1]] = None)
        BY <2>1 DEF Calm, Waiting
    <3> QED
        BY <1>1, <1>5, <1>6, <3>1, LinkFacts DEF RotInv, ForkTypeOK, Fresh
  <2>2. CASE t = b /\ m = back(c)
    BY <1>1, <1>2, <1>3, <1>5, <1>6, <1>7, <2>2, LinkFacts DEF RotInv, ForkTypeOK, Fresh
  <2> QED
    BY <1>5, <2>1, <2>2
<1>10. Accepted'
    BY <1>1, <1>2, <1>5, <1>6, LinkFacts DEF RotInv, ForkTypeOK, Calm, Accepted, Fresh
<1>11. Holding' /\ Served'
    BY <1>1, <1>6, LinkFacts DEF RotInv, ForkTypeOK, Calm, Holding, Served
<1>12. Sides'
    BY <1>1, <1>2, <1>5, <1>6, LinkFacts, ServerFacts DEF RotInv, ForkTypeOK, Calm, Served, Sides
<1> QED
    BY <1>8, <1>9, <1>10, <1>11, <1>12 DEF Calm

\* accept() moves a connection from the backlog to the parent's conn, and in
\* the balancer gives it its backend.
LEMMA ParentAcceptCalm ==
    ASSUME RotInv, Calm, NEW s \in Servers, ParentAccept(s)
    PROVE  Calm'
<1> DEFINE l == Head(queue[s])
<1>1. /\ l \in Links /\ InQueue(s, l)
      /\ \A t \in Servers : Distinct(t) => Distinct(t)'
      /\ \A m \in Links : Distinct(s) /\ m = l => ~InQueue(s, m)'
      /\ \A t \in Servers, m \in Links : InQueue(t, m)' => InQueue(t, m)
      /\ \A t \in Servers, m \in Links : InQueue(t, m) /\ ~(t = s /\ m = l) => InQueue(t, m)'
    BY QueueTail DEF ParentAccept, RotInv, ForkTypeOK
<1>2. Fresh(s, l) /\ (s = Balancer => idx[l[1]] = None) /\ Distinct(s)
    BY <1>1 DEF Calm, Waiting
<1>3. /\ parent[s] = "accept"
      /\ conn' = [conn EXCEPT ![s] = l]
      /\ fds' = [fds EXCEPT ![l] = @ \cup {main(s)}]
      /\ parent' = [parent EXCEPT ![s] = "fork"]
      /\ UNCHANGED <<child, listen, asked, ended, reply>>
    BY DEF ParentAccept
<1>4. \A m \in Links : m = l => ~InQueue(s, m)'
    BY <1>1, <1>2
<1>5. /\ s = Balancer => \E c \in Clients : /\ l = front(c) /\ idx[c] = None
                                            /\ idx' = [idx EXCEPT ![c] = rr]
      /\ s # Balancer => UNCHANGED idx
    BY ParentAcceptRot DEF next_backend
<1> HIDE DEF l
<1>6. rr \in Backends /\ rr # None
    BY ServerFacts DEF RotInv, ForkTypeOK
<1>7. AtWork'
    BY <1>3 DEF RotInv, ForkTypeOK, Calm, AtWork
<1>8. \A c \in Clients : idx'[c] = idx[c] \/ (s = Balancer /\ l = front(c) /\ idx[c] = None
                                                /\ idx'[c] = rr)
    BY <1>5, LinkFacts DEF RotInv, ForkTypeOK
<1>9. Waiting'
    BY <1>1, <1>3, <1>4, <1>8, LinkFacts, ServerFacts DEF Calm, Waiting, Fresh
<1>10. Accepted'
    BY <1>1, <1>2, <1>3, <1>4, <1>5, <1>6, <1>8, LinkFacts, ServerFacts
       DEF RotInv, ForkTypeOK, Calm, Accepted, Fresh
<1>11. Holding'
    BY <1>1, <1>3, LinkFacts DEF RotInv, ForkTypeOK, Calm, Holding
<1>12. Served'
    BY <1>2, <1>3, <1>6, <1>8, LinkFacts, ServerFacts
       DEF RotInv, ForkTypeOK, Calm, Served, Fresh
<1>13. Sides'
    BY <1>1, <1>2, <1>3, <1>8, LinkFacts, ServerFacts
       DEF RotInv, ForkTypeOK, Calm, Served, Sides, Fresh
<1> QED
    BY <1>7, <1>9, <1>10, <1>11, <1>12, <1>13 DEF Calm

\* fork() gives the accepted connection its child, which has it open.
LEMMA ForkCalm ==
    ASSUME RotInv, Calm, NEW s \in Servers, Fork(s)
    PROVE  Calm'
<1> DEFINE l == conn[s]
<1>1. /\ l \in Links /\ Fresh(s, l) /\ main(s) \in fds[l] /\ ~InQueue(s, l)
      /\ s = Balancer => idx[l[1]] # None
      /\ parent[s] = "fork"
    BY DEF Fork, Calm, Accepted
<1>2. /\ \A t \in Servers : Distinct(t)' <=> Distinct(t)
      /\ \A t \in Servers, m \in Links : InQueue(t, m)' <=> InQueue(t, m)
    BY DEF Fork, InQueue, Distinct
<1>3. /\ child' = [child EXCEPT ![l] = "start"]
      /\ \A m \in Links : fds[m] \subseteq fds'[m]
      /\ l \in fds'[l]
      /\ \A t \in Servers : listen[t] \subseteq listen'[t]
      /\ parent' = [parent EXCEPT ![s] = "close"]
      /\ UNCHANGED <<idx, conn, asked, ended, reply>>
    BY <1>1 DEF Fork, RotInv, ForkTypeOK
<1> HIDE DEF l
<1>4. \A t \in Servers : ~InQueue(t, l)
    BY <1>1, LinkFacts, ServerFacts DEF Calm, Waiting, Fresh
<1>5. \A t \in Servers : t # s /\ parent[t] = "fork" => conn[t] # l
    BY <1>1, LinkFacts, ServerFacts DEF Calm, Accepted, Fresh
<1>6. \A c \in Clients : child[front(c)] \in {"forward", "relay", "exit", "done"} =>
                            child'[front(c)] = child[front(c)]
    BY <1>1, <1>3, LinkFacts DEF RotInv, ForkTypeOK, Fresh
<1>7. AtWork'
    BY <1>3 DEF RotInv, ForkTypeOK, Calm, AtWork
<1>8. Waiting'
  <2> SUFFICES ASSUME NEW t \in Servers, NEW m \in Links, InQueue(t, m)'
               PROVE  Fresh(t, m)' /\ (t = Balancer => idx'[m[1]] = None)
    BY <1>2 DEF Calm, Waiting
  <2>1. Fresh(t, m) /\ (t = Balancer => idx[m[1]] = None) /\ m # l
    BY <1>2, <1>4 DEF Calm, Waiting
  <2> QED
    BY <1>3, <1>6, <2>1 DEF RotInv, ForkTypeOK, Fresh
<1>9. Accepted'
  <2> SUFFICES ASSUME NEW t \in Servers, parent'[t] = "fork"
               PROVE  /\ conn'[t] \in Links /\ Fresh(t, conn[t])'
                      /\ main(t) \in fds'[conn'[t]] /\ ~InQueue(t, conn[t])'
                      /\ t = Balancer => idx'[conn'[t][1]] # None
    BY DEF Accepted
  <2>1. /\ t # s /\ parent[t] = "fork" /\ conn'[t] = conn[t]
        /\ conn[t] \in Links /\ Fresh(t, conn[t]) /\ conn[t] # l
        /\ main(t) \in fds[conn[t]] /\ ~InQueue(t, conn[t])
        /\ t = Balancer => idx[conn[t][1]] # None
    BY <1>3, <1>5 DEF RotInv, ForkTypeOK, Calm, Accepted
  <2>2. Fresh(t, conn[t])'
    BY <1>3, <1>6, <2>1 DEF RotInv, ForkTypeOK, Fresh
  <2>3. ~InQueue(t, conn[t])'
    BY <2>1 DEF Fork, InQueue
  <2> QED
    BY <1>3, <2>1, <2>2, <2>3
<1>10. Holding'
    BY <1>3 DEF RotInv, ForkTypeOK, Calm, Holding
<1>11. Served'
    BY <1>1, <1>3, LinkFacts, ServerFacts DEF RotInv, ForkTypeOK, Calm, Served, Fresh, l
<1>12. Sides'
    BY <1>1, <1>2, <1>3, LinkFacts, ServerFacts
       DEF RotInv, ForkTypeOK, Calm, Served, Sides, Fresh, l
<1> QED
    BY <1>7, <1>8, <1>9, <1>10, <1>11, <1>12 DEF Calm

\* The parent closes its own copy, after the child has one.
LEMMA ParentCloseCalm ==
    ASSUME RotInv, Calm, NEW s \in Servers, ParentClose(s)
    PROVE  Calm'
<1>1. /\ \A t \in Servers : Distinct(t)' <=> Distinct(t)
      /\ \A t \in Servers, m \in Links : InQueue(t, m)' <=> InQueue(t, m)
    BY DEF ParentClose, InQueue, Distinct
<1>2. /\ parent[s] = "close" /\ parent' = [parent EXCEPT ![s] = "accept"]
      /\ conn' = [conn EXCEPT ![s] = None]
      /\ \A m \in Links, p \in Processes : p \in fds[m] /\ p # main(s) => p \in fds'[m]
      /\ UNCHANGED <<idx, child, listen, asked, ended, reply>>
    BY DEF ParentClose, RotInv, ForkTypeOK
<1>3. AtWork'
    BY <1>2 DEF RotInv, ForkTypeOK, Calm, AtWork
<1>4. Waiting'
    BY <1>1, <1>2 DEF Calm, Waiting, Fresh
<1>5. Accepted'
    BY <1>1, <1>2, LinkFacts DEF RotInv, ForkTypeOK, Calm, Accepted, Fresh
<1>6. Holding'
    BY <1>2, LinkFacts, ServerFacts DEF RotInv, ForkTypeOK, Calm, Holding
<1>7. Served'
    BY <1>2, ServerFacts DEF RotInv, ForkTypeOK, Calm, Served
<1>8. Sides'
    BY <1>1, <1>2, LinkFacts, ServerFacts DEF RotInv, ForkTypeOK, Calm, Served, Sides
<1> QED
    BY <1>3, <1>4, <1>5, <1>6, <1>7, <1>8 DEF Calm

\* A child closes its copy of a listener that its parent keeps open.
LEMMA ChildStartCalm ==
    ASSUME RotInv, Calm, NEW l \in Links, ChildStart(l)
    PROVE  Calm'
<1>1. CloseListener(ServerOf(l), l) /\ UNCHANGED queue
  <2>1. CloseListener(ServerOf(l), l)
    BY DEF ChildStart
  <2>2. ServerOf(l) \in Servers => listen[ServerOf(l)] # {l}
    BY LinkFacts DEF Calm, AtWork
  <2> QED
    BY <2>1, <2>2, QueueClose DEF RotInv, ForkTypeOK
<1>2. /\ \A t \in Servers : Distinct(t)' <=> Distinct(t)
      /\ \A t \in Servers, m \in Links : InQueue(t, m)' <=> InQueue(t, m)
    BY <1>1 DEF InQueue, Distinct
<1>3. /\ child[l] = "start" /\ child' = [child EXCEPT ![l] = "read"]
      /\ UNCHANGED <<idx, parent, conn, fds, asked, ended, reply>>
    BY DEF ChildStart, Goto, serverVars
<1>4. AtWork'
    BY <1>1, <1>3, LinkFacts DEF CloseListener, RotInv, ForkTypeOK, Calm, AtWork
<1>5. Waiting'
  <2> SUFFICES ASSUME NEW t \in Servers, NEW m \in Links, InQueue(t, m)'
               PROVE  Fresh(t, m)' /\ (t = Balancer => idx'[m[1]] = None)
    BY <1>2 DEF Calm, Waiting
  <2>1. Fresh(t, m) /\ (t = Balancer => idx[m[1]] = None)
    BY <1>2 DEF Calm, Waiting
  <2> QED
    BY <1>3, <2>1, LinkFacts DEF RotInv, ForkTypeOK, Fresh
<1>6. Accepted'
  <2> SUFFICES ASSUME NEW t \in Servers, parent'[t] = "fork"
               PROVE  /\ conn'[t] \in Links /\ Fresh(t, conn[t])'
                      /\ main(t) \in fds'[conn'[t]] /\ ~InQueue(t, conn[t])'
                      /\ t = Balancer => idx'[conn'[t][1]] # None
    BY DEF Accepted
  <2>1. /\ parent[t] = "fork" /\ conn'[t] = conn[t]
        /\ conn[t] \in Links /\ Fresh(t, conn[t]) /\ conn[t] # l
        /\ main(t) \in fds[conn[t]] /\ ~InQueue(t, conn[t])
        /\ t = Balancer => idx[conn[t][1]] # None
    BY <1>3 DEF Calm, Accepted, Fresh
  <2>2. Fresh(t, conn[t])'
    BY <1>3, <2>1, LinkFacts DEF RotInv, ForkTypeOK, Fresh
  <2>3. ~InQueue(t, conn[t])'
    BY <1>1, <2>1 DEF InQueue
  <2> QED
    BY <1>3, <2>1, <2>2, <2>3
<1>7. Holding'
    BY <1>3 DEF RotInv, ForkTypeOK, Calm, Holding
<1>8. Served'
    BY <1>3, LinkFacts DEF RotInv, ForkTypeOK, Calm, Served
<1>9. Sides'
    BY <1>2, <1>3, LinkFacts, ServerFacts DEF RotInv, ForkTypeOK, Calm, Served, Sides
<1> QED
    BY <1>4, <1>5, <1>6, <1>7, <1>8, <1>9 DEF Calm

\* Every step preserves the invariant.
LEMMA ForkNextInv ==
    ASSUME ForkInv, [ForkNext]_forkVars
    PROVE  ForkInv'
<1>1. RotInv' /\ RotInv
    BY ForkNextRot DEF ForkInv
<1> SUFFICES ASSUME faults' = 0 PROVE Calm'
    BY <1>1 DEF ForkInv
<1>2. faults \in Nat /\ faults' \in Nat
    BY <1>1 DEF RotInv, ForkTypeOK
<1>3. faults' # faults + 1
    BY <1>2
<1>4. CASE UNCHANGED forkVars
  <2>1. faults = 0 /\ Calm
    BY <1>4 DEF ForkInv, forkVars
  <2>2. UNCHANGED <<serverVars, child, netVars, asked, ended, reply>>
    BY <1>4 DEF forkVars
  <2>3. AtWork' /\ Holding' /\ Served'
    BY <2>1, <2>2 DEF serverVars, netVars, Calm, AtWork, Holding, Served
  <2>4. Waiting'
    BY <2>1, <2>2 DEF serverVars, netVars, Calm, Waiting, Fresh, InQueue, Distinct
  <2>5. Accepted'
    BY <2>1, <2>2 DEF serverVars, netVars, Calm, Accepted, Fresh, InQueue
  <2>6. Sides'
    BY <2>1, <2>2 DEF serverVars, netVars, Calm, Sides, InQueue
  <2> QED
    BY <2>3, <2>4, <2>5, <2>6 DEF Calm
<1>5. ASSUME NEW c \in Clients, ClientConnect(c) \/ ClientSend(c) \/ ClientLeaves(c)
      PROVE  Calm'
  <2>1. Calm
    BY <1>5 DEF ForkInv, ClientConnect, ClientSend, ClientLeaves
  <2> QED
    BY <1>1, <1>5, <2>1, ClientConnectCalm, ClientSendCalm, ClientLeavesCalm
<1>6. ASSUME NEW s \in Servers, ParentStep(s) PROVE Calm'
  <2>1. ~ForkFails(s)
    BY <1>3 DEF ForkFails
  <2>2. Calm
    BY <1>6, <2>1 DEF ForkInv, ParentStep, ParentAccept, Fork, ParentClose
  <2> QED
    BY <1>1, <1>6, <2>1, <2>2, ParentAcceptCalm, ForkCalm, ParentCloseCalm DEF ParentStep
<1>7. ASSUME NEW l \in Links, ChildStep(l) PROVE Calm'
  <2>1. Calm
    BY <1>7 DEF ForkInv, ChildStep, ChildStart, ChildRead, ChildReadNothing, ChildExit
  <2> QED
    BY <1>1, <1>7, <2>1, ChildStartCalm, ChildReadCalm, ChildReadNothingCalm, ChildExitCalm
       DEF ChildStep
<1>8. ASSUME NEW l \in Backs, Answer(l) \/ KillChild(l) PROVE Calm'
  <2>1. Answer(l) /\ Calm
    BY <1>3, <1>8 DEF ForkInv, KillChild, Answer
  <2> QED
    BY <1>1, <2>1, AnswerCalm
<1>9. ASSUME NEW c \in Clients, Proxy(c) PROVE Calm'
  <2>1. Calm
    BY <1>9 DEF ForkInv, Proxy, DialRefused, Dial, Forward, ForwardFails, Relay, RelayEnds
  <2> QED
    BY <1>1, <1>9, <2>1, DialRefusedCalm, DialCalm, ForwardCalm, ForwardFailsCalm,
       RelayCalm, RelayEndsCalm DEF Proxy
<1>10. ASSUME NEW b \in Backends, KillParent(b) \/ Restart(b) PROVE Calm'
  <2>1. Restart(b) /\ Calm
    BY <1>3, <1>10 DEF ForkInv, KillParent, Restart
  <2> QED
    BY <2>1, ServerFacts DEF Restart, Calm, AtWork
<1> QED
    BY <1>4, <1>5, <1>6, <1>7, <1>8, <1>9, <1>10 DEF ForkNext

\* The inductive invariant holds in every state of the forking balancer.
THEOREM ForkInvariance == ForkSpec => []ForkInv
<1>1. ForkInv /\ [ForkNext]_forkVars => ForkInv'
    BY ForkNextInv
<1> QED
    BY <1>1, ForkInitInv, PTL DEF ForkSpec

\* Unless a fork failed or a process was killed, a client that stays sees its
\* connection closed only after the answer of the backend whose turn it was, in
\* whatever order the parent, the children and the backends close their copies.
THEOREM TurnAnswered == ForkSpec => []AnsweredByTurn
<1>1. ASSUME ForkInv PROVE AnsweredByTurn
  <2> SUFFICES ASSUME NEW c \in Clients, Closed(front(c)), front(c) \notin ended,
                      idx[c] # None, faults = 0
               PROVE  reply[front(c)] = idx[c]
    BY DEF AnsweredByTurn
  <2>1. Calm /\ front(c) \in Links /\ fds[front(c)] = {}
    BY <1>1, LinkFacts DEF ForkInv, Closed
  <2>2. child[front(c)] # "none"
    BY <2>1, ServerFacts DEF Calm, Served, Accepted
  <2>3. child[front(c)] = "done"
    BY <1>1, <2>1, <2>2 DEF ForkInv, RotInv, ForkTypeOK, Calm, Holding
  <2> QED
    BY <2>1, <2>3 DEF Calm, Sides
<1> QED
    BY <1>1, ForkInvariance, PTL

\* The same of the balancer as the composition starts it: its steps are those
\* of ForkNext, and the web server's leave its processes alone.
THEOREM BalancerStarted == FairSpec => ForkRotation /\ []AnsweredByTurn
<1>1. Init => ForkInit
    BY DEF Init
<1>2. [Next]_vars => [ForkNext]_forkVars
    BY DEF Next, vars
<1>3. FairSpec => ForkSpec
    BY <1>1, <1>2, PTL DEF FairSpec, ForkSpec
<1> QED
    BY <1>3, BackendsInTurn, TurnAnswered, PTL

-----------------------------------------------------------------------------
(* The web server                                                          *)

\* c waits to be accepted.
InBacklog(c) == \E n \in 1 .. Len(backlog) : backlog[n] = c

\* The types that the argument needs: lines are counted, and whoever waits is a
\* client.
WebTypeOK ==
    /\ backlog \in Seq(Browsers)
    /\ nread \in [Browsers -> Nat]
    /\ browser \in [Browsers -> {"new", "open", "shut", "left"}]
    /\ DOMAIN page = Browsers

\* The server has conn open.
Serving == web \in {"read", "respond"}

\* Nobody waits twice, and nothing has been read from or sent to a client that
\* has not been accepted yet.
Untouched ==
    /\ \A m, n \in 1 .. Len(backlog) : backlog[m] = backlog[n] => m = n
    /\ \A c \in Browsers : InBacklog(c) => browser[c] # "new"
    /\ \A c \in Browsers : InBacklog(c) \/ browser[c] = "new" =>
          nread[c] = 0 /\ page[c] = NoReply

\* A client being served has had no page and does not wait a second time; the
\* flag stands until its first line is read, and path is its own once that line
\* was a request.
Current ==
    Serving =>
        /\ wconn \in Browsers /\ ~InBacklog(wconn) /\ browser[wconn] # "new"
        /\ page[wconn] = NoReply
        /\ web = "read" /\ nread[wconn] = 0 => first_line
        /\ nread[wconn] > 0 /\ script[wconn][1] = "request" => path = wconn /\ ~first_line

WebInv == WebTypeOK /\ Untouched /\ Current /\ OwnPath

\* Nobody waits, nothing is read.
LEMMA WebInitInv == WebInit => WebInv
<1> SUFFICES ASSUME WebInit PROVE WebInv
    OBVIOUS
<1>1. backlog = <<>> /\ backlog \in Seq(Browsers) /\ Len(backlog) = 0
    BY DEF WebInit
<1>2. \A c \in Browsers : ~InBacklog(c)
    BY <1>1 DEF InBacklog
<1> QED
    BY <1>1, <1>2 DEF WebInit, WebInv, WebTypeOK, Untouched, Current, Serving, OwnPath

\* The first client leaves the backlog: it does not wait there a second time.
LEMMA BacklogTail ==
    ASSUME WebTypeOK, Untouched, backlog # <<>>, backlog' = Tail(backlog)
    PROVE  /\ backlog' \in Seq(Browsers)
           /\ Head(backlog) \in Browsers /\ InBacklog(Head(backlog))
           /\ \A m, n \in 1 .. Len(backlog') : backlog'[m] = backlog'[n] => m = n
           /\ \A c \in Browsers : InBacklog(c)' => InBacklog(c) /\ c # Head(backlog)
<1>1. /\ backlog \in Seq(Browsers) /\ Len(backlog) \in Nat \ {0}
      /\ Head(backlog) = backlog[1] /\ backlog[1] \in Browsers
      /\ Len(backlog') = Len(backlog) - 1 /\ backlog' \in Seq(Browsers)
      /\ \A n \in 1 .. Len(backlog') : backlog'[n] = backlog[n + 1]
    BY DEF WebTypeOK
<1>2. \A m, n \in 1 .. Len(backlog') : backlog'[m] = backlog'[n] => m = n
    BY <1>1 DEF Untouched
<1>3. \A c \in Browsers : InBacklog(c)' => InBacklog(c) /\ c # Head(backlog)
    BY <1>1 DEF InBacklog, Untouched
<1>4. InBacklog(Head(backlog))
    BY <1>1 DEF InBacklog
<1> QED
    BY <1>1, <1>2, <1>3, <1>4

\* A client that connects has not been there before.
LEMMA BrowserConnectInv ==
    ASSUME WebInv, NEW c \in Browsers, BrowserConnect(c)
    PROVE  WebInv'
<1>1. /\ backlog \in Seq(Browsers) /\ backlog' = Append(backlog, c) /\ browser[c] = "new"
      /\ browser' = [browser EXCEPT ![c] = "open"]
      /\ UNCHANGED <<web, wconn, first_line, path, nread, page, script>>
    BY DEF BrowserConnect, WebInv, WebTypeOK
<1>2. /\ Len(backlog) \in Nat /\ Len(backlog') = Len(backlog) + 1
      /\ backlog' \in Seq(Browsers)
      /\ backlog'[Len(backlog) + 1] = c
      /\ \A n \in 1 .. Len(backlog) : backlog'[n] = backlog[n]
    BY <1>1
<1>3. ~InBacklog(c)
    BY <1>1 DEF WebInv, Untouched
<1>4. \A d \in Browsers : InBacklog(d)' => InBacklog(d) \/ d = c
    BY <1>2 DEF InBacklog
<1>5. \A m, n \in 1 .. Len(backlog') : backlog'[m] = backlog'[n] => m = n
    BY <1>2, <1>3 DEF InBacklog, WebInv, Untouched
<1>6. WebTypeOK'
    BY <1>1, <1>2 DEF WebInv, WebTypeOK
<1>7. Untouched'
    BY <1>1, <1>4, <1>5 DEF WebInv, WebTypeOK, Untouched
<1>8. Current'
  <2> SUFFICES ASSUME Serving PROVE Current'
    BY <1>1 DEF Current, Serving
  <2>1. wconn \in Browsers /\ ~InBacklog(wconn) /\ wconn # c
    BY <1>1 DEF WebInv, Current
  <2>2. ~InBacklog(wconn)'
    BY <1>1, <1>2, <2>1 DEF InBacklog
  <2> QED
    BY <1>1, <2>1, <2>2 DEF WebInv, WebTypeOK, Current, Serving
<1>9. OwnPath'
    BY <1>1 DEF WebInv, OwnPath
<1> QED
    BY <1>6, <1>7, <1>8, <1>9 DEF WebInv

\* Sending, ending and leaving change nothing that the server relies on.
LEMMA BrowserInv ==
    ASSUME WebInv, NEW c \in Browsers, BrowserSend(c) \/ BrowserEnds(c)
    PROVE  WebInv'
<1>1. /\ UNCHANGED <<web, wconn, first_line, path, nread, page, script, backlog>>
      /\ browser' \in [Browsers -> {"new", "open", "shut", "left"}]
      /\ \A d \in Browsers : browser'[d] = "new" <=> browser[d] = "new"
    BY DEF BrowserSend, BrowserEnds, WebInv, WebTypeOK
<1>2. WebTypeOK' /\ Untouched' /\ OwnPath'
    BY <1>1 DEF WebInv, WebTypeOK, Untouched, OwnPath, InBacklog
<1>3. Current'
    BY <1>1 DEF WebInv, Current, Serving, InBacklog
<1> QED
    BY <1>2, <1>3 DEF WebInv

\* accept() sets the flag again; nothing of this client has been read.
LEMMA AcceptInv ==
    ASSUME WebInv, Accept
    PROVE  WebInv'
<1>1. PICK c \in Browsers : c = Head(backlog)
    BY BacklogTail DEF WebInv, Accept
<1>2. /\ backlog' \in Seq(Browsers) /\ InBacklog(c)
      /\ \A m, n \in 1 .. Len(backlog') : backlog'[m] = backlog'[n] => m = n
      /\ \A d \in Browsers : InBacklog(d)' => InBacklog(d) /\ d # c
    BY <1>1, BacklogTail DEF WebInv, Accept
<1>3. /\ wconn' = c /\ first_line' = TRUE /\ web' = "read"
      /\ UNCHANGED <<nread, page, script, browser>>
    BY <1>1 DEF Accept
<1>4. WebTypeOK'
    BY <1>2, <1>3 DEF WebInv, WebTypeOK
<1>5. Untouched'
    BY <1>2, <1>3 DEF WebInv, Untouched
<1>6. Current'
  <2>1. ~InBacklog(c)'
    BY <1>2
  <2>2. ~InBacklog(wconn)'
    BY <1>3, <2>1 DEF InBacklog
  <2> QED
    BY <1>2, <1>3, <2>2 DEF WebInv, Untouched, Current, Serving
<1>7. OwnPath'
    BY <1>3 DEF WebInv, OwnPath
<1> QED
    BY <1>4, <1>5, <1>6, <1>7 DEF WebInv

\* The connection that fdopen fails for is gone from the backlog.
LEMMA FdopenFailsInv ==
    ASSUME WebInv, FdopenFails
    PROVE  WebInv'
<1>1. /\ backlog' \in Seq(Browsers)
      /\ \A m, n \in 1 .. Len(backlog') : backlog'[m] = backlog'[n] => m = n
      /\ \A d \in Browsers : InBacklog(d)' => InBacklog(d)
    BY BacklogTail DEF WebInv, FdopenFails
<1>2. web' = "accept" /\ UNCHANGED <<nread, page, script, browser>>
    BY DEF FdopenFails
<1> QED
    BY <1>1, <1>2 DEF WebInv, WebTypeOK, Untouched, Current, Serving, OwnPath

\* The first line read decides what path holds, and it is read with the flag
\* set.
LEMMA ReadLineInv ==
    ASSUME WebInv, ReadLine
    PROVE  WebInv'
<1>1. /\ wconn \in Browsers /\ web = "read" /\ ~InBacklog(wconn) /\ browser[wconn] # "new"
      /\ page[wconn] = NoReply /\ nread[wconn] \in Nat
      /\ nread' = [nread EXCEPT ![wconn] = @ + 1]
      /\ UNCHANGED <<wconn, page, backlog, script, browser>>
    BY DEF ReadLine, clientVars, WebInv, WebTypeOK, Current, Serving
<1>2. nread'[wconn] = nread[wconn] + 1 /\ nread'[wconn] > 0
    BY <1>1 DEF WebInv, WebTypeOK
<1>3. \A c \in Browsers : InBacklog(c)' <=> InBacklog(c)
    BY <1>1 DEF InBacklog
<1>4. WebTypeOK'
    BY <1>1 DEF WebInv, WebTypeOK
<1>5. Untouched'
    BY <1>1, <1>3 DEF WebInv, WebTypeOK, Untouched
<1>6. ASSUME web' \in {"read", "respond"}, script[wconn][1] = "request"
      PROVE  path' = wconn /\ ~first_line'
  <2>1. CASE nread[wconn] = 0
    <3>1. Line = "request" /\ first_line
        BY <1>1, <1>6, <2>1 DEF Line, WebInv, Current, Serving
    <3> QED
        BY <1>6, <3>1 DEF ReadLine
  <2>2. CASE nread[wconn] > 0
    <3>1. path = wconn /\ ~first_line
        BY <1>1, <1>6, <2>2 DEF WebInv, Current, Serving
    <3> QED
        BY <1>6, <3>1 DEF ReadLine
  <2> QED
    BY <1>1, <2>1, <2>2
<1>7. Current'
  <2>1. ~InBacklog(wconn)'
    BY <1>1 DEF InBacklog
  <2> QED
    BY <1>1, <1>2, <1>6, <2>1 DEF Current, Serving
<1>8. OwnPath'
    BY <1>1 DEF WebInv, WebTypeOK, OwnPath
<1> QED
    BY <1>4, <1>5, <1>7, <1>8 DEF WebInv

\* The end of file ends the reading and nothing else.
LEMMA ReadEofInv ==
    ASSUME WebInv, ReadEof
    PROVE  WebInv'
<1>1. /\ web = "read" /\ web' = "respond"
      /\ UNCHANGED <<wconn, first_line, path, nread, page, backlog, script, browser>>
    BY DEF ReadEof, clientVars
<1> QED
    BY <1>1 DEF WebInv, WebTypeOK, Untouched, Current, Serving, OwnPath, InBacklog

\* The answer goes to the client whose line path was taken from.
LEMMA RespondInv ==
    ASSUME WebInv, Respond
    PROVE  WebInv'
<1>1. /\ wconn \in Browsers /\ ~InBacklog(wconn) /\ browser[wconn] # "new"
      /\ nread[wconn] > 0 /\ script[wconn][1] = "request" => path = wconn
      /\ web' = "accept"
      /\ page' = page \/ page' = [page EXCEPT ![wconn] = path]
      /\ UNCHANGED <<nread, backlog, script, browser>>
    BY DEF Respond, clientVars, WebInv, Current, Serving
<1>2. \A c \in Browsers : InBacklog(c)' <=> InBacklog(c)
    BY <1>1 DEF InBacklog
<1> QED
    BY <1>1, <1>2, SMTT(30) DEF WebInv, WebTypeOK, Untouched, Current, Serving, OwnPath

\* A server that was killed serves nobody.
LEMMA RespondKilledInv ==
    ASSUME WebInv, RespondKilled
    PROVE  WebInv'
<1>1. web' = "ended" /\ UNCHANGED <<nread, page, backlog, script, browser>>
    BY DEF RespondKilled, clientVars
<1> QED
    BY <1>1 DEF WebInv, WebTypeOK, Untouched, Current, Serving, OwnPath, InBacklog

\* Every step preserves the invariant.
LEMMA WebNextInv ==
    ASSUME WebInv, [WebNext]_webVars
    PROVE  WebInv'
<1>1. CASE UNCHANGED webVars
    BY <1>1 DEF webVars, clientVars, WebInv, WebTypeOK, Untouched, Current, Serving,
                OwnPath, InBacklog
<1>2. ASSUME NEW c \in Browsers, BrowserConnect(c) \/ BrowserSend(c) \/ BrowserEnds(c)
      PROVE  WebInv'
    BY <1>2, BrowserConnectInv, BrowserInv
<1>3. CASE WebStep
    BY <1>3, AcceptInv, FdopenFailsInv, ReadLineInv, ReadEofInv, RespondInv,
       RespondKilledInv DEF WebStep
<1> QED
    BY <1>1, <1>2, <1>3 DEF WebNext

\* Though path keeps what the last connection left in it, a client whose first
\* line is a request is never answered with another one's path.
THEOREM PathIsOwn == WebSpec => []OwnPath
<1>1. WebInv /\ [WebNext]_webVars => WebInv'
    BY WebNextInv
<1>2. WebInv => OwnPath
    BY DEF WebInv
<1> QED
    BY <1>1, <1>2, WebInitInv, PTL DEF WebSpec

\* The same of the web server as the composition starts it, or does not.
THEOREM WebServerStarted == FairSpec => []OwnPath
<1>1. Init => WebInit
    BY DEF Init, WebIdle
<1>2. [Next]_vars => [WebNext]_webVars
    BY DEF Next, vars
<1>3. FairSpec => WebSpec
    BY <1>1, <1>2, PTL DEF FairSpec, WebSpec
<1> QED
    BY <1>3, PathIsOwn, PTL
=============================================================================
