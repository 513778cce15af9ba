---------------------------- MODULE ForkBalancer ----------------------------
(***************************************************************************)
(* The balancer of lesson 5 (5. load balancer/theories/lessons): one       *)
(* parent accepts, chooses the backend and forks a child that relays one   *)
(* connection (lesson5_roundrobin.c), in front of backends that fork a     *)
(* child per connection too (backend.c).  Both follow the discipline of    *)
(* lesson2_fork.c: a fork copies the parent's descriptors, and each side   *)
(* closes the copy it does not use.                                        *)
(*                                                                         *)
(* A connection is a link: front(c) from client c to the balancer, back(c) *)
(* from the balancer's child for c to the backend.  The child that serves  *)
(* a link is named after it.  Its peer sees the end of a link only when no *)
(* process has the server's side of it open.                               *)
(***************************************************************************)
EXTENDS Integers, Sequences

CONSTANTS
    N,          \* number of backends
    Clients,    \* each makes one connection
    MaxFaults,  \* bound on failed forks and killed backend processes
    None

ASSUME ForkAssumption == N \in Nat \ {0} /\ None \notin Int

Backends == 0 .. N - 1
Balancer == N
Servers  == 0 .. N

front(c) == <<c, "front">>
back(c)  == <<c, "back">>
Fronts   == {front(c) : c \in Clients}
Backs    == {back(c) : c \in Clients}
Links    == Fronts \cup Backs

main(s) == <<s, "main">>  \* the parent process of a server

VARIABLES
    rr,      \* i of next_backend, in the balancer's parent
    idx,     \* the backend chosen for each client
    parent,  \* where each parent is: "accept", "fork", "close" or "dead"
    conn,    \* the link each parent has accepted
    child,   \* where the child of each link is
    queue,   \* backlog of each server
    fds,     \* which processes have the server's side of each link open
    listen,  \* which processes have the listener of each server open
    asked,   \* links on which the request was sent
    ended,   \* links whose client's side is closed
    reply,   \* what was sent back on each link
    faults

serverVars == <<rr, idx, parent, conn>>
netVars    == <<queue, fds, listen>>
forkVars   == <<serverVars, child, netVars, asked, ended, reply, faults>>

ForkInit ==
    /\ rr = 0
    /\ idx = [c \in Clients |-> None]
    /\ parent = [s \in Servers |-> "accept"]
    /\ conn = [s \in Servers |-> None]
    /\ child = [l \in Links |-> "none"]
    /\ queue = [s \in Servers |-> <<>>]
    /\ fds = [l \in Links |-> {}]
    /\ listen = [s \in Servers |-> {main(s)}]
    /\ asked = {} /\ ended = {}
    /\ reply = [l \in Links |-> None]
    /\ faults = 0

\* The server a link leads to.
ServerOf(l) == IF l \in Fronts THEN Balancer ELSE idx[l[1]]

Queued(l) == \E s \in Servers : \E n \in 1 .. Len(queue[s]) : queue[s][n] = l

\* The server's side is closed everywhere.
Closed(l) == fds[l] = {} /\ ~Queued(l)

-----------------------------------------------------------------------------
(* Clients (external)                                                      *)

\* A client connects once: child "none" and nothing queued, held or ended.
ClientConnect(c) ==
    /\ child[front(c)] = "none" /\ Closed(front(c)) /\ idx[c] = None
    /\ front(c) \notin ended
    /\ queue' = [queue EXCEPT ![Balancer] = Append(@, front(c))]
    /\ UNCHANGED <<serverVars, child, fds, listen, asked, ended, reply, faults>>

Connected(c) == front(c) \notin ended /\ (Queued(front(c)) \/ idx[c] # None)

ClientSend(c) ==
    /\ Connected(c) /\ front(c) \notin asked
    /\ asked' = asked \cup {front(c)}
    /\ UNCHANGED <<serverVars, child, netVars, ended, reply, faults>>

\* The client leaves; after the end of the answer, it does so for sure.
ClientLeaves(c) ==
    /\ Connected(c)
    /\ ended' = ended \cup {front(c)}
    /\ UNCHANGED <<serverVars, child, netVars, asked, reply, faults>>

ClientSeesEnd(c) == Closed(front(c)) /\ ClientLeaves(c)

-----------------------------------------------------------------------------
(* The accept loops                                                        *)

\* The rotation advanced in the child, where nobody sees it.
AcceptKeepsRotation(s) ==
    /\ parent[s] = "accept" /\ queue[s] # <<>>
    /\ conn' = [conn EXCEPT ![s] = Head(queue[s])]
    /\ fds' = [fds EXCEPT ![Head(queue[s])] = @ \cup {main(s)}]
    /\ queue' = [queue EXCEPT ![s] = Tail(@)]
    /\ parent' = [parent EXCEPT ![s] = "fork"]
    /\ idx' = IF s = Balancer THEN [idx EXCEPT ![Head(queue[s])[1]] = rr] ELSE idx
    /\ UNCHANGED <<rr, child, listen, asked, ended, reply, faults>>

next_backend(c) ==
    /\ idx' = [idx EXCEPT ![c] = rr]
    /\ rr' = (rr + 1) % N

\* accept(), and in the balancer next_backend().
ParentAccept(s) ==
    /\ parent[s] = "accept" /\ queue[s] # <<>>
    /\ conn' = [conn EXCEPT ![s] = Head(queue[s])]
    /\ fds' = [fds EXCEPT ![Head(queue[s])] = @ \cup {main(s)}]
    /\ queue' = [queue EXCEPT ![s] = Tail(@)]
    /\ parent' = [parent EXCEPT ![s] = "fork"]
    /\ IF s = Balancer THEN next_backend(Head(queue[s])[1]) ELSE UNCHANGED <<idx, rr>>
    /\ UNCHANGED <<child, listen, asked, ended, reply, faults>>

\* The parent's conn closed before the fork: the child has nothing to serve.
ForkAfterClose(s) ==
    /\ parent[s] = "fork"
    /\ child' = [child EXCEPT ![conn[s]] = "start"]
    /\ fds' = [fds EXCEPT ![conn[s]] = @ \ {main(s)}]
    /\ listen' = [listen EXCEPT ![s] = @ \cup {conn[s]}]
    /\ parent' = [parent EXCEPT ![s] = "close"]
    /\ UNCHANGED <<rr, idx, conn, queue, asked, ended, reply, faults>>

\* The child begins with every descriptor of its parent.
Fork(s) ==
    /\ parent[s] = "fork"
    /\ child' = [child EXCEPT ![conn[s]] = "start"]
    /\ fds' = [l \in Links |-> IF main(s) \in fds[l] THEN fds[l] \cup {conn[s]} ELSE fds[l]]
    /\ listen' = [listen EXCEPT ![s] = @ \cup {conn[s]}]
    /\ parent' = [parent EXCEPT ![s] = "close"]
    /\ UNCHANGED <<rr, idx, conn, queue, asked, ended, reply, faults>>

\* fork() returns -1, which is not 0: the connection is closed unserved.
ForkFails(s) ==
    /\ parent[s] = "fork" /\ faults < MaxFaults
    /\ parent' = [parent EXCEPT ![s] = "close"]
    /\ faults' = faults + 1
    /\ UNCHANGED <<rr, idx, conn, child, netVars, asked, ended, reply>>

\* The parent goes on with conn still open.
ParentKeepsConn(s) ==
    /\ parent[s] = "close"
    /\ conn' = [conn EXCEPT ![s] = None]
    /\ parent' = [parent EXCEPT ![s] = "accept"]
    /\ UNCHANGED <<rr, idx, child, netVars, asked, ended, reply, faults>>

ParentClose(s) ==
    /\ parent[s] = "close"
    /\ fds' = [fds EXCEPT ![conn[s]] = @ \ {main(s)}]
    /\ conn' = [conn EXCEPT ![s] = None]
    /\ parent' = [parent EXCEPT ![s] = "accept"]
    /\ UNCHANGED <<rr, idx, child, queue, listen, asked, ended, reply, faults>>

-----------------------------------------------------------------------------
(* The children                                                            *)

\* Process p closes the listener of s; with the last copy the connections
\* that wait in the backlog are reset.
CloseListener(s, p) ==
    /\ listen' = [listen EXCEPT ![s] = @ \ {p}]
    /\ queue' = [queue EXCEPT ![s] = IF listen[s] = {p} THEN <<>> ELSE @]

Goto(l, label) == child' = [child EXCEPT ![l] = label]

ChildStart(l) ==
    /\ child[l] = "start"
    /\ CloseListener(ServerOf(l), l)
    /\ Goto(l, "read")
    /\ UNCHANGED <<serverVars, fds, asked, ended, reply, faults>>

ChildRead(l) ==
    /\ child[l] = "read" /\ l \in asked
    /\ Goto(l, IF l \in Fronts THEN "dial" ELSE "answer")
    /\ UNCHANGED <<serverVars, netVars, asked, ended, reply, faults>>

\* read() <= 0: the peer left without a request.
ChildReadNothing(l) ==
    /\ child[l] = "read" /\ l \in ended /\ l \notin asked
    /\ Goto(l, "exit")
    /\ UNCHANGED <<serverVars, netVars, asked, ended, reply, faults>>

\* close(conn) and exit: every descriptor the child has is closed.
ChildExit(l) ==
    /\ child[l] = "exit"
    /\ fds' = [m \in Links |-> fds[m] \ {l}]
    /\ Goto(l, "done")
    /\ UNCHANGED <<serverVars, queue, listen, asked, ended, reply, faults>>

\* send() to a peer that has left is lost (SIGPIPE is ignored).
Sent(l, what) == reply' = IF l \in ended THEN reply ELSE [reply EXCEPT ![l] = what]

(* backend.c: the answer names the backend.                                *)
Answer(l) ==
    /\ child[l] = "answer"
    /\ Sent(l, ServerOf(l))
    /\ Goto(l, "exit")
    /\ UNCHANGED <<serverVars, netVars, asked, ended, faults>>

(* lesson5_roundrobin.c                                                    *)
DialRefused(c) ==
    /\ child[front(c)] = "dial" /\ listen[idx[c]] = {}
    /\ Sent(front(c), "502")
    /\ Goto(front(c), "exit")
    /\ UNCHANGED <<serverVars, netVars, asked, ended, faults>>

Dial(c) ==
    /\ child[front(c)] = "dial" /\ listen[idx[c]] # {}
    /\ queue' = [queue EXCEPT ![idx[c]] = Append(@, back(c))]
    /\ Goto(front(c), "forward")
    /\ UNCHANGED <<serverVars, fds, listen, asked, ended, reply, faults>>

Forward(c) ==
    /\ child[front(c)] = "forward"
    /\ asked' = asked \cup {back(c)}
    /\ Goto(front(c), "relay")
    /\ UNCHANGED <<serverVars, netVars, ended, reply, faults>>

\* send() may find the connection reset.
ForwardFails(c) ==
    /\ child[front(c)] = "forward" /\ Closed(back(c))
    /\ ended' = ended \cup {back(c)}
    /\ Goto(front(c), "exit")
    /\ UNCHANGED <<serverVars, netVars, asked, reply, faults>>

\* pipe_until_eof: what the backend sent goes to the client.
Relay(c) ==
    /\ child[front(c)] = "relay" /\ reply[back(c)] # None /\ reply[front(c)] = None
    /\ front(c) \notin ended
    /\ reply' = [reply EXCEPT ![front(c)] = reply[back(c)]]
    /\ UNCHANGED <<serverVars, child, netVars, asked, ended, faults>>

\* It returns at the backend's end of file, or when the client has left.
RelayEnds(c) ==
    /\ child[front(c)] = "relay"
    /\ \/ Closed(back(c)) /\ reply[back(c)] = reply[front(c)]
       \/ front(c) \in ended /\ (Closed(back(c)) \/ reply[back(c)] # None)
    /\ ended' = ended \cup {back(c)}
    /\ Goto(front(c), "exit")
    /\ UNCHANGED <<serverVars, netVars, asked, reply, faults>>

-----------------------------------------------------------------------------
(* Backends that die and are started again (external)                      *)

KillParent(b) ==
    /\ parent[b] # "dead" /\ faults < MaxFaults
    /\ fds' = [l \in Links |-> fds[l] \ {main(b)}]
    /\ CloseListener(b, main(b))
    /\ parent' = [parent EXCEPT ![b] = "dead"]
    /\ conn' = [conn EXCEPT ![b] = None]
    /\ faults' = faults + 1
    /\ UNCHANGED <<rr, idx, child, asked, ended, reply>>

KillChild(l) ==
    /\ child[l] \in {"start", "read", "answer", "exit"} /\ faults < MaxFaults
    /\ fds' = [m \in Links |-> fds[m] \ {l}]
    /\ CloseListener(ServerOf(l), l)
    /\ Goto(l, "done")
    /\ faults' = faults + 1
    /\ UNCHANGED <<serverVars, asked, ended, reply>>

\* bind() fails for as long as a child of the old one has the listener open.
Restart(b) ==
    /\ parent[b] = "dead" /\ listen[b] = {}
    /\ parent' = [parent EXCEPT ![b] = "accept"]
    /\ listen' = [listen EXCEPT ![b] = {main(b)}]
    /\ UNCHANGED <<rr, idx, conn, child, queue, fds, asked, ended, reply, faults>>

-----------------------------------------------------------------------------
ParentStep(s) == ParentAccept(s) \/ Fork(s) \/ ForkFails(s) \/ ParentClose(s)

ChildStep(l) == ChildStart(l) \/ ChildRead(l) \/ ChildReadNothing(l) \/ ChildExit(l)

Proxy(c) ==
    \/ DialRefused(c) \/ Dial(c) \/ Forward(c) \/ ForwardFails(c)
    \/ Relay(c) \/ RelayEnds(c)

ForkNext ==
    \/ \E c \in Clients : ClientConnect(c) \/ ClientSend(c) \/ ClientLeaves(c)
    \/ \E s \in Servers : ParentStep(s)
    \/ \E l \in Links : ChildStep(l)
    \/ \E l \in Backs : Answer(l) \/ KillChild(l)
    \/ \E c \in Clients : Proxy(c)
    \/ \E b \in Backends : KillParent(b) \/ Restart(b)

ForkSpec == ForkInit /\ [][ForkNext]_forkVars

\* Every process that can go on is scheduled; a client reads to the end.
ForkFairness ==
    /\ \A s \in Servers : WF_forkVars(ParentStep(s))
    /\ \A l \in Links : WF_forkVars(ChildStep(l))
    /\ \A l \in Backs : WF_forkVars(Answer(l))
    /\ \A c \in Clients : WF_forkVars(Proxy(c)) /\ WF_forkVars(ClientSeesEnd(c))

-----------------------------------------------------------------------------
(* Properties                                                              *)

Rot == INSTANCE Rotation WITH
    Pickers <- Clients, healthy <- [i \in Backends |-> TRUE], picked <- idx

\* 05-round-robin.md ("Expect: A, B, C, A, B, C"): however the forked children
\* interleave, the connections are handed out in turn.
ForkRotation == Rot!Spec

\* 02-concurrency.md ("Each closes the copy it doesn't use, or the connection
\* never fully closes."): a client that sent its request sees the end of its
\* connection, even if a fork fails or a backend process dies under it.  (A client
\* asks once, so that all who asked are through again and again.)
ConnectionCloses == []<>(asked \cap Fronts \subseteq ended)

\* With no fork failed and nothing killed, the end comes only after the answer
\* of the backend whose turn it was, whichever process closes its copy first.
AnsweredByTurn ==
    \A c \in Clients :
        Closed(front(c)) /\ front(c) \in asked /\ front(c) \notin ended /\ idx[c] # None
            /\ faults = 0 => reply[front(c)] = idx[c]
=============================================================================
