---------------------------- MODULE LoadBalancer ----------------------------
(***************************************************************************)
(* The load balancer (5. load balancer/theories/lessons/lb.c): an accept   *)
(* loop that gives every connection a thread (handle), a thread that       *)
(* checks the backends for ever (health_loop), and the rotation they share *)
(* under one mutex.                                                        *)
(*                                                                         *)
(* The backends and the clients are the environment: a backend is "up",    *)
(* "sick" (it answers, but not with 200), "down" (it refuses and breaks    *)
(* connections) or "hung" (it accepts and never answers), and changes at   *)
(* any time.  A worker is a slot for one connection at a time.             *)
(***************************************************************************)
EXTENDS Integers

CONSTANTS
    N,           \* n_backends
    Workers,     \* connection slots
    Conditions,  \* what each backend may be
    Health,      \* the health-checking thread
    NULL         \* no owner

ASSUME NAssumption == N \in Nat \ {0}
ASSUME ThreadAssumption == Health \notin Workers /\ NULL \notin Workers /\ NULL # Health
ASSUME ConditionAssumption ==
    Conditions \in [0 .. N - 1 -> SUBSET {"up", "sick", "down", "hung"}]

VARIABLES
    cond,       \* the state of each backend
    healthy,    \* backends[i].healthy
    rr,         \* the round-robin cursor
    lock,       \* owner of the mutex
    hpc, hi, hup,   \* health_loop: where it is, its i, its up
    pc,         \* where each worker is
    tries,      \* t, the loop counter of pick_healthy
    idx,        \* the backend picked, or -1
    conn,       \* the client's connection: "none", "open", "gone"
    back,       \* the backend's connection: "closed", "open", "broken"
    reply       \* what the client has been sent

healthVars == <<hpc, hi, hup>>
workVars   == <<pc, tries, idx, conn, back, reply>>
vars       == <<cond, healthy, rr, lock, healthVars, workVars>>

Backends == 0 .. N - 1

\* Every variable has its type; in particular rr never leaves the table.
TypeOK ==
    /\ cond \in [Backends -> {"up", "sick", "down", "hung"}]
    /\ healthy \in [Backends -> BOOLEAN]
    /\ rr \in Backends
    /\ lock \in Workers \cup {Health, NULL}
    /\ hpc \in {"dial", "read", "cut", "lock", "mark", "unlock", "sleep"}
    /\ hi \in Backends
    /\ hup \in BOOLEAN
    /\ pc \in [Workers -> {"idle", "read", "lock", "pick", "unlock", "dial",
                           "forward", "pipe"}]
    /\ tries \in [Workers -> 0 .. N]
    /\ idx \in [Workers -> Backends \cup {-1}]
    /\ conn \in [Workers -> {"none", "open", "gone"}]
    /\ back \in [Workers -> {"closed", "open", "broken"}]
    /\ reply \in [Workers -> {"none", "502", "response"}]

\* add_backend assumes a backend is up until the first health pass.
Init ==
    /\ cond \in [Backends -> {"up", "sick", "down", "hung"}]
    /\ \A i \in Backends : cond[i] \in Conditions[i]
    /\ healthy = [i \in Backends |-> TRUE]
    /\ rr = 0
    /\ lock = NULL
    /\ hpc = "dial" /\ hi = 0 /\ hup = FALSE
    /\ pc = [w \in Workers |-> "idle"]
    /\ tries = [w \in Workers |-> 0]
    /\ idx = [w \in Workers |-> -1]
    /\ conn = [w \in Workers |-> "none"]
    /\ back = [w \in Workers |-> "closed"]
    /\ reply = [w \in Workers |-> "none"]

-----------------------------------------------------------------------------
(* The environment (external)                                              *)

\* A backend that goes down breaks its connections, for good.
BackendChanges(i) ==
    /\ \E c \in Conditions[i] :
          /\ cond' = [cond EXCEPT ![i] = c]
          /\ back' = [w \in Workers |-> IF c = "down" /\ idx[w] = i /\ back[w] = "open"
                                        THEN "broken" ELSE back[w]]
          /\ hpc' = IF c = "down" /\ hi = i /\ hpc = "read" THEN "cut" ELSE hpc
    /\ UNCHANGED <<healthy, rr, lock, hi, hup, pc, tries, idx, conn, reply>>

ClientLeaves(w) ==
    /\ conn[w] = "open"
    /\ conn' = [conn EXCEPT ![w] = "gone"]
    /\ UNCHANGED <<cond, healthy, rr, lock, healthVars, pc, tries, idx, back, reply>>

-----------------------------------------------------------------------------
(* health_loop and check_health                                            *)

\* dial() is refused: the backend is not up.
HealthDial ==
    /\ hpc = "dial"
    /\ hpc' = IF cond[hi] = "down" THEN "lock" ELSE "read"
    /\ hup' = FALSE
    /\ UNCHANGED <<cond, healthy, rr, lock, hi, workVars>>

\* read() returns the status line, or the end of a broken connection; it has no
\* timeout, so it waits for as long as the backend is hung.  A status line that
\* comes in two reads, or another " 200 " in the first, is not modelled.
HealthRead ==
    /\ \/ hpc = "read" /\ cond[hi] # "hung" /\ hup' = (cond[hi] = "up")
       \/ hpc = "cut" /\ hup' = FALSE
    /\ hpc' = "lock"
    /\ UNCHANGED <<cond, healthy, rr, lock, hi, workVars>>

\* The mark made without waiting for the mutex.
HealthLockFree ==
    /\ hpc = "lock"
    /\ hpc' = "mark"
    /\ UNCHANGED <<cond, healthy, rr, lock, hi, hup, workVars>>

HealthLock ==
    /\ hpc = "lock" /\ lock = NULL
    /\ lock' = Health
    /\ hpc' = "mark"
    /\ UNCHANGED <<cond, healthy, rr, hi, hup, workVars>>

\* A check that only ever takes backends out of the rotation.
HealthMarkDown ==
    /\ hpc = "mark"
    /\ healthy' = [healthy EXCEPT ![hi] = @ /\ hup]
    /\ hpc' = "unlock"
    /\ UNCHANGED <<cond, rr, lock, hi, hup, workVars>>

HealthMark ==
    /\ hpc = "mark"
    /\ healthy' = [healthy EXCEPT ![hi] = hup]
    /\ hpc' = "unlock"
    /\ UNCHANGED <<cond, rr, lock, hi, hup, workVars>>

HealthUnlock ==
    /\ hpc = "unlock"
    /\ lock' = NULL
    /\ hpc' = IF hi + 1 < N THEN "dial" ELSE "sleep"
    /\ hi' = IF hi + 1 < N THEN hi + 1 ELSE 0
    /\ UNCHANGED <<cond, healthy, rr, hup, workVars>>

HealthSleep ==
    /\ hpc = "sleep"
    /\ hpc' = "dial"
    /\ UNCHANGED <<cond, healthy, rr, lock, hi, hup, workVars>>

HealthStep ==
    HealthDial \/ HealthRead \/ HealthLock \/ HealthMark \/ HealthUnlock \/ HealthSleep

-----------------------------------------------------------------------------
(* main's accept loop, and handle                                          *)

Goto(w, label) == pc' = [pc EXCEPT ![w] = label]

\* A connection is accepted and gets its thread.  (If pthread_create fails,
\* main closes the connection again: nothing of this state changes.)
Accept(w) ==
    /\ pc[w] = "idle"
    /\ conn' = [conn EXCEPT ![w] = "open"]
    /\ reply' = [reply EXCEPT ![w] = "none"]
    /\ Goto(w, "read")
    /\ UNCHANGED <<cond, healthy, rr, lock, healthVars, tries, idx, back>>

\* The thread returns: the locals go, the descriptors were closed.
End(w) ==
    /\ conn' = [conn EXCEPT ![w] = "none"]
    /\ back' = [back EXCEPT ![w] = "closed"]
    /\ idx' = [idx EXCEPT ![w] = -1]
    /\ tries' = [tries EXCEPT ![w] = 0]
    /\ Goto(w, "idle")

\* The request arrives; its client may have left since it sent it.
ReadRequest(w) ==
    /\ pc[w] = "read"
    /\ Goto(w, "lock")
    /\ UNCHANGED <<cond, healthy, rr, lock, healthVars, tries, idx, conn, back, reply>>

\* reqlen <= 0: the client left without a request.
ReadNothing(w) ==
    /\ pc[w] = "read" /\ conn[w] = "gone"
    /\ End(w)
    /\ UNCHANGED <<cond, healthy, rr, lock, healthVars, reply>>

(* pick_healthy                                                            *)

\* The rotation walked without the mutex.
PickLockFree(w) ==
    /\ pc[w] = "lock"
    /\ tries' = [tries EXCEPT ![w] = 0]
    /\ Goto(w, "pick")
    /\ UNCHANGED <<cond, healthy, rr, lock, healthVars, idx, conn, back, reply>>

PickLock(w) ==
    /\ pc[w] = "lock" /\ lock = NULL
    /\ lock' = w
    /\ tries' = [tries EXCEPT ![w] = 0]
    /\ Goto(w, "pick")
    /\ UNCHANGED <<cond, healthy, rr, healthVars, idx, conn, back, reply>>

\* The walk that starts at the first backend every time.
PickTryFirst(w) ==
    /\ pc[w] = "pick" /\ tries[w] < N
    /\ IF healthy[tries[w]]
       THEN /\ idx' = [idx EXCEPT ![w] = tries[w]]
            /\ Goto(w, "unlock")
            /\ UNCHANGED tries
       ELSE /\ tries' = [tries EXCEPT ![w] = @ + 1]
            /\ UNCHANGED <<pc, idx>>
    /\ UNCHANGED <<cond, healthy, rr, lock, healthVars, conn, back, reply>>

\* One turn of the loop: take the cursor, advance it, stop if healthy.
PickTry(w) ==
    /\ pc[w] = "pick" /\ tries[w] < N
    /\ rr' = (rr + 1) % N
    /\ IF healthy[rr]
       THEN /\ idx' = [idx EXCEPT ![w] = rr]
            /\ Goto(w, "unlock")
            /\ UNCHANGED tries
       ELSE /\ tries' = [tries EXCEPT ![w] = @ + 1]
            /\ UNCHANGED <<pc, idx>>
    /\ UNCHANGED <<cond, healthy, lock, healthVars, conn, back, reply>>

\* One turn too few.
PickGiveUpEarly(w) ==
    /\ pc[w] = "pick" /\ tries[w] = N - 1
    /\ Goto(w, "unlock")
    /\ UNCHANGED <<cond, healthy, rr, lock, healthVars, tries, idx, conn, back, reply>>

PickGiveUp(w) ==
    /\ pc[w] = "pick" /\ tries[w] = N
    /\ Goto(w, "unlock")
    /\ UNCHANGED <<cond, healthy, rr, lock, healthVars, tries, idx, conn, back, reply>>

\* pick_healthy returning with the mutex held.
PickKeepsLock(w) ==
    /\ pc[w] = "unlock"
    /\ Goto(w, "dial")
    /\ UNCHANGED <<cond, healthy, rr, lock, healthVars, tries, idx, conn, back, reply>>

PickUnlock(w) ==
    /\ pc[w] = "unlock"
    /\ lock' = NULL
    /\ Goto(w, "dial")
    /\ UNCHANGED <<cond, healthy, rr, healthVars, tries, idx, conn, back, reply>>

(* ... and the rest of handle                                              *)

\* send_502 reaches a client that is still there.
Send502(w) ==
    reply' = [reply EXCEPT ![w] = IF conn[w] = "open" THEN "502" ELSE @]

NoBackend(w) ==
    /\ pc[w] = "dial" /\ idx[w] = -1
    /\ Send502(w)
    /\ End(w)
    /\ UNCHANGED <<cond, healthy, rr, lock, healthVars>>

\* dial() failing without send_502.
DialRefusedSilent(w) ==
    /\ pc[w] = "dial" /\ idx[w] # -1 /\ cond[idx[w]] = "down"
    /\ End(w)
    /\ UNCHANGED <<cond, healthy, rr, lock, healthVars, reply>>

DialRefused(w) ==
    /\ pc[w] = "dial" /\ idx[w] # -1 /\ cond[idx[w]] = "down"
    /\ Send502(w)
    /\ End(w)
    /\ UNCHANGED <<cond, healthy, rr, lock, healthVars>>

Dial(w) ==
    /\ pc[w] = "dial" /\ idx[w] # -1 /\ cond[idx[w]] # "down"
    /\ back' = [back EXCEPT ![w] = "open"]
    /\ Goto(w, "forward")
    /\ UNCHANGED <<cond, healthy, rr, lock, healthVars, tries, idx, conn, reply>>

Forward(w) ==
    /\ pc[w] = "forward"
    /\ Goto(w, "pipe")
    /\ UNCHANGED <<cond, healthy, rr, lock, healthVars, tries, idx, conn, back, reply>>

\* The early return of handle that leaves the backend's descriptor open.
ForwardFailsLeak(w) ==
    /\ pc[w] = "forward" /\ back[w] = "broken"
    /\ conn' = [conn EXCEPT ![w] = "none"]
    /\ idx' = [idx EXCEPT ![w] = -1]
    /\ tries' = [tries EXCEPT ![w] = 0]
    /\ Goto(w, "idle")
    /\ UNCHANGED <<cond, healthy, rr, lock, healthVars, back, reply>>

\* send() fails on a broken connection: both descriptors are closed and the
\* client gets no answer.
ForwardFails(w) ==
    /\ pc[w] = "forward" /\ back[w] = "broken"
    /\ End(w)
    /\ UNCHANGED <<cond, healthy, rr, lock, healthVars, reply>>

\* pipe_until_eof: the answer is relayed up to the backend's end of file, to a
\* client that goes on reading.
PipeResponse(w) ==
    /\ pc[w] = "pipe" /\ back[w] = "open" /\ conn[w] = "open"
    /\ cond[idx[w]] \in {"up", "sick"}
    /\ reply' = [reply EXCEPT ![w] = "response"]
    /\ End(w)
    /\ UNCHANGED <<cond, healthy, rr, lock, healthVars>>

\* It ends early: the backend broke the connection, or the client left and
\* the relayed answer cannot be sent.
PipeCut(w) ==
    /\ pc[w] = "pipe"
    /\ back[w] = "broken" \/ (cond[idx[w]] \in {"up", "sick"} /\ conn[w] = "gone")
    /\ End(w)
    /\ UNCHANGED <<cond, healthy, rr, lock, healthVars, reply>>

\* What the thread of w does by itself: all but waiting for the client's
\* request, and for the mutex.
Handle(w) ==
    \/ ReadNothing(w)
    \/ PickTry(w) \/ PickGiveUp(w) \/ PickUnlock(w)
    \/ NoBackend(w) \/ DialRefused(w) \/ Dial(w)
    \/ Forward(w) \/ ForwardFails(w) \/ PipeResponse(w) \/ PipeCut(w)

Next ==
    \/ \E i \in Backends : BackendChanges(i)
    \/ \E w \in Workers : \/ ClientLeaves(w) \/ Accept(w) \/ ReadRequest(w)
                        \/ PickLock(w) \/ Handle(w)
    \/ HealthStep

Spec == Init /\ [][Next]_vars

\* The scheduler runs every thread that can go on.  Nobody keeps the mutex,
\* but a waiter may be overtaken again and again: only a fair mutex (strong
\* fairness) rules that out, and the progress properties assume it.
FairSpec ==
    /\ Spec
    /\ WF_vars(HealthStep) /\ SF_vars(HealthLock)
    /\ \A w \in Workers : WF_vars(Handle(w)) /\ SF_vars(PickLock(w))

-----------------------------------------------------------------------------
(* Properties                                                              *)

\* The mutex has one owner, which is inside pick_healthy or marking a backend.
LockOwned ==
    /\ \A w \in Workers : pc[w] \in {"pick", "unlock"} <=> lock = w
    /\ hpc \in {"mark", "unlock"} <=> lock = Health

\* pick_healthy ("round-robin over healthy backends; returns index or -1"):
\* what it returns is healthy, and it gives up only when nothing is healthy.
PickCorrect ==
    \A w \in Workers : pc[w] = "unlock" =>
        IF idx[w] # -1 THEN healthy[idx[w]] ELSE \A i \in Backends : ~healthy[i]

\* The cursor a walk began at, while one is under way.
WalkStart ==
    IF lock \in Workers /\ pc[lock] = "pick" THEN (rr - tries[lock]) % N ELSE rr

Rot == INSTANCE Rotation WITH
    Pickers <- Workers, None <- NULL, rr <- WalkStart,
    picked <- [w \in Workers |->
                  IF pc[w] \in {"idle", "read", "lock", "pick"} THEN NULL ELSE idx[w]]

\* pick_healthy's walk over the table and the marks of health_loop are steps of
\* several threads, yet every connection gets the backend that one indivisible
\* pick would have given it: the first one marked healthy from the cursor on.
RotationAtomic == Rot!Spec

\* Every way out of handle closes what it opened.
NoDescriptorLeak ==
    \A w \in Workers :
        /\ pc[w] = "idle" => conn[w] = "none"
        /\ back[w] # "closed" <=> pc[w] \in {"forward", "pipe"}

\* A client that stays gets an answer, unless its backend broke the connection
\* after it had accepted it.
AnsweredOrBroken ==
    [][\A w \in Workers :
          pc[w] # "idle" /\ pc'[w] = "idle" /\ conn[w] = "open" =>
              reply'[w] # "none" \/ back[w] = "broken"]_vars

\* One backend that is up throughout is enough for pick_healthy to find one.
OneUpSuffices ==
    \A i \in Backends :
        [](cond[i] = "up") => [](\A w \in Workers : pc[w] = "dial" => idx[w] # -1)

\* 06-health-checks.md:13-14: a backend that stays bad leaves the rotation, one
\* that recovers for good is back in it for good.
HealthConverges ==
    \A i \in Backends :
        /\ <>[](cond[i] \in {"down", "sick"}) => <>[](~healthy[i])
        /\ <>[](cond[i] = "up") => <>[](healthy[i])

\* No healthy backend is passed over for ever while requests keep coming.
NoStarvation ==
    \A i \in Backends :
        <>[](healthy[i]) /\ []<>(\E w \in Workers : pc[w] = "dial") =>
            []<>(\E w \in Workers : pc[w] = "dial" /\ idx[w] = i)

\* Every connection whose request has been read is finished with, whatever its
\* backend does short of hanging.  (A client that never sends keeps its thread;
\* one that stops reading would too: those of the model read on or leave.)
ConnectionEnds == \A w \in Workers : pc[w] \notin {"idle", "read"} ~> pc[w] = "idle"

\* 06-health-checks.md:13 ("Refused / timeout / non-200 -> unhealthy -> drop from
\* rotation."): a backend that accepts and never answers is dropped.
HungDropped ==
    \A i \in Backends : <>[](cond[i] = "hung") => <>[](~healthy[i])
=============================================================================
