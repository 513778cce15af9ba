------------------------- MODULE LoadBalancerProofs -------------------------
(***************************************************************************)
(* For any number of backends and of concurrent requests: the mutex is     *)
(* respected, pick_healthy returns a healthy backend whenever there is one *)
(* and its walks look like single steps of a round robin, and handle ends  *)
(* no connection without an answer or with a descriptor open.              *)
(***************************************************************************)
EXTENDS LoadBalancer, TLAPS

\* The tries made so far went over the backends just behind the cursor, around
\* the end of the table, and found none of them healthy.
PickInv ==
    \A w \in Workers :
        /\ pc[w] \in {"idle", "read", "lock", "pick"} => idx[w] = -1
        /\ pc[w] = "pick" =>
              \A i \in Backends :
                 \/ i < rr /\ i >= rr - tries[w]
                 \/ i >= rr - tries[w] + N
                 => ~healthy[i]
        /\ pc[w] = "unlock" =>
              IF idx[w] # -1 THEN healthy[idx[w]] ELSE \A i \in Backends : ~healthy[i]

Inv == TypeOK /\ LockOwned /\ PickInv

USE DEF Backends

\* Advancing the cursor, as the code writes it.
LEMMA Advance ==
    ASSUME NEW r \in Backends
    PROVE  (r + 1) % N = IF r + 1 = N THEN 0 ELSE r + 1
  BY NAssumption

\* All backends are taken for healthy, the cursor is 0 and nobody walks.
LEMMA InitInv == Init => Inv
<1> SUFFICES ASSUME Init PROVE Inv
    OBVIOUS
<1>1. TypeOK
  <2>1. cond \in [Backends -> {"up", "sick", "down", "hung"}]
    BY ConditionAssumption DEF Init
  <2>2. 0 \in Backends /\ 0 \in 0 .. N
    BY NAssumption
  <2> QED
    BY <2>1, <2>2 DEF Init, TypeOK
<1>2. LockOwned
    BY ThreadAssumption DEF Init, LockOwned
<1>3. PickInv
    BY DEF Init, PickInv
<1> QED
    BY <1>1, <1>2, <1>3 DEF Inv

\* A step that touches neither the rotation nor the mutex, and leaves every
\* worker out of pick_healthy where it is or outside.
Neutral ==
    /\ UNCHANGED <<healthy, rr, lock>>
    /\ hpc \in {"mark", "unlock"} <=> hpc' \in {"mark", "unlock"}
    /\ \A w \in Workers :
          \/ /\ UNCHANGED <<pc[w], tries[w], idx[w]>>
          \/ /\ pc[w] \notin {"pick", "unlock"} /\ pc'[w] \notin {"pick", "unlock"}
             /\ pc'[w] \in {"idle", "read", "lock"} => idx'[w] = -1

\* Such a step preserves the invariant once the types are known.
LEMMA NeutralInv ==
    ASSUME Inv, TypeOK', Neutral
    PROVE  Inv'
<1>1. LockOwned'
    BY DEF Inv, LockOwned, Neutral
<1>2. PickInv'
    BY DEF Inv, PickInv, Neutral
<1> QED
    BY <1>1, <1>2 DEF Inv

\* A backend changes by itself; its flag stays until a check.
LEMMA BackendChangesInv ==
    ASSUME Inv, NEW i \in Backends, BackendChanges(i)
    PROVE  Inv'
<1>1. TypeOK'
  <2>1. PICK c \in Conditions[i] :
           /\ cond' = [cond EXCEPT ![i] = c]
           /\ back' = [w \in Workers |-> IF c = "down" /\ idx[w] = i /\ back[w] = "open"
                                         THEN "broken" ELSE back[w]]
           /\ hpc' = IF c = "down" /\ hi = i /\ hpc = "read" THEN "cut" ELSE hpc
    BY DEF BackendChanges
  <2>2. c \in {"up", "sick", "down", "hung"}
    BY ConditionAssumption
  <2>3. cond' \in [Backends -> {"up", "sick", "down", "hung"}]
    BY <2>1, <2>2 DEF Inv, TypeOK
  <2>4. back' \in [Workers -> {"closed", "open", "broken"}]
    BY <2>1 DEF Inv, TypeOK
  <2> QED
    BY <2>1, <2>3, <2>4 DEF Inv, TypeOK, BackendChanges
<1>2. Neutral
    BY DEF Inv, TypeOK, PickInv, Neutral, BackendChanges, healthVars, workVars
<1> QED
    BY <1>1, <1>2, NeutralInv

\* A client leaving concerns its own connection only.
LEMMA ClientLeavesInv ==
    ASSUME Inv, NEW w \in Workers, ClientLeaves(w)
    PROVE  Inv'
<1>1. TypeOK'
    BY DEF Inv, TypeOK, ClientLeaves, Goto, healthVars, workVars
<1>2. Neutral
    BY DEF Inv, TypeOK, PickInv, Neutral, ClientLeaves, Goto, healthVars, workVars
<1> QED
    BY <1>1, <1>2, NeutralInv

\* check_health dials without the mutex.
LEMMA HealthDialInv ==
    ASSUME Inv, HealthDial
    PROVE  Inv'
<1>1. TypeOK'
    BY DEF Inv, TypeOK, HealthDial, healthVars, workVars
<1>2. Neutral
    BY DEF Inv, TypeOK, PickInv, Neutral, HealthDial, healthVars, workVars
<1> QED
    BY <1>1, <1>2, NeutralInv

\* check_health reads the answer without the mutex.
LEMMA HealthReadInv ==
    ASSUME Inv, HealthRead
    PROVE  Inv'
<1>1. TypeOK'
    BY DEF Inv, TypeOK, HealthRead, healthVars, workVars
<1>2. Neutral
    BY DEF Inv, TypeOK, PickInv, Neutral, HealthRead, healthVars, workVars
<1> QED
    BY <1>1, <1>2, NeutralInv

\* health_loop moves to the next backend, or sleeps, without the mutex.
LEMMA HealthSleepInv ==
    ASSUME Inv, HealthSleep
    PROVE  Inv'
<1>1. TypeOK'
    BY DEF Inv, TypeOK, HealthSleep, healthVars, workVars
<1>2. Neutral
    BY DEF Inv, TypeOK, PickInv, Neutral, HealthSleep, healthVars, workVars
<1> QED
    BY <1>1, <1>2, NeutralInv

\* main starts a thread for a connection.
LEMMA AcceptInv ==
    ASSUME Inv, NEW w \in Workers, Accept(w)
    PROVE  Inv'
<1>1. TypeOK'
    BY DEF Inv, TypeOK, Accept, Goto, healthVars, workVars
<1>2. Neutral
    BY DEF Inv, TypeOK, PickInv, Neutral, Accept, Goto, healthVars, workVars
<1> QED
    BY <1>1, <1>2, NeutralInv

\* handle has read the request and goes on to pick_healthy.
LEMMA ReadRequestInv ==
    ASSUME Inv, NEW w \in Workers, ReadRequest(w)
    PROVE  Inv'
<1>1. TypeOK'
    BY DEF Inv, TypeOK, ReadRequest, Goto, healthVars, workVars
<1>2. Neutral
    BY DEF Inv, TypeOK, PickInv, Neutral, ReadRequest, Goto, healthVars, workVars
<1> QED
    BY <1>1, <1>2, NeutralInv

\* handle ends when nothing was read.
LEMMA ReadNothingInv ==
    ASSUME Inv, NEW w \in Workers, ReadNothing(w)
    PROVE  Inv'
<1>1. TypeOK'
    BY NAssumption DEF Inv, TypeOK, ReadNothing, Goto, End, healthVars, workVars
<1>2. Neutral
    BY DEF Inv, TypeOK, PickInv, Neutral, ReadNothing, Goto, End, healthVars, workVars
<1> QED
    BY <1>1, <1>2, NeutralInv

\* handle answers 502 when pick_healthy returned -1.
LEMMA NoBackendInv ==
    ASSUME Inv, NEW w \in Workers, NoBackend(w)
    PROVE  Inv'
<1>1. TypeOK'
    BY NAssumption DEF Inv, TypeOK, NoBackend, Goto, Send502, End, healthVars, workVars
<1>2. Neutral
    BY DEF Inv, TypeOK, PickInv, Neutral, NoBackend, Goto, Send502, End, healthVars, workVars
<1> QED
    BY <1>1, <1>2, NeutralInv

\* handle answers 502 when the backend refuses.
LEMMA DialRefusedInv ==
    ASSUME Inv, NEW w \in Workers, DialRefused(w)
    PROVE  Inv'
<1>1. TypeOK'
    BY NAssumption DEF Inv, TypeOK, DialRefused, Goto, Send502, End, healthVars, workVars
<1>2. Neutral
    BY DEF Inv, TypeOK, PickInv, Neutral, DialRefused, Goto, Send502, End, healthVars, workVars
<1> QED
    BY <1>1, <1>2, NeutralInv

\* handle has connected to the backend.
LEMMA DialInv ==
    ASSUME Inv, NEW w \in Workers, Dial(w)
    PROVE  Inv'
<1>1. TypeOK'
    BY DEF Inv, TypeOK, Dial, Goto, healthVars, workVars
<1>2. Neutral
    BY DEF Inv, TypeOK, PickInv, Neutral, Dial, Goto, healthVars, workVars
<1> QED
    BY <1>1, <1>2, NeutralInv

\* handle has sent the request on.
LEMMA ForwardInv ==
    ASSUME Inv, NEW w \in Workers, Forward(w)
    PROVE  Inv'
<1>1. TypeOK'
    BY DEF Inv, TypeOK, Forward, Goto, healthVars, workVars
<1>2. Neutral
    BY DEF Inv, TypeOK, PickInv, Neutral, Forward, Goto, healthVars, workVars
<1> QED
    BY <1>1, <1>2, NeutralInv

\* handle ends when the request cannot be sent on.
LEMMA ForwardFailsInv ==
    ASSUME Inv, NEW w \in Workers, ForwardFails(w)
    PROVE  Inv'
<1>1. TypeOK'
    BY NAssumption DEF Inv, TypeOK, ForwardFails, Goto, End, healthVars, workVars
<1>2. Neutral
    BY DEF Inv, TypeOK, PickInv, Neutral, ForwardFails, Goto, End, healthVars, workVars
<1> QED
    BY <1>1, <1>2, NeutralInv

\* handle has relayed the answer.
LEMMA PipeResponseInv ==
    ASSUME Inv, NEW w \in Workers, PipeResponse(w)
    PROVE  Inv'
<1>1. TypeOK'
    BY NAssumption DEF Inv, TypeOK, PipeResponse, Goto, End, healthVars, workVars
<1>2. Neutral
    BY DEF Inv, TypeOK, PickInv, Neutral, PipeResponse, Goto, End, healthVars, workVars
<1> QED
    BY <1>1, <1>2, NeutralInv

\* handle ends when the relay breaks.
LEMMA PipeCutInv ==
    ASSUME Inv, NEW w \in Workers, PipeCut(w)
    PROVE  Inv'
<1>1. TypeOK'
    BY NAssumption DEF Inv, TypeOK, PipeCut, Goto, End, healthVars, workVars
<1>2. Neutral
    BY DEF Inv, TypeOK, PickInv, Neutral, PipeCut, Goto, End, healthVars, workVars
<1> QED
    BY <1>1, <1>2, NeutralInv

-----------------------------------------------------------------------------
(* The steps that take, hold or release the mutex                          *)

\* health_loop takes the mutex: no worker is inside pick_healthy.
LEMMA HealthLockInv ==
    ASSUME Inv, HealthLock
    PROVE  Inv'
<1>1. TypeOK'
    BY DEF Inv, TypeOK, HealthLock, healthVars, workVars
<1>2. LockOwned'
    BY ThreadAssumption DEF Inv, TypeOK, LockOwned, HealthLock, healthVars, workVars
<1>3. PickInv'
    BY DEF Inv, TypeOK, LockOwned, PickInv, HealthLock, healthVars, workVars
<1> QED
    BY <1>1, <1>2, <1>3 DEF Inv

\* A flag changes while no worker is inside pick_healthy.
LEMMA HealthMarkInv ==
    ASSUME Inv, HealthMark
    PROVE  Inv'
<1>1. TypeOK'
    BY DEF Inv, TypeOK, HealthMark, healthVars, workVars
<1>2. LockOwned'
    BY DEF Inv, TypeOK, LockOwned, HealthMark, healthVars, workVars
<1>3. PickInv'
    BY ThreadAssumption DEF Inv, TypeOK, LockOwned, PickInv, HealthMark, healthVars, workVars
<1> QED
    BY <1>1, <1>2, <1>3 DEF Inv

\* health_loop gives the mutex back.
LEMMA HealthUnlockInv ==
    ASSUME Inv, HealthUnlock
    PROVE  Inv'
<1>1. TypeOK'
    BY NAssumption DEF Inv, TypeOK, HealthUnlock, healthVars, workVars
<1>2. LockOwned'
    BY ThreadAssumption DEF Inv, TypeOK, LockOwned, HealthUnlock, healthVars, workVars
<1>3. PickInv'
    BY DEF Inv, TypeOK, LockOwned, PickInv, HealthUnlock, healthVars, workVars
<1> QED
    BY <1>1, <1>2, <1>3 DEF Inv

\* pick_healthy takes the mutex; it has passed no backend yet.
LEMMA PickLockInv ==
    ASSUME Inv, NEW w \in Workers, PickLock(w)
    PROVE  Inv'
<1>1. TypeOK'
    BY NAssumption DEF Inv, TypeOK, PickLock, Goto, healthVars, workVars
<1>2. LockOwned'
    BY ThreadAssumption DEF Inv, TypeOK, LockOwned, PickLock, Goto, healthVars, workVars
<1>3. PickInv'
    BY NAssumption DEF Inv, TypeOK, LockOwned, PickInv, PickLock, Goto, healthVars, workVars
<1> QED
    BY <1>1, <1>2, <1>3 DEF Inv

\* One turn of pick_healthy: the backend at the cursor is returned if it is
\* healthy, and otherwise joins the ones passed.
LEMMA PickTryInv ==
    ASSUME Inv, NEW w \in Workers, PickTry(w)
    PROVE  Inv'
<1>1. /\ rr \in Backends
      /\ rr' = IF rr + 1 = N THEN 0 ELSE rr + 1
    BY Advance DEF Inv, TypeOK, PickTry
<1>2. rr' \in Backends
    BY <1>1, NAssumption
<1>3. /\ tries[w] \in 0 .. N /\ tries[w] < N /\ pc[w] = "pick" /\ idx[w] = -1
      /\ UNCHANGED <<cond, healthy, lock, healthVars, conn, back, reply>>
    BY DEF Inv, TypeOK, PickInv, PickTry
<1>4. \A u \in Workers \ {w} : pc[u] \notin {"pick", "unlock"}
    BY <1>3 DEF Inv, LockOwned
<1>5. CASE healthy[rr]
  <2>1. idx' = [idx EXCEPT ![w] = rr] /\ pc' = [pc EXCEPT ![w] = "unlock"] /\ UNCHANGED tries
    BY <1>5 DEF PickTry, Goto
  <2>2. TypeOK'
    BY <1>1, <1>2, <1>3, <2>1 DEF Inv, TypeOK, healthVars
  <2>3. LockOwned'
    BY <1>3, <2>1 DEF Inv, TypeOK, LockOwned, healthVars
  <2>4. PickInv'
    BY <1>1, <1>3, <1>4, <1>5, <2>1 DEF Inv, TypeOK, PickInv
  <2> QED
    BY <2>2, <2>3, <2>4 DEF Inv
<1>6. CASE ~healthy[rr]
  <2>1. tries' = [tries EXCEPT ![w] = tries[w] + 1] /\ UNCHANGED <<pc, idx>>
    BY <1>6 DEF PickTry
  <2>2. TypeOK'
    BY <1>2, <1>3, <2>1, NAssumption DEF Inv, TypeOK, healthVars
  <2>3. LockOwned'
    BY <1>3, <2>1 DEF Inv, LockOwned, healthVars
  \* The tries, this one included, cover the backends behind the new cursor.
  <2>4. ASSUME NEW i \in Backends,
               \/ i < rr' /\ i >= rr' - tries'[w]
               \/ i >= rr' - tries'[w] + N
        PROVE  ~healthy'[i]
    <3>1. tries'[w] = tries[w] + 1
        BY <2>1 DEF Inv, TypeOK
    <3>2. \/ i = rr
          \/ i < rr /\ i >= rr - tries[w]
          \/ i >= rr - tries[w] + N
        BY <1>1, <1>3, <2>4, <3>1, NAssumption
    <3> QED
        BY <1>3, <1>6, <3>2 DEF Inv, PickInv
  <2>5. PickInv'
    BY <1>3, <1>4, <2>1, <2>4 DEF Inv, PickInv
  <2> QED
    BY <2>2, <2>3, <2>5 DEF Inv
<1> QED
    BY <1>5, <1>6

\* After N turns the backends passed are all of them.
LEMMA PickGiveUpInv ==
    ASSUME Inv, NEW w \in Workers, PickGiveUp(w)
    PROVE  Inv'
<1>1. TypeOK'
    BY DEF Inv, TypeOK, PickGiveUp, Goto, healthVars, workVars
<1>2. LockOwned'
    BY DEF Inv, TypeOK, LockOwned, PickGiveUp, Goto, healthVars, workVars
<1>3. PickInv'
    BY NAssumption DEF Inv, TypeOK, LockOwned, PickInv, PickGiveUp, Goto, healthVars, workVars
<1> QED
    BY <1>1, <1>2, <1>3 DEF Inv

\* pick_healthy gives the mutex back.
LEMMA PickUnlockInv ==
    ASSUME Inv, NEW w \in Workers, PickUnlock(w)
    PROVE  Inv'
<1>1. TypeOK'
    BY DEF Inv, TypeOK, PickUnlock, Goto, healthVars, workVars
<1>2. LockOwned'
    BY ThreadAssumption DEF Inv, TypeOK, LockOwned, PickUnlock, Goto, healthVars, workVars
<1>3. PickInv'
    BY DEF Inv, TypeOK, LockOwned, PickInv, PickUnlock, Goto, healthVars, workVars
<1> QED
    BY <1>1, <1>2, <1>3 DEF Inv

-----------------------------------------------------------------------------
\* Every step preserves the invariant.
THEOREM NextInv ==
    ASSUME Inv, [Next]_vars
    PROVE  Inv'
<1>1. CASE UNCHANGED vars
    BY <1>1 DEF Inv, TypeOK, LockOwned, PickInv, vars, healthVars, workVars
<1>2. ASSUME NEW i \in Backends, BackendChanges(i) PROVE Inv'
    BY <1>2, BackendChangesInv
<1>3. CASE HealthStep
    BY <1>3, HealthDialInv, HealthReadInv, HealthLockInv, HealthMarkInv, HealthUnlockInv,
       HealthSleepInv DEF HealthStep
<1>4. ASSUME NEW w \in Workers,
             ClientLeaves(w) \/ Accept(w) \/ ReadRequest(w) \/ PickLock(w)
      PROVE  Inv'
    BY <1>4, ClientLeavesInv, AcceptInv, ReadRequestInv, PickLockInv
<1>5. ASSUME NEW w \in Workers, Handle(w) PROVE Inv'
    BY <1>5, ReadNothingInv, PickTryInv, PickGiveUpInv, PickUnlockInv,
       NoBackendInv, DialRefusedInv, DialInv, ForwardInv, ForwardFailsInv,
       PipeResponseInv, PipeCutInv DEF Handle
<1> QED
    BY <1>1, <1>2, <1>3, <1>4, <1>5 DEF Next

\* The inductive invariant holds in every state of lb.c.
THEOREM Invariance == Spec => []Inv
<1>1. Inv /\ [Next]_vars => Inv'
    BY NextInv
<1> QED
    BY <1>1, InitInv, PTL DEF Spec

\* The mutex of lb.c is held by one thread at a time, on every path.
THEOREM MutualExclusion == Spec => []LockOwned
<1>1. Inv => LockOwned
    BY DEF Inv
<1> QED
    BY <1>1, Invariance, PTL

\* For every number of backends, pick_healthy returns a backend marked healthy,
\* and -1 only when no backend is: n_backends tries from wherever the cursor
\* stands visit the whole table.
THEOREM PickHealthyCorrect == Spec => []PickCorrect
<1>1. Inv => PickCorrect
    BY DEF Inv, PickInv, PickCorrect
<1> QED
    BY <1>1, Invariance, PTL

-----------------------------------------------------------------------------
(* The descriptors, and the answer that a client gets                      *)

\* No step of another thread touches a worker's descriptors, and every way out
\* of handle closes both.
LEMMA DescriptorStep ==
    ASSUME Inv, NoDescriptorLeak, [Next]_vars
    PROVE  NoDescriptorLeak'
<1> USE DEF NoDescriptorLeak, Inv, TypeOK
<1>1. CASE UNCHANGED vars
    BY <1>1 DEF vars, workVars
<1>2. ASSUME NEW i \in Backends, BackendChanges(i) PROVE NoDescriptorLeak'
    BY <1>2 DEF BackendChanges, workVars
<1>3. CASE HealthStep
    BY <1>3 DEF HealthStep, HealthDial, HealthRead, HealthLock, HealthMark, HealthUnlock,
       HealthSleep, workVars
<1>4. ASSUME NEW w \in Workers,
             ClientLeaves(w) \/ Accept(w) \/ ReadRequest(w) \/ PickLock(w)
      PROVE  NoDescriptorLeak'
  <2>1. CASE ClientLeaves(w)
    BY <2>1 DEF ClientLeaves
  <2>2. CASE Accept(w)
    BY <2>2 DEF Accept, Goto
  <2>3. CASE ReadRequest(w)
    BY <2>3 DEF ReadRequest, Goto
  <2>4. CASE PickLock(w)
    BY <2>4 DEF PickLock, Goto
  <2> QED
    BY <1>4, <2>1, <2>2, <2>3, <2>4
<1>5. ASSUME NEW w \in Workers, Handle(w) PROVE NoDescriptorLeak'
  <2>1. CASE End(w)
    BY <2>1 DEF End, Goto
  <2>2. CASE PickTry(w)
    BY <2>2 DEF PickTry, Goto
  <2>3. CASE PickGiveUp(w)
    BY <2>3 DEF PickGiveUp, Goto
  <2>4. CASE PickUnlock(w)
    BY <2>4 DEF PickUnlock, Goto
  <2>5. CASE Dial(w)
    BY <2>5 DEF Dial, Goto
  <2>6. CASE Forward(w)
    BY <2>6 DEF Forward, Goto
  <2> QED
    BY <1>5, <2>1, <2>2, <2>3, <2>4, <2>5, <2>6
       DEF Handle, ReadNothing, NoBackend, DialRefused, ForwardFails, PipeResponse, PipeCut
<1> QED
    BY <1>1, <1>2, <1>3, <1>4, <1>5 DEF Next

\* No early return of handle leaks the descriptor of the client or of the
\* backend: a backend's is open exactly while a request is sent or relayed.
THEOREM DescriptorsClosed == Spec => []NoDescriptorLeak
<1>1. Init => NoDescriptorLeak
    BY DEF Init, NoDescriptorLeak
<1>2. Inv /\ NoDescriptorLeak /\ [Next]_vars => NoDescriptorLeak'
    BY DescriptorStep
<1> QED
    BY <1>1, <1>2, Invariance, PTL DEF Spec

\* What a step that ends a connection leaves behind.
LEMMA EndingStep ==
    ASSUME Inv, NoDescriptorLeak, Next, NEW w \in Workers,
           pc[w] # "idle", pc'[w] = "idle", conn[w] = "open"
    PROVE  reply'[w] # "none" \/ back[w] = "broken"
<1> USE DEF Inv, TypeOK
<1>1. \A i \in Backends : ~BackendChanges(i)
    BY DEF BackendChanges, workVars
<1>2. ~HealthStep
    BY DEF HealthStep, HealthDial, HealthRead, HealthLock, HealthMark, HealthUnlock,
       HealthSleep, workVars
<1>3. \A u \in Workers :
         ~ClientLeaves(u) /\ ~Accept(u) /\ ~ReadRequest(u) /\ ~PickLock(u)
    BY DEF ClientLeaves, Accept, ReadRequest, PickLock, Goto
<1>4. PICK u \in Workers : Handle(u)
    BY <1>1, <1>2, <1>3 DEF Next
<1>5. ~PickTry(u) /\ ~PickGiveUp(u) /\ ~PickUnlock(u) /\ ~Dial(u) /\ ~Forward(u)
    BY DEF PickTry, PickGiveUp, PickUnlock, Dial, Forward, Goto
<1>6. End(u)
    BY <1>4, <1>5
       DEF Handle, ReadNothing, NoBackend, DialRefused, ForwardFails, PipeResponse, PipeCut
<1>7. u = w
    BY <1>6 DEF End, Goto
<1>8. CASE ReadNothing(w)
    BY <1>8 DEF ReadNothing
<1>9. CASE NoBackend(w) \/ DialRefused(w)
    BY <1>9 DEF NoBackend, DialRefused, Send502
<1>10. CASE ForwardFails(w) \/ PipeCut(w)
    BY <1>10 DEF ForwardFails, PipeCut, NoDescriptorLeak
<1>11. CASE PipeResponse(w)
    BY <1>11 DEF PipeResponse
<1> QED
    BY <1>4, <1>5, <1>7, <1>8, <1>9, <1>10, <1>11 DEF Handle

\* handle never hangs up on a client that stays without an answer, unless the
\* backend it had connected to broke down.
THEOREM NoSilentEnd == Spec => AnsweredOrBroken
<1>1. Inv /\ NoDescriptorLeak /\ [Next]_vars =>
        [\A w \in Workers :
            pc[w] # "idle" /\ pc'[w] = "idle" /\ conn[w] = "open" =>
                reply'[w] # "none" \/ back[w] = "broken"]_vars
    BY EndingStep
<1> QED
    BY <1>1, Invariance, DescriptorsClosed, PTL DEF Spec, AnsweredOrBroken

-----------------------------------------------------------------------------
(* The walk of pick_healthy is one pick of Rotation                        *)

\* Going t backends back from the cursor, around the end of the table.
LEMMA Back ==
    ASSUME NEW r \in Backends, NEW t \in 0 .. N
    PROVE  (r - t) % N = IF t <= r THEN r - t ELSE r - t + N
  BY NAssumption

\* How far i is ahead of a cursor s, around the end of the table.
LEMMA Ahead ==
    ASSUME NEW i \in Backends, NEW s \in Backends
    PROVE  (i - s) % N = IF s <= i THEN i - s ELSE i - s + N
  BY NAssumption

\* A turn that does not find a healthy backend moves the cursor and the tries
\* by one, and the start of the walk not at all.
LEMMA SameStart ==
    ASSUME NEW r \in Backends, NEW t \in 0 .. N - 1
    PROVE  (((r + 1) % N) - (t + 1)) % N = (r - t) % N
<1>1. (r + 1) % N \in Backends /\ t + 1 \in 0 .. N /\ t \in 0 .. N
    BY Advance, NAssumption
<1>2. (((r + 1) % N) - (t + 1)) % N
        = IF t + 1 <= (r + 1) % N THEN ((r + 1) % N) - (t + 1) ELSE ((r + 1) % N) - (t + 1) + N
    BY <1>1, Back
<1>3. (r - t) % N = IF t <= r THEN r - t ELSE r - t + N
    BY <1>1, Back
<1> QED
    BY <1>1, <1>2, <1>3, Advance, NAssumption

\* After t tries the cursor's backend is the first one not yet passed: what is
\* nearer to the start s of the walk lies just behind the cursor.
LEMMA Passed ==
    ASSUME NEW r \in Backends, NEW t \in 0 .. N - 1, NEW j \in Backends,
           NEW s, s = (r - t) % N, (j - s) % N < (r - s) % N
    PROVE  (j < r /\ j >= r - t) \/ j >= r - t + N
<1>1. s = IF t <= r THEN r - t ELSE r - t + N
    BY Back, NAssumption
<1>2. s \in Backends
    BY <1>1, NAssumption
<1>3. /\ (j - s) % N = IF s <= j THEN j - s ELSE j - s + N
      /\ (r - s) % N = IF s <= r THEN r - s ELSE r - s + N
    BY <1>2, Ahead
<1> QED
    BY <1>1, <1>2, <1>3, NAssumption

\* The backend that a connection has, in the terms of Rotation.
Picked ==
    [w \in Workers |-> IF pc[w] \in {"idle", "read", "lock", "pick"} THEN NULL ELSE idx[w]]

\* A step that leaves the cursor, the mutex and the walk under way alone leaves
\* the start of the walk alone.
LEMMA StartKept ==
    ASSUME UNCHANGED <<rr, lock>>,
           \A w \in Workers : pc[w] = "pick" <=> pc'[w] = "pick",
           \A w \in Workers : pc[w] = "pick" => tries'[w] = tries[w]
    PROVE  WalkStart' = WalkStart
  BY DEF WalkStart

\* The steps of Rotation, written with the variables of LoadBalancer.
LEMMA RotStep ==
    ASSUME \/ UNCHANGED <<WalkStart, healthy, Picked>>
           \/ \E w \in Workers : /\ Picked' = [Picked EXCEPT ![w] = NULL]
                                 /\ UNCHANGED <<WalkStart, healthy>>
           \/ \E i \in Backends, b \in BOOLEAN :
                 /\ healthy' = [healthy EXCEPT ![i] = b]
                 /\ UNCHANGED <<WalkStart, Picked>>
           \/ \E w \in Workers :
                 /\ Picked[w] = NULL
                 /\ UNCHANGED healthy
                 /\ \/ /\ \A i \in Backends : ~healthy[i]
                       /\ Picked' = [Picked EXCEPT ![w] = -1]
                       /\ UNCHANGED WalkStart
                    \/ \E i \in Backends :
                          /\ healthy[i]
                          /\ \A j \in Backends :
                                (j - WalkStart) % N < (i - WalkStart) % N => ~healthy[j]
                          /\ Picked' = [Picked EXCEPT ![w] = i]
                          /\ WalkStart' = (i + 1) % N
    PROVE  [Rot!Next]_(Rot!vars)
<1>1. CASE UNCHANGED <<WalkStart, healthy, Picked>>
    BY <1>1 DEF Rot!vars, Picked
<1>2. CASE \E w \in Workers : /\ Picked' = [Picked EXCEPT ![w] = NULL]
                              /\ UNCHANGED <<WalkStart, healthy>>
    BY <1>2 DEF Rot!Next, Rot!Forget, Picked
<1>3. CASE \E i \in Backends, b \in BOOLEAN :
              /\ healthy' = [healthy EXCEPT ![i] = b]
              /\ UNCHANGED <<WalkStart, Picked>>
    BY <1>3 DEF Rot!Next, Rot!Mark, Rot!Backends, Picked
<1>4. ASSUME NEW w \in Workers, Picked[w] = NULL, UNCHANGED <<WalkStart, healthy>>,
             \A i \in Backends : ~healthy[i], Picked' = [Picked EXCEPT ![w] = -1]
      PROVE  Rot!Next
    BY <1>4 DEF Rot!Next, Rot!Pick, Rot!Backends, Picked
<1>5. ASSUME NEW w \in Workers, Picked[w] = NULL, UNCHANGED healthy,
             NEW i \in Backends, healthy[i],
             \A j \in Backends : (j - WalkStart) % N < (i - WalkStart) % N => ~healthy[j],
             Picked' = [Picked EXCEPT ![w] = i], WalkStart' = (i + 1) % N
      PROVE  Rot!Next
    BY <1>5 DEF Rot!Next, Rot!Pick, Rot!First, Rot!Backends, Picked
<1> QED
    BY <1>1, <1>2, <1>3, <1>4, <1>5

\* A turn of the loop is the whole pick when it finds a healthy backend, and
\* nothing when it does not.
LEMMA PickTryRot ==
    ASSUME Inv, NEW w \in Workers, PickTry(w)
    PROVE  [Rot!Next]_(Rot!vars)
<1>1. /\ rr \in Backends /\ tries[w] \in 0 .. N - 1 /\ pc[w] = "pick" /\ lock = w
      /\ rr' = (rr + 1) % N /\ UNCHANGED <<healthy, lock>>
    BY NAssumption DEF Inv, TypeOK, LockOwned, PickTry
<1>2. WalkStart = (rr - tries[w]) % N
    BY <1>1 DEF WalkStart
<1>3. CASE healthy[rr]
  <2>1. idx' = [idx EXCEPT ![w] = rr] /\ pc' = [pc EXCEPT ![w] = "unlock"]
    BY <1>3 DEF PickTry, Goto
  <2>2. Picked[w] = NULL /\ Picked' = [Picked EXCEPT ![w] = rr]
    BY <1>1, <2>1 DEF Picked, Inv, TypeOK
  <2>3. WalkStart' = (rr + 1) % N
    BY <1>1, <2>1 DEF WalkStart, Inv, TypeOK
  <2>4. ASSUME NEW j \in Backends, (j - WalkStart) % N < (rr - WalkStart) % N
        PROVE  ~healthy[j]
    <3>1. (j < rr /\ j >= rr - tries[w]) \/ j >= rr - tries[w] + N
        BY <1>1, <1>2, <2>4, Passed
    <3> QED
        BY <1>1, <3>1 DEF Inv, PickInv
  <2> QED
    BY <1>1, <1>3, <2>2, <2>3, <2>4, RotStep
<1>4. CASE ~healthy[rr]
  <2>1. tries' = [tries EXCEPT ![w] = tries[w] + 1] /\ UNCHANGED <<pc, idx>>
    BY <1>4 DEF PickTry
  <2>2. WalkStart' = (((rr + 1) % N) - (tries[w] + 1)) % N
    BY <1>1, <2>1 DEF WalkStart, Inv, TypeOK
  <2>3. UNCHANGED <<WalkStart, Picked>>
    BY <1>1, <1>2, <2>1, <2>2, SameStart DEF Picked
  <2> QED
    BY <1>1, <2>3, RotStep
<1> QED
    BY <1>3, <1>4

\* A walk that gives up has been once around: its cursor is where it began.
LEMMA PickGiveUpRot ==
    ASSUME Inv, NEW w \in Workers, PickGiveUp(w)
    PROVE  [Rot!Next]_(Rot!vars)
<1>1. /\ rr \in Backends /\ tries[w] = N /\ N \in 0 .. N /\ pc[w] = "pick" /\ lock = w
      /\ idx[w] = -1 /\ pc' = [pc EXCEPT ![w] = "unlock"]
      /\ UNCHANGED <<rr, healthy, lock, idx>>
    BY NAssumption DEF Inv, TypeOK, LockOwned, PickInv, PickGiveUp, Goto
<1>2. WalkStart = (rr - N) % N /\ WalkStart' = rr
    BY <1>1 DEF WalkStart, Inv, TypeOK
<1>3. UNCHANGED WalkStart
    BY <1>1, <1>2, Back, NAssumption
<1>4. \A i \in Backends : ~healthy[i]
    BY <1>1, NAssumption DEF Inv, PickInv
<1>5. Picked[w] = NULL /\ Picked' = [Picked EXCEPT ![w] = -1]
    BY <1>1 DEF Picked, Inv, TypeOK
<1> QED
    BY <1>1, <1>3, <1>4, <1>5, RotStep

\* Every step of lb.c is a step of the rotation or invisible to it.
LEMMA NextRot ==
    ASSUME Inv, Inv', [Next]_vars
    PROVE  [Rot!Next]_(Rot!vars)
<1>1. CASE UNCHANGED vars
  <2>1. UNCHANGED <<WalkStart, healthy, Picked>>
    BY <1>1 DEF vars, workVars, WalkStart, Picked
  <2> QED
    BY <2>1, RotStep
<1>2. ASSUME NEW i \in Backends, BackendChanges(i) PROVE [Rot!Next]_(Rot!vars)
  <2>1. UNCHANGED <<WalkStart, healthy, Picked>>
    BY <1>2 DEF BackendChanges, workVars, WalkStart, Picked
  <2> QED
    BY <2>1, RotStep
<1>3. CASE HealthDial \/ HealthRead \/ HealthSleep
  <2>1. UNCHANGED <<WalkStart, healthy, Picked>>
    BY <1>3 DEF HealthDial, HealthRead, HealthSleep, workVars, WalkStart, Picked
  <2> QED
    BY <2>1, RotStep
<1>4. CASE HealthLock \/ HealthUnlock
  <2>1. /\ UNCHANGED <<rr, healthy, workVars>>
        /\ lock \notin Workers /\ lock' \notin Workers
    BY <1>4, ThreadAssumption
       DEF HealthLock, HealthUnlock, Inv, LockOwned
  <2>2. UNCHANGED <<WalkStart, healthy, Picked>>
    BY <2>1 DEF workVars, WalkStart, Picked
  <2> QED
    BY <2>2, RotStep
<1>5. CASE HealthMark
  <2>1. UNCHANGED <<WalkStart, Picked>>
    BY <1>5 DEF HealthMark, workVars, WalkStart, Picked
  <2>2. hi \in Backends /\ hup \in BOOLEAN /\ healthy' = [healthy EXCEPT ![hi] = hup]
    BY <1>5 DEF HealthMark, Inv, TypeOK
  <2> QED
    BY <2>1, <2>2, RotStep
<1>6. ASSUME NEW w \in Workers, PickLock(w) PROVE [Rot!Next]_(Rot!vars)
  <2>1. /\ lock = NULL /\ lock' = w /\ pc' = [pc EXCEPT ![w] = "pick"] /\ pc[w] = "lock"
        /\ tries' = [tries EXCEPT ![w] = 0] /\ UNCHANGED <<rr, healthy, idx>>
    BY <1>6 DEF PickLock, Goto
  <2>2. WalkStart = rr /\ WalkStart' = (rr - 0) % N
    BY <2>1, ThreadAssumption DEF WalkStart, Inv, TypeOK
  <2>3. UNCHANGED WalkStart
    <3>1. rr \in Backends /\ 0 \in 0 .. N /\ 0 <= rr
        BY NAssumption DEF Inv, TypeOK
    <3>2. (rr - 0) % N = rr - 0
        BY <3>1, Back
    <3> QED
        BY <2>2, <3>1, <3>2
  <2>4. UNCHANGED Picked
    BY <2>1 DEF Picked, Inv, TypeOK
  <2> QED
    BY <2>1, <2>3, <2>4, RotStep
<1>7. ASSUME NEW w \in Workers, PickUnlock(w) PROVE [Rot!Next]_(Rot!vars)
  <2>1. /\ lock = w /\ lock' = NULL /\ pc' = [pc EXCEPT ![w] = "dial"] /\ pc[w] = "unlock"
        /\ UNCHANGED <<rr, healthy, idx>>
    BY <1>7 DEF PickUnlock, Goto, Inv, LockOwned
  <2>2. WalkStart = rr /\ WalkStart' = rr
    BY <2>1, ThreadAssumption DEF WalkStart
  <2>3. UNCHANGED Picked
    BY <2>1 DEF Picked, Inv, TypeOK
  <2> QED
    BY <2>1, <2>2, <2>3, RotStep
<1>8. ASSUME NEW w \in Workers,
             ClientLeaves(w) \/ Accept(w) \/ ReadRequest(w) \/ Dial(w) \/ Forward(w)
      PROVE  [Rot!Next]_(Rot!vars)
  <2>1. UNCHANGED <<rr, lock, healthy, tries, idx>>
    BY <1>8 DEF ClientLeaves, Accept, ReadRequest, Dial, Forward
  <2>2. \A u \in Workers :
           /\ pc[u] = "pick" <=> pc'[u] = "pick"
           /\ pc[u] \in {"idle", "read", "lock", "pick"}
                <=> pc'[u] \in {"idle", "read", "lock", "pick"}
    BY <1>8 DEF ClientLeaves, Accept, ReadRequest, Dial, Forward, Goto, Inv, TypeOK
  <2>3. UNCHANGED WalkStart
    BY <2>1, <2>2, StartKept
  <2>4. UNCHANGED Picked
    BY <2>1, <2>2 DEF Picked
  <2> QED
    BY <2>1, <2>3, <2>4, RotStep
<1>9. ASSUME NEW w \in Workers, End(w), pc[w] # "pick", UNCHANGED <<rr, lock, healthy>>
      PROVE  [Rot!Next]_(Rot!vars)
  <2>1. UNCHANGED WalkStart
    BY <1>9, StartKept DEF End, Goto, Inv, TypeOK
  <2>2. Picked' = [Picked EXCEPT ![w] = NULL]
    BY <1>9 DEF Picked, End, Goto, Inv, TypeOK
  <2> QED
    BY <1>9, <2>1, <2>2, RotStep
<1>10. ASSUME NEW w \in Workers, Handle(w) PROVE [Rot!Next]_(Rot!vars)
  <2>1. CASE PickTry(w) \/ PickGiveUp(w)
    BY <2>1, PickTryRot, PickGiveUpRot
  <2>2. CASE PickUnlock(w) \/ Dial(w) \/ Forward(w)
    BY <2>2, <1>7, <1>8
  <2>3. CASE \/ ReadNothing(w) \/ NoBackend(w) \/ DialRefused(w)
             \/ ForwardFails(w) \/ PipeResponse(w) \/ PipeCut(w)
    BY <2>3, <1>9
       DEF ReadNothing, NoBackend, DialRefused, ForwardFails, PipeResponse, PipeCut
  <2> QED
    BY <1>10, <2>1, <2>2, <2>3 DEF Handle
<1> QED
    BY <1>1, <1>2, <1>3, <1>4, <1>5, <1>6, <1>8, <1>10 DEF Next, HealthStep

\* However the threads of lb.c interleave, the backends they hand out are those
\* of indivisible picks from one rotation, for any number of them.
THEOREM RotationImplemented == Spec => RotationAtomic
<1>1. Init => Rot!Init
    BY ThreadAssumption, NAssumption DEF Init, Rot!Init, Rot!Backends, WalkStart
<1>2. Inv /\ Inv' /\ [Next]_vars => [Rot!Next]_(Rot!vars)
    BY NextRot
<1> QED
    BY <1>1, <1>2, Invariance, PTL DEF Spec, RotationAtomic, Rot!Spec
=============================================================================
