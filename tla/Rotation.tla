------------------------------ MODULE Rotation ------------------------------
(***************************************************************************)
(* What a round-robin balancer promises: a pick is one indivisible step    *)
(* that takes the first healthy backend at or after the cursor and leaves  *)
(* the cursor behind it.  However many connections are handled at a time,  *)
(* the picks are the same as if they were made one after the other.        *)
(* LoadBalancer (threads and a mutex) and ForkBalancer (one parent that    *)
(* picks before it forks) implement it.                                    *)
(***************************************************************************)
EXTENDS Integers

CONSTANTS
    N,         \* number of backends
    Pickers,   \* connections that need a backend
    None       \* not picked yet

VARIABLES
    rr,        \* the cursor
    healthy,   \* the backends in the rotation
    picked     \* for each picker a backend, -1 (there was none) or None

vars == <<rr, healthy, picked>>

Backends == 0 .. N - 1

Init ==
    /\ rr = 0
    /\ healthy = [i \in Backends |-> TRUE]
    /\ picked = [w \in Pickers |-> None]

\* i is the first healthy backend from the cursor on, around the table.
First(i) ==
    /\ healthy[i]
    /\ \A j \in Backends : (j - rr) % N < (i - rr) % N => ~healthy[j]

Pick(w) ==
    /\ picked[w] = None
    /\ \/ \E i \in Backends :
             /\ First(i)
             /\ picked' = [picked EXCEPT ![w] = i]
             /\ rr' = (i + 1) % N
       \/ /\ \A i \in Backends : ~healthy[i]
          /\ picked' = [picked EXCEPT ![w] = -1]
          /\ UNCHANGED rr
    /\ UNCHANGED healthy

\* The connection is finished with.
Forget(w) ==
    /\ picked' = [picked EXCEPT ![w] = None]
    /\ UNCHANGED <<rr, healthy>>

\* A health check moves a backend out of the rotation or back into it.
Mark(i) ==
    /\ \E b \in BOOLEAN : healthy' = [healthy EXCEPT ![i] = b]
    /\ UNCHANGED <<rr, picked>>

Next ==
    \/ \E w \in Pickers : Pick(w) \/ Forget(w)
    \/ \E i \in Backends : Mark(i)

Spec == Init /\ [][Next]_vars
=============================================================================
