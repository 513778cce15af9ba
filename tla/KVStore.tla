------------------------------ MODULE KVStore ------------------------------
(***************************************************************************)
(* What db.c offers its callers: a map from keys to values with an         *)
(* optional expiry, on which every operation takes effect at one instant   *)
(* between its call and its return.  RedisStore implements it.             *)
(*                                                                         *)
(* What INCR is to do with a key that has expired is a parameter.  db.h    *)
(* says it is a missing one (db.h:15 "Expired keys are removed lazily when *)
(* accessed", db.h:67 "If the key does not exist, it is treated as 0");    *)
(* db_incr looks at the stored entry whether or not it has expired.        *)
(***************************************************************************)
EXTENDS Integers

CONSTANTS Threads, Keys, IntMin, IntMax, Words, Inputs, Expiries, MaxTime,
          MayFail,  \* memory may run out before a call changes anything
          MayBreak, \* ... or after the old value is gone
          IncrExpires,  \* INCR takes an expired key for a missing one (db.h)
          NULL, Err

VARIABLES
    clock,   \* the time
    store,   \* the entry of each key, or NULL
    call,    \* the operation each thread is executing, or NULL
    done,    \* it has taken effect
    answer   \* what it will return

kvVars == <<clock, store, call, done, answer>>

Entry(v, e) == [value |-> v, expires |-> e]
Alive(entry) == entry # NULL /\ (entry.expires = 0 \/ entry.expires > clock)

KVInit ==
    /\ clock = 1
    /\ store = [k \in Keys |-> NULL]
    /\ call = [t \in Threads |-> NULL]
    /\ done = [t \in Threads |-> FALSE]
    /\ answer = [t \in Threads |-> NULL]

KVInvoke(t, r) ==
    /\ call[t] = NULL
    /\ call' = [call EXCEPT ![t] = r]
    /\ UNCHANGED <<clock, store, done, answer>>

\* The operation of t takes effect: it leaves entry under its key and will
\* answer a.
Effect(t, entry, a) ==
    /\ call[t] # NULL /\ ~done[t]
    /\ store' = [store EXCEPT ![call[t].key] = entry]
    /\ done' = [done EXCEPT ![t] = TRUE]
    /\ answer' = [answer EXCEPT ![t] = a]
    /\ UNCHANGED <<clock, call>>

Stored(t) == store[call[t].key]

KVSet(t) ==
    /\ call[t] # NULL /\ call[t].op = "SET"
    /\ Effect(t, Entry(call[t].value, call[t].expires), NULL)

KVGet(t) ==
    /\ call[t] # NULL /\ call[t].op = "GET"
    /\ IF Alive(Stored(t)) THEN Effect(t, Stored(t), Stored(t).value)
       ELSE Effect(t, NULL, NULL)

\* INCR finds nothing to count on.
Missing(entry) == entry = NULL \/ (IncrExpires /\ ~Alive(entry))

KVIncr(t) ==
    /\ call[t] # NULL /\ call[t].op = "INCR"
    /\ \/ Missing(Stored(t)) /\ Effect(t, Entry(1, 0), 1)
       \/ /\ ~Missing(Stored(t)) /\ Stored(t).value \in Words
          /\ Effect(t, Stored(t), Err)
       \/ /\ ~Missing(Stored(t)) /\ Stored(t).value \in IntMin .. IntMax
          /\ LET n == IF Stored(t).value = IntMax THEN IntMin
                      ELSE Stored(t).value + 1
             IN  Effect(t, Entry(n, Stored(t).expires), n)

KVDel(t) ==
    /\ call[t] # NULL /\ call[t].op = "DEL"
    /\ Effect(t, NULL, IF Stored(t) = NULL THEN 0 ELSE 1)

\* Out of memory for a new entry.
KVFail(t) ==
    /\ MayFail
    /\ call[t] # NULL /\ call[t].op \in {"SET", "INCR"} /\ Stored(t) = NULL
    /\ Effect(t, NULL, Err)

\* Out of memory for the value of an entry: the entry stays, without a value.
KVBreak(t) ==
    /\ MayBreak
    /\ call[t] # NULL /\ call[t].op \in {"SET", "INCR"} /\ done[t]
    /\ \E e \in Expiries : store' = [store EXCEPT ![call[t].key] = Entry(NULL, e)]
    /\ answer' = [answer EXCEPT ![t] = Err]
    /\ UNCHANGED <<clock, call, done>>

KVReturn(t) ==
    /\ call[t] # NULL /\ done[t]
    /\ call' = [call EXCEPT ![t] = NULL]
    /\ done' = [done EXCEPT ![t] = FALSE]
    /\ answer' = [answer EXCEPT ![t] = NULL]
    /\ UNCHANGED <<clock, store>>

KVTick ==
    /\ clock < MaxTime
    /\ clock' = clock + 1
    /\ UNCHANGED <<store, call, done, answer>>

KVRequests ==
    [op : {"SET"}, key : Keys, value : Inputs, expires : Expiries]
    \cup [op : {"GET", "INCR", "DEL"}, key : Keys]

KVNext ==
    \/ \E t \in Threads :
          \/ \E r \in KVRequests : KVInvoke(t, r)
          \/ KVSet(t) \/ KVGet(t) \/ KVIncr(t) \/ KVDel(t) \/ KVFail(t)
          \/ KVBreak(t) \/ KVReturn(t)
    \/ KVTick

KVSpec == KVInit /\ [][KVNext]_kvVars
=============================================================================
