----------------------------- MODULE RedisStore -----------------------------
(***************************************************************************)
(* The key/value store of the Redis clone (redis_clone/src/db.c): a        *)
(* chained hash table in C memory, shared by one thread per client.        *)
(*                                                                         *)
(* The model keeps the pointers.  A cell of Addr is one malloc'ed Entry;   *)
(* next, ekey, value and expires are its fields; hashtab holds the heads   *)
(* of the chains.  A thread takes one step per access to shared memory, in *)
(* the order of the C statements, so that a function which does not take   *)
(* db_lock really interleaves with the others.  A thread about to use      *)
(* freed or indeterminate memory, or NULL, goes no further: what happens   *)
(* next is undefined (Dangling) or a crash (NullAccess).                   *)
(*                                                                         *)
(* The text of a value is abstracted to what is_number tells apart: the    *)
(* integers IntMin..IntMax, and Words for every other string.              *)
(***************************************************************************)
EXTENDS Integers, FiniteSets

CONSTANTS
    Threads,        \* client threads (per_client in server.c)
    Keys,           \* keys the clients use
    Buckets,        \* indices of hashtab
    Hash,           \* hash(): the bucket of a key
    Addr,           \* addresses malloc may return for an Entry
    IntMin, IntMax, \* range of the C int that atoi and "+ 1" work in
    Words,          \* value strings that is_number rejects
    Inputs,         \* values the clients pass to SET
    Expiries,       \* values of expires_at_ms (0 means no expiry)
    MaxTime,        \* bound on the clock
    Commands,       \* commands the clients issue
    OutOfMemory,    \* allocations that may fail: "entry", "key", "value"
    IncrExpires,    \* what KVStore asks of INCR: TRUE as db.h has it, FALSE
                    \* as db_incr does it
    NULL,           \* the C null pointer
    Junk,           \* contents of a string never written, or freed
    Err             \* the error result of an operation

Numbers == IntMin .. IntMax
Values  == Numbers \cup Words

ASSUME HashAssumption == Keys # {} /\ Hash \in [Keys -> Buckets]

ASSUME NumberAssumption ==
    /\ IntMin \in Int /\ IntMax \in Int
    /\ {0, 1} \subseteq Numbers

ASSUME InputAssumption ==
    /\ Inputs \subseteq Values
    /\ Expiries \subseteq Nat /\ 0 \in Expiries
    /\ MaxTime \in Nat \ {0}

ASSUME CommandAssumption ==
    /\ Commands \subseteq {"SET", "GET", "INCR", "DEL"}
    /\ OutOfMemory \subseteq {"entry", "key", "value"}
    /\ IncrExpires \in BOOLEAN

ASSUME DistinctAssumption ==
    /\ NULL \notin Addr /\ NULL \notin Threads /\ NULL \notin Values
    /\ Junk \notin Values /\ Junk # NULL
    /\ Err \notin Values /\ Err # NULL

VARIABLES
    now,        \* now_ms()
    db_lock,    \* the thread that holds db_lock, or NULL
    hashtab,    \* head of each chain
    cell,       \* allocation state of each Entry
    ekey, value, expires, next,   \* its fields
    pc,         \* where each thread is
    req,        \* the call each thread is executing
    after,      \* what the running lookup() is for
    cur, prev,  \* the pointers a traversal keeps
    val, exp,   \* the arguments install() was called with
    res         \* the result the call returns

heapVars   == <<hashtab, cell, ekey, value, expires, next>>
threadVars == <<pc, req, after, cur, prev, val, exp, res>>
vars       == <<now, db_lock, heapVars, threadVars>>

Ptr      == Addr \cup {NULL}
Requests == [op : {"SET", "GET", "INCR", "DEL"}, key : Keys]
Labels   == {"idle", "lock", "head", "lookup", "check", "copy", "number",
             "alloc", "linkNext", "linkHead", "freeValue", "store",
             "storeExpiry", "result", "undefHead", "undef", "unlink",
             "reclaim", "unlock", "done"}

\* Neither a call nor an entry of KVStore's map is NULL.
ASSUME RecordAssumption ==
    /\ NULL \notin Requests
    /\ NULL \notin [op : {"SET"}, key : Keys, value : Values \cup {NULL}, expires : Expiries]
    /\ NULL \notin [value : Values \cup {NULL}, expires : Expiries]

\* Every variable has the shape of the C object it stands for.
TypeOK ==
    /\ now \in Nat
    /\ db_lock \in Threads \cup {NULL}
    /\ hashtab \in [Buckets -> Ptr]
    /\ cell \in [Addr -> {"free", "fresh", "linked", "unlinked"}]
    /\ ekey \in [Addr -> Keys]
    /\ value \in [Addr -> Values \cup {NULL, Junk}]
    /\ expires \in [Addr -> Nat]
    /\ next \in [Addr -> Ptr]
    /\ pc \in [Threads -> Labels]
    /\ req \in [Threads -> Requests]
    /\ after \in [Threads -> {"get", "incr", "install"}]
    /\ cur \in [Threads -> Ptr]
    /\ prev \in [Threads -> Ptr]
    /\ val \in [Threads -> Values \cup {NULL}]
    /\ exp \in [Threads -> Nat]
    /\ res \in [Threads -> Values \cup {NULL, Err}]

AnyKey == CHOOSE k \in Keys : TRUE

Init ==
    /\ now = 1
    /\ db_lock = NULL
    /\ hashtab = [b \in Buckets |-> NULL]
    /\ cell = [a \in Addr |-> "free"]
    /\ ekey = [a \in Addr |-> AnyKey]
    /\ value = [a \in Addr |-> Junk]
    /\ expires = [a \in Addr |-> 0]
    /\ next = [a \in Addr |-> NULL]
    /\ pc = [t \in Threads |-> "idle"]
    /\ req = [t \in Threads |-> [op |-> "GET", key |-> AnyKey]]
    /\ after = [t \in Threads |-> "get"]
    /\ cur = [t \in Threads |-> NULL]
    /\ prev = [t \in Threads |-> NULL]
    /\ val = [t \in Threads |-> NULL]
    /\ exp = [t \in Threads |-> 0]
    /\ res = [t \in Threads |-> NULL]

-----------------------------------------------------------------------------
(* Building blocks                                                         *)

Bucket(t) == Hash[req[t].key]
Goto(t, label) == pc' = [pc EXCEPT ![t] = label]

\* The pointer is one the program may dereference.
Valid(p) == p \in Addr /\ cell[p] # "free"

\* The string is one the program may read.
Readable(s) == s \notin {NULL, Junk}

\* A TTL that lasts one millisecond too long.
expiredLate(a) == expires[a] # 0 /\ expires[a] < now

\* expired(): a TTL of zero never elapses.
expired(a) == expires[a] # 0 /\ expires[a] <= now

\* is_number(), on the abstracted text.
is_number(s) == s \in Numbers

\* atoi(p->value) + 1 in a C int; the overflow wraps in the build of the
\* Makefile (no optimisation, no -ftrapv).
Increment(n) == IF n = IntMax THEN IntMin ELSE n + 1

-----------------------------------------------------------------------------
(* Calls, and the lock                                                     *)

Begin(t, op, k, label) ==
    /\ pc[t] = "idle"
    /\ op \in Commands
    /\ req' = [req EXCEPT ![t] = [op |-> op, key |-> k]]
    /\ Goto(t, label)

\* db_set (e = 0) and db_set_ex.
CallSet(t, k, v, e) ==
    /\ Begin(t, "SET", k, "lock")
    /\ val' = [val EXCEPT ![t] = v]
    /\ exp' = [exp EXCEPT ![t] = e]
    /\ after' = [after EXCEPT ![t] = "install"]
    /\ UNCHANGED <<now, db_lock, heapVars, cur, prev, res>>

CallGet(t, k) ==
    /\ Begin(t, "GET", k, "lock")
    /\ after' = [after EXCEPT ![t] = "get"]
    /\ UNCHANGED <<now, db_lock, heapVars, cur, prev, val, exp, res>>

CallIncr(t, k) ==
    /\ Begin(t, "INCR", k, "lock")
    /\ after' = [after EXCEPT ![t] = "incr"]
    /\ UNCHANGED <<now, db_lock, heapVars, cur, prev, val, exp, res>>

\* db_del goes straight to undef(): it does not take db_lock.
CallDel(t, k) ==
    /\ Begin(t, "DEL", k, "undefHead")
    /\ UNCHANGED <<now, db_lock, heapVars, after, cur, prev, val, exp, res>>

Lock(t) ==
    /\ pc[t] = "lock"
    /\ db_lock = NULL
    /\ db_lock' = t
    /\ Goto(t, "head")
    /\ UNCHANGED <<now, heapVars, req, after, cur, prev, val, exp, res>>

Unlock(t) ==
    /\ pc[t] = "unlock"
    /\ db_lock' = NULL
    /\ Goto(t, "done")
    /\ UNCHANGED <<now, heapVars, req, after, cur, prev, val, exp, res>>

\* The call returns; its locals disappear.
Return(t) ==
    /\ pc[t] = "done"
    /\ Goto(t, "idle")
    /\ req' = [req EXCEPT ![t] = [op |-> "GET", key |-> AnyKey]]
    /\ after' = [after EXCEPT ![t] = "get"]
    /\ cur' = [cur EXCEPT ![t] = NULL]
    /\ prev' = [prev EXCEPT ![t] = NULL]
    /\ val' = [val EXCEPT ![t] = NULL]
    /\ exp' = [exp EXCEPT ![t] = 0]
    /\ res' = [res EXCEPT ![t] = NULL]
    /\ UNCHANGED <<now, db_lock, heapVars>>

-----------------------------------------------------------------------------
(* lookup()                                                                *)

LookupHead(t) ==
    /\ pc[t] = "head"
    /\ cur' = [cur EXCEPT ![t] = hashtab[Bucket(t)]]
    /\ Goto(t, "lookup")
    /\ UNCHANGED <<now, db_lock, heapVars, req, after, prev, val, exp, res>>

\* The traversal that forgets "p = p->next".
LookupNextStuck(t) ==
    /\ pc[t] = "lookup" /\ Valid(cur[t])
    /\ ekey[cur[t]] # req[t].key
    /\ UNCHANGED vars

LookupNext(t) ==
    /\ pc[t] = "lookup" /\ Valid(cur[t])
    /\ ekey[cur[t]] # req[t].key
    /\ cur' = [cur EXCEPT ![t] = next[cur[t]]]
    /\ UNCHANGED <<now, db_lock, heapVars, pc, req, after, prev, val, exp,
                   res>>

LookupFound(t) ==
    /\ pc[t] = "lookup" /\ Valid(cur[t])
    /\ ekey[cur[t]] = req[t].key
    /\ Goto(t, CASE after[t] = "get"     -> "check"
                 [] after[t] = "incr"    -> "number"
                 [] after[t] = "install" -> "freeValue")
    /\ UNCHANGED <<now, db_lock, heapVars, req, after, cur, prev, val, exp,
                   res>>

\* GET of a missing key returns NULL; INCR calls install(key, "1", 0), which
\* looks the key up again; install() goes on to allocate.
LookupMissing(t) ==
    /\ pc[t] = "lookup" /\ cur[t] = NULL
    /\ \/ /\ after[t] = "get"
          /\ Goto(t, "unlock")
          /\ res' = [res EXCEPT ![t] = NULL]
          /\ UNCHANGED <<after, val, exp>>
       \/ /\ after[t] = "incr"
          /\ Goto(t, "head")
          /\ after' = [after EXCEPT ![t] = "install"]
          /\ val' = [val EXCEPT ![t] = 1]
          /\ exp' = [exp EXCEPT ![t] = 0]
          /\ UNCHANGED res
       \/ /\ after[t] = "install"
          /\ Goto(t, "alloc")
          /\ UNCHANGED <<after, val, exp, res>>
    /\ UNCHANGED <<now, db_lock, heapVars, req, cur, prev>>

lookup(t) ==
    LookupHead(t) \/ LookupNext(t) \/ LookupFound(t) \/ LookupMissing(t)


-----------------------------------------------------------------------------
(* install()                                                               *)

\* malloc and strdup(key), db.c:55-57.
Alloc(t) ==
    /\ pc[t] = "alloc"
    /\ \E a \in Addr, junk \in Expiries :
          /\ cell[a] = "free"
          /\ cell' = [cell EXCEPT ![a] = "fresh"]
          /\ ekey' = [ekey EXCEPT ![a] = req[t].key]
          /\ value' = [value EXCEPT ![a] = Junk]
          /\ expires' = [expires EXCEPT ![a] = junk]
          /\ cur' = [cur EXCEPT ![t] = a]
    /\ Goto(t, "linkNext")
    /\ UNCHANGED <<now, db_lock, hashtab, next, req, after, prev, val, exp, res>>

\* malloc returns NULL, which install() does not test before p->key.
EntryAllocFails(t) ==
    /\ pc[t] = "alloc" /\ "entry" \in OutOfMemory
    /\ cur' = [cur EXCEPT ![t] = NULL]
    /\ Goto(t, "linkNext")
    /\ UNCHANGED <<now, db_lock, heapVars, req, after, prev, val, exp, res>>

\* strdup(key) fails: install() returns NULL and its Entry, which nothing
\* points to, is lost.
KeyAllocFails(t) ==
    /\ pc[t] = "alloc" /\ "key" \in OutOfMemory
    /\ res' = [res EXCEPT ![t] = Err]
    /\ Goto(t, "unlock")
    /\ UNCHANGED <<now, db_lock, heapVars, req, after, cur, prev, val, exp>>

LinkNext(t) ==
    /\ pc[t] = "linkNext" /\ Valid(cur[t])
    /\ next' = [next EXCEPT ![cur[t]] = hashtab[Bucket(t)]]
    /\ Goto(t, "linkHead")
    /\ UNCHANGED <<now, db_lock, hashtab, cell, ekey, value, expires, req, after,
                   cur, prev, val, exp, res>>

LinkHead(t) ==
    /\ pc[t] = "linkHead" /\ Valid(cur[t])
    /\ hashtab' = [hashtab EXCEPT ![Bucket(t)] = cur[t]]
    /\ cell' = [cell EXCEPT ![cur[t]] = "linked"]
    /\ Goto(t, "store")
    /\ UNCHANGED <<now, db_lock, ekey, value, expires, next, req, after, cur,
                   prev, val, exp, res>>

\* The key exists: free(p->value).
FreeValue(t) ==
    /\ pc[t] = "freeValue" /\ Valid(cur[t]) /\ value[cur[t]] # Junk
    /\ value' = [value EXCEPT ![cur[t]] = Junk]
    /\ Goto(t, "store")
    /\ UNCHANGED <<now, db_lock, hashtab, cell, ekey, expires, next, req, after,
                   cur, prev, val, exp, res>>

StoreValue(t) ==
    /\ pc[t] = "store" /\ Valid(cur[t])
    /\ value' = [value EXCEPT ![cur[t]] = val[t]]
    /\ Goto(t, "storeExpiry")
    /\ UNCHANGED <<now, db_lock, hashtab, cell, ekey, expires, next, req, after,
                   cur, prev, val, exp, res>>

\* strdup(value) fails: p->value stays NULL and p->expires_at_ms is not set.
ValueAllocFails(t) ==
    /\ pc[t] = "store" /\ Valid(cur[t]) /\ "value" \in OutOfMemory
    /\ value' = [value EXCEPT ![cur[t]] = NULL]
    /\ res' = [res EXCEPT ![t] = Err]
    /\ Goto(t, "unlock")
    /\ UNCHANGED <<now, db_lock, hashtab, cell, ekey, expires, next, req, after,
                   cur, prev, val, exp>>

\* install() leaving the TTL of an updated entry as it was.
StoreExpiryKept(t) ==
    /\ pc[t] = "storeExpiry" /\ Valid(cur[t])
    /\ Goto(t, IF req[t].op = "INCR" THEN "result" ELSE "unlock")
    /\ UNCHANGED <<now, db_lock, heapVars, req, after, cur, prev, val, exp, res>>

StoreExpiry(t) ==
    /\ pc[t] = "storeExpiry" /\ Valid(cur[t])
    /\ expires' = [expires EXCEPT ![cur[t]] = exp[t]]
    /\ Goto(t, IF req[t].op = "INCR" THEN "result" ELSE "unlock")
    /\ UNCHANGED <<now, db_lock, hashtab, cell, ekey, value, next, req, after,
                   cur, prev, val, exp, res>>

install(t) ==
    Alloc(t) \/ EntryAllocFails(t) \/ KeyAllocFails(t) \/ LinkNext(t)
    \/ LinkHead(t) \/ FreeValue(t) \/ StoreValue(t) \/ ValueAllocFails(t)
    \/ StoreExpiry(t)

-----------------------------------------------------------------------------
(* db_get() and db_incr(), between their lookup() and their unlock         *)

GetExpired(t) ==
    /\ pc[t] = "check" /\ Valid(cur[t]) /\ expired(cur[t])
    /\ Goto(t, "undefHead")
    /\ UNCHANGED <<now, db_lock, heapVars, req, after, cur, prev, val, exp, res>>

GetAlive(t) ==
    /\ pc[t] = "check" /\ Valid(cur[t]) /\ ~expired(cur[t])
    /\ Goto(t, "copy")
    /\ UNCHANGED <<now, db_lock, heapVars, req, after, cur, prev, val, exp, res>>

\* strdup(p->value), the copy that GET and INCR hand to the caller.
Copy(t) ==
    /\ pc[t] \in {"copy", "result"}
    /\ Valid(cur[t]) /\ Readable(value[cur[t]])
    /\ res' = [res EXCEPT ![t] = value[cur[t]]]
    /\ Goto(t, "unlock")
    /\ UNCHANGED <<now, db_lock, heapVars, req, after, cur, prev, val, exp>>

IncrNotANumber(t) ==
    /\ pc[t] = "number" /\ Valid(cur[t]) /\ Readable(value[cur[t]])
    /\ ~is_number(value[cur[t]])
    /\ res' = [res EXCEPT ![t] = Err]
    /\ Goto(t, "unlock")
    /\ UNCHANGED <<now, db_lock, heapVars, req, after, cur, prev, val, exp>>

\* install(key, new_value, p->expires_at_ms), db.c:173-174.
IncrNumber(t) ==
    /\ pc[t] = "number" /\ Valid(cur[t]) /\ Readable(value[cur[t]])
    /\ is_number(value[cur[t]])
    /\ val' = [val EXCEPT ![t] = Increment(value[cur[t]])]
    /\ exp' = [exp EXCEPT ![t] = expires[cur[t]]]
    /\ after' = [after EXCEPT ![t] = "install"]
    /\ Goto(t, "head")
    /\ UNCHANGED <<now, db_lock, heapVars, req, cur, prev, res>>

-----------------------------------------------------------------------------
(* undef(), called by db_get() under the lock and by db_del() without it   *)

UndefHead(t) ==
    /\ pc[t] = "undefHead"
    /\ cur' = [cur EXCEPT ![t] = hashtab[Bucket(t)]]
    /\ prev' = [prev EXCEPT ![t] = NULL]
    /\ Goto(t, "undef")
    /\ UNCHANGED <<now, db_lock, heapVars, req, after, val, exp, res>>

\* The traversal that forgets "prev = cur".
UndefNextNoPrev(t) ==
    /\ pc[t] = "undef" /\ Valid(cur[t])
    /\ ekey[cur[t]] # req[t].key
    /\ cur' = [cur EXCEPT ![t] = next[cur[t]]]
    /\ UNCHANGED <<now, db_lock, heapVars, pc, req, after, prev, val, exp, res>>

UndefNext(t) ==
    /\ pc[t] = "undef" /\ Valid(cur[t])
    /\ ekey[cur[t]] # req[t].key
    /\ prev' = [prev EXCEPT ![t] = cur[t]]
    /\ cur' = [cur EXCEPT ![t] = next[cur[t]]]
    /\ UNCHANGED <<now, db_lock, heapVars, pc, req, after, val, exp, res>>

UndefFound(t) ==
    /\ pc[t] = "undef" /\ Valid(cur[t])
    /\ ekey[cur[t]] = req[t].key
    /\ Goto(t, "unlink")
    /\ UNCHANGED <<now, db_lock, heapVars, req, after, cur, prev, val, exp, res>>

\* undef() returns: GET still has the lock to release.
AfterUndef(t, deleted) ==
    IF req[t].op = "GET"
    THEN Goto(t, "unlock") /\ UNCHANGED res
    ELSE Goto(t, "done") /\ res' = [res EXCEPT ![t] = deleted]

UndefMissing(t) ==
    /\ pc[t] = "undef" /\ cur[t] = NULL
    /\ AfterUndef(t, 0)
    /\ UNCHANGED <<now, db_lock, heapVars, req, after, cur, prev, val, exp>>

\* Removing an entry without "prev->next = cur->next".
UnlinkHeadOnly(t) ==
    /\ pc[t] = "unlink" /\ Valid(cur[t])
    /\ IF prev[t] = NULL
       THEN hashtab' = [hashtab EXCEPT ![Bucket(t)] = next[cur[t]]]
       ELSE UNCHANGED hashtab
    /\ cell' = [cell EXCEPT ![cur[t]] = "unlinked"]
    /\ Goto(t, "reclaim")
    /\ UNCHANGED <<now, db_lock, ekey, value, expires, next, req, after, cur, prev,
                   val, exp, res>>

Unlink(t) ==
    /\ pc[t] = "unlink" /\ Valid(cur[t])
    /\ \/ /\ prev[t] = NULL
          /\ hashtab' = [hashtab EXCEPT ![Bucket(t)] = next[cur[t]]]
          /\ UNCHANGED next
       \/ /\ Valid(prev[t])
          /\ next' = [next EXCEPT ![prev[t]] = next[cur[t]]]
          /\ UNCHANGED hashtab
    /\ cell' = [cell EXCEPT ![cur[t]] = "unlinked"]
    /\ Goto(t, "reclaim")
    /\ UNCHANGED <<now, db_lock, ekey, value, expires, req, after, cur, prev,
                   val, exp, res>>

\* free(cur->key), free(cur->value), free(cur).
Reclaim(t) ==
    /\ pc[t] = "reclaim" /\ Valid(cur[t]) /\ value[cur[t]] # Junk
    /\ cell' = [cell EXCEPT ![cur[t]] = "free"]
    /\ value' = [value EXCEPT ![cur[t]] = Junk]
    /\ AfterUndef(t, 1)
    /\ UNCHANGED <<now, db_lock, hashtab, ekey, expires, next, req, after, cur,
                   prev, val, exp>>

undef(t) ==
    UndefHead(t) \/ UndefNext(t) \/ UndefFound(t) \/ UndefMissing(t)
    \/ Unlink(t) \/ Reclaim(t)

-----------------------------------------------------------------------------
(* What a thread may be about to do that C does not define                 *)

DerefLabels == {"lookup", "undef", "check", "copy", "number", "linkNext", "linkHead",
                "freeValue", "store", "storeExpiry", "result", "unlink", "reclaim"}
ReadLabels  == {"copy", "number", "result"}
FreeLabels  == {"freeValue", "reclaim"}

\* t is about to dereference a freed entry, or to read or free a string that
\* was freed or never written.
Dangling(t) ==
    \/ pc[t] \in DerefLabels /\ cur[t] # NULL /\ ~Valid(cur[t])
    \/ pc[t] \in ReadLabels \cup FreeLabels /\ cur[t] # NULL /\ value[cur[t]] = Junk
    \/ pc[t] = "unlink" /\ prev[t] # NULL /\ ~Valid(prev[t])

\* t is about to dereference NULL: an entry malloc did not give, or a value
\* that could not be allocated.
NullAccess(t) ==
    \/ pc[t] \in DerefLabels \ {"lookup", "undef"} /\ cur[t] = NULL
    \/ pc[t] \in ReadLabels /\ cur[t] # NULL /\ value[cur[t]] = NULL

\* Time passes between any two steps.
Tick ==
    /\ now < MaxTime
    /\ now' = now + 1
    /\ UNCHANGED <<db_lock, heapVars, threadVars>>

Call(t) ==
    \E k \in Keys :
       \/ \E v \in Inputs, e \in Expiries : CallSet(t, k, v, e)
       \/ CallGet(t, k)
       \/ CallIncr(t, k)
       \/ CallDel(t, k)

\* What t does inside a call, once the lock is its own if it needs it.
Run(t) ==
    \/ lookup(t) \/ install(t) \/ undef(t)
    \/ GetExpired(t) \/ GetAlive(t) \/ Copy(t)
    \/ IncrNotANumber(t) \/ IncrNumber(t)
    \/ Unlock(t) \/ Return(t)

Next ==
    \/ \E t \in Threads : Call(t) \/ Lock(t) \/ Run(t)
    \/ Tick

Spec == Init /\ [][Next]_vars

\* The scheduler runs every thread that can go on.  pthread mutexes promise
\* no order among waiters, so Lock gets no fairness.
FairSpec == Spec /\ \A t \in Threads : WF_vars(Run(t))

-----------------------------------------------------------------------------
(* Properties                                                              *)

\* db_lock is held whenever a thread is between these labels of a call that
\* takes it.
Critical(t) ==
    /\ pc[t] \notin {"idle", "lock", "done"}
    /\ req[t].op # "DEL"

\* The critical sections of db_set, db_get and db_incr exclude each other, on
\* every path into and out of them (early returns included).
LockOwned == \A t \in Threads : Critical(t) <=> db_lock = t

\* No thread ever uses freed or indeterminate memory, nor frees a string twice:
\* what db.h:7 ("All functions are thread-safe.") has to mean in C.
MemorySafe == \A t \in Threads : ~Dangling(t)

\* The entries of bucket b's chain: the least set that has its head and is
\* closed under next.
Reach(b) ==
    {a \in Addr : \A S \in SUBSET Addr :
        /\ hashtab[b] \in S \cup {NULL}
        /\ \A c \in S : next[c] \in S \cup {NULL}
        => a \in S}

Allocated == {a \in Addr : cell[a] # "free"}

\* When no call is running, every allocated entry is on the chain of its own
\* key's bucket (nothing is lost; the one leak there is, of an Entry whose
\* strdup(key) failed at db.c:57, is not counted), no key is stored twice, no
\* chain has a cycle or shares a tail, and no entry is half-built.
ChainsWellFormed ==
    (\A t \in Threads : pc[t] \in {"idle", "lock", "done"}) =>
        /\ Allocated = UNION {Reach(b) : b \in Buckets}
        /\ \A b \in Buckets : \A a \in Reach(b) : Hash[ekey[a]] = b
        /\ \A a1, a2 \in Allocated : ekey[a1] = ekey[a2] => a1 = a2
        /\ \A b \in Buckets : Reach(b) # {} =>
              Cardinality({a \in Reach(b) : next[a] = NULL}) = 1
        /\ \A a1, a2 \in Allocated :
              next[a1] = next[a2] /\ next[a1] # NULL => a1 = a2
        /\ \A a \in Allocated : value[a] # Junk

\* Whoever takes db_lock gives it back, whichever way the call ends, unless the
\* process has crashed on a failed allocation.
LockReleased == \A t \in Threads : db_lock = t ~> db_lock # t \/ NullAccess(t)

-----------------------------------------------------------------------------
(* Linearizability: the store implements KVStore.                          *)

\* The call of t has taken effect: install() has begun to overwrite or has
\* published its entry, GET has read the clock, DEL has unlinked, or the
\* result is known.
Committed(t) ==
    \/ pc[t] \in {"store", "storeExpiry", "result", "copy", "reclaim",
                  "unlock", "done"}
    \/ pc[t] \in {"undefHead", "undef", "unlink"} /\ req[t].op = "GET"

\* What it is going to return.
Outcome(t) ==
    CASE ~Committed(t) -> NULL
      [] pc[t] \in {"unlock", "done"} -> res[t]
      [] pc[t] \in {"store", "storeExpiry", "result"} /\ req[t].op = "INCR" -> val[t]
      [] pc[t] = "copy" -> value[cur[t]]
      [] pc[t] = "reclaim" /\ req[t].op = "DEL" -> 1
      [] OTHER -> NULL

\* The entry callers are to see under k: the one on the chain, unless a call
\* that has taken effect is still writing or removing it.
Visible(k) ==
    LET here    == {a \in Reach(Hash[k]) : ekey[a] = k}
        writers == {t \in Threads : /\ req[t].key = k
                                    /\ pc[t] \in {"store", "storeExpiry"}}
        purgers == {t \in Threads : /\ req[t] = [op |-> "GET", key |-> k]
                                    /\ pc[t] \in {"undefHead", "undef", "unlink"}}
    IN  CASE writers # {} ->
               LET t == CHOOSE u \in writers : TRUE
               IN  [value |-> val[t], expires |-> exp[t]]
          [] purgers # {} \/ here = {} -> NULL
          [] OTHER ->
               LET a == CHOOSE c \in here : TRUE
               IN  [value |-> value[a], expires |-> expires[a]]

KV == INSTANCE KVStore WITH
    MayFail  <- "key" \in OutOfMemory,
    MayBreak <- "value" \in OutOfMemory,
    clock   <- now,
    store   <- [k \in Keys |-> Visible(k)],
    call    <- [t \in Threads |->
                  IF pc[t] = "idle" THEN NULL
                  ELSE IF req[t].op = "SET"
                  THEN [op |-> "SET", key |-> req[t].key, value |-> val[t],
                        expires |-> exp[t]]
                  ELSE req[t]],
    done    <- [t \in Threads |-> Committed(t)],
    answer  <- [t \in Threads |-> Outcome(t)]

\* Every operation of db.c takes effect at one instant between its call and
\* its return, on a map from keys to values and expiry times: nothing is lost,
\* no half-written entry is seen, GET never returns an expired value.  Of INCR
\* on an expired key the code keeps only what it does itself (IncrExpires =
\* FALSE: it counts on and keeps the old expiry), not what db.h:15 and db.h:67
\* say (TRUE).
Linearizable == KV!KVSpec
=============================================================================
