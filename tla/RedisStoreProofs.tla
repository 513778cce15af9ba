-------------------------- MODULE RedisStoreProofs --------------------------
(***************************************************************************)
(* The store, for any number of threads, keys, buckets and entries and     *)
(* whichever allocations fail, as long as no client issues DEL, the one    *)
(* operation that skips db_lock: memory is used safely; every chain holds  *)
(* exactly the entries of its bucket, once, and no key is stored twice;    *)
(* and every operation takes effect at one instant, as in KVStore.         *)
(***************************************************************************)
EXTENDS RedisStore, TLAPS, FiniteSetTheorems, WellFoundedInduction

-----------------------------------------------------------------------------
(* Memory: the inductive invariant                                         *)

OutsideLabels == {"idle", "lock", "done"}
UndefLabels   == {"undefHead", "undef", "unlink", "reclaim"}
EntryLabels   == {"check", "copy", "number", "freeValue", "store",
                  "storeExpiry", "result"}
ArgLabels     == {"alloc", "linkNext", "linkHead", "freeValue", "store"}

\* p is NULL or an entry of bucket b's chain.
InChain(p, b) ==
    p = NULL \/ (p \in Addr /\ cell[p] = "linked" /\ Hash[ekey[p]] = b)

\* Heads and next pointers stay within their bucket's chain ...
HeadsInv == \A b \in Buckets : InChain(hashtab[b], b)
NextsInv == \A a \in Addr :
                cell[a] = "linked" => InChain(next[a], Hash[ekey[a]])

\* ... and an entry is pointed to once: undef() really removes it.
OneRefInv ==
    \A a \in Addr : cell[a] = "linked" /\ next[a] # NULL =>
        /\ \A b \in Buckets : hashtab[b] # next[a]
        /\ \A c \in Addr : cell[c] = "linked" /\ next[c] = next[a] => c = a

\* The value of an entry on a chain is a string or NULL, but for the entry
\* install() is writing.
ValueInv ==
    \A a \in Addr : cell[a] = "linked" =>
        \/ value[a] # Junk
        \/ \E t \in Threads : pc[t] = "store" /\ cur[t] = a

\* What a thread knows about its operation ...
CallInv(t) ==
    /\ req[t].op # "DEL"
    /\ pc[t] \in {"lock", "head", "lookup"} /\ after[t] = "get" => req[t].op = "GET"
    /\ pc[t] \in UndefLabels \cup {"check", "copy"} => req[t].op = "GET"
    /\ \/ pc[t] \in {"lock", "head", "lookup"} /\ after[t] = "install"
       \/ pc[t] \in ArgLabels
       => val[t] \in Values

\* ... and about the memory its pointers reach.
PlaceInv(t) ==
    /\ pc[t] = "lookup" => InChain(cur[t], Bucket(t))
    /\ pc[t] \in EntryLabels =>
          /\ cur[t] \in Addr
          /\ cell[cur[t]] = "linked"
          /\ ekey[cur[t]] = req[t].key
    /\ pc[t] \in {"linkNext", "linkHead"} /\ cur[t] # NULL =>
          /\ cur[t] \in Addr
          /\ cell[cur[t]] = "fresh"
          /\ ekey[cur[t]] = req[t].key
    /\ pc[t] = "linkHead" => cur[t] # NULL /\ next[cur[t]] = hashtab[Bucket(t)]
    /\ pc[t] \in {"undef", "unlink"} =>
          /\ InChain(cur[t], Bucket(t))
          /\ \/ prev[t] = NULL /\ hashtab[Bucket(t)] = cur[t]
             \/ /\ prev[t] \in Addr
                /\ cell[prev[t]] = "linked"
                /\ next[prev[t]] = cur[t]
    /\ pc[t] = "unlink" => cur[t] # NULL
    /\ pc[t] = "reclaim" =>
          /\ cur[t] \in Addr
          /\ cell[cur[t]] = "unlinked"
          /\ value[cur[t]] # Junk

Inv ==
    /\ TypeOK
    /\ LockOwned
    /\ HeadsInv /\ NextsInv /\ OneRefInv /\ ValueInv
    /\ \A t \in Threads : CallInv(t)
    /\ \A t \in Threads : PlaceInv(t)

\* The clients the theorems are about.
Disciplined == "DEL" \notin Commands

\* INCR on an expired key is taken to do what db_incr does (RedisStore_incr.cfg
\* refutes what db.h says it does).
IncrAsBuilt == ~IncrExpires
-----------------------------------------------------------------------------
USE DEF Numbers, Values, Ptr, Requests, Labels

\* The empty table, with every thread idle, satisfies the invariant.
LEMMA InitInv == Init => Inv
<1> SUFFICES ASSUME Init PROVE Inv
    OBVIOUS
<1>1. AnyKey \in Keys
    BY HashAssumption DEF AnyKey
<1>2. TypeOK
    BY <1>1 DEF Init, TypeOK
<1>3. LockOwned
    BY DistinctAssumption DEF Init, LockOwned, Critical
<1>4. HeadsInv /\ NextsInv /\ OneRefInv /\ ValueInv
    BY DEF Init, HeadsInv, NextsInv, OneRefInv, ValueInv, InChain
<1>5. \A t \in Threads : CallInv(t) /\ PlaceInv(t)
    BY <1>1 DEF Init, CallInv, PlaceInv, OutsideLabels, UndefLabels, EntryLabels,
                ArgLabels
<1> QED
    BY <1>2, <1>3, <1>4, <1>5 DEF Inv

\* While a thread is inside a critical section all the others are outside.
LEMMA Alone ==
    ASSUME Inv, NEW t \in Threads, pc[t] \notin OutsideLabels
    PROVE  /\ db_lock = t
           /\ \A u \in Threads \ {t} : pc[u] \in OutsideLabels
  BY DEF Inv, LockOwned, Critical, CallInv, OutsideLabels

\* A step inside a critical section: it moves the pc of t alone, and keeps the
\* lock and the request.
InsideStep(t) ==
    /\ pc[t] \notin OutsideLabels /\ pc'[t] \notin OutsideLabels
    /\ \A u \in Threads \ {t} :
          /\ pc'[u] = pc[u]
          /\ after'[u] = after[u]
          /\ val'[u] = val[u]
    /\ UNCHANGED <<db_lock, req>>

\* Such a step keeps the lock with its owner and what the other threads know.
LEMMA InsideStepInv ==
    ASSUME Inv, NEW t \in Threads, InsideStep(t)
    PROVE  /\ LockOwned'
           /\ \A u \in Threads \ {t} : CallInv(u)' /\ PlaceInv(u)'
<1>1. LockOwned'
    BY DEF Inv, LockOwned, Critical, InsideStep, OutsideLabels
<1>2. ASSUME NEW u \in Threads \ {t} PROVE CallInv(u)' /\ PlaceInv(u)'
  <2>1. pc[u] \in OutsideLabels /\ pc'[u] = pc[u]
    BY Alone DEF InsideStep
  <2>2. CallInv(u)'
    BY <2>1 DEF Inv, CallInv, InsideStep
  <2>3. PlaceInv(u)'
    BY <2>1 DEF PlaceInv, OutsideLabels, EntryLabels
  <2> QED
    BY <2>2, <2>3
<1> QED
    BY <1>1, <1>2

\* hash() of the key of a call is an index of hashtab.
LEMMA BucketType ==
    ASSUME Inv, NEW t \in Threads
    PROVE  Bucket(t) \in Buckets /\ req[t].key \in Keys
  BY HashAssumption DEF Inv, TypeOK, Bucket

\* A step that leaves the heap alone keeps the invariants about the heap.
LEMMA HeapUnchanged ==
    ASSUME Inv, UNCHANGED heapVars,
           \A u \in Threads : pc[u] = "store" => pc'[u] = "store" /\ cur'[u] = cur[u]
    PROVE  HeadsInv' /\ NextsInv' /\ OneRefInv' /\ ValueInv'
<1>1. HeadsInv' /\ NextsInv' /\ OneRefInv'
    BY DEF Inv, HeadsInv, NextsInv, OneRefInv, InChain, heapVars
<1>2. ValueInv'
    BY DEF Inv, ValueInv, heapVars
<1> QED
    BY <1>1, <1>2

\* The entry a thread has found can be read.
LEMMA EntryReadable ==
    ASSUME Inv, NEW t \in Threads, pc[t] \in EntryLabels \ {"store"}
    PROVE  /\ cur[t] \in Addr /\ cell[cur[t]] = "linked"
           /\ ekey[cur[t]] = req[t].key
           /\ value[cur[t]] # Junk
<1>1. cur[t] \in Addr /\ cell[cur[t]] = "linked" /\ ekey[cur[t]] = req[t].key
    BY DEF Inv, PlaceInv
<1>2. \A u \in Threads : pc[u] # "store"
    BY Alone DEF EntryLabels, OutsideLabels
<1>3. value[cur[t]] # Junk
    BY <1>1, <1>2 DEF Inv, ValueInv
<1> QED
    BY <1>1, <1>3

\* lookup() starts at the head of the chain: p = hashtab[hash(key)], db.c:36.
LEMMA LookupHeadInv ==
    ASSUME Inv, NEW t \in Threads, LookupHead(t)
    PROVE  Inv'
<1> USE DEF LookupHead, Goto
<1>1. InsideStep(t)
    BY DEF Inv, TypeOK, InsideStep, OutsideLabels
<1>2. TypeOK'
    BY BucketType DEF Inv, TypeOK, heapVars
<1>3. HeadsInv' /\ NextsInv' /\ OneRefInv' /\ ValueInv'
    BY HeapUnchanged, <1>1 DEF Inv, TypeOK, InsideStep
<1>4. CallInv(t)'
    BY DEF Inv, TypeOK, CallInv, UndefLabels, ArgLabels
<1>5. PlaceInv(t)'
  <2>1. pc'[t] = "lookup" /\ cur'[t] = hashtab[Bucket(t)] /\ UNCHANGED <<req, heapVars>>
    BY DEF Inv, TypeOK
  <2>2. Bucket(t) \in Buckets
    BY BucketType
  <2>3. InChain(cur[t], Bucket(t))'
    BY <2>1, <2>2 DEF Inv, HeadsInv, InChain, Bucket, heapVars
  <2> QED
    BY <2>1, <2>2, <2>3 DEF PlaceInv, EntryLabels
<1> QED
    BY <1>1, <1>2, <1>3, <1>4, <1>5, InsideStepInv DEF Inv

\* p = p->next leads to a linked entry, or ends the chain.
LEMMA LookupNextInv ==
    ASSUME Inv, NEW t \in Threads, LookupNext(t)
    PROVE  Inv'
<1> USE DEF LookupNext, Goto
<1>1. InsideStep(t)
    BY DEF Inv, TypeOK, InsideStep, OutsideLabels
<1>2. TypeOK'
    BY DEF Inv, TypeOK, heapVars, Valid
<1>3. HeadsInv' /\ NextsInv' /\ OneRefInv' /\ ValueInv'
    BY HeapUnchanged, <1>1 DEF Inv, TypeOK, InsideStep
<1>4. CallInv(t)'
    BY DEF Inv, TypeOK, CallInv, UndefLabels, ArgLabels
<1>5. PlaceInv(t)'
  <2>1. pc'[t] = "lookup" /\ cur'[t] = next[cur[t]] /\ UNCHANGED <<req, heapVars>>
    BY DEF Inv, TypeOK
  <2>2. InChain(cur[t], Bucket(t)) /\ cur[t] # NULL
    BY DistinctAssumption DEF Inv, PlaceInv, Valid
  <2>3. InChain(cur[t], Bucket(t))'
    BY <2>1, <2>2 DEF Inv, NextsInv, InChain, Bucket, heapVars
  <2> QED
    BY <2>1, <2>2, <2>3 DEF PlaceInv, EntryLabels
<1> QED
    BY <1>1, <1>2, <1>3, <1>4, <1>5, InsideStepInv DEF Inv

\* lookup() returns the entry whose key matches.
LEMMA LookupFoundInv ==
    ASSUME Inv, NEW t \in Threads, LookupFound(t)
    PROVE  Inv'
<1> USE DEF LookupFound, Goto
<1>1. InsideStep(t)
    BY DEF Inv, TypeOK, InsideStep, OutsideLabels
<1>2. TypeOK'
    BY DEF Inv, TypeOK, heapVars
<1>3. HeadsInv' /\ NextsInv' /\ OneRefInv' /\ ValueInv'
    BY HeapUnchanged, <1>1 DEF Inv, TypeOK, InsideStep
<1>4. CallInv(t)'
    BY DEF Inv, TypeOK, CallInv, UndefLabels, ArgLabels
<1>5. PlaceInv(t)'
  <2>1. pc'[t] \in {"check", "number", "freeValue"} /\ UNCHANGED <<cur, req, heapVars>>
    BY DEF Inv, TypeOK
  <2>2. cur[t] \in Addr /\ cell[cur[t]] = "linked"
    BY DistinctAssumption DEF Inv, PlaceInv, Valid, InChain
  <2> QED
    BY <2>1, <2>2 DEF heapVars, PlaceInv, EntryLabels
<1> QED
    BY <1>1, <1>2, <1>3, <1>4, <1>5, InsideStepInv DEF Inv

\* lookup() returns NULL; INCR of a missing key goes on to install().
LEMMA LookupMissingInv ==
    ASSUME Inv, NEW t \in Threads, LookupMissing(t)
    PROVE  Inv'
<1> USE DEF LookupMissing, Goto
<1>1. InsideStep(t)
    BY DEF Inv, TypeOK, InsideStep, OutsideLabels
<1>2. TypeOK'
  <2>1. 1 \in Values
    BY NumberAssumption
  <2>2. CASE after[t] = "get"
    BY <2>2 DEF Inv, TypeOK, heapVars
  <2>3. CASE after[t] = "incr"
    <3>1. /\ pc' = [pc EXCEPT ![t] = "head"]
          /\ after' = [after EXCEPT ![t] = "install"]
          /\ val' = [val EXCEPT ![t] = 1]
          /\ exp' = [exp EXCEPT ![t] = 0]
          /\ UNCHANGED <<now, db_lock, heapVars, req, cur, prev, res>>
        BY <2>3
    <3> HIDE DEF LookupMissing
    <3> QED
        BY <2>1, <3>1 DEF Inv, TypeOK, heapVars
  <2>4. CASE after[t] = "install"
    BY <2>4 DEF Inv, TypeOK, heapVars
  <2> QED
    BY <2>2, <2>3, <2>4
<1>3. HeadsInv' /\ NextsInv' /\ OneRefInv' /\ ValueInv'
    BY HeapUnchanged, <1>1 DEF Inv, TypeOK, InsideStep
<1>4. CallInv(t)'
    BY NumberAssumption DEF Inv, TypeOK, CallInv, UndefLabels, ArgLabels
<1>5. PlaceInv(t)'
    BY <1>1 DEF Inv, TypeOK, PlaceInv, EntryLabels, InChain, Bucket, heapVars
<1> QED
    BY <1>1, <1>2, <1>3, <1>4, <1>5, InsideStepInv DEF Inv

\* db_get goes on to undef() with the entry still linked.
LEMMA GetExpiredInv ==
    ASSUME Inv, NEW t \in Threads, GetExpired(t)
    PROVE  Inv'
<1> USE DEF GetExpired, Goto
<1>1. InsideStep(t)
    BY DEF Inv, TypeOK, InsideStep, OutsideLabels
<1>2. TypeOK'
    BY DEF Inv, TypeOK, heapVars
<1>3. HeadsInv' /\ NextsInv' /\ OneRefInv' /\ ValueInv'
    BY HeapUnchanged, <1>1 DEF Inv, TypeOK, InsideStep
<1>4. CallInv(t)'
    BY DEF Inv, TypeOK, CallInv, UndefLabels, ArgLabels
<1>5. PlaceInv(t)'
    BY <1>1 DEF Inv, TypeOK, PlaceInv, EntryLabels, InChain, Bucket, heapVars
<1> QED
    BY <1>1, <1>2, <1>3, <1>4, <1>5, InsideStepInv DEF Inv

\* db_get goes on to copy the value of an entry that has not expired.
LEMMA GetAliveInv ==
    ASSUME Inv, NEW t \in Threads, GetAlive(t)
    PROVE  Inv'
<1> USE DEF GetAlive, Goto
<1>1. InsideStep(t)
    BY DEF Inv, TypeOK, InsideStep, OutsideLabels
<1>2. TypeOK'
    BY DEF Inv, TypeOK, heapVars
<1>3. HeadsInv' /\ NextsInv' /\ OneRefInv' /\ ValueInv'
    BY HeapUnchanged, <1>1 DEF Inv, TypeOK, InsideStep
<1>4. CallInv(t)'
    BY DEF Inv, TypeOK, CallInv, UndefLabels, ArgLabels
<1>5. PlaceInv(t)'
    BY <1>1 DEF Inv, TypeOK, PlaceInv, EntryLabels, InChain, Bucket, heapVars
<1> QED
    BY <1>1, <1>2, <1>3, <1>4, <1>5, InsideStepInv DEF Inv

\* strdup(p->value) of db_get and db_incr changes nothing but the result.
LEMMA CopyInv ==
    ASSUME Inv, NEW t \in Threads, Copy(t)
    PROVE  Inv'
<1> USE DEF Copy, Goto
<1>1. InsideStep(t)
    BY DEF Inv, TypeOK, InsideStep, OutsideLabels
<1>2. TypeOK'
    BY EntryReadable DEF Inv, TypeOK, heapVars, EntryLabels, Readable
<1>3. HeadsInv' /\ NextsInv' /\ OneRefInv' /\ ValueInv'
    BY HeapUnchanged, <1>1 DEF Inv, TypeOK, InsideStep
<1>4. CallInv(t)'
    BY DEF Inv, TypeOK, CallInv, UndefLabels, ArgLabels
<1>5. PlaceInv(t)'
    BY <1>1 DEF Inv, TypeOK, PlaceInv, EntryLabels, InChain, Bucket, heapVars
<1> QED
    BY <1>1, <1>2, <1>3, <1>4, <1>5, InsideStepInv DEF Inv

\* The early return of db_incr for a value that is not a number.
LEMMA IncrNotANumberInv ==
    ASSUME Inv, NEW t \in Threads, IncrNotANumber(t)
    PROVE  Inv'
<1> USE DEF IncrNotANumber, Goto
<1>1. InsideStep(t)
    BY DEF Inv, TypeOK, InsideStep, OutsideLabels
<1>2. TypeOK'
    BY DEF Inv, TypeOK, heapVars
<1>3. HeadsInv' /\ NextsInv' /\ OneRefInv' /\ ValueInv'
    BY HeapUnchanged, <1>1 DEF Inv, TypeOK, InsideStep
<1>4. CallInv(t)'
    BY DEF Inv, TypeOK, CallInv, UndefLabels, ArgLabels
<1>5. PlaceInv(t)'
    BY <1>1 DEF Inv, TypeOK, PlaceInv, EntryLabels, InChain, Bucket, heapVars
<1> QED
    BY <1>1, <1>2, <1>3, <1>4, <1>5, InsideStepInv DEF Inv

\* db_incr passes the new value and the old expiry to install().
LEMMA IncrNumberInv ==
    ASSUME Inv, NEW t \in Threads, IncrNumber(t)
    PROVE  Inv'
<1> USE DEF IncrNumber, Goto
<1>0. Increment(value[cur[t]]) \in Numbers
    BY NumberAssumption DEF is_number, Increment
<1>1. InsideStep(t)
    BY DEF Inv, TypeOK, InsideStep, OutsideLabels
<1>2. TypeOK'
    BY <1>0, EntryReadable DEF Inv, TypeOK, heapVars, EntryLabels
<1>3. HeadsInv' /\ NextsInv' /\ OneRefInv' /\ ValueInv'
    BY HeapUnchanged, <1>1 DEF Inv, TypeOK, InsideStep
<1>4. CallInv(t)'
    BY <1>0 DEF Inv, TypeOK, CallInv, UndefLabels, ArgLabels
<1>5. PlaceInv(t)'
    BY <1>1 DEF Inv, TypeOK, PlaceInv, EntryLabels, InChain, Bucket, heapVars
<1> QED
    BY <1>1, <1>2, <1>3, <1>4, <1>5, InsideStepInv DEF Inv

\* install() gives up when strdup(key) fails, before it links anything.
LEMMA KeyAllocFailsInv ==
    ASSUME Inv, NEW t \in Threads, KeyAllocFails(t)
    PROVE  Inv'
<1> USE DEF KeyAllocFails, Goto
<1>1. InsideStep(t)
    BY DEF Inv, TypeOK, InsideStep, OutsideLabels
<1>2. TypeOK'
    BY DEF Inv, TypeOK, heapVars
<1>3. HeadsInv' /\ NextsInv' /\ OneRefInv' /\ ValueInv'
    BY HeapUnchanged, <1>1 DEF Inv, TypeOK, InsideStep
<1>4. CallInv(t)'
    BY DEF Inv, TypeOK, CallInv, UndefLabels, ArgLabels
<1>5. PlaceInv(t)'
    BY <1>1 DEF Inv, TypeOK, PlaceInv, EntryLabels, InChain, Bucket, heapVars
<1> QED
    BY <1>1, <1>2, <1>3, <1>4, <1>5, InsideStepInv DEF Inv

\* install() is left with NULL when malloc fails.
LEMMA EntryAllocFailsInv ==
    ASSUME Inv, NEW t \in Threads, EntryAllocFails(t)
    PROVE  Inv'
<1> USE DEF EntryAllocFails, Goto
<1>1. InsideStep(t)
    BY DEF Inv, TypeOK, InsideStep, OutsideLabels
<1>2. TypeOK'
    BY DEF Inv, TypeOK, heapVars
<1>3. HeadsInv' /\ NextsInv' /\ OneRefInv' /\ ValueInv'
    BY HeapUnchanged, <1>1 DEF Inv, TypeOK, InsideStep
<1>4. CallInv(t)'
    BY DEF Inv, TypeOK, CallInv, UndefLabels, ArgLabels
<1>5. PlaceInv(t)'
    BY <1>1 DEF Inv, TypeOK, PlaceInv, EntryLabels, InChain, Bucket, heapVars
<1> QED
    BY <1>1, <1>2, <1>3, <1>4, <1>5, InsideStepInv DEF Inv

\* undef() starts at the head of the chain, without a predecessor.
LEMMA UndefHeadInv ==
    ASSUME Inv, NEW t \in Threads, UndefHead(t)
    PROVE  Inv'
<1> USE DEF UndefHead, Goto
<1>1. InsideStep(t)
    BY DEF Inv, TypeOK, InsideStep, OutsideLabels
<1>2. TypeOK'
    BY BucketType DEF Inv, TypeOK, heapVars
<1>3. HeadsInv' /\ NextsInv' /\ OneRefInv' /\ ValueInv'
    BY HeapUnchanged, <1>1 DEF Inv, TypeOK, InsideStep
<1>4. CallInv(t)'
    BY DEF Inv, TypeOK, CallInv, UndefLabels, ArgLabels
<1>5. PlaceInv(t)'
  <2>1. pc'[t] = "undef" /\ cur'[t] = hashtab[Bucket(t)] /\ prev'[t] = NULL /\ UNCHANGED <<req, heapVars>>
    BY DEF Inv, TypeOK
  <2>2. Bucket(t) \in Buckets
    BY BucketType
  <2>3. InChain(cur[t], Bucket(t))'
    BY <2>1, <2>2 DEF Inv, HeadsInv, InChain, Bucket, heapVars
  <2>4. hashtab'[Bucket(t)'] = cur'[t]
    BY <2>1 DEF Bucket, heapVars
  <2> QED
    BY <2>1, <2>2, <2>3, <2>4 DEF PlaceInv, EntryLabels
<1> QED
    BY <1>1, <1>2, <1>3, <1>4, <1>5, InsideStepInv DEF Inv

\* undef() goes on: prev stays the entry that points to cur.
LEMMA UndefNextInv ==
    ASSUME Inv, NEW t \in Threads, UndefNext(t)
    PROVE  Inv'
<1> USE DEF UndefNext, Goto
<1>1. InsideStep(t)
    BY DEF Inv, TypeOK, InsideStep, OutsideLabels
<1>2. TypeOK'
    BY DEF Inv, TypeOK, heapVars, Valid
<1>3. HeadsInv' /\ NextsInv' /\ OneRefInv' /\ ValueInv'
    BY HeapUnchanged, <1>1 DEF Inv, TypeOK, InsideStep
<1>4. CallInv(t)'
    BY DEF Inv, TypeOK, CallInv, UndefLabels, ArgLabels
<1>5. PlaceInv(t)'
  <2>1. /\ pc'[t] = "undef" /\ cur'[t] = next[cur[t]] /\ prev'[t] = cur[t]
        /\ UNCHANGED <<req, heapVars>>
    BY DEF Inv, TypeOK
  <2>2. InChain(cur[t], Bucket(t)) /\ cur[t] # NULL
    BY DistinctAssumption DEF Inv, PlaceInv, Valid
  <2>3. InChain(cur[t], Bucket(t))'
    BY <2>1, <2>2 DEF Inv, NextsInv, InChain, Bucket, heapVars
  <2>4. prev'[t] \in Addr /\ cell'[prev'[t]] = "linked" /\ next'[prev'[t]] = cur'[t]
    BY <2>1, <2>2 DEF InChain, heapVars
  <2> QED
    BY <2>1, <2>2, <2>3, <2>4 DEF PlaceInv, EntryLabels
<1> QED
    BY <1>1, <1>2, <1>3, <1>4, <1>5, InsideStepInv DEF Inv

\* undef() has found the entry to remove.
LEMMA UndefFoundInv ==
    ASSUME Inv, NEW t \in Threads, UndefFound(t)
    PROVE  Inv'
<1> USE DEF UndefFound, Goto
<1>1. InsideStep(t)
    BY DEF Inv, TypeOK, InsideStep, OutsideLabels
<1>2. TypeOK'
    BY DEF Inv, TypeOK, heapVars
<1>3. HeadsInv' /\ NextsInv' /\ OneRefInv' /\ ValueInv'
    BY HeapUnchanged, <1>1 DEF Inv, TypeOK, InsideStep
<1>4. CallInv(t)'
    BY DEF Inv, TypeOK, CallInv, UndefLabels, ArgLabels
<1>5. PlaceInv(t)'
  <2>1. pc'[t] = "unlink" /\ UNCHANGED <<cur, prev, req, heapVars>>
    BY DEF Inv, TypeOK
  <2>2. PlaceInv(t) /\ cur[t] # NULL
    BY DistinctAssumption DEF Inv, Valid
  <2>3. InChain(cur[t], Bucket(t))'
    BY <2>1, <2>2 DEF InChain, Bucket, heapVars, PlaceInv
  <2>4. \/ prev'[t] = NULL /\ hashtab'[Bucket(t)'] = cur'[t]
        \/ prev'[t] \in Addr /\ cell'[prev'[t]] = "linked" /\ next'[prev'[t]] = cur'[t]
    BY <2>1, <2>2 DEF Bucket, heapVars, PlaceInv
  <2> QED
    BY <2>1, <2>2, <2>3, <2>4 DEF PlaceInv, EntryLabels
<1> QED
    BY <1>1, <1>2, <1>3, <1>4, <1>5, InsideStepInv DEF Inv

\* undef() returns without having found the key.
LEMMA UndefMissingInv ==
    ASSUME Inv, NEW t \in Threads, UndefMissing(t)
    PROVE  Inv'
<1> USE DEF UndefMissing, Goto
<1>0. req[t].op = "GET"
    BY DEF Inv, CallInv, UndefLabels
<1> USE <1>0 DEF AfterUndef
<1>1. InsideStep(t)
    BY DEF Inv, TypeOK, InsideStep, OutsideLabels
<1>2. TypeOK'
    BY DEF Inv, TypeOK, heapVars
<1>3. HeadsInv' /\ NextsInv' /\ OneRefInv' /\ ValueInv'
    BY HeapUnchanged, <1>1 DEF Inv, TypeOK, InsideStep
<1>4. CallInv(t)'
    BY DEF Inv, TypeOK, CallInv, UndefLabels, ArgLabels
<1>5. PlaceInv(t)'
    BY <1>1 DEF Inv, TypeOK, PlaceInv, EntryLabels, InChain, Bucket, heapVars
<1> QED
    BY <1>1, <1>2, <1>3, <1>4, <1>5, InsideStepInv DEF Inv

-----------------------------------------------------------------------------
(* install() and undef(): the steps that write to the heap                 *)

\* The entry malloc gives is on no chain, and no pointer leads to it.
LEMMA AllocInv ==
    ASSUME Inv, NEW t \in Threads, Alloc(t)
    PROVE  Inv'
<1> USE DEF Alloc, Goto
<1>1. InsideStep(t)
    BY DEF Inv, TypeOK, InsideStep, OutsideLabels
<1>2. TypeOK'
    BY BucketType, InputAssumption DEF Inv, TypeOK, heapVars
<1>3. HeadsInv' /\ NextsInv' /\ OneRefInv' /\ ValueInv'
  <2>1. HeadsInv' /\ NextsInv' /\ OneRefInv'
    BY DEF Inv, TypeOK, HeadsInv, NextsInv, OneRefInv, InChain
  <2>2. ValueInv'
    BY <1>1 DEF Inv, TypeOK, ValueInv, InsideStep
  <2> QED
    BY <2>1, <2>2
<1>4. CallInv(t)'
    BY DEF Inv, TypeOK, CallInv, UndefLabels, ArgLabels
<1>5. PlaceInv(t)'
    BY DEF Inv, TypeOK, PlaceInv, EntryLabels
<1> QED
    BY <1>1, <1>2, <1>3, <1>4, <1>5, InsideStepInv DEF Inv

\* p->next = hashtab[h]: for a moment the old head has two predecessors, one
\* of which is not linked yet.
LEMMA LinkNextInv ==
    ASSUME Inv, NEW t \in Threads, LinkNext(t)
    PROVE  Inv'
<1> USE DEF LinkNext, Goto
<1>1. InsideStep(t)
    BY DEF Inv, TypeOK, InsideStep, OutsideLabels
<1>2. TypeOK'
    BY BucketType DEF Inv, TypeOK, heapVars
<1>3. HeadsInv' /\ NextsInv' /\ OneRefInv' /\ ValueInv'
  <2>1. cur[t] \in Addr /\ cell[cur[t]] = "fresh" /\ ekey[cur[t]] = req[t].key
    BY DistinctAssumption DEF Inv, PlaceInv, Valid
  <2>2. HeadsInv' /\ NextsInv' /\ OneRefInv'
    BY <2>1 DEF Inv, TypeOK, HeadsInv, NextsInv, OneRefInv, InChain
  <2>3. ValueInv'
    BY <2>1 DEF Inv, TypeOK, ValueInv
  <2> QED
    BY <2>1, <2>2, <2>3
<1>4. CallInv(t)'
    BY DEF Inv, TypeOK, CallInv, UndefLabels, ArgLabels
<1>5. PlaceInv(t)'
  <2>1. /\ pc'[t] = "linkHead" /\ next'[cur[t]] = hashtab[Bucket(t)]
        /\ UNCHANGED <<req, cur, hashtab, cell, ekey>>
    BY DEF Inv, TypeOK, PlaceInv, Valid
  <2>2. /\ cur[t] \in Addr /\ cell[cur[t]] = "fresh" /\ ekey[cur[t]] = req[t].key
        /\ cur[t] # NULL
    BY DistinctAssumption DEF Inv, PlaceInv, Valid
  <2> QED
    BY <2>1, <2>2 DEF Bucket, PlaceInv, EntryLabels
<1> QED
    BY <1>1, <1>2, <1>3, <1>4, <1>5, InsideStepInv DEF Inv

\* hashtab[h] = p: the new entry becomes the only predecessor of the old head.
LEMMA LinkHeadInv ==
    ASSUME Inv, NEW t \in Threads, LinkHead(t)
    PROVE  Inv'
<1> USE DEF LinkHead, Goto
<1>1. InsideStep(t)
    BY DEF Inv, TypeOK, InsideStep, OutsideLabels
<1>2. TypeOK'
    BY BucketType DEF Inv, TypeOK, heapVars
<1>3. HeadsInv' /\ NextsInv' /\ OneRefInv' /\ ValueInv'
  <2>1. cur[t] \in Addr /\ cell[cur[t]] = "fresh" /\ ekey[cur[t]] = req[t].key
    BY DistinctAssumption DEF Inv, PlaceInv, Valid
  <2>2. Bucket(t) \in Buckets /\ Hash[ekey[cur[t]]] = Bucket(t) /\ next[cur[t]] = hashtab[Bucket(t)]
    BY <2>1, BucketType DEF Inv, PlaceInv, Bucket
  <2>3. HeadsInv'
    BY <2>1, <2>2 DEF Inv, TypeOK, HeadsInv, InChain
  <2>4. NextsInv'
    BY <2>1, <2>2 DEF Inv, TypeOK, HeadsInv, NextsInv, InChain
  <2>5. OneRefInv'
    BY <2>1, <2>2 DEF Inv, TypeOK, HeadsInv, NextsInv, OneRefInv, InChain
  <2>6. ValueInv'
    BY <2>1 DEF Inv, TypeOK, ValueInv
  <2> QED
    BY <2>1, <2>2, <2>3, <2>4, <2>5, <2>6
<1>4. CallInv(t)'
    BY DEF Inv, TypeOK, CallInv, UndefLabels, ArgLabels
<1>5. PlaceInv(t)'
    BY DEF Inv, TypeOK, PlaceInv, EntryLabels
<1> QED
    BY <1>1, <1>2, <1>3, <1>4, <1>5, InsideStepInv DEF Inv

\* free(p->value): only the thread at "store" may find the value missing.
LEMMA FreeValueInv ==
    ASSUME Inv, NEW t \in Threads, FreeValue(t)
    PROVE  Inv'
<1> USE DEF FreeValue, Goto
<1>1. InsideStep(t)
    BY DEF Inv, TypeOK, InsideStep, OutsideLabels
<1>2. TypeOK'
    BY DEF Inv, TypeOK, heapVars
<1>3. HeadsInv' /\ NextsInv' /\ OneRefInv' /\ ValueInv'
  <2>1. cur[t] \in Addr /\ cell[cur[t]] = "linked" /\ ekey[cur[t]] = req[t].key
    BY DEF Inv, PlaceInv, EntryLabels
  <2>2. HeadsInv' /\ NextsInv' /\ OneRefInv'
    BY DEF Inv, HeadsInv, NextsInv, OneRefInv, InChain
  <2>3. ValueInv'
    BY <2>1 DEF Inv, TypeOK, ValueInv
  <2> QED
    BY <2>1, <2>2, <2>3
<1>4. CallInv(t)'
    BY DEF Inv, TypeOK, CallInv, UndefLabels, ArgLabels
<1>5. PlaceInv(t)'
    BY DEF Inv, TypeOK, PlaceInv, EntryLabels
<1> QED
    BY <1>1, <1>2, <1>3, <1>4, <1>5, InsideStepInv DEF Inv

\* p->value = strdup(value) ends that.
LEMMA StoreValueInv ==
    ASSUME Inv, NEW t \in Threads, StoreValue(t)
    PROVE  Inv'
<1> USE DEF StoreValue, Goto
<1>1. InsideStep(t)
    BY DEF Inv, TypeOK, InsideStep, OutsideLabels
<1>2. TypeOK'
    BY DEF Inv, TypeOK, heapVars
<1>3. HeadsInv' /\ NextsInv' /\ OneRefInv' /\ ValueInv'
  <2>1. cur[t] \in Addr /\ cell[cur[t]] = "linked" /\ ekey[cur[t]] = req[t].key
    BY DEF Inv, PlaceInv, EntryLabels
  <2>2. HeadsInv' /\ NextsInv' /\ OneRefInv'
    BY DEF Inv, HeadsInv, NextsInv, OneRefInv, InChain
  <2>3. val[t] \in Values
    BY DEF Inv, CallInv, ArgLabels
  <2>4. \A u \in Threads \ {t} : pc[u] # "store"
    BY Alone DEF OutsideLabels
  <2>5. ValueInv'
    BY <2>1, <2>3, <2>4, DistinctAssumption DEF Inv, TypeOK, ValueInv
  <2> QED
    BY <2>1, <2>2, <2>3, <2>4, <2>5
<1>4. CallInv(t)'
    BY DEF Inv, TypeOK, CallInv, UndefLabels, ArgLabels
<1>5. PlaceInv(t)'
    BY DEF Inv, TypeOK, PlaceInv, EntryLabels
<1> QED
    BY <1>1, <1>2, <1>3, <1>4, <1>5, InsideStepInv DEF Inv

\* A failed strdup(value) leaves NULL, which may be freed, and no old pointer.
LEMMA ValueAllocFailsInv ==
    ASSUME Inv, NEW t \in Threads, ValueAllocFails(t)
    PROVE  Inv'
<1> USE DEF ValueAllocFails, Goto
<1>1. InsideStep(t)
    BY DEF Inv, TypeOK, InsideStep, OutsideLabels
<1>2. TypeOK'
    BY DEF Inv, TypeOK, heapVars
<1>3. HeadsInv' /\ NextsInv' /\ OneRefInv' /\ ValueInv'
  <2>1. cur[t] \in Addr /\ cell[cur[t]] = "linked" /\ ekey[cur[t]] = req[t].key
    BY DEF Inv, PlaceInv, EntryLabels
  <2>2. HeadsInv' /\ NextsInv' /\ OneRefInv'
    BY DEF Inv, HeadsInv, NextsInv, OneRefInv, InChain
  <2>3. \A u \in Threads \ {t} : pc[u] # "store"
    BY Alone DEF OutsideLabels
  <2>4. ValueInv'
    BY <2>1, <2>3, DistinctAssumption DEF Inv, TypeOK, ValueInv
  <2> QED
    BY <2>2, <2>4
<1>4. CallInv(t)'
    BY DEF Inv, TypeOK, CallInv, UndefLabels, ArgLabels
<1>5. PlaceInv(t)'
    BY DEF Inv, TypeOK, PlaceInv, EntryLabels
<1> QED
    BY <1>1, <1>2, <1>3, <1>4, <1>5, InsideStepInv DEF Inv

\* Setting expires_at_ms touches no pointer.
LEMMA StoreExpiryInv ==
    ASSUME Inv, NEW t \in Threads, StoreExpiry(t)
    PROVE  Inv'
<1> USE DEF StoreExpiry, Goto
<1>1. InsideStep(t)
    BY DEF Inv, TypeOK, InsideStep, OutsideLabels
<1>2. TypeOK'
    BY DEF Inv, TypeOK, heapVars
<1>3. HeadsInv' /\ NextsInv' /\ OneRefInv' /\ ValueInv'
  <2>1. HeadsInv' /\ NextsInv' /\ OneRefInv'
    BY DEF Inv, HeadsInv, NextsInv, OneRefInv, InChain
  <2>2. ValueInv'
    BY DEF Inv, TypeOK, ValueInv
  <2> QED
    BY <2>1, <2>2
<1>4. CallInv(t)'
    BY DEF Inv, TypeOK, CallInv, UndefLabels, ArgLabels
<1>5. PlaceInv(t)'
    BY DEF Inv, TypeOK, PlaceInv, EntryLabels
<1> QED
    BY <1>1, <1>2, <1>3, <1>4, <1>5, InsideStepInv DEF Inv

\* Unlinking, from the head or from prev, leaves no pointer to the entry.
LEMMA UnlinkInv ==
    ASSUME Inv, NEW t \in Threads, Unlink(t)
    PROVE  Inv'
<1> USE DEF Unlink, Goto
<1>1. InsideStep(t)
    BY DEF Inv, TypeOK, InsideStep, OutsideLabels
<1>2. TypeOK'
    BY BucketType, ZenonT(40) DEF Inv, TypeOK, heapVars, Valid
<1>3. HeadsInv' /\ NextsInv' /\ OneRefInv' /\ ValueInv'
  <2>1. /\ cur[t] \in Addr /\ cell[cur[t]] = "linked" /\ Hash[ekey[cur[t]]] = Bucket(t)
        /\ Bucket(t) \in Buckets
    BY BucketType DEF Inv, PlaceInv, InChain
  <2>2. \/ prev[t] = NULL /\ hashtab[Bucket(t)] = cur[t]
        \/ prev[t] \in Addr /\ cell[prev[t]] = "linked" /\ next[prev[t]] = cur[t]
    BY DEF Inv, PlaceInv
  <2>3. HeadsInv'
    BY <2>1, <2>2, DistinctAssumption DEF Inv, TypeOK, HeadsInv, NextsInv, OneRefInv, InChain, Valid
  <2>4. NextsInv'
    BY <2>1, <2>2, DistinctAssumption DEF Inv, TypeOK, HeadsInv, NextsInv, OneRefInv, InChain, Valid
  <2>5. OneRefInv'
    BY <2>1, <2>2, DistinctAssumption DEF Inv, TypeOK, HeadsInv, NextsInv, OneRefInv, InChain, Valid
  <2>6. ValueInv'
    BY <2>1 DEF Inv, TypeOK, ValueInv
  <2> QED
    BY <2>1, <2>2, <2>3, <2>4, <2>5, <2>6
<1>4. CallInv(t)'
    BY DEF Inv, TypeOK, CallInv, UndefLabels, ArgLabels
<1>5. PlaceInv(t)'
  <2>1. pc'[t] = "reclaim" /\ cell' = [cell EXCEPT ![cur[t]] = "unlinked"] /\ UNCHANGED <<cur, value>>
    BY DEF Inv, TypeOK
  <2>2. cur[t] \in Addr /\ cell[cur[t]] = "linked"
    BY DEF Inv, PlaceInv, InChain
  <2>3. value[cur[t]] # Junk
    BY <2>2, Alone DEF Inv, ValueInv, OutsideLabels
  <2> QED
    BY <2>1, <2>2, <2>3 DEF Inv, TypeOK, PlaceInv, EntryLabels
<1> QED
    BY <1>1, <1>2, <1>3, <1>4, <1>5, InsideStepInv DEF Inv

\* Freeing the unlinked entry leaves no dangling pointer.
LEMMA ReclaimInv ==
    ASSUME Inv, NEW t \in Threads, Reclaim(t)
    PROVE  Inv'
<1> USE DEF Reclaim, Goto
<1>0. req[t].op = "GET" /\ cur[t] \in Addr /\ cell[cur[t]] = "unlinked"
    BY DEF Inv, CallInv, PlaceInv, UndefLabels
<1> USE <1>0 DEF AfterUndef
<1>1. InsideStep(t)
    BY DEF Inv, TypeOK, InsideStep, OutsideLabels
<1>2. TypeOK'
    BY DEF Inv, TypeOK, heapVars
<1>3. HeadsInv' /\ NextsInv' /\ OneRefInv' /\ ValueInv'
  <2>1. HeadsInv' /\ NextsInv' /\ OneRefInv'
    BY DEF Inv, TypeOK, HeadsInv, NextsInv, OneRefInv, InChain
  <2>2. ValueInv'
    BY DEF Inv, TypeOK, ValueInv
  <2> QED
    BY <2>1, <2>2
<1>4. CallInv(t)'
    BY DEF Inv, TypeOK, CallInv, UndefLabels, ArgLabels
<1>5. PlaceInv(t)'
    BY DEF Inv, TypeOK, PlaceInv, EntryLabels
<1> QED
    BY <1>1, <1>2, <1>3, <1>4, <1>5, InsideStepInv DEF Inv

-----------------------------------------------------------------------------
(* The steps outside the critical sections, and those that enter and leave *)

\* A step of a thread that stays outside, or of the clock.
LEMMA OutsideStepInv ==
    ASSUME Inv, TypeOK', UNCHANGED <<db_lock, heapVars>>,
           \A u \in Threads :
              /\ CallInv(u)'
              /\ \/ pc[u] \in OutsideLabels /\ pc'[u] \in OutsideLabels
                 \/ pc'[u] = pc[u] /\ cur'[u] = cur[u] /\ prev'[u] = prev[u]
                    /\ req'[u] = req[u]
    PROVE  Inv'
<1>1. HeadsInv' /\ NextsInv' /\ OneRefInv' /\ ValueInv'
    BY HeapUnchanged DEF OutsideLabels
<1>2. LockOwned'
    BY DEF Inv, LockOwned, Critical, CallInv, OutsideLabels
<1>3. ASSUME NEW u \in Threads PROVE PlaceInv(u)'
  <2>1. CASE pc'[u] \in OutsideLabels
    BY <2>1 DEF PlaceInv, OutsideLabels, EntryLabels
  <2>2. CASE /\ pc'[u] = pc[u] /\ cur'[u] = cur[u] /\ prev'[u] = prev[u]
             /\ req'[u] = req[u]
    BY <2>2 DEF Inv, PlaceInv, InChain, Bucket, heapVars, EntryLabels
  <2> QED
    BY <2>1, <2>2
<1> QED
    BY <1>1, <1>2, <1>3 DEF Inv

\* A call that begins takes no pointer yet; none of them is a DEL.
LEMMA CallStepInv ==
    ASSUME Disciplined, Inv, NEW t \in Threads, Call(t)
    PROVE  Inv'
<1> PICK k \in Keys : \/ \E v \in Inputs, e \in Expiries : CallSet(t, k, v, e)
                      \/ CallGet(t, k)
                      \/ CallIncr(t, k)
                      \/ CallDel(t, k)
    BY DEF Call
<1>1. ASSUME NEW v \in Inputs, NEW e \in Expiries, CallSet(t, k, v, e)
      PROVE  Inv'
  <2>1. TypeOK'
    BY <1>1, InputAssumption DEF Inv, TypeOK, CallSet, Begin, Goto, heapVars
  <2>2. \A u \in Threads : CallInv(u)'
    BY <1>1, InputAssumption
       DEF Inv, TypeOK, CallInv, CallSet, Begin, Goto, UndefLabels, ArgLabels
  <2> QED
    BY <1>1, <2>1, <2>2, OutsideStepInv
       DEF Inv, TypeOK, CallSet, Begin, Goto, OutsideLabels
<1>2. CASE CallGet(t, k)
  <2>1. TypeOK'
    BY <1>2 DEF Inv, TypeOK, CallGet, Begin, Goto, heapVars
  <2>2. \A u \in Threads : CallInv(u)'
    BY <1>2 DEF Inv, TypeOK, CallInv, CallGet, Begin, Goto, UndefLabels, ArgLabels
  <2> QED
    BY <1>2, <2>1, <2>2, OutsideStepInv
       DEF Inv, TypeOK, CallGet, Begin, Goto, OutsideLabels
<1>3. CASE CallIncr(t, k)
  <2>1. TypeOK'
    BY <1>3 DEF Inv, TypeOK, CallIncr, Begin, Goto, heapVars
  <2>2. \A u \in Threads : CallInv(u)'
    BY <1>3 DEF Inv, TypeOK, CallInv, CallIncr, Begin, Goto, UndefLabels, ArgLabels
  <2> QED
    BY <1>3, <2>1, <2>2, OutsideStepInv
       DEF Inv, TypeOK, CallIncr, Begin, Goto, OutsideLabels
<1>4. ~CallDel(t, k)
    BY DEF Disciplined, CallDel, Begin
<1> QED
    BY <1>1, <1>2, <1>3, <1>4

\* Taking a free db_lock brings one thread inside.
LEMMA LockInv ==
    ASSUME Inv, NEW t \in Threads, Lock(t)
    PROVE  Inv'
<1> USE DEF Lock, Goto
<1>1. TypeOK'
    BY DEF Inv, TypeOK, heapVars
<1>2. \A u \in Threads : pc[u] \in OutsideLabels
    BY DistinctAssumption DEF Inv, LockOwned, Critical, CallInv, OutsideLabels
<1>3. LockOwned'
    BY <1>2, DistinctAssumption DEF Inv, TypeOK, LockOwned, Critical, CallInv, OutsideLabels
<1>4. HeadsInv' /\ NextsInv' /\ OneRefInv' /\ ValueInv'
    BY <1>2, HeapUnchanged DEF OutsideLabels
<1>5. \A u \in Threads : CallInv(u)'
    BY DEF Inv, TypeOK, CallInv, UndefLabels, ArgLabels
<1>6. \A u \in Threads : PlaceInv(u)'
    BY <1>2, ZenonT(40) DEF Inv, TypeOK, PlaceInv, EntryLabels, OutsideLabels
<1> QED
    BY <1>1, <1>3, <1>4, <1>5, <1>6 DEF Inv

\* Releasing db_lock brings its owner outside.
LEMMA UnlockInv ==
    ASSUME Inv, NEW t \in Threads, Unlock(t)
    PROVE  Inv'
<1> USE DEF Unlock, Goto
<1>1. TypeOK'
    BY DEF Inv, TypeOK, heapVars
<1>2. \A u \in Threads \ {t} : pc[u] \in OutsideLabels
    BY Alone DEF OutsideLabels
<1>3. LockOwned'
    BY <1>2, DistinctAssumption DEF Inv, TypeOK, LockOwned, Critical, OutsideLabels
<1>4. HeadsInv' /\ NextsInv' /\ OneRefInv' /\ ValueInv'
    BY <1>2, HeapUnchanged DEF OutsideLabels
<1>5. \A u \in Threads : CallInv(u)'
    BY DEF Inv, TypeOK, CallInv, UndefLabels, ArgLabels
<1>6. \A u \in Threads : PlaceInv(u)'
    BY <1>2, ZenonT(40) DEF Inv, TypeOK, PlaceInv, EntryLabels, OutsideLabels
<1> QED
    BY <1>1, <1>3, <1>4, <1>5, <1>6 DEF Inv

\* A call that returns was outside already.
LEMMA ReturnInv ==
    ASSUME Inv, NEW t \in Threads, Return(t)
    PROVE  Inv'
<1> USE DEF Return, Goto
<1>1. AnyKey \in Keys
    BY HashAssumption DEF AnyKey
<1>2. TypeOK'
    BY <1>1 DEF Inv, TypeOK, heapVars
<1>3. \A u \in Threads : CallInv(u)'
    BY <1>1 DEF Inv, TypeOK, CallInv, UndefLabels, ArgLabels
<1> QED
    BY <1>2, <1>3, OutsideStepInv DEF Inv, TypeOK, OutsideLabels

\* The clock is in no part of the invariant.
LEMMA TickInv ==
    ASSUME Inv, Tick
    PROVE  Inv'
<1> USE DEF Tick, threadVars
<1>1. TypeOK'
    BY DEF Inv, TypeOK, heapVars
<1>2. \A u \in Threads : CallInv(u)'
    BY DEF Inv, CallInv
<1> QED
    BY <1>1, <1>2, OutsideStepInv

\* A step that changes nothing preserves the invariant.
LEMMA StutterInv ==
    ASSUME Inv, UNCHANGED vars
    PROVE  Inv'
<1> USE DEF vars, threadVars
<1>1. TypeOK'
    BY DEF Inv, TypeOK, heapVars
<1>2. \A u \in Threads : CallInv(u)'
    BY DEF Inv, CallInv
<1> QED
    BY <1>1, <1>2, OutsideStepInv

-----------------------------------------------------------------------------
(* Memory safety                                                           *)

\* Every step preserves the invariant.
THEOREM NextInv ==
    ASSUME Disciplined, Inv, [Next]_vars
    PROVE  Inv'
<1>1. CASE UNCHANGED vars
    BY <1>1, StutterInv
<1>2. CASE Tick
    BY <1>2, TickInv
<1>3. ASSUME NEW t \in Threads, Call(t) PROVE Inv'
    BY <1>3, CallStepInv
<1>4. ASSUME NEW t \in Threads, Lock(t) PROVE Inv'
    BY <1>4, LockInv
<1>5. ASSUME NEW t \in Threads, lookup(t) PROVE Inv'
    BY <1>5, LookupHeadInv, LookupNextInv, LookupFoundInv, LookupMissingInv DEF lookup
<1>6. ASSUME NEW t \in Threads, install(t) PROVE Inv'
    BY <1>6, AllocInv, EntryAllocFailsInv, KeyAllocFailsInv, LinkNextInv, LinkHeadInv,
       FreeValueInv, StoreValueInv, ValueAllocFailsInv, StoreExpiryInv DEF install
<1>7. ASSUME NEW t \in Threads, undef(t) PROVE Inv'
    BY <1>7, UndefHeadInv, UndefNextInv, UndefFoundInv, UndefMissingInv, UnlinkInv,
       ReclaimInv DEF undef
<1>8. ASSUME NEW t \in Threads, Run(t) PROVE Inv'
    BY <1>5, <1>6, <1>7, <1>8, GetExpiredInv, GetAliveInv, CopyInv, IncrNotANumberInv,
       IncrNumberInv, UnlockInv, ReturnInv DEF Run
<1> QED
    BY <1>1, <1>2, <1>3, <1>4, <1>8 DEF Next

\* The invariant excludes every invalid access.
LEMMA InvSafe == Inv => MemorySafe
<1> SUFFICES ASSUME Inv, NEW t \in Threads, Dangling(t) PROVE FALSE
    BY DEF MemorySafe
<1> USE DistinctAssumption DEF DerefLabels, ReadLabels, FreeLabels, Valid
<1>1. PlaceInv(t)
    BY DEF Inv
<1>2. CASE pc[t] \in EntryLabels \ {"store"}
    BY <1>2, EntryReadable DEF Dangling, EntryLabels
<1>3. CASE pc[t] \notin EntryLabels \ {"store"}
    BY <1>1, <1>3 DEF Dangling, EntryLabels, PlaceInv, InChain
<1> QED
    BY <1>2, <1>3

\* The type invariant and the inductive invariant hold throughout.
THEOREM Invariance == Disciplined => (Spec => []Inv)
<1> SUFFICES ASSUME Disciplined PROVE Spec => []Inv
    OBVIOUS
<1>1. Inv /\ [Next]_vars => Inv'
    BY NextInv
<1> QED
    BY <1>1, InitInv, PTL DEF Spec

\* Without DEL, db.c is memory safe under every interleaving of any number of
\* clients: no freed or half-built entry is ever read, and none is freed twice.
THEOREM MemorySafety == Disciplined => (Spec => []MemorySafe)
  BY Invariance, InvSafe, PTL

\* The critical sections exclude each other, and db_lock is never left held.
THEOREM MutualExclusion == Disciplined => (Spec => []LockOwned)
<1>1. Inv => LockOwned
    BY DEF Inv
<1> QED
    BY <1>1, Invariance, PTL

-----------------------------------------------------------------------------
(* The hash table: the inductive invariant                                 *)

\* The chain of bucket b is c[1], ..., c[n]: all its linked entries, each once.
Chain(b, n, c) ==
    /\ \A a \in Addr : cell[a] = "linked" /\ Hash[ekey[a]] = b
                          <=> \E i \in 1 .. n : c[i] = a
    /\ \A i, j \in 1 .. n : c[i] = c[j] => i = j
    /\ hashtab[b] = IF n = 0 THEN NULL ELSE c[1]
    /\ \A i \in 1 .. n : next[c[i]] = IF i = n THEN NULL ELSE c[i + 1]

ChainInv == \A b \in Buckets : \E n \in Nat : \E c \in [1 .. n -> Addr] : Chain(b, n, c)

\* No key is stored twice ...
KeyInv ==
    \A a1, a2 \in Addr :
        cell[a1] = "linked" /\ cell[a2] = "linked" /\ ekey[a1] = ekey[a2] => a1 = a2

\* ... because lookup() and undef() have passed over all entries in front of cur,
\* and install() allocates only when lookup() has passed over all there are.
Absent(k) == \A a \in Addr : cell[a] = "linked" => ekey[a] # k

Searched(t, n, c, i) ==
    /\ Chain(Bucket(t), n, c)
    /\ cur[t] = IF i = n + 1 THEN NULL ELSE c[i]
    /\ \A j \in 1 .. i - 1 : ekey[c[j]] # req[t].key

SearchInv(t) ==
    /\ pc[t] \in {"lookup", "undef"} =>
          \E n \in Nat : \E c \in [1 .. n -> Addr], i \in 1 .. n + 1 : Searched(t, n, c, i)
    /\ pc[t] \in {"alloc", "linkNext", "linkHead"} => Absent(req[t].key)

\* An entry that is on no chain is in the hands of a thread.
HeldInv ==
    \A a \in Addr :
        /\ cell[a] = "fresh" =>
              \E t \in Threads : pc[t] \in {"linkNext", "linkHead"} /\ cur[t] = a
        /\ cell[a] = "unlinked" => \E t \in Threads : pc[t] = "reclaim" /\ cur[t] = a

ShapeInv == ChainInv /\ KeyInv /\ HeldInv /\ \A t \in Threads : SearchInv(t)

-----------------------------------------------------------------------------
(* Steps that change no pointer of the table                               *)

\* The empty table.
LEMMA ShapeInit == Init => ShapeInv
<1> SUFFICES ASSUME Init PROVE ShapeInv
    OBVIOUS
<1>1. ASSUME NEW b \in Buckets
      PROVE  \E n \in Nat : \E c \in [1 .. n -> Addr] : Chain(b, n, c)
  <2>1. [i \in 1 .. 0 |-> 0] \in [1 .. 0 -> Addr]
    OBVIOUS
  <2>2. Chain(b, 0, [i \in 1 .. 0 |-> 0])
    BY DEF Chain, Init
  <2> QED
    BY <2>1, <2>2
<1>2. KeyInv /\ HeldInv
    BY DEF Init, KeyInv, HeldInv
<1>3. ASSUME NEW t \in Threads PROVE SearchInv(t)
    BY DEF Init, SearchInv
<1> QED
    BY <1>1, <1>2, <1>3 DEF ShapeInv, ChainInv

\* A chain is what it is while the pointers, keys and states of the entries
\* stay the same.
LEMMA SameChain ==
    ASSUME NEW b, NEW n, NEW c, Chain(b, n, c), UNCHANGED <<hashtab, cell, ekey, next>>
    PROVE  Chain(b, n, c)'
  BY DEF Chain

\* u goes on as before, or is where it knows nothing of the chain.
Elsewhere(u) ==
    \/ pc'[u] = pc[u] /\ cur'[u] = cur[u] /\ req'[u] = req[u]
    \/ /\ pc'[u] \notin {"lookup", "undef", "alloc", "linkNext", "linkHead"}
       /\ pc[u] \notin {"linkNext", "linkHead", "reclaim"}

\* Such a thread still knows where it has searched.
LEMMA ElsewhereSearch ==
    ASSUME NEW u, SearchInv(u), Elsewhere(u), UNCHANGED <<hashtab, cell, ekey, next>>
    PROVE  SearchInv(u)'
<1>1. CASE pc'[u] \notin {"lookup", "undef", "alloc", "linkNext", "linkHead"}
    BY <1>1 DEF SearchInv
<1>2. CASE pc'[u] = pc[u] /\ cur'[u] = cur[u] /\ req'[u] = req[u]
  <2>1. ASSUME NEW n, NEW c, NEW i, Searched(u, n, c, i) PROVE Searched(u, n, c, i)'
    <3>1. Bucket(u)' = Bucket(u)
        BY <1>2 DEF Bucket
    <3>2. Chain(Bucket(u), n, c) /\ \A b : Chain(b, n, c) => Chain(b, n, c)'
        BY <2>1, SameChain DEF Searched
    <3>3. Chain(Bucket(u), n, c)'
        BY <3>1, <3>2 DEF Chain
    <3> QED
        BY <1>2, <2>1, <3>3 DEF Searched
  <2>2. pc'[u] \in {"lookup", "undef"} =>
          \E n \in Nat : \E c \in [1 .. n -> Addr], i \in 1 .. n + 1 : Searched(u, n, c, i)'
    BY <1>2, <2>1 DEF SearchInv
  <2>3. pc'[u] \in {"alloc", "linkNext", "linkHead"} => Absent(req[u].key)'
    BY <1>2 DEF SearchInv, Absent
  <2> QED
    BY <2>2, <2>3 DEF SearchInv
<1> QED
    BY <1>1, <1>2 DEF Elsewhere

\* A step after which only t may know more than before.
LEMMA QuietShape ==
    ASSUME ShapeInv, UNCHANGED <<hashtab, cell, ekey, next>>, NEW t,
           \A u \in Threads \ {t} : Elsewhere(u),
           t \in Threads => SearchInv(t)' /\ (Elsewhere(t) \/ pc[t] \notin {"linkNext", "linkHead", "reclaim"})
    PROVE  ShapeInv'
<1>1. ChainInv'
  <2> SUFFICES ASSUME NEW b \in Buckets
               PROVE  \E n \in Nat : \E c \in [1 .. n -> Addr] : Chain(b, n, c)'
    BY DEF ChainInv
  <2>1. PICK n \in Nat : \E c \in [1 .. n -> Addr] : Chain(b, n, c)
    BY DEF ShapeInv, ChainInv
  <2>2. PICK c \in [1 .. n -> Addr] : Chain(b, n, c)
    BY <2>1
  <2> QED
    BY <2>2, SameChain
<1>2. KeyInv'
    BY DEF ShapeInv, KeyInv
<1>3. HeldInv'
    BY DEF ShapeInv, HeldInv, Elsewhere
<1>4. ASSUME NEW u \in Threads PROVE SearchInv(u)'
    BY <1>4, ElsewhereSearch DEF ShapeInv
<1> QED
    BY <1>1, <1>2, <1>3, <1>4 DEF ShapeInv

\* lookup() or undef() at the head of the chain has passed over nothing.
LEMMA HeadShape ==
    ASSUME Inv, ShapeInv, NEW t \in Threads, LookupHead(t) \/ UndefHead(t)
    PROVE  ShapeInv'
<1> USE DEF LookupHead, UndefHead, Goto
<1>1. \A u \in Threads \ {t} : Elsewhere(u)
    BY DEF Inv, TypeOK, Elsewhere
<1>2. PICK n \in Nat : \E c \in [1 .. n -> Addr] : Chain(Bucket(t), n, c)
    BY BucketType DEF ShapeInv, ChainInv
<1>3. PICK c \in [1 .. n -> Addr] : Chain(Bucket(t), n, c)
    BY <1>2
<1>4. /\ pc'[t] \in {"lookup", "undef"} /\ cur'[t] = hashtab[Bucket(t)]
      /\ pc[t] \in {"head", "undefHead"}
      /\ UNCHANGED <<req, hashtab, cell, ekey, next>>
    BY DEF Inv, TypeOK, heapVars
<1>5. Chain(Bucket(t), n, c)'
    BY <1>3, <1>4 DEF Chain, Bucket
<1>6. cur'[t] = IF 1 = n + 1 THEN NULL ELSE c[1]
    BY <1>3, <1>4 DEF Chain
<1>7. Searched(t, n, c, 1)' /\ 1 \in 1 .. n + 1
    BY <1>5, <1>6 DEF Searched
<1>8. SearchInv(t)'
    BY <1>4, <1>7 DEF SearchInv
<1> QED
    BY <1>1, <1>4, <1>8, QuietShape

\* p = p->next passes over an entry with another key.
LEMMA NextEntryShape ==
    ASSUME Inv, ShapeInv, NEW t \in Threads, LookupNext(t) \/ UndefNext(t)
    PROVE  ShapeInv'
<1> USE DEF LookupNext, UndefNext
<1>1. \A u \in Threads \ {t} : Elsewhere(u)
    BY DEF Inv, TypeOK, Elsewhere
<1>2. PICK n \in Nat : \E c \in [1 .. n -> Addr], i \in 1 .. n + 1 : Searched(t, n, c, i)
    BY DEF ShapeInv, SearchInv
<1>3. PICK c \in [1 .. n -> Addr], i \in 1 .. n + 1 : Searched(t, n, c, i)
    BY <1>2
<1>4. /\ pc'[t] \in {"lookup", "undef"} /\ cur'[t] = next[cur[t]] /\ pc'[t] = pc[t]
      /\ ekey[cur[t]] # req[t].key /\ cur[t] \in Addr
      /\ UNCHANGED <<req, hashtab, cell, ekey, next>>
    BY DEF Inv, TypeOK, heapVars, Valid
<1>5. i \in 1 .. n /\ cur[t] = c[i]
    BY <1>3, <1>4, DistinctAssumption DEF Searched
<1>6. Chain(Bucket(t), n, c)'
    BY <1>3, <1>4 DEF Searched, Chain, Bucket
<1>7. cur'[t] = IF i + 1 = n + 1 THEN NULL ELSE c[i + 1]
    BY <1>3, <1>4, <1>5 DEF Searched, Chain
<1>8. \A j \in 1 .. i : ekey'[c[j]] # req'[t].key
    BY <1>3, <1>4, <1>5 DEF Searched
<1>9. \A m : m = i + 1 => Searched(t, n, c, m)' /\ m \in 1 .. n + 1
    BY <1>5, <1>6, <1>7, <1>8 DEF Searched
<1>10. SearchInv(t)'
    BY <1>4, <1>9 DEF SearchInv
<1> QED
    BY <1>1, <1>4, <1>10, QuietShape

\* At the end of the chain: the key is not in the table.
LEMMA EndOfChain ==
    ASSUME Inv, ShapeInv, NEW t \in Threads, pc[t] \in {"lookup", "undef"}, cur[t] = NULL
    PROVE  Absent(req[t].key)
<1>1. PICK n \in Nat : \E c \in [1 .. n -> Addr], i \in 1 .. n + 1 : Searched(t, n, c, i)
    BY DEF ShapeInv, SearchInv
<1>2. PICK c \in [1 .. n -> Addr], i \in 1 .. n + 1 : Searched(t, n, c, i)
    BY <1>1
<1>3. i = n + 1
    BY <1>2, DistinctAssumption DEF Searched
<1> SUFFICES ASSUME NEW a \in Addr, cell[a] = "linked", ekey[a] = req[t].key PROVE FALSE
    BY DEF Absent
<1>4. \E j \in 1 .. n : c[j] = a
    BY <1>2 DEF Searched, Chain, Bucket
<1> QED
    BY <1>2, <1>3, <1>4 DEF Searched

\* install() goes on to allocate when lookup() has found nothing.
LEMMA LookupMissingShape ==
    ASSUME Inv, ShapeInv, NEW t \in Threads, LookupMissing(t)
    PROVE  ShapeInv'
<1> USE DEF LookupMissing, Goto
<1>1. \A u \in Threads \ {t} : Elsewhere(u)
    BY DEF Inv, TypeOK, Elsewhere
<1>2. /\ pc'[t] \in {"unlock", "head", "alloc"} /\ pc[t] = "lookup" /\ cur[t] = NULL
      /\ UNCHANGED <<req, hashtab, cell, ekey, next>>
    BY DEF Inv, TypeOK, heapVars
<1>3. SearchInv(t)'
    BY <1>2, EndOfChain DEF SearchInv, Absent
<1> QED
    BY <1>1, <1>2, <1>3, QuietShape

\* install() without memory for the entry goes on with NULL.
LEMMA EntryAllocFailsShape ==
    ASSUME Inv, ShapeInv, NEW t \in Threads, EntryAllocFails(t)
    PROVE  ShapeInv'
<1> USE DEF EntryAllocFails, Goto
<1>1. \A u \in Threads \ {t} : Elsewhere(u)
    BY DEF Inv, TypeOK, Elsewhere
<1>2. pc'[t] = "linkNext" /\ pc[t] = "alloc" /\ UNCHANGED <<req, hashtab, cell, ekey, next>>
    BY DEF Inv, TypeOK, heapVars
<1>3. SearchInv(t)'
    BY <1>2 DEF ShapeInv, SearchInv, Absent
<1> QED
    BY <1>1, <1>2, <1>3, QuietShape

\* All the other steps that write no pointer.
LEMMA PlainShape ==
    ASSUME Inv, ShapeInv, NEW t \in Threads,
           \/ Call(t) \/ Lock(t) \/ Unlock(t) \/ Return(t) \/ LookupFound(t)
           \/ KeyAllocFails(t) \/ FreeValue(t) \/ StoreValue(t) \/ ValueAllocFails(t)
           \/ StoreExpiry(t) \/ GetExpired(t) \/ GetAlive(t) \/ Copy(t)
           \/ IncrNotANumber(t) \/ IncrNumber(t) \/ UndefFound(t) \/ UndefMissing(t)
    PROVE  ShapeInv'
<1>1. UNCHANGED <<hashtab, cell, ekey, next>> /\ \A u \in Threads : Elsewhere(u)
  <2> USE DEF Goto, heapVars, Elsewhere, Inv, TypeOK
  <2>1. CASE Call(t)
    BY <2>1 DEF Call, CallSet, CallGet, CallIncr, CallDel, Begin
  <2>2. CASE Lock(t) \/ Unlock(t) \/ Return(t)
    BY <2>2 DEF Lock, Unlock, Return
  <2>3. CASE LookupFound(t)
    BY <2>3 DEF LookupFound
  <2>4. CASE KeyAllocFails(t) \/ FreeValue(t) \/ StoreValue(t) \/ ValueAllocFails(t)
             \/ StoreExpiry(t)
    BY <2>4 DEF KeyAllocFails, FreeValue, StoreValue, ValueAllocFails, StoreExpiry
  <2>5. CASE GetExpired(t) \/ GetAlive(t) \/ Copy(t) \/ IncrNotANumber(t) \/ IncrNumber(t)
    BY <2>5 DEF GetExpired, GetAlive, Copy, IncrNotANumber, IncrNumber
  <2>6. CASE UndefFound(t) \/ UndefMissing(t)
    BY <2>6 DEF UndefFound, UndefMissing, AfterUndef
  <2> QED
    BY <2>1, <2>2, <2>3, <2>4, <2>5, <2>6
<1>2. SearchInv(t)'
    BY <1>1, ElsewhereSearch DEF ShapeInv
<1> QED
    BY <1>1, <1>2, QuietShape

-----------------------------------------------------------------------------
(* Steps that change the pointers: the other threads are outside           *)

LEMMA OthersOutside ==
    ASSUME Inv, NEW t \in Threads, pc[t] \notin OutsideLabels,
           \A u \in Threads \ {t} : pc'[u] = pc[u], SearchInv(t)'
    PROVE  \A u \in Threads : SearchInv(u)'
  BY Alone DEF SearchInv, OutsideLabels

\* A step that touches no linked entry and no head keeps the chains and keys.
LEMMA FreshShape ==
    ASSUME ShapeInv, UNCHANGED hashtab,
           \A a \in Addr : /\ cell'[a] = "linked" <=> cell[a] = "linked"
                           /\ cell[a] = "linked" => ekey'[a] = ekey[a] /\ next'[a] = next[a]
    PROVE  ChainInv' /\ KeyInv' /\ \A k : Absent(k) => Absent(k)'
<1>1. ChainInv'
  <2> SUFFICES ASSUME NEW b \in Buckets
               PROVE  \E n \in Nat : \E c \in [1 .. n -> Addr] : Chain(b, n, c)'
    BY DEF ChainInv
  <2>1. PICK n \in Nat : \E c \in [1 .. n -> Addr] : Chain(b, n, c)
    BY DEF ShapeInv, ChainInv
  <2>2. PICK c \in [1 .. n -> Addr] : Chain(b, n, c)
    BY <2>1
  <2>3. \A i \in 1 .. n : c[i] \in Addr /\ cell[c[i]] = "linked"
    BY <2>2 DEF Chain
  <2>4. Chain(b, n, c)'
    BY <2>2, <2>3 DEF Chain
  <2> QED
    BY <2>4
<1>2. KeyInv'
    BY DEF ShapeInv, KeyInv
<1>3. \A k : Absent(k) => Absent(k)'
    BY DEF Absent
<1> QED
    BY <1>1, <1>2, <1>3

\* The new entry is in the hands of the thread that allocated it.
LEMMA AllocShape ==
    ASSUME Inv, ShapeInv, NEW t \in Threads, Alloc(t)
    PROVE  ShapeInv'
<1>1. PICK a \in Addr : /\ cell[a] = "free"
                        /\ cell' = [cell EXCEPT ![a] = "fresh"]
                        /\ ekey' = [ekey EXCEPT ![a] = req[t].key]
                        /\ cur' = [cur EXCEPT ![t] = a]
    BY DEF Alloc
<1>2. /\ pc[t] = "alloc" /\ pc' = [pc EXCEPT ![t] = "linkNext"]
      /\ UNCHANGED <<hashtab, next, req>>
    BY DEF Alloc, Goto
<1>3. ChainInv' /\ KeyInv' /\ \A k : Absent(k) => Absent(k)'
    BY <1>1, <1>2, FreshShape DEF Inv, TypeOK
<1>4. SearchInv(t)'
    BY <1>2, <1>3 DEF Inv, TypeOK, ShapeInv, SearchInv
<1>5. \A u \in Threads : SearchInv(u)'
    BY <1>2, <1>4, OthersOutside DEF Inv, TypeOK, OutsideLabels
<1>6. HeldInv'
    BY <1>1, <1>2 DEF Inv, TypeOK, ShapeInv, HeldInv
<1> QED
    BY <1>3, <1>5, <1>6 DEF ShapeInv

\* p->next = hashtab[h] changes an entry that is not linked yet.
LEMMA LinkNextShape ==
    ASSUME Inv, ShapeInv, NEW t \in Threads, LinkNext(t)
    PROVE  ShapeInv'
<1>1. cur[t] \in Addr /\ cell[cur[t]] = "fresh"
    BY DistinctAssumption DEF LinkNext, Inv, PlaceInv, Valid
<1>2. /\ pc[t] = "linkNext" /\ pc' = [pc EXCEPT ![t] = "linkHead"]
      /\ next' = [next EXCEPT ![cur[t]] = hashtab[Bucket(t)]]
      /\ UNCHANGED <<hashtab, cell, ekey, req, cur>>
    BY DEF LinkNext, Goto
<1>3. ChainInv' /\ KeyInv' /\ \A k : Absent(k) => Absent(k)'
    BY <1>1, <1>2, FreshShape DEF Inv, TypeOK
<1>4. SearchInv(t)'
    BY <1>2, <1>3 DEF Inv, TypeOK, ShapeInv, SearchInv
<1>5. \A u \in Threads : SearchInv(u)'
    BY <1>2, <1>4, OthersOutside DEF Inv, TypeOK, OutsideLabels
<1>6. HeldInv'
    BY <1>1, <1>2 DEF Inv, TypeOK, ShapeInv, HeldInv
<1> QED
    BY <1>3, <1>5, <1>6 DEF ShapeInv

\* Freeing an entry that is on no chain.
LEMMA ReclaimShape ==
    ASSUME Inv, ShapeInv, NEW t \in Threads, Reclaim(t)
    PROVE  ShapeInv'
<1>1. req[t].op = "GET" /\ cur[t] \in Addr /\ cell[cur[t]] = "unlinked"
    BY DEF Reclaim, Inv, CallInv, PlaceInv, UndefLabels
<1>2. /\ pc[t] = "reclaim" /\ pc' = [pc EXCEPT ![t] = "unlock"]
      /\ cell' = [cell EXCEPT ![cur[t]] = "free"]
      /\ UNCHANGED <<hashtab, next, ekey, req, cur>>
    BY <1>1 DEF Reclaim, AfterUndef, Goto
<1>3. ChainInv' /\ KeyInv' /\ \A k : Absent(k) => Absent(k)'
    BY <1>1, <1>2, FreshShape DEF Inv, TypeOK
<1>4. SearchInv(t)'
    BY <1>2 DEF Inv, TypeOK, SearchInv
<1>5. \A u \in Threads : SearchInv(u)'
    BY <1>2, <1>4, OthersOutside DEF Inv, TypeOK, OutsideLabels
<1>6. HeldInv'
    BY <1>1, <1>2 DEF Inv, TypeOK, ShapeInv, HeldInv
<1> QED
    BY <1>3, <1>5, <1>6 DEF ShapeInv

\* A step that changes the chain of bucket h alone.
LEMMA OtherChains ==
    ASSUME ShapeInv, NEW h \in Buckets, NEW p \in Addr, Hash[ekey[p]] = h,
           UNCHANGED ekey,
           \A b \in Buckets \ {h} : hashtab'[b] = hashtab[b],
           \A a \in Addr \ {p} : cell'[a] = cell[a],
           \A a \in Addr : Hash[ekey[a]] # h => next'[a] = next[a],
           \E n \in Nat : \E c \in [1 .. n -> Addr] : Chain(h, n, c)'
    PROVE  ChainInv'
<1> SUFFICES ASSUME NEW b \in Buckets, b # h
             PROVE  \E n \in Nat : \E c \in [1 .. n -> Addr] : Chain(b, n, c)'
    BY DEF ChainInv
<1>1. PICK n \in Nat : \E c \in [1 .. n -> Addr] : Chain(b, n, c)
    BY DEF ShapeInv, ChainInv
<1>2. PICK c \in [1 .. n -> Addr] : Chain(b, n, c)
    BY <1>1
<1>3. \A i \in 1 .. n : c[i] \in Addr /\ c[i] # p /\ Hash[ekey[c[i]]] = b
    BY <1>2 DEF Chain
<1>4. \A a \in Addr : cell'[a] = "linked" /\ Hash[ekey'[a]] = b
                          <=> \E i \in 1 .. n : c[i] = a
  <2>1. \A a \in Addr \ {p} : cell'[a] = cell[a] /\ ekey'[a] = ekey[a]
    OBVIOUS
  <2>2. Hash[ekey'[p]] # b
    OBVIOUS
  <2> QED
    BY <1>2, <1>3, <2>1, <2>2 DEF Chain
<1>5. Chain(b, n, c)'
    BY <1>2, <1>3, <1>4 DEF Chain
<1> QED
    BY <1>5

\* hashtab[h] = p puts the entry in front of its chain.
LEMMA LinkHeadShape ==
    ASSUME Inv, ShapeInv, NEW t \in Threads, LinkHead(t)
    PROVE  ShapeInv'
<1> DEFINE p == cur[t]
           h == Bucket(t)
<1>1. /\ p \in Addr /\ cell[p] = "fresh" /\ ekey[p] = req[t].key
      /\ h \in Buckets /\ Hash[ekey[p]] = h /\ next[p] = hashtab[h]
      /\ Absent(req[t].key)
    BY BucketType DEF LinkHead, Inv, PlaceInv, ShapeInv, SearchInv, Bucket
<1>2. /\ pc[t] = "linkHead" /\ pc' = [pc EXCEPT ![t] = "store"]
      /\ cell' = [cell EXCEPT ![p] = "linked"]
      /\ hashtab' = [hashtab EXCEPT ![h] = p]
      /\ UNCHANGED <<next, ekey, req, cur>>
    BY DEF LinkHead, Goto
<1>3. \E n \in Nat : \E c \in [1 .. n -> Addr] : Chain(h, n, c)'
  <2>1. PICK n \in Nat : \E c \in [1 .. n -> Addr] : Chain(h, n, c)
    BY <1>1 DEF ShapeInv, ChainInv
  <2>2. PICK c \in [1 .. n -> Addr] : Chain(h, n, c)
    BY <2>1
  <2>3. PICK q : q = p
    OBVIOUS
  <2> DEFINE d == [i \in 1 .. n + 1 |-> IF i = 1 THEN q ELSE c[i - 1]]
  <2>4. /\ d \in [1 .. n + 1 -> Addr] /\ d[1] = q
        /\ \A i \in 1 .. n + 1 : i # 1 => i - 1 \in 1 .. n /\ d[i] = c[i - 1]
        /\ \A i \in 1 .. n : i + 1 \in 1 .. n + 1 /\ d[i + 1] = c[i]
    BY <1>1, <2>3
  <2> HIDE DEF d
  <2>5. \A i \in 1 .. n : c[i] \in Addr /\ c[i] # q /\ cell[c[i]] = "linked"
    BY <1>1, <2>2, <2>3 DEF Chain
  <2>6. \A a \in Addr : cell'[a] = "linked" /\ Hash[ekey'[a]] = h
                           <=> \E i \in 1 .. n + 1 : d[i] = a
    <3> SUFFICES ASSUME NEW a \in Addr
                 PROVE  cell'[a] = "linked" /\ Hash[ekey'[a]] = h
                           <=> \E i \in 1 .. n + 1 : d[i] = a
        OBVIOUS
    <3>1. CASE a = q
      <4>1. cell'[a] = "linked" /\ Hash[ekey'[a]] = h
        BY <1>1, <1>2, <2>3, <3>1 DEF Inv, TypeOK
      <4>2. d[1] = a /\ 1 \in 1 .. n + 1
        BY <2>4, <3>1
      <4> QED
        BY <4>1, <4>2, Zenon
    <3>2. CASE a # q
      <4>1. cell'[a] = cell[a] /\ ekey'[a] = ekey[a]
        BY <1>1, <1>2, <2>3, <3>2 DEF Inv, TypeOK
      <4>2. cell[a] = "linked" /\ Hash[ekey[a]] = h <=> \E i \in 1 .. n : c[i] = a
        BY <2>2 DEF Chain
      <4> QED
        BY <2>4, <3>2, <4>1, <4>2
    <3> QED
        BY <3>1, <3>2
  <2>7. \A i, j \in 1 .. n + 1 : d[i] = d[j] => i = j
    BY <2>2, <2>4, <2>5 DEF Chain
  <2>8. hashtab'[h] = d[1]
    BY <1>1, <1>2, <2>3, <2>4 DEF Inv, TypeOK
  <2>9. \A i \in 1 .. n + 1 : next'[d[i]] = IF i = n + 1 THEN NULL ELSE d[i + 1]
    BY <1>1, <1>2, <2>2, <2>3, <2>4 DEF Chain
  <2>10. UNCHANGED h
    BY <1>2 DEF Bucket
  <2>11. \A m : m = n + 1 => m \in Nat /\ d \in [1 .. m -> Addr] /\ Chain(h, m, d)'
    BY <2>4, <2>6, <2>7, <2>8, <2>9, <2>10 DEF Chain
  <2> QED
    BY <2>11
<1>4. ChainInv'
  <2>1. PICK b : b = h
    OBVIOUS
  <2>2. PICK q : q = p
    OBVIOUS
  <2>3. UNCHANGED h
    BY <1>2 DEF Bucket
  <2>4. \E n \in Nat : \E c \in [1 .. n -> Addr] : Chain(b, n, c)'
    <3>1. PICK n \in Nat : \E c \in [1 .. n -> Addr] : Chain(h, n, c)'
      BY <1>3, Zenon
    <3>2. PICK c \in [1 .. n -> Addr] : Chain(h, n, c)'
      BY <3>1, Zenon
    <3>3. b = h'
      BY <2>1, <2>3, Zenon
    <3>4. Chain(b, n, c)'
      BY <3>2, <3>3, Zenon DEF Chain
    <3> QED
      BY <3>4, Zenon
  <2>5. /\ b \in Buckets /\ q \in Addr /\ Hash[ekey[q]] = b
        /\ \A x \in Buckets \ {b} : hashtab'[x] = hashtab[x]
        /\ \A a \in Addr \ {q} : cell'[a] = cell[a]
    BY <1>1, <1>2, <2>1, <2>2 DEF Inv, TypeOK
  <2> QED
    BY <1>2, <2>4, <2>5, OtherChains
<1>5. KeyInv'
    BY <1>1, <1>2 DEF Inv, TypeOK, ShapeInv, KeyInv, Absent
<1>6. SearchInv(t)'
    BY <1>2 DEF Inv, TypeOK, SearchInv
<1>7. \A u \in Threads : SearchInv(u)'
    BY <1>2, <1>6, OthersOutside DEF Inv, TypeOK, OutsideLabels
<1>8. HeldInv'
    BY <1>1, <1>2 DEF Inv, TypeOK, ShapeInv, HeldInv
<1> QED
    BY <1>4, <1>5, <1>7, <1>8 DEF ShapeInv

\* undef() takes the entry out of its chain: from the head, or from behind prev.
LEMMA UnlinkShape ==
    ASSUME Inv, ShapeInv, NEW t \in Threads, Unlink(t)
    PROVE  ShapeInv'
<1>1. PICK p : p = cur[t]
    OBVIOUS
<1>2. PICK h : h = Bucket(t)
    OBVIOUS
<1>3. /\ p \in Addr /\ cell[p] = "linked" /\ h \in Buckets /\ Hash[ekey[p]] = h
    BY <1>1, <1>2, BucketType DEF Unlink, Inv, PlaceInv, InChain
<1>4. \/ prev[t] = NULL /\ hashtab[h] = p
      \/ /\ prev[t] \in Addr /\ cell[prev[t]] = "linked" /\ next[prev[t]] = p
         /\ Hash[ekey[prev[t]]] = h
  <2>1. \/ prev[t] = NULL /\ hashtab[h] = p
        \/ prev[t] \in Addr /\ cell[prev[t]] = "linked" /\ next[prev[t]] = p
    BY <1>1, <1>2 DEF Unlink, Inv, PlaceInv
  <2> QED
    BY <1>3, <2>1, DistinctAssumption DEF Inv, NextsInv, InChain
<1>5. /\ pc[t] = "unlink" /\ pc' = [pc EXCEPT ![t] = "reclaim"]
      /\ cell' = [cell EXCEPT ![p] = "unlinked"]
      /\ UNCHANGED <<ekey, req, cur>>
    BY <1>1 DEF Unlink, Goto
<1>6. \/ prev[t] = NULL /\ hashtab' = [hashtab EXCEPT ![h] = next[p]] /\ UNCHANGED next
      \/ prev[t] \in Addr /\ next' = [next EXCEPT ![prev[t]] = next[p]] /\ UNCHANGED hashtab
    BY <1>1, <1>2 DEF Unlink, Valid
<1>7. \E n \in Nat : \E c \in [1 .. n -> Addr] : Chain(h, n, c)'
  <2>1. PICK n \in Nat : \E c \in [1 .. n -> Addr] : Chain(h, n, c)
    BY <1>3 DEF ShapeInv, ChainInv
  <2>2. PICK c \in [1 .. n -> Addr] : Chain(h, n, c)
    BY <2>1
  <2>3. PICK i \in 1 .. n : c[i] = p
    BY <1>3, <2>2 DEF Chain
  <2>4. \A j \in 1 .. n : c[j] \in Addr /\ cell[c[j]] = "linked" /\ (c[j] = p => j = i)
    BY <2>2, <2>3 DEF Chain
  <2>5. next[p] = IF i = n THEN NULL ELSE c[i + 1]
    BY <2>2, <2>3 DEF Chain
  <2>6. /\ i = 1 => hashtab'[h] = next[p] /\ \A j \in 1 .. n : next'[c[j]] = next[c[j]]
        /\ i # 1 => /\ hashtab'[h] = c[1] /\ i - 1 \in 1 .. n
                    /\ \A j \in 1 .. n : next'[c[j]] =
                          IF j = i - 1 THEN next[p] ELSE next[c[j]]
    <3>1. CASE prev[t] = NULL
      <4>1. hashtab[h] = p /\ hashtab'[h] = next[p] /\ UNCHANGED next
        BY <1>3, <1>4, <1>6, <3>1, DistinctAssumption DEF Inv, TypeOK
      <4>2. i = 1
        BY <2>2, <2>3, <2>4, <4>1 DEF Chain
      <4> QED
        BY <4>1, <4>2
    <3>2. CASE prev[t] # NULL
      <4>1. /\ prev[t] \in Addr /\ cell[prev[t]] = "linked" /\ next[prev[t]] = p
            /\ Hash[ekey[prev[t]]] = h
            /\ next' = [next EXCEPT ![prev[t]] = next[p]] /\ UNCHANGED hashtab
        BY <1>4, <1>6, <3>2
      <4>2. PICK k \in 1 .. n : c[k] = prev[t]
        BY <2>2, <4>1 DEF Chain
      <4>3. k # n /\ c[k + 1] = p
        BY <1>3, <2>2, <4>1, <4>2, DistinctAssumption DEF Chain
      <4>4. i = k + 1
        BY <2>4, <4>2, <4>3
      <4>5. hashtab'[h] = c[1]
        BY <2>2, <2>3, <4>1 DEF Chain
      <4>6. \A j \in 1 .. n : next'[c[j]] = IF j = k THEN next[p] ELSE next[c[j]]
        BY <2>2, <2>4, <4>1, <4>2 DEF Chain, Inv, TypeOK
      <4> QED
        BY <4>2, <4>4, <4>5, <4>6
    <3> QED
        BY <3>1, <3>2
  <2> DEFINE d == [j \in 1 .. n - 1 |-> IF j < i THEN c[j] ELSE c[j + 1]]
  <2>7. /\ d \in [1 .. n - 1 -> Addr]
        /\ \A j \in 1 .. n - 1 : /\ j < i => d[j] = c[j]
                                 /\ j >= i => j + 1 \in 1 .. n /\ d[j] = c[j + 1]
    BY <2>4
  <2> HIDE DEF d
  <2>8. \A a \in Addr : cell'[a] = "linked" /\ Hash[ekey'[a]] = h
                           <=> \E j \in 1 .. n - 1 : d[j] = a
    <3> SUFFICES ASSUME NEW a \in Addr
                 PROVE  cell'[a] = "linked" /\ Hash[ekey'[a]] = h
                           <=> \E j \in 1 .. n - 1 : d[j] = a
        OBVIOUS
    <3>1. cell'[a] = IF a = p THEN "unlinked" ELSE cell[a]
        BY <1>3, <1>5 DEF Inv, TypeOK
    <3>2. cell[a] = "linked" /\ Hash[ekey[a]] = h <=> \E j \in 1 .. n : c[j] = a
        BY <2>2 DEF Chain
    <3>3. \A j \in 1 .. n - 1 : d[j] # p /\ \E m \in 1 .. n : d[j] = c[m]
        BY <2>4, <2>7
    <3>4. ASSUME NEW j \in 1 .. n, c[j] = a, a # p PROVE \E m \in 1 .. n - 1 : d[m] = a
      <4>1. CASE j < i
        BY <2>7, <3>4, <4>1
      <4>2. CASE j > i
        <5>1. j - 1 \in 1 .. n - 1 /\ d[j - 1] = c[j]
            BY <2>7, <4>2
        <5> QED
            BY <3>4, <5>1
      <4> QED
        BY <2>3, <3>4, <4>1, <4>2
    <3> QED
        BY <1>5, <3>1, <3>2, <3>3, <3>4
  <2>9. \A j, k \in 1 .. n - 1 : d[j] = d[k] => j = k
    BY <2>2, <2>7 DEF Chain
  <2>10. hashtab'[h] = IF n - 1 = 0 THEN NULL ELSE d[1]
    <3>1. CASE i = 1
        BY <2>5, <2>6, <2>7, <3>1
    <3>2. CASE i # 1
        BY <2>6, <2>7, <3>2
    <3> QED
        BY <3>1, <3>2
  <2>11. ASSUME NEW j \in 1 .. n - 1
         PROVE  next'[d[j]] = IF j = n - 1 THEN NULL ELSE d[j + 1]
    <3>1. \A k \in 1 .. n : next[c[k]] = IF k = n THEN NULL ELSE c[k + 1]
        BY <2>2 DEF Chain
    <3>2. CASE j >= i
      <4>1. d[j] = c[j + 1] /\ j + 1 \in 1 .. n /\ j + 1 # i - 1
        BY <2>7, <3>2
      <4>2. next'[c[j + 1]] = next[c[j + 1]]
        BY <2>6, <4>1
      <4>3. j # n - 1 => d[j + 1] = c[j + 1 + 1]
        BY <2>7, <3>2
      <4> QED
        BY <3>1, <4>1, <4>2, <4>3
    <3>3. CASE j = i - 1
      <4>1. d[j] = c[j] /\ next'[c[j]] = next[p]
        BY <2>6, <2>7, <3>3
      <4>2. j # n - 1 => d[j + 1] = c[i + 1]
        BY <2>7, <3>3
      <4> QED
        BY <2>5, <3>3, <4>1, <4>2
    <3>4. CASE j < i - 1
      <4>1. d[j] = c[j] /\ d[j + 1] = c[j + 1] /\ j # n - 1 /\ next'[c[j]] = next[c[j]]
        BY <2>6, <2>7, <3>4
      <4> QED
        BY <3>1, <3>4, <4>1
    <3> QED
        BY <3>2, <3>3, <3>4
  <2>12. PICK m \in Nat : m = n - 1
    BY <2>3
  <2>13. d \in [1 .. m -> Addr] /\ Chain(h, m, d)'
    BY <2>7, <2>8, <2>9, <2>10, <2>11, <2>12 DEF Chain
  <2> QED
    BY <2>12, <2>13
<1>8. ChainInv'
  <2>1. /\ \A b \in Buckets \ {h} : hashtab'[b] = hashtab[b]
        /\ \A a \in Addr \ {p} : cell'[a] = cell[a]
    BY <1>3, <1>5, <1>6 DEF Inv, TypeOK
  <2>2. ASSUME NEW a \in Addr, Hash[ekey[a]] # h PROVE next'[a] = next[a]
    <3>1. CASE prev[t] = NULL
        BY <1>6, <3>1, DistinctAssumption
    <3>2. CASE prev[t] # NULL
        BY <1>4, <1>6, <2>2, <3>2 DEF Inv, TypeOK
    <3> QED
        BY <3>1, <3>2
  <2> QED
    BY <1>3, <1>5, <1>7, <2>1, <2>2, OtherChains
<1>9. KeyInv'
    BY <1>3, <1>5 DEF Inv, TypeOK, ShapeInv, KeyInv
<1>10. SearchInv(t)'
    BY <1>5 DEF Inv, TypeOK, SearchInv
<1>11. \A u \in Threads : SearchInv(u)'
    BY <1>5, <1>10, OthersOutside DEF Inv, TypeOK, OutsideLabels
<1>12. HeldInv'
    BY <1>1, <1>3, <1>5 DEF Inv, TypeOK, ShapeInv, HeldInv
<1> QED
    BY <1>8, <1>9, <1>11, <1>12 DEF ShapeInv

-----------------------------------------------------------------------------
(* Chains and keys                                                         *)

\* Every step keeps the chains in shape.
LEMMA ShapeStep ==
    ASSUME Inv, ShapeInv, [Next]_vars
    PROVE  ShapeInv'
<1>1. CASE UNCHANGED vars \/ Tick
  <2>1. UNCHANGED <<hashtab, cell, ekey, next, pc, cur, req>>
    BY <1>1 DEF vars, Tick, heapVars, threadVars
  <2>2. \A u : Elsewhere(u)
    BY <2>1 DEF Elsewhere
  <2>3. NULL \notin Threads
    BY DistinctAssumption
  <2> QED
    BY <2>1, <2>2, <2>3, QuietShape
<1>2. ASSUME NEW t \in Threads, Call(t) \/ Lock(t) PROVE ShapeInv'
    BY <1>2, PlainShape
<1>3. ASSUME NEW t \in Threads, lookup(t) PROVE ShapeInv'
    BY <1>3, HeadShape, NextEntryShape, LookupMissingShape, PlainShape DEF lookup
<1>4. ASSUME NEW t \in Threads, install(t) PROVE ShapeInv'
    BY <1>4, AllocShape, EntryAllocFailsShape, LinkNextShape, LinkHeadShape, PlainShape
       DEF install
<1>5. ASSUME NEW t \in Threads, undef(t) PROVE ShapeInv'
    BY <1>5, HeadShape, NextEntryShape, UnlinkShape, ReclaimShape, PlainShape DEF undef
<1>6. ASSUME NEW t \in Threads, Run(t) PROVE ShapeInv'
    BY <1>3, <1>4, <1>5, <1>6, PlainShape DEF Run
<1> QED
    BY <1>1, <1>2, <1>6 DEF Next

\* The shape is an invariant.
LEMMA ShapeInvariance == Disciplined => (Spec => [](Inv /\ ShapeInv))
<1> SUFFICES ASSUME Disciplined PROVE Spec => [](Inv /\ ShapeInv)
    OBVIOUS
<1>1. Init => Inv /\ ShapeInv
    BY InitInv, ShapeInit
<1>2. (Inv /\ ShapeInv) /\ [Next]_vars => (Inv /\ ShapeInv)'
    BY NextInv, ShapeStep
<1> QED
    BY <1>1, <1>2, PTL DEF Spec

\* A set of naturals that is not empty has a least element.
LEMMA Least ==
    ASSUME NEW T, T \subseteq Nat, T # {}
    PROVE  \E x \in T : \A y \in T : x <= y
<1>1. PICK x \in T : \A y \in T : ~(<<y, x>> \in OpToRel(<, Nat))
    BY WFMin, NatLessThanWellFounded
<1>2. OpToRel(<, Nat) = {ss \in Nat \X Nat : ss[1] < ss[2]}
    BY Zenon DEF OpToRel
<1>3. \A y \in T : ~(<<y, x>> \in {ss \in Nat \X Nat : ss[1] < ss[2]})
    BY <1>1, <1>2, Zenon
<1>4. ASSUME NEW y \in T PROVE x <= y
  <2>1. x \in Nat /\ y \in Nat /\ ~(<<y, x>> \in {ss \in Nat \X Nat : ss[1] < ss[2]})
    BY <1>3
  <2> QED
    BY <2>1
<1> QED
    BY <1>4

\* Following next from the head of a bucket finds exactly its linked entries.
LEMMA ReachIsChain ==
    ASSUME NEW b, NEW n \in Nat, NEW c \in [1 .. n -> Addr], Chain(b, n, c)
    PROVE  Reach(b) = {a \in Addr : cell[a] = "linked" /\ Hash[ekey[a]] = b}
<1> DEFINE L == {a \in Addr : cell[a] = "linked" /\ Hash[ekey[a]] = b}
<1>1. /\ \A i \in 1 .. n : c[i] \in L
      /\ \A a \in L : \E i \in 1 .. n : c[i] = a
    BY DEF Chain
<1>2. hashtab[b] \in L \cup {NULL}
    BY <1>1 DEF Chain
<1>3. \A a \in L : next[a] \in L \cup {NULL}
    BY <1>1 DEF Chain
<1>4. ASSUME NEW S \in SUBSET Addr, hashtab[b] \in S \cup {NULL},
             \A a \in S : next[a] \in S \cup {NULL}
      PROVE  L \subseteq S
  <2> DEFINE T == {i \in 1 .. n : c[i] \notin S}
  <2>1. ASSUME T # {} PROVE FALSE
    <3>1. PICK x \in T : \A y \in T : x <= y
      <4>1. T \subseteq Nat
        OBVIOUS
      <4> HIDE DEF T
      <4> QED
        BY <2>1, <4>1, Least
    <3>2. CASE x = 1
        BY <1>1, <1>4, <3>2, DistinctAssumption DEF Chain
    <3>3. CASE x # 1
      <4>1. x - 1 \in 1 .. n /\ c[x - 1] \in S
        BY <3>1, <3>3
      <4>2. next[c[x - 1]] = c[x]
        BY <3>1, <4>1 DEF Chain
      <4> QED
        BY <1>1, <1>4, <3>1, <4>1, <4>2, DistinctAssumption
    <3> QED
        BY <3>2, <3>3
  <2> QED
    BY <1>1, <2>1
<1>5. L \in SUBSET Addr
    OBVIOUS
<1> HIDE DEF L
<1>6. Reach(b) \subseteq L
    BY <1>2, <1>3, <1>5 DEF Reach
<1>7. L \subseteq Reach(b)
    BY <1>4, <1>5 DEF Reach
<1> QED
    BY <1>6, <1>7 DEF L

\* When no call is running the table is in order, however many clients there
\* are and whichever of their allocations have failed: no entry is lost, no key
\* is stored twice, every chain ends and has one end.
THEOREM TableInOrder == Disciplined => (Spec => []ChainsWellFormed)
<1>1. ASSUME Inv, ShapeInv PROVE ChainsWellFormed
  <2> SUFFICES ASSUME \A t \in Threads : pc[t] \in {"idle", "lock", "done"}
               PROVE  /\ Allocated = UNION {Reach(b) : b \in Buckets}
                      /\ \A b \in Buckets : \A a \in Reach(b) : Hash[ekey[a]] = b
                      /\ \A a1, a2 \in Allocated : ekey[a1] = ekey[a2] => a1 = a2
                      /\ \A b \in Buckets : Reach(b) # {} =>
                            Cardinality({a \in Reach(b) : next[a] = NULL}) = 1
                      /\ \A a1, a2 \in Allocated :
                            next[a1] = next[a2] /\ next[a1] # NULL => a1 = a2
                      /\ \A a \in Allocated : value[a] # Junk
    BY DEF ChainsWellFormed
  <2>1. Allocated = {a \in Addr : cell[a] = "linked"}
    BY <1>1 DEF Allocated, ShapeInv, HeldInv, Inv, TypeOK
  <2>2. \A b \in Buckets : Reach(b) = {a \in Addr : cell[a] = "linked" /\ Hash[ekey[a]] = b}
    BY <1>1, ReachIsChain DEF ShapeInv, ChainInv
  <2>3. \A a \in Addr : Hash[ekey[a]] \in Buckets
    BY <1>1, HashAssumption DEF Inv, TypeOK
  <2>4. Allocated = UNION {Reach(b) : b \in Buckets}
    BY <2>1, <2>2, <2>3
  <2>5. ASSUME NEW b \in Buckets, Reach(b) # {}
        PROVE  Cardinality({a \in Reach(b) : next[a] = NULL}) = 1
    <3>1. PICK n \in Nat : \E c \in [1 .. n -> Addr] : Chain(b, n, c)
        BY <1>1 DEF ShapeInv, ChainInv
    <3>2. PICK c \in [1 .. n -> Addr] : Chain(b, n, c)
        BY <3>1
    <3>3. /\ \A i \in 1 .. n : c[i] \in Reach(b)
          /\ \A a \in Reach(b) : \E i \in 1 .. n : c[i] = a
        BY <2>2, <3>2 DEF Chain
    <3>4. n \in 1 .. n
        BY <2>5, <3>3
    <3>5. {a \in Reach(b) : next[a] = NULL} = {c[n]}
        BY <3>2, <3>3, <3>4, DistinctAssumption DEF Chain
    <3> QED
        BY <3>5, FS_Singleton
  <2>6. \A a1, a2 \in Allocated : next[a1] = next[a2] /\ next[a1] # NULL => a1 = a2
    BY <1>1, <2>1 DEF Inv, OneRefInv
  <2>7. \A a \in Allocated : value[a] # Junk
    BY <1>1, <2>1 DEF Inv, ValueInv
  <2>8. \A a1, a2 \in Allocated : ekey[a1] = ekey[a2] => a1 = a2
    BY <1>1, <2>1 DEF ShapeInv, KeyInv
  <2> QED
    BY <2>2, <2>4, <2>5, <2>6, <2>7, <2>8
<1> QED
    BY <1>1, ShapeInvariance, PTL

-----------------------------------------------------------------------------
(* What the calls are about to do to the map                               *)

\* The functions that each label belongs to.
PurposeInv(t) ==
    /\ pc[t] = "lock" => after[t] = CASE req[t].op = "SET" -> "install"
                                      [] req[t].op = "GET" -> "get"
                                      [] req[t].op = "INCR" -> "incr"
    /\ pc[t] \in {"head", "lookup"} =>
          /\ after[t] = "get" <=> req[t].op = "GET"
          /\ after[t] = "incr" => req[t].op = "INCR"
    /\ pc[t] \in ArgLabels \cup {"storeExpiry"} => req[t].op \in {"SET", "INCR"}
    /\ pc[t] \in {"number", "result"} => req[t].op = "INCR"

\* Results are set at the end; expiry times are those of the clients; what
\* install() has stored is its argument; what undef() unlinks
\* is the one entry with the key.
ResultInv(t) ==
    /\ pc[t] \notin {"unlock", "done"} => res[t] = NULL
    /\ exp[t] \in Expiries
    /\ pc[t] \in {"storeExpiry", "result"} => value[cur[t]] = val[t]
    /\ pc[t] = "unlink" => ekey[cur[t]] = req[t].key
    /\ pc[t] = "reclaim" => Absent(req[t].key)

\* INCR calls install() with one more than the value the table has, or with 1
\* when it has none.
IncrInv(t) ==
    req[t].op = "INCR" =>
        /\ pc[t] \in {"head", "lookup"} /\ after[t] = "install" =>
              \/ Absent(req[t].key) /\ val[t] = 1 /\ exp[t] = 0
              \/ \E a \in Addr :
                    /\ cell[a] = "linked" /\ ekey[a] = req[t].key
                    /\ value[a] \in Numbers
                    /\ val[t] = Increment(value[a]) /\ exp[t] = expires[a]
        /\ pc[t] \in {"alloc", "linkNext", "linkHead"} => val[t] = 1 /\ exp[t] = 0
        /\ pc[t] = "freeValue" =>
              /\ value[cur[t]] \in Numbers
              /\ val[t] = Increment(value[cur[t]]) /\ exp[t] = expires[cur[t]]

CallsInv ==
    /\ \A t \in Threads : PurposeInv(t) /\ ResultInv(t) /\ IncrInv(t)
    /\ \A a \in Addr : expires[a] \in Expiries

\* Nobody has called anything yet.
LEMMA CallsInit == Init => CallsInv
  BY InputAssumption DEF Init, CallsInv, PurposeInv, ResultInv, IncrInv, ArgLabels

\* What a thread outside its critical section knows is about itself.
LEMMA CallsOutside ==
    ASSUME NEW u, PurposeInv(u), ResultInv(u), pc[u] \in OutsideLabels,
           pc'[u] = pc[u], req'[u] = req[u], after'[u] = after[u], res'[u] = res[u],
           exp'[u] = exp[u], val'[u] = val[u]
    PROVE  PurposeInv(u)' /\ ResultInv(u)' /\ IncrInv(u)'
  BY DEF PurposeInv, ResultInv, IncrInv, OutsideLabels, ArgLabels

\* A step inside the critical section of t that is right for t itself.
LEMMA CallsInside ==
    ASSUME Inv, CallsInv, NEW t \in Threads, pc[t] \notin OutsideLabels,
           \A u \in Threads \ {t} :
              /\ pc'[u] = pc[u] /\ req'[u] = req[u] /\ after'[u] = after[u]
              /\ res'[u] = res[u] /\ exp'[u] = exp[u] /\ val'[u] = val[u],
           PurposeInv(t)' /\ ResultInv(t)' /\ IncrInv(t)',
           \A a \in Addr : expires'[a] \in Expiries
    PROVE  CallsInv'
<1>1. ASSUME NEW u \in Threads \ {t} PROVE PurposeInv(u)' /\ ResultInv(u)' /\ IncrInv(u)'
    BY <1>1, Alone, CallsOutside DEF CallsInv
<1> QED
    BY <1>1 DEF CallsInv

\* The commands of disciplined clients.
LEMMA OpType ==
    ASSUME Inv, NEW t \in Threads
    PROVE  req[t].op \in {"SET", "GET", "INCR"} /\ req[t].key \in Keys
<1>1. req[t] \in Requests /\ req[t].op # "DEL"
    BY DEF Inv, TypeOK, CallInv
<1> QED
    BY <1>1 DEF Requests

\* lookup().
LEMMA LookupCalls ==
    ASSUME Inv, ShapeInv, CallsInv, NEW t \in Threads, lookup(t)
    PROVE  CallsInv'
<1> USE DEF Goto, heapVars, Inv, TypeOK, OutsideLabels
<1>1. \A a \in Addr : expires'[a] \in Expiries
    BY DEF lookup, LookupHead, LookupNext, LookupFound, LookupMissing, CallsInv
<1>2. PurposeInv(t) /\ ResultInv(t) /\ IncrInv(t)
    BY DEF CallsInv
<1>3. CASE LookupHead(t)
  <2>1. PurposeInv(t)' /\ ResultInv(t)' /\ IncrInv(t)'
    BY <1>2, <1>3 DEF LookupHead, PurposeInv, ResultInv, IncrInv, Absent, ArgLabels
  <2> QED
    BY <1>1, <1>3, <2>1, CallsInside DEF LookupHead
<1>4. CASE LookupNext(t)
  <2>1. PurposeInv(t)' /\ ResultInv(t)' /\ IncrInv(t)'
    BY <1>2, <1>4 DEF LookupNext, PurposeInv, ResultInv, IncrInv, Absent, ArgLabels
  <2> QED
    BY <1>1, <1>4, <2>1, CallsInside DEF LookupNext
<1>5. CASE LookupFound(t)
  <2>1. cur[t] \in Addr /\ cell[cur[t]] = "linked" /\ ekey[cur[t]] = req[t].key
    BY <1>5, DistinctAssumption DEF LookupFound, PlaceInv, InChain, Valid
  <2>2. PurposeInv(t)' /\ ResultInv(t)'
    <3>1. /\ req[t].op \in {"SET", "GET", "INCR"} /\ pc[t] = "lookup"
          /\ UNCHANGED <<req, after, val, exp, res>>
        BY <1>5, OpType DEF LookupFound
    <3>2. \/ after[t] = "get" /\ pc'[t] = "check"
          \/ after[t] = "incr" /\ pc'[t] = "number"
          \/ after[t] = "install" /\ pc'[t] = "freeValue"
        BY <1>5 DEF LookupFound
    <3>3. PurposeInv(t)'
        BY <1>2, <3>1, <3>2 DEF PurposeInv, ArgLabels
    <3>4. ResultInv(t)'
        BY <1>2, <3>1, <3>2 DEF ResultInv
    <3> QED
        BY <3>3, <3>4
  <2>3. IncrInv(t)'
    BY <1>2, <1>5, <2>1 DEF LookupFound, IncrInv, Absent, ShapeInv, KeyInv
  <2> QED
    BY <1>1, <1>5, <2>2, <2>3, CallsInside DEF LookupFound
<1>6. CASE LookupMissing(t)
  <2>1. Absent(req[t].key) /\ Absent(req[t].key)'
    BY <1>6, EndOfChain DEF LookupMissing, Absent
  <2>2. PurposeInv(t)' /\ ResultInv(t)'
    <3>1. req[t].op \in {"SET", "GET", "INCR"} /\ pc[t] = "lookup" /\ UNCHANGED <<req>>
        BY <1>6, OpType DEF LookupMissing
    <3>2. \/ /\ after[t] = "get" /\ pc'[t] = "unlock"
             /\ exp'[t] = exp[t]
          \/ /\ after[t] = "incr" /\ pc'[t] = "head" /\ after'[t] = "install"
             /\ exp'[t] = 0 /\ res'[t] = res[t]
          \/ /\ after[t] = "install" /\ pc'[t] = "alloc"
             /\ exp'[t] = exp[t] /\ res'[t] = res[t]
        BY <1>6 DEF LookupMissing
    <3>3. PurposeInv(t)'
        BY <1>2, <3>1, <3>2 DEF PurposeInv, ArgLabels
    <3>4. ResultInv(t)'
        BY <1>2, <3>1, <3>2, InputAssumption DEF ResultInv
    <3> QED
        BY <3>3, <3>4
  <2>3. IncrInv(t)'
    BY <1>2, <1>6, <2>1 DEF LookupMissing, IncrInv, Absent, PurposeInv
  <2> QED
    BY <1>1, <1>6, <2>2, <2>3, CallsInside DEF LookupMissing
<1> QED
    BY <1>3, <1>4, <1>5, <1>6 DEF lookup

\* install(), and the steps of db_get() and db_incr() after lookup().
LEMMA InstallCalls ==
    ASSUME Inv, ShapeInv, CallsInv, NEW t \in Threads, install(t)
    PROVE  CallsInv'
<1> USE DEF Goto, heapVars, Inv, TypeOK, OutsideLabels
<1>1. PurposeInv(t) /\ ResultInv(t) /\ IncrInv(t)
    BY DEF CallsInv
<1>2. req[t].op \in {"SET", "GET", "INCR"}
    BY OpType
<1>3. CASE Alloc(t)
  <2>1. \A a \in Addr : expires'[a] \in Expiries
    BY <1>3 DEF Alloc, CallsInv
  <2>2. PurposeInv(t)' /\ ResultInv(t)' /\ IncrInv(t)'
    BY <1>1, <1>2, <1>3 DEF Alloc, PurposeInv, ResultInv, IncrInv, ArgLabels
  <2> QED
    BY <1>3, <2>1, <2>2, CallsInside DEF Alloc
<1>4. CASE EntryAllocFails(t) \/ LinkNext(t) \/ LinkHead(t)
  <2>1. \A a \in Addr : expires'[a] \in Expiries
    BY <1>4 DEF EntryAllocFails, LinkNext, LinkHead, CallsInv
  <2>2. PurposeInv(t)' /\ ResultInv(t)' /\ IncrInv(t)'
    BY <1>1, <1>2, <1>4
       DEF EntryAllocFails, LinkNext, LinkHead, PurposeInv, ResultInv, IncrInv, ArgLabels
  <2> QED
    BY <1>4, <2>1, <2>2, CallsInside DEF EntryAllocFails, LinkNext, LinkHead
<1>5. CASE KeyAllocFails(t) \/ FreeValue(t) \/ ValueAllocFails(t)
  <2>1. \A a \in Addr : expires'[a] \in Expiries
    BY <1>5 DEF KeyAllocFails, FreeValue, ValueAllocFails, CallsInv
  <2>2. PurposeInv(t)' /\ ResultInv(t)' /\ IncrInv(t)'
    BY <1>1, <1>2, <1>5
       DEF KeyAllocFails, FreeValue, ValueAllocFails, PurposeInv, ResultInv, IncrInv,
           ArgLabels
  <2> QED
    BY <1>5, <2>1, <2>2, CallsInside DEF KeyAllocFails, FreeValue, ValueAllocFails
<1>6. CASE StoreValue(t)
  <2>1. \A a \in Addr : expires'[a] \in Expiries
    BY <1>6 DEF StoreValue, CallsInv
  <2>2. PurposeInv(t)' /\ ResultInv(t)' /\ IncrInv(t)'
    BY <1>1, <1>2, <1>6
       DEF StoreValue, PurposeInv, ResultInv, IncrInv, ArgLabels, Valid
  <2> QED
    BY <1>6, <2>1, <2>2, CallsInside DEF StoreValue
<1>7. CASE StoreExpiry(t)
  <2>1. \A a \in Addr : expires'[a] \in Expiries
    BY <1>1, <1>7 DEF StoreExpiry, CallsInv, ResultInv
  <2>2. PurposeInv(t)' /\ ResultInv(t)' /\ IncrInv(t)'
    BY <1>1, <1>2, <1>7
       DEF StoreExpiry, PurposeInv, ResultInv, IncrInv, ArgLabels
  <2> QED
    BY <1>7, <2>1, <2>2, CallsInside DEF StoreExpiry
<1> QED
    BY <1>3, <1>4, <1>5, <1>6, <1>7 DEF install

\* undef(), called by db_get().
LEMMA UndefCalls ==
    ASSUME Inv, ShapeInv, CallsInv, NEW t \in Threads, undef(t)
    PROVE  CallsInv'
<1> USE DEF Goto, heapVars, Inv, TypeOK, OutsideLabels
<1>1. PurposeInv(t) /\ ResultInv(t) /\ IncrInv(t)
    BY DEF CallsInv
<1>2. req[t].op = "GET"
    BY DEF undef, UndefHead, UndefNext, UndefFound, UndefMissing, Unlink, Reclaim, CallInv,
           UndefLabels
<1>3. /\ pc'[t] \in UndefLabels \cup {"unlock"} /\ pc[t] \in UndefLabels
      /\ UNCHANGED <<req, after, val, exp, res, expires>>
      /\ \A u \in Threads \ {t} : pc'[u] = pc[u]
    BY <1>2 DEF undef, UndefHead, UndefNext, UndefFound, UndefMissing, Unlink, Reclaim,
                AfterUndef, UndefLabels
<1>4. pc'[t] = "unlink" => ekey'[cur'[t]] = req[t].key
    BY <1>2 DEF undef, UndefHead, UndefNext, UndefFound, UndefMissing, Unlink, Reclaim,
                AfterUndef
<1>5. pc'[t] = "reclaim" => Absent(req[t].key)'
  <2>1. pc'[t] = "reclaim" => Unlink(t)
    BY <1>2 DEF undef, UndefHead, UndefNext, UndefFound, UndefMissing, Reclaim, AfterUndef
  <2>2. ASSUME Unlink(t) PROVE Absent(req[t].key)'
    <3>1. cur[t] \in Addr /\ ekey[cur[t]] = req[t].key /\ cell[cur[t]] = "linked"
        BY <1>1, <2>2, DistinctAssumption DEF Unlink, ResultInv, Valid, PlaceInv, InChain
    <3>2. cell' = [cell EXCEPT ![cur[t]] = "unlinked"] /\ UNCHANGED <<ekey, req>>
        BY <2>2 DEF Unlink
    <3> QED
        BY <3>1, <3>2 DEF Absent, ShapeInv, KeyInv
  <2> QED
    BY <2>1, <2>2
<1>6. PurposeInv(t)' /\ ResultInv(t)' /\ IncrInv(t)'
    BY <1>1, <1>2, <1>3, <1>4, <1>5 DEF PurposeInv, ResultInv, IncrInv, ArgLabels, UndefLabels
<1> QED
    BY <1>3, <1>6, CallsInside DEF CallsInv, UndefLabels

\* What db_get() and db_incr() do with the entry they have found.
LEMMA EntryCalls ==
    ASSUME Inv, ShapeInv, CallsInv, NEW t \in Threads,
           \/ GetExpired(t) \/ GetAlive(t) \/ Copy(t) \/ IncrNotANumber(t) \/ IncrNumber(t)
    PROVE  CallsInv'
<1> USE DEF Goto, heapVars, Inv, TypeOK, OutsideLabels
<1>1. PurposeInv(t) /\ ResultInv(t) /\ IncrInv(t) /\ req[t].op \in {"SET", "GET", "INCR"}
    BY OpType DEF CallsInv
<1>2. CASE GetExpired(t) \/ GetAlive(t)
  <2>1. PurposeInv(t)' /\ ResultInv(t)' /\ IncrInv(t)'
    BY <1>1, <1>2 DEF GetExpired, GetAlive, PurposeInv, ResultInv, IncrInv, ArgLabels
  <2> QED
    BY <1>2, <2>1, CallsInside DEF GetExpired, GetAlive, CallsInv
<1>3. CASE Copy(t) \/ IncrNotANumber(t)
  <2>1. PurposeInv(t)' /\ ResultInv(t)' /\ IncrInv(t)'
    BY <1>1, <1>3 DEF Copy, IncrNotANumber, PurposeInv, ResultInv, IncrInv, ArgLabels
  <2> QED
    BY <1>3, <2>1, CallsInside DEF Copy, IncrNotANumber, CallsInv
<1>4. CASE IncrNumber(t)
  <2>1. /\ cur[t] \in Addr /\ cell[cur[t]] = "linked" /\ ekey[cur[t]] = req[t].key
        /\ req[t].op = "INCR" /\ value[cur[t]] \in Numbers
    BY <1>1, <1>4, EntryReadable DEF IncrNumber, EntryLabels, PurposeInv, is_number
  <2>2. PurposeInv(t)' /\ ResultInv(t)'
    BY <1>1, <1>4, <2>1 DEF IncrNumber, PurposeInv, ResultInv, ArgLabels, CallsInv
  <2>3. IncrInv(t)'
    BY <1>4, <2>1 DEF IncrNumber, IncrInv
  <2> QED
    BY <1>4, <2>2, <2>3, CallsInside DEF IncrNumber, CallsInv
<1> QED
    BY <1>2, <1>3, <1>4

\* A thread that does nothing, while nothing is done to the heap.
LEMMA SameCalls ==
    ASSUME NEW u, PurposeInv(u), ResultInv(u), IncrInv(u), UNCHANGED heapVars,
           pc'[u] = pc[u], req'[u] = req[u], after'[u] = after[u], cur'[u] = cur[u],
           res'[u] = res[u], exp'[u] = exp[u], val'[u] = val[u]
    PROVE  PurposeInv(u)' /\ ResultInv(u)' /\ IncrInv(u)'
<1>1. PurposeInv(u)'
    BY DEF PurposeInv
<1>2. ResultInv(u)'
    BY DEF ResultInv, Absent, heapVars
<1>3. IncrInv(u)'
    BY DEF IncrInv, Absent, heapVars
<1> QED
    BY <1>1, <1>2, <1>3

\* Calls, returns and the lock: a thread outside knows of no entry.
LEMMA BorderCalls ==
    ASSUME Disciplined, Inv, CallsInv, NEW t \in Threads,
           Call(t) \/ Lock(t) \/ Unlock(t) \/ Return(t)
    PROVE  CallsInv'
<1> USE DEF Goto, heapVars, Inv, TypeOK
<1>1. UNCHANGED heapVars /\ \A u \in Threads \ {t} :
              /\ pc'[u] = pc[u] /\ req'[u] = req[u] /\ after'[u] = after[u] /\ cur'[u] = cur[u]
              /\ res'[u] = res[u] /\ exp'[u] = exp[u] /\ val'[u] = val[u]
    BY DEF Call, CallSet, CallGet, CallIncr, CallDel, Begin, Lock, Unlock, Return
<1>2. PurposeInv(t) /\ ResultInv(t) /\ IncrInv(t) /\ req[t].op \in {"SET", "GET", "INCR"}
    BY OpType DEF CallsInv
<1>3. ASSUME NEW u \in Threads \ {t} PROVE PurposeInv(u)' /\ ResultInv(u)' /\ IncrInv(u)'
    BY <1>1, SameCalls DEF CallsInv
<1>4. PurposeInv(t)' /\ ResultInv(t)' /\ IncrInv(t)'
  <2>1. ASSUME NEW k \in Keys, NEW v \in Inputs, NEW e \in Expiries, CallSet(t, k, v, e)
        PROVE  PurposeInv(t)' /\ ResultInv(t)' /\ IncrInv(t)'
    BY <1>2, <2>1 DEF CallSet, Begin, PurposeInv, ResultInv, IncrInv, ArgLabels
  <2>2. ASSUME NEW k \in Keys, CallGet(t, k) \/ CallIncr(t, k)
        PROVE  PurposeInv(t)' /\ ResultInv(t)' /\ IncrInv(t)'
    BY <1>2, <2>2 DEF CallGet, CallIncr, Begin, PurposeInv, ResultInv, IncrInv, ArgLabels
  <2>3. CASE Call(t)
    BY <2>1, <2>2, <2>3 DEF Call, CallDel, Begin, Disciplined
  <2>4. CASE Lock(t)
    BY <1>2, <2>4 DEF Lock, PurposeInv, ResultInv, IncrInv, ArgLabels
  <2>5. CASE Unlock(t)
    BY <1>2, <2>5 DEF Unlock, PurposeInv, ResultInv, IncrInv, ArgLabels
  <2>6. CASE Return(t)
    BY <1>2, <2>6, InputAssumption DEF Return, PurposeInv, ResultInv, IncrInv, ArgLabels
  <2> QED
    BY <2>3, <2>4, <2>5, <2>6
<1> QED
    BY <1>1, <1>3, <1>4 DEF CallsInv

\* Every step keeps what the calls know.
LEMMA CallsStep ==
    ASSUME Disciplined, Inv, ShapeInv, CallsInv, [Next]_vars
    PROVE  CallsInv'
<1>1. CASE UNCHANGED vars \/ Tick
  <2>1. UNCHANGED <<heapVars, threadVars>>
    BY <1>1 DEF vars, Tick
  <2> QED
    BY <2>1, SameCalls DEF CallsInv, heapVars, threadVars
<1> QED
    BY <1>1, BorderCalls, LookupCalls, InstallCalls, UndefCalls, EntryCalls DEF Next, Run

-----------------------------------------------------------------------------
(* The map that the table stands for                                       *)

WriteLabels == {"store", "storeExpiry"}
PurgeLabels == {"undefHead", "undef", "unlink"}

\* Which entry Visible shows.
VisibleInv ==
    \A k \in Keys :
        /\ \A t \in Threads : pc[t] \in WriteLabels /\ req[t].key = k =>
              Visible(k) = [value |-> val[t], expires |-> exp[t]]
        /\ (\A t \in Threads : pc[t] \in WriteLabels => req[t].key # k) =>
              /\ Absent(k) => Visible(k) = NULL
              /\ \A t \in Threads : pc[t] \in PurgeLabels /\ req[t].key = k =>
                    Visible(k) = NULL
              /\ (\A t \in Threads : pc[t] \in PurgeLabels => req[t].key # k) =>
                    \A a \in Addr : cell[a] = "linked" /\ ekey[a] = k =>
                        Visible(k) = [value |-> value[a], expires |-> expires[a]]

LEMMA VisibleFacts == Inv /\ ShapeInv => VisibleInv
<1> SUFFICES ASSUME Inv, ShapeInv, NEW k \in Keys
             PROVE  /\ \A t \in Threads : pc[t] \in WriteLabels /\ req[t].key = k =>
                          Visible(k) = [value |-> val[t], expires |-> exp[t]]
                    /\ (\A t \in Threads : pc[t] \in WriteLabels => req[t].key # k) =>
                          /\ Absent(k) => Visible(k) = NULL
                          /\ \A t \in Threads : pc[t] \in PurgeLabels /\ req[t].key = k =>
                                Visible(k) = NULL
                          /\ (\A t \in Threads : pc[t] \in PurgeLabels => req[t].key # k) =>
                                \A a \in Addr : cell[a] = "linked" /\ ekey[a] = k =>
                                   Visible(k) = [value |-> value[a], expires |-> expires[a]]
    BY DEF VisibleInv
<1> DEFINE here    == {a \in Reach(Hash[k]) : ekey[a] = k}
           writers == {t \in Threads : req[t].key = k /\ pc[t] \in {"store", "storeExpiry"}}
           purgers == {t \in Threads : /\ req[t] = [op |-> "GET", key |-> k]
                                       /\ pc[t] \in {"undefHead", "undef", "unlink"}}
           writer  == CHOOSE u \in writers : TRUE
           entry   == CHOOSE c \in here : TRUE
<1>1. Visible(k) = CASE writers # {} -> [value |-> val[writer], expires |-> exp[writer]]
                     [] purgers # {} \/ here = {} -> NULL
                     [] OTHER -> [value |-> value[entry], expires |-> expires[entry]]
    BY DEF Visible
<1>2. Hash[k] \in Buckets
    BY HashAssumption
<1>3. here = {a \in Addr : cell[a] = "linked" /\ ekey[a] = k}
  <2>1. Reach(Hash[k]) = {a \in Addr : cell[a] = "linked" /\ Hash[ekey[a]] = Hash[k]}
    BY <1>2, ReachIsChain DEF ShapeInv, ChainInv
  <2> QED
    BY <2>1
<1>4. \A t \in Threads : pc[t] \in PurgeLabels /\ req[t].key = k => t \in purgers
  <2> SUFFICES ASSUME NEW t \in Threads, pc[t] \in PurgeLabels, req[t].key = k
               PROVE  req[t] = [op |-> "GET", key |-> k]
    BY DEF PurgeLabels
  <2>1. req[t] \in Requests /\ req[t].op = "GET"
    BY DEF Inv, TypeOK, CallInv, UndefLabels, PurgeLabels
  <2> QED
    BY <2>1 DEF Requests
<1>5. \A t \in purgers : t \in Threads /\ pc[t] \in PurgeLabels /\ req[t].key = k
    BY DEF PurgeLabels
<1>6. \A t \in Threads : t \in writers <=> pc[t] \in WriteLabels /\ req[t].key = k
    BY DEF WriteLabels
<1>7. \A t, u \in writers : t \in Threads /\ t = u
    BY Alone DEF OutsideLabels
<1>8. \A a \in here : entry = a
  <2>1. \A a, c \in here : a = c
    BY <1>3 DEF ShapeInv, KeyInv
  <2>2. \A a \in here : entry \in here
    OBVIOUS
  <2> QED
    BY <2>1, <2>2
<1>9. \A t \in writers : writer = t
  <2>1. \A t \in writers : writer \in writers
    OBVIOUS
  <2> QED
    BY <1>7, <2>1
<1>10. Absent(k) <=> here = {}
    BY <1>3 DEF Absent
<1>11. \A t \in writers : t \in Threads
    BY <1>7
<1>12. writers # {} => purgers = {} /\ here # {}
  <2> SUFFICES ASSUME NEW t \in writers PROVE purgers = {} /\ here # {}
    OBVIOUS
  <2>1. t \in Threads /\ pc[t] \in WriteLabels /\ req[t].key = k
    BY <1>6, <1>11
  <2>2. cur[t] \in here
    BY <1>3, <2>1 DEF Inv, PlaceInv, EntryLabels, WriteLabels
  <2>3. \A u \in purgers : u = t \/ pc[u] \in OutsideLabels
    BY <1>5, <2>1, Alone DEF OutsideLabels, WriteLabels
  <2>4. purgers = {}
    BY <1>5, <2>1, <2>3 DEF OutsideLabels, WriteLabels, PurgeLabels
  <2> QED
    BY <2>2, <2>4
<1> HIDE DEF here, writers, purgers, writer, entry
<1>13. writers # {} => Visible(k) = [value |-> val[writer], expires |-> exp[writer]]
    BY <1>1, <1>12
<1>14. writers = {} /\ (purgers # {} \/ here = {}) => Visible(k) = NULL
    BY <1>1
<1>15. writers = {} /\ purgers = {} /\ here # {} =>
          Visible(k) = [value |-> value[entry], expires |-> expires[entry]]
    BY <1>1
<1>16. \A a \in Addr : cell[a] = "linked" /\ ekey[a] = k => a \in here
    BY <1>3
<1>17. ASSUME \A t \in Threads : pc[t] \in WriteLabels => req[t].key # k
       PROVE  writers = {}
    BY <1>6, <1>11, <1>17
<1>18. ASSUME \A t \in Threads : pc[t] \in PurgeLabels => req[t].key # k
       PROVE  purgers = {}
    BY <1>5, <1>18
<1>19. ASSUME NEW t \in Threads, pc[t] \in WriteLabels, req[t].key = k
       PROVE  Visible(k) = [value |-> val[t], expires |-> exp[t]]
    BY <1>6, <1>9, <1>13, <1>19
<1>20. ASSUME writers = {}, purgers = {}, NEW a \in Addr, cell[a] = "linked", ekey[a] = k
       PROVE  Visible(k) = [value |-> value[a], expires |-> expires[a]]
    BY <1>8, <1>15, <1>16, <1>20
<1> QED
    BY <1>4, <1>10, <1>14, <1>17, <1>18, <1>19, <1>20

\* The same after a step.
LEMMA VisibleFactsNext == (Inv /\ ShapeInv)' => VisibleInv'
  BY VisibleFacts, PTL

-----------------------------------------------------------------------------
(* The store implements the map                                            *)

\* The call of t, as KVStore sees it.
CallOf(t) ==
    IF pc[t] = "idle" THEN NULL
    ELSE IF req[t].op = "SET"
    THEN [op |-> "SET", key |-> req[t].key, value |-> val[t], expires |-> exp[t]]
    ELSE req[t]

\* A step that KVStore does not see.
LEMMA NoEffect ==
    ASSUME UNCHANGED now,
           \A k \in Keys : Visible(k)' = Visible(k),
           \A t \in Threads : /\ CallOf(t)' = CallOf(t)
                              /\ Committed(t)' = Committed(t)
                              /\ Outcome(t)' = Outcome(t)
    PROVE  UNCHANGED KV!kvVars
<1>1. UNCHANGED [k \in Keys |-> Visible(k)]
    OBVIOUS
<1>2. UNCHANGED [t \in Threads |-> Committed(t)] /\ UNCHANGED [t \in Threads |-> Outcome(t)]
    OBVIOUS
<1>3. UNCHANGED [t \in Threads |-> CallOf(t)]
    OBVIOUS
<1> QED
    BY <1>1, <1>2, <1>3 DEF KV!kvVars, CallOf

\* The step at which a call takes effect.
LEMMA TakesEffect ==
    ASSUME NEW t \in Threads, NEW entry, NEW a, UNCHANGED now,
           pc[t] # "idle", req[t].key \in Keys, CallOf(t) # NULL,
           ~Committed(t), Committed(t)', Outcome(t)' = a,
           Visible(req[t].key)' = entry, req'[t] = req[t],
           \A k \in Keys \ {req[t].key} : Visible(k)' = Visible(k),
           CallOf(t)' = CallOf(t),
           \A u \in Threads \ {t} : /\ CallOf(u)' = CallOf(u)
                                    /\ Committed(u)' = Committed(u)
                                    /\ Outcome(u)' = Outcome(u)
    PROVE  KV!Effect(t, entry, a)
<1> DEFINE store  == [k \in Keys |-> Visible(k)]
           call   == [u \in Threads |-> CallOf(u)]
           done   == [u \in Threads |-> Committed(u)]
           answer == [u \in Threads |-> Outcome(u)]
<1>1. call[t] # NULL /\ ~done[t] /\ call[t].key = req[t].key
    BY DEF CallOf
<1>2. UNCHANGED call
    OBVIOUS
<1>3. store' = [store EXCEPT ![req[t].key] = entry]
    OBVIOUS
<1>4. done' = [done EXCEPT ![t] = TRUE]
    OBVIOUS
<1>5. answer' = [answer EXCEPT ![t] = a]
    OBVIOUS
<1> QED
    BY <1>1, <1>2, <1>3, <1>4, <1>5 DEF KV!Effect, CallOf

\* The map depends on the heap and on the threads that write or remove an entry.
LEMMA SameMap ==
    ASSUME UNCHANGED heapVars,
           \A u \in Threads :
              /\ pc'[u] \in WriteLabels <=> pc[u] \in WriteLabels
              /\ pc'[u] \in PurgeLabels <=> pc[u] \in PurgeLabels
              /\ pc[u] \in WriteLabels \cup PurgeLabels =>
                    req'[u] = req[u] /\ val'[u] = val[u] /\ exp'[u] = exp[u]
    PROVE  \A k : Visible(k)' = Visible(k)
<1> SUFFICES ASSUME NEW k PROVE Visible(k)' = Visible(k)
    OBVIOUS
<1> DEFINE here    == {a \in Reach(Hash[k]) : ekey[a] = k}
           writers == {t \in Threads : req[t].key = k /\ pc[t] \in {"store", "storeExpiry"}}
           purgers == {t \in Threads : /\ req[t] = [op |-> "GET", key |-> k]
                                       /\ pc[t] \in {"undefHead", "undef", "unlink"}}
           writer  == CHOOSE u \in writers : TRUE
           entry   == CHOOSE c \in here : TRUE
<1>1. Reach(Hash[k])' = Reach(Hash[k]) /\ UNCHANGED here
    BY DEF Reach, heapVars
<1>2. UNCHANGED writers /\ UNCHANGED purgers
    BY DEF WriteLabels, PurgeLabels
<1>3. UNCHANGED writer /\ UNCHANGED entry
    BY <1>1, <1>2
<1>4. writers # {} => val'[writer] = val[writer] /\ exp'[writer] = exp[writer]
  <2>1. writers # {} => writer \in writers
    OBVIOUS
  <2> QED
    BY <2>1 DEF WriteLabels
<1>5. Visible(k) = CASE writers # {} -> [value |-> val[writer], expires |-> exp[writer]]
                     [] purgers # {} \/ here = {} -> NULL
                     [] OTHER -> [value |-> value[entry], expires |-> expires[entry]]
    BY DEF Visible
<1>6. Visible(k)' = CASE writers' # {} -> [value |-> val'[writer'], expires |-> exp'[writer']]
                      [] purgers' # {} \/ here' = {} -> NULL
                      [] OTHER -> [value |-> value'[entry'], expires |-> expires'[entry']]
    BY DEF Visible
<1> HIDE DEF here, writers, purgers, writer, entry
<1> QED
    BY <1>1, <1>2, <1>3, <1>4, <1>5, <1>6 DEF heapVars

\* A step of t that leaves the heap alone and that KVStore does not see.
LEMMA SilentStep ==
    ASSUME NEW t \in Threads, UNCHANGED <<now, heapVars, req>>,
           \A u \in Threads \ {t} : /\ pc'[u] = pc[u] /\ cur'[u] = cur[u]
                                    /\ val'[u] = val[u] /\ exp'[u] = exp[u]
                                    /\ res'[u] = res[u],
           pc'[t] \in WriteLabels <=> pc[t] \in WriteLabels,
           pc'[t] \in PurgeLabels <=> pc[t] \in PurgeLabels,
           pc[t] \in WriteLabels \cup PurgeLabels => val'[t] = val[t] /\ exp'[t] = exp[t],
           CallOf(t)' = CallOf(t), Committed(t)' = Committed(t), Outcome(t)' = Outcome(t)
    PROVE  UNCHANGED KV!kvVars
<1>1. \A k : Visible(k)' = Visible(k)
    BY SameMap DEF heapVars
<1>2. ASSUME NEW u \in Threads
      PROVE  /\ CallOf(u)' = CallOf(u) /\ Committed(u)' = Committed(u)
             /\ Outcome(u)' = Outcome(u)
  <2>1. CASE u # t
    BY <1>2, <2>1 DEF CallOf, Committed, Outcome, heapVars
  <2> QED
    BY <2>1
<1> QED
    BY <1>1, <1>2, NoEffect

\* What KVStore sees of a thread outside its critical section does not depend
\* on the heap.
LEMMA OthersMap ==
    ASSUME Inv, NEW t \in Threads, pc[t] \notin OutsideLabels,
           \A u \in Threads \ {t} :
              /\ pc'[u] = pc[u] /\ req'[u] = req[u] /\ val'[u] = val[u]
              /\ exp'[u] = exp[u] /\ res'[u] = res[u]
    PROVE  \A u \in Threads \ {t} : /\ CallOf(u)' = CallOf(u)
                                    /\ Committed(u)' = Committed(u)
                                    /\ Outcome(u)' = Outcome(u)
<1> SUFFICES ASSUME NEW u \in Threads \ {t}
             PROVE  /\ CallOf(u)' = CallOf(u) /\ Committed(u)' = Committed(u)
                    /\ Outcome(u)' = Outcome(u)
    OBVIOUS
<1>1. pc[u] \in OutsideLabels
    BY Alone
<1> QED
    BY <1>1 DEF CallOf, Committed, Outcome, OutsideLabels

\* Inside its critical section t changes what the map has under its own key only.
LEMMA OtherKeys ==
    ASSUME Inv, ShapeInv, (Inv /\ ShapeInv)', NEW t \in Threads, pc[t] \notin OutsideLabels,
           \A u \in Threads \ {t} : pc'[u] = pc[u] /\ req'[u] = req[u],
           req'[t] = req[t],
           \A a \in Addr :
              cell[a] = "linked" /\ ekey[a] # req[t].key =>
                 /\ cell'[a] = "linked" /\ ekey'[a] = ekey[a]
                 /\ value'[a] = value[a] /\ expires'[a] = expires[a],
           \A a \in Addr :
              cell'[a] = "linked" /\ ekey'[a] # req[t].key =>
                 cell[a] = "linked" /\ ekey[a] = ekey'[a]
    PROVE  \A k \in Keys \ {req[t].key} : Visible(k)' = Visible(k)
<1> SUFFICES ASSUME NEW k \in Keys \ {req[t].key} PROVE Visible(k)' = Visible(k)
    OBVIOUS
<1>1. VisibleInv /\ VisibleInv'
    BY VisibleFacts, VisibleFactsNext
<1>2. /\ \A u \in Threads : pc[u] \in WriteLabels \cup PurgeLabels => req[u].key # k
      /\ \A u \in Threads : pc'[u] \in WriteLabels \cup PurgeLabels => req'[u].key # k
    BY Alone DEF OutsideLabels, WriteLabels, PurgeLabels
<1>3. CASE Absent(k)
  <2>1. Absent(k)'
    BY <1>3 DEF Absent
  <2>2. Visible(k) = NULL
    BY <1>1, <1>2, <1>3 DEF VisibleInv
  <2>3. Visible(k)' = NULL
    BY <1>1, <1>2, <2>1 DEF VisibleInv
  <2> QED
    BY <2>2, <2>3
<1>4. CASE ~Absent(k)
  <2>1. PICK a \in Addr : cell[a] = "linked" /\ ekey[a] = k
    BY <1>4 DEF Absent
  <2>2. /\ cell'[a] = "linked" /\ ekey'[a] = k
        /\ value'[a] = value[a] /\ expires'[a] = expires[a]
    BY <2>1
  <2>3. Visible(k) = [value |-> value[a], expires |-> expires[a]]
    BY <1>1, <1>2, <2>1 DEF VisibleInv
  <2>4. Visible(k)' = [value |-> value'[a], expires |-> expires'[a]]
    BY <1>1, <1>2, <2>2 DEF VisibleInv
  <2> QED
    BY <2>2, <2>3, <2>4
<1> QED
    BY <1>3, <1>4

\* A running call, as KVStore sees it.
LEMMA RunningCall ==
    ASSUME Inv, CallsInv, NEW t \in Threads, pc[t] # "idle"
    PROVE  /\ CallOf(t) # NULL
           /\ CallOf(t).op = req[t].op /\ CallOf(t).key = req[t].key
           /\ req[t].op = "SET" => CallOf(t).value = val[t] /\ CallOf(t).expires = exp[t]
           /\ req[t].key \in Keys
<1>1. req[t] \in Requests /\ val[t] \in Values \cup {NULL} /\ exp[t] \in Expiries
    BY DEF Inv, TypeOK, CallsInv, ResultInv
<1>2. CASE req[t].op = "SET"
  <2>1. CallOf(t) = [op |-> "SET", key |-> req[t].key, value |-> val[t], expires |-> exp[t]]
    BY <1>2 DEF CallOf
  <2>2. req[t].key \in Keys
    BY <1>1 DEF Requests
  <2>3. CallOf(t) \in
          [op : {"SET"}, key : Keys, value : Values \cup {NULL}, expires : Expiries]
    BY <1>1, <2>1, <2>2
  <2> QED
    BY <1>2, <2>1, <2>2, <2>3, RecordAssumption
<1>3. CASE req[t].op # "SET"
    BY <1>1, <1>3, RecordAssumption DEF CallOf, Requests
<1> QED
    BY <1>2, <1>3

\* The steps of a call before and after it takes effect.
LEMMA SilentActions ==
    ASSUME Inv, CallsInv, NEW t \in Threads,
           \/ Lock(t) \/ Unlock(t) \/ LookupHead(t) \/ LookupNext(t) \/ LookupFound(t)
           \/ LookupMissing(t) /\ after[t] # "get"
           \/ EntryAllocFails(t) \/ IncrNumber(t) \/ Copy(t)
           \/ UndefHead(t) \/ UndefNext(t) \/ UndefFound(t)
    PROVE  UNCHANGED KV!kvVars
<1> USE DEF Goto, heapVars, Inv, TypeOK
<1>1. PurposeInv(t) /\ ResultInv(t) /\ req[t].op \in {"SET", "GET", "INCR"} /\ CallInv(t)
    BY OpType DEF CallsInv
<1>2. CASE Lock(t) \/ Unlock(t)
  <2>1. CallOf(t)' = CallOf(t) /\ Committed(t)' = Committed(t) /\ Outcome(t)' = Outcome(t)
    BY <1>2 DEF Lock, Unlock, CallOf, Committed, Outcome
  <2> QED
    BY <1>2, <2>1, SilentStep DEF Lock, Unlock, WriteLabels, PurgeLabels
<1>3. CASE LookupHead(t) \/ LookupNext(t) \/ EntryAllocFails(t)
  <2>1. CallOf(t)' = CallOf(t) /\ Committed(t)' = Committed(t) /\ Outcome(t)' = Outcome(t)
    BY <1>3 DEF LookupHead, LookupNext, EntryAllocFails, CallOf, Committed, Outcome
  <2> QED
    BY <1>3, <2>1, SilentStep DEF LookupHead, LookupNext, EntryAllocFails, WriteLabels,
                                  PurgeLabels
<1>4. CASE LookupFound(t)
  <2>1. pc[t] = "lookup" /\ pc'[t] \in {"check", "number", "freeValue"}
    BY <1>4 DEF LookupFound
  <2>2. CallOf(t)' = CallOf(t) /\ Committed(t)' = Committed(t) /\ Outcome(t)' = Outcome(t)
    BY <1>4, <2>1 DEF LookupFound, CallOf, Committed, Outcome
  <2> QED
    BY <1>4, <2>1, <2>2, SilentStep DEF LookupFound, WriteLabels, PurgeLabels
<1>5. CASE LookupMissing(t) /\ after[t] # "get"
  <2>1. /\ pc[t] = "lookup" /\ pc'[t] \in {"head", "alloc"}
        /\ \A u \in Threads \ {t} : /\ pc'[u] = pc[u] /\ val'[u] = val[u]
                                    /\ exp'[u] = exp[u] /\ res'[u] = res[u]
        /\ req[t].op = "SET" => val'[t] = val[t] /\ exp'[t] = exp[t]
    BY <1>1, <1>5 DEF LookupMissing, PurposeInv
  <2>2. CallOf(t)' = CallOf(t) /\ Committed(t)' = Committed(t) /\ Outcome(t)' = Outcome(t)
    BY <1>5, <2>1 DEF LookupMissing, CallOf, Committed, Outcome
  <2> QED
    BY <1>5, <2>1, <2>2, SilentStep DEF LookupMissing, WriteLabels, PurgeLabels
<1>6. CASE IncrNumber(t)
  <2>1. req[t].op = "INCR"
    BY <1>1, <1>6 DEF IncrNumber, PurposeInv
  <2>2. CallOf(t)' = CallOf(t) /\ Committed(t)' = Committed(t) /\ Outcome(t)' = Outcome(t)
    BY <1>6, <2>1 DEF IncrNumber, CallOf, Committed, Outcome
  <2> QED
    BY <1>6, <2>1, <2>2, SilentStep DEF IncrNumber, WriteLabels, PurgeLabels
<1>7. CASE Copy(t)
  <2>1. pc[t] = "result" => req[t].op = "INCR" /\ value[cur[t]] = val[t]
    BY <1>1 DEF PurposeInv, ResultInv
  <2>2. CallOf(t)' = CallOf(t) /\ Committed(t)' = Committed(t)
    BY <1>7 DEF Copy, CallOf, Committed
  <2>3. Outcome(t)' = Outcome(t)
    BY <1>7, <2>1 DEF Copy, Committed, Outcome
  <2> QED
    BY <1>7, <2>2, <2>3, SilentStep DEF Copy, WriteLabels, PurgeLabels
<1>8. CASE UndefHead(t) \/ UndefNext(t) \/ UndefFound(t)
  <2>1. req[t].op = "GET" /\ pc[t] \in PurgeLabels /\ pc'[t] \in PurgeLabels
    BY <1>1, <1>8 DEF UndefHead, UndefNext, UndefFound, CallInv, UndefLabels, PurgeLabels
  <2>2. CallOf(t)' = CallOf(t) /\ Committed(t)' = Committed(t) /\ Outcome(t)' = Outcome(t)
    BY <1>8, <2>1 DEF UndefHead, UndefNext, UndefFound, CallOf, Committed, Outcome,
                      PurgeLabels
  <2> QED
    BY <1>8, <2>1, <2>2, SilentStep DEF UndefHead, UndefNext, UndefFound, WriteLabels,
                                       PurgeLabels
<1> QED
    BY <1>2, <1>3, <1>4, <1>5, <1>6, <1>7, <1>8

\* What the map has under the key of a call inside its critical section.
OwnEntry(t) ==
    /\ req[t].key \in Keys
    /\ pc[t] \in WriteLabels =>
          Visible(req[t].key) = [value |-> val[t], expires |-> exp[t]]
    /\ pc[t] \notin WriteLabels /\ Absent(req[t].key) => Visible(req[t].key) = NULL
    /\ pc[t] \in PurgeLabels => Visible(req[t].key) = NULL
    /\ pc[t] \notin WriteLabels \cup PurgeLabels =>
          \A a \in Addr : cell[a] = "linked" /\ ekey[a] = req[t].key =>
              Visible(req[t].key) = [value |-> value[a], expires |-> expires[a]]

OwnEntries == \A t \in Threads : pc[t] \notin OutsideLabels => OwnEntry(t)

LEMMA OwnFacts == Inv /\ ShapeInv => OwnEntries
<1> SUFFICES ASSUME Inv, ShapeInv, NEW t \in Threads, pc[t] \notin OutsideLabels
             PROVE  OwnEntry(t)
    BY DEF OwnEntries
<1> DEFINE k == req[t].key
<1>1. k \in Keys /\ VisibleInv
    BY BucketType, VisibleFacts
<1>2. \A u \in Threads \ {t} : pc[u] \notin WriteLabels \cup PurgeLabels
    BY Alone DEF OutsideLabels, WriteLabels, PurgeLabels
<1>3. pc[t] \in WriteLabels => Visible(k) = [value |-> val[t], expires |-> exp[t]]
    BY <1>1 DEF VisibleInv
<1>4. ASSUME pc[t] \notin WriteLabels
      PROVE  /\ Absent(k) => Visible(k) = NULL
             /\ pc[t] \in PurgeLabels => Visible(k) = NULL
             /\ pc[t] \notin PurgeLabels =>
                   \A a \in Addr : cell[a] = "linked" /\ ekey[a] = k =>
                       Visible(k) = [value |-> value[a], expires |-> expires[a]]
    BY <1>1, <1>2, <1>4 DEF VisibleInv
<1>5. pc[t] \in PurgeLabels => pc[t] \notin WriteLabels
    BY DEF PurgeLabels, WriteLabels
<1> QED
    BY <1>1, <1>3, <1>4, <1>5 DEF OwnEntry

\* The same after a step.
LEMMA OwnFactsNext == (Inv /\ ShapeInv)' => OwnEntries'
  BY OwnFacts, PTL

\* A step of t inside its critical section, that touches entries of its own key only.
OwnStep(t) ==
    /\ pc[t] \notin OutsideLabels /\ pc'[t] \notin OutsideLabels
    /\ UNCHANGED <<now, req>>
    /\ \A u \in Threads \ {t} : /\ pc'[u] = pc[u] /\ val'[u] = val[u]
                                /\ exp'[u] = exp[u] /\ res'[u] = res[u]
    /\ req[t].op = "SET" => val'[t] = val[t] /\ exp'[t] = exp[t]
    /\ \A a \in Addr :
          cell[a] = "linked" /\ ekey[a] # req[t].key =>
             /\ cell'[a] = "linked" /\ ekey'[a] = ekey[a]
             /\ value'[a] = value[a] /\ expires'[a] = expires[a]
    /\ \A a \in Addr :
          cell'[a] = "linked" /\ ekey'[a] # req[t].key =>
             cell[a] = "linked" /\ ekey[a] = ekey'[a]

\* What such a step leaves as it is.
LEMMA OwnStepKeeps ==
    ASSUME Inv, ShapeInv, (Inv /\ ShapeInv)', NEW t \in Threads, OwnStep(t)
    PROVE  /\ \A k \in Keys \ {req[t].key} : Visible(k)' = Visible(k)
           /\ \A u \in Threads \ {t} : /\ CallOf(u)' = CallOf(u)
                                       /\ Committed(u)' = Committed(u)
                                       /\ Outcome(u)' = Outcome(u)
           /\ CallOf(t)' = CallOf(t)
<1>1. \A k \in Keys \ {req[t].key} : Visible(k)' = Visible(k)
    BY OtherKeys DEF OwnStep
<1>2. \A u \in Threads \ {t} : /\ CallOf(u)' = CallOf(u)
                               /\ Committed(u)' = Committed(u)
                               /\ Outcome(u)' = Outcome(u)
    BY OthersMap DEF OwnStep
<1>3. CallOf(t)' = CallOf(t)
    BY DEF OwnStep, CallOf, OutsideLabels
<1> QED
    BY <1>1, <1>2, <1>3

\* It may be a step KVStore does not see ...
LEMMA OwnStutter ==
    ASSUME Inv, ShapeInv, (Inv /\ ShapeInv)', NEW t \in Threads, OwnStep(t),
           Committed(t)' = Committed(t), Outcome(t)' = Outcome(t),
           NEW entry, Visible(req[t].key) = entry, Visible(req[t].key)' = entry
    PROVE  UNCHANGED KV!kvVars
<1>1. req'[t] = req[t] /\ UNCHANGED now
    BY DEF OwnStep
<1>2. \A k \in Keys : Visible(k)' = Visible(k)
    BY <1>1, OwnStepKeeps
<1>3. \A u \in Threads : /\ CallOf(u)' = CallOf(u)
                         /\ Committed(u)' = Committed(u)
                         /\ Outcome(u)' = Outcome(u)
    BY OwnStepKeeps
<1> QED
    BY <1>1, <1>2, <1>3, NoEffect

\* ... or the one at which the call of t takes effect.
LEMMA OwnEffect ==
    ASSUME Inv, ShapeInv, CallsInv, (Inv /\ ShapeInv)', NEW t \in Threads, OwnStep(t),
           ~Committed(t), Committed(t)', NEW a, Outcome(t)' = a,
           NEW entry, Visible(req[t].key)' = entry
    PROVE  KV!Effect(t, entry, a)
<1>1. pc[t] # "idle" /\ req'[t] = req[t] /\ UNCHANGED now
    BY DEF OwnStep, OutsideLabels
<1>2. CallOf(t) # NULL /\ req[t].key \in Keys
    BY <1>1, RunningCall
<1> QED
    BY <1>1, <1>2, OwnStepKeeps, TakesEffect

\* Every step inside a critical section that writes the heap, or has an effect.
LEMMA OwnSteps ==
    ASSUME Inv, ShapeInv, CallsInv, NEW t \in Threads,
           \/ LookupMissing(t) /\ after[t] = "get"
           \/ Alloc(t) \/ KeyAllocFails(t) \/ LinkNext(t) \/ LinkHead(t) \/ FreeValue(t)
           \/ StoreValue(t) \/ ValueAllocFails(t) \/ StoreExpiry(t)
           \/ GetExpired(t) \/ GetAlive(t) \/ IncrNotANumber(t)
           \/ UndefMissing(t) \/ Unlink(t) \/ Reclaim(t)
    PROVE  OwnStep(t)
<1> USE DEF Goto, heapVars, OutsideLabels, Inv, TypeOK
<1>1. PlaceInv(t) /\ CallInv(t) /\ ResultInv(t)
    BY DEF CallsInv
<1>2. CASE LookupMissing(t) /\ after[t] = "get"
    BY <1>2 DEF LookupMissing, OwnStep
<1>3. CASE KeyAllocFails(t) \/ GetExpired(t) \/ GetAlive(t) \/ IncrNotANumber(t)
    BY <1>3 DEF KeyAllocFails, GetExpired, GetAlive, IncrNotANumber, OwnStep
<1>4. CASE Alloc(t)
  <2>1. PICK a \in Addr, junk \in Expiries :
          /\ cell[a] = "free"
          /\ cell' = [cell EXCEPT ![a] = "fresh"]
          /\ ekey' = [ekey EXCEPT ![a] = req[t].key]
          /\ value' = [value EXCEPT ![a] = Junk]
          /\ expires' = [expires EXCEPT ![a] = junk]
    BY <1>4 DEF Alloc
  <2> QED
    BY <1>4, <2>1 DEF Alloc, OwnStep
<1>5. CASE LinkNext(t) \/ LinkHead(t)
  <2>1. cur[t] \in Addr /\ ekey[cur[t]] = req[t].key
    BY <1>1, <1>5, DistinctAssumption DEF LinkNext, LinkHead, PlaceInv, Valid
  <2> QED
    BY <1>5, <2>1 DEF LinkNext, LinkHead, OwnStep
<1>6. CASE FreeValue(t) \/ StoreValue(t) \/ ValueAllocFails(t)
  <2>1. cur[t] \in Addr /\ ekey[cur[t]] = req[t].key
    BY <1>1, <1>6 DEF FreeValue, StoreValue, ValueAllocFails, PlaceInv, EntryLabels
  <2> QED
    BY <1>6, <2>1 DEF FreeValue, StoreValue, ValueAllocFails, OwnStep
<1>7. CASE StoreExpiry(t)
  <2>1. cur[t] \in Addr /\ ekey[cur[t]] = req[t].key
    BY <1>1, <1>7 DEF StoreExpiry, PlaceInv, EntryLabels
  <2> QED
    BY <1>7, <2>1 DEF StoreExpiry, OwnStep
<1>8. CASE UndefMissing(t)
  <2>1. req[t].op = "GET"
    BY <1>1, <1>8 DEF UndefMissing, CallInv, UndefLabels
  <2> QED
    BY <1>8, <2>1 DEF UndefMissing, AfterUndef, OwnStep
<1>9. CASE Unlink(t)
  <2>1. cur[t] \in Addr /\ ekey[cur[t]] = req[t].key
    BY <1>1, <1>9 DEF Unlink, Valid, ResultInv
  <2> QED
    BY <1>9, <2>1 DEF Unlink, OwnStep
<1>10. CASE Reclaim(t)
  <2>1. req[t].op = "GET" /\ cur[t] \in Addr /\ cell[cur[t]] = "unlinked"
    BY <1>1, <1>10 DEF Reclaim, CallInv, UndefLabels, PlaceInv
  <2> QED
    BY <1>10, <2>1 DEF Reclaim, AfterUndef, OwnStep
<1> QED
    BY <1>2, <1>3, <1>4, <1>5, <1>6, <1>7, <1>8, <1>9, <1>10

-----------------------------------------------------------------------------
(* Steps that write the heap and that KVStore does not see                 *)

\* install() builds its entry off the chain.
LEMMA BuildStutters ==
    ASSUME Inv, ShapeInv, CallsInv, (Inv /\ ShapeInv)', NEW t \in Threads,
           Alloc(t) \/ LinkNext(t)
    PROVE  UNCHANGED KV!kvVars
<1>1. OwnStep(t)
    BY OwnSteps
<1>2. /\ pc[t] \in {"alloc", "linkNext"} /\ pc'[t] \in {"linkNext", "linkHead"}
      /\ UNCHANGED req
    BY DEF Alloc, LinkNext, Goto, Inv, TypeOK
<1>3. Absent(req[t].key) /\ Absent(req[t].key)'
    BY <1>2 DEF ShapeInv, SearchInv
<1>4. OwnEntry(t) /\ OwnEntry(t)'
    BY <1>1, OwnFacts, OwnFactsNext DEF OwnEntries, OwnStep
<1>5. Visible(req[t].key) = NULL /\ Visible(req[t].key)' = NULL
    BY <1>2, <1>3, <1>4 DEF OwnEntry, WriteLabels
<1>6. Committed(t)' = Committed(t) /\ Outcome(t)' = Outcome(t)
    BY <1>2 DEF Committed, Outcome
<1> QED
    BY <1>1, <1>5, <1>6, OwnStutter

\* The entry it has published is written in two steps.
LEMMA StoreStutters ==
    ASSUME Inv, ShapeInv, CallsInv, (Inv /\ ShapeInv)', NEW t \in Threads,
           StoreValue(t) \/ StoreExpiry(t)
    PROVE  UNCHANGED KV!kvVars
<1> USE DEF Goto, Inv, TypeOK
<1>1. OwnStep(t)
    BY OwnSteps
<1>2. OwnEntry(t) /\ OwnEntry(t)'
    BY <1>1, OwnFacts, OwnFactsNext DEF OwnEntries, OwnStep
<1>3. PurposeInv(t) /\ ResultInv(t) /\ PlaceInv(t)
    BY DEF CallsInv
<1>4. CASE StoreValue(t)
  <2>1. /\ pc[t] = "store" /\ pc'[t] = "storeExpiry"
        /\ UNCHANGED <<req, val, exp, res>>
    BY <1>4 DEF StoreValue
  <2>2. /\ Visible(req[t].key) = [value |-> val[t], expires |-> exp[t]]
        /\ Visible(req[t].key)' = [value |-> val[t], expires |-> exp[t]]
    BY <1>2, <2>1 DEF OwnEntry, WriteLabels
  <2>3. Committed(t)' = Committed(t) /\ Outcome(t)' = Outcome(t)
    BY <2>1 DEF Committed, Outcome
  <2> QED
    BY <1>1, <2>2, <2>3, OwnStutter
<1>5. CASE StoreExpiry(t)
  <2>1. /\ pc[t] = "storeExpiry" /\ UNCHANGED <<req, val, exp, res, value, cell, ekey>>
        /\ pc'[t] = IF req[t].op = "INCR" THEN "result" ELSE "unlock"
        /\ expires' = [expires EXCEPT ![cur[t]] = exp[t]]
    BY <1>5 DEF StoreExpiry
  <2>2. /\ req[t].op \in {"SET", "INCR"} /\ value[cur[t]] = val[t] /\ res[t] = NULL
        /\ cur[t] \in Addr /\ cell[cur[t]] = "linked" /\ ekey[cur[t]] = req[t].key
    BY <1>3, <2>1 DEF PurposeInv, ResultInv, PlaceInv, EntryLabels
  <2>3. Visible(req[t].key) = [value |-> val[t], expires |-> exp[t]]
    BY <1>2, <2>1 DEF OwnEntry, WriteLabels
  <2>4. Visible(req[t].key)' = [value |-> value'[cur[t]], expires |-> expires'[cur[t]]]
    BY <1>2, <2>1, <2>2 DEF OwnEntry, WriteLabels, PurgeLabels
  <2>5. Visible(req[t].key)' = [value |-> val[t], expires |-> exp[t]]
    BY <2>1, <2>2, <2>4
  <2>6. Committed(t)' = Committed(t)
    BY <2>1 DEF Committed
  <2>7. Outcome(t)' = Outcome(t)
    BY <2>1, <2>2 DEF Committed, Outcome
  <2> QED
    BY <1>1, <2>3, <2>5, <2>6, <2>7, OwnStutter
<1> QED
    BY <1>4, <1>5

\* db_get() removes an entry that nobody sees any more.
LEMMA PurgeStutters ==
    ASSUME Inv, ShapeInv, CallsInv, (Inv /\ ShapeInv /\ CallsInv)', NEW t \in Threads,
           UndefMissing(t) \/ Unlink(t) \/ Reclaim(t)
    PROVE  UNCHANGED KV!kvVars
<1> USE DEF Goto, Inv, TypeOK
<1>1. OwnStep(t)
    BY OwnSteps
<1>2. OwnEntry(t) /\ OwnEntry(t)'
    BY <1>1, OwnFacts, OwnFactsNext DEF OwnEntries, OwnStep
<1>3. ResultInv(t) /\ ResultInv(t)' /\ CallInv(t)
    BY DEF CallsInv
<1>4. /\ req[t].op = "GET" /\ UNCHANGED <<req, res>>
      /\ pc[t] \in {"undef", "unlink", "reclaim"} /\ pc'[t] \in {"reclaim", "unlock"}
    BY <1>3 DEF UndefMissing, Unlink, Reclaim, AfterUndef, CallInv, UndefLabels
<1>5. Visible(req[t].key) = NULL
    BY <1>2, <1>3, <1>4 DEF OwnEntry, WriteLabels, PurgeLabels, ResultInv
<1>6. Absent(req[t].key)'
  <2>1. CASE UndefMissing(t)
    <3>1. Absent(req[t].key)
        BY <2>1, EndOfChain DEF UndefMissing
    <3> QED
        BY <2>1, <3>1 DEF UndefMissing, Absent, heapVars
  <2>2. CASE Unlink(t)
    BY <1>3, <2>2 DEF Unlink, ResultInv
  <2>3. CASE Reclaim(t)
    <3>1. Absent(req[t].key)
        BY <1>3, <2>3 DEF Reclaim, ResultInv
    <3> QED
        BY <2>3, <3>1 DEF Reclaim, Absent
  <2> QED
    BY <2>1, <2>2, <2>3
<1>7. Visible(req[t].key)' = NULL
    BY <1>2, <1>4, <1>6 DEF OwnEntry, WriteLabels
<1>8. Committed(t)' = Committed(t)
    BY <1>4 DEF Committed
<1>9. Outcome(t)' = Outcome(t)
    BY <1>3, <1>4 DEF Committed, Outcome, ResultInv
<1> QED
    BY <1>1, <1>5, <1>7, <1>8, <1>9, OwnStutter

-----------------------------------------------------------------------------
(* Steps at which a call takes effect                                      *)

\* What KVStore has stored under the key of a running call.
LEMMA StoredIsVisible ==
    ASSUME NEW t \in Threads, pc[t] # "idle", req[t].key \in Keys
    PROVE  KV!Stored(t) = Visible(req[t].key)
<1> DEFINE call == [u \in Threads |-> CallOf(u)]
           store == [k \in Keys |-> Visible(k)]
<1>1. KV!Stored(t) = store[call[t].key]
    BY DEF KV!Stored, CallOf
<1>2. call[t].key = req[t].key
    BY DEF CallOf
<1> QED
    BY <1>1, <1>2

\* The actions of KVStore, in the terms of the store.
LEMMA EffectSet ==
    ASSUME NEW t \in Threads, CallOf(t) # NULL, CallOf(t).op = "SET",
           KV!Effect(t, [value |-> CallOf(t).value, expires |-> CallOf(t).expires], NULL)
    PROVE  KV!KVSet(t)
  BY DEF KV!KVSet, KV!Entry, CallOf

LEMMA EffectGet ==
    ASSUME NEW t \in Threads, CallOf(t) # NULL, CallOf(t).op = "GET", NEW e, KV!Stored(t) = e,
           \/ e # NULL /\ (e.expires = 0 \/ e.expires > now) /\ KV!Effect(t, e, e.value)
           \/ (e = NULL \/ ~(e.expires = 0 \/ e.expires > now)) /\ KV!Effect(t, NULL, NULL)
    PROVE  KV!KVGet(t)
<1>1. KV!Alive(e) <=> e # NULL /\ (e.expires = 0 \/ e.expires > now)
    BY DEF KV!Alive
<1>2. [u \in Threads |-> CallOf(u)][t] # NULL /\ [u \in Threads |-> CallOf(u)][t].op = "GET"
    OBVIOUS
<1> QED
    BY <1>1, <1>2 DEF KV!KVGet, CallOf

LEMMA EffectIncr ==
    ASSUME IncrAsBuilt, NEW t \in Threads, CallOf(t) # NULL, CallOf(t).op = "INCR",
           NEW e, KV!Stored(t) = e,
           \/ e = NULL /\ KV!Effect(t, [value |-> 1, expires |-> 0], 1)
           \/ e # NULL /\ e.value \in Words /\ KV!Effect(t, e, Err)
           \/ /\ e # NULL /\ e.value \in IntMin .. IntMax
              /\ KV!Effect(t, [value |-> Increment(e.value), expires |-> e.expires],
                           Increment(e.value))
    PROVE  KV!KVIncr(t)
<1>1. [u \in Threads |-> CallOf(u)][t] # NULL /\ [u \in Threads |-> CallOf(u)][t].op = "INCR"
    OBVIOUS
<1>2. KV!Missing(e) <=> e = NULL
    BY DEF KV!Missing, IncrAsBuilt
<1> QED
    BY <1>1, <1>2 DEF KV!KVIncr, KV!Entry, CallOf, Increment

LEMMA EffectFail ==
    ASSUME NEW t \in Threads, CallOf(t) # NULL, CallOf(t).op \in {"SET", "INCR"},
           "key" \in OutOfMemory, KV!Stored(t) = NULL, KV!Effect(t, NULL, Err)
    PROVE  KV!KVFail(t)
<1>1. /\ [u \in Threads |-> CallOf(u)][t] # NULL
      /\ [u \in Threads |-> CallOf(u)][t].op \in {"SET", "INCR"}
    OBVIOUS
<1> QED
    BY <1>1 DEF KV!KVFail, CallOf

\* lookup() reaches the end of the chain: db_get() will return NULL.
LEMMA MissingIsGet ==
    ASSUME Inv, ShapeInv, CallsInv, (Inv /\ ShapeInv)', NEW t \in Threads,
           LookupMissing(t), after[t] = "get"
    PROVE  KV!KVGet(t)
<1> USE DEF Goto, Inv, TypeOK
<1>1. OwnStep(t)
    BY OwnSteps
<1>2. OwnEntry(t) /\ OwnEntry(t)'
    BY <1>1, OwnFacts, OwnFactsNext DEF OwnEntries, OwnStep
<1>3. /\ pc[t] = "lookup" /\ pc'[t] = "unlock" /\ res'[t] = NULL
      /\ UNCHANGED <<req, cell, ekey>> /\ cur[t] = NULL
    BY DEF LookupMissing, heapVars
<1>4. Absent(req[t].key) /\ Absent(req[t].key)'
    BY <1>3, EndOfChain DEF Absent
<1>5. Visible(req[t].key) = NULL /\ Visible(req[t].key)' = NULL /\ req[t].key \in Keys
    BY <1>2, <1>3, <1>4 DEF OwnEntry, WriteLabels
<1>6. ~Committed(t) /\ Committed(t)' /\ Outcome(t)' = NULL
    BY <1>3 DEF Committed, Outcome
<1>7. KV!Effect(t, NULL, NULL)
    BY <1>1, <1>5, <1>6, OwnEffect
<1>8. CallOf(t) # NULL /\ CallOf(t).op = "GET"
    BY <1>3, RunningCall DEF CallInv
<1>9. KV!Stored(t) = NULL
    BY <1>3, <1>5, StoredIsVisible
<1> QED
    BY <1>7, <1>8, <1>9, EffectGet

\* strdup(key) fails: nothing is stored.
LEMMA KeyAllocFailsIsFail ==
    ASSUME Inv, ShapeInv, CallsInv, (Inv /\ ShapeInv)', NEW t \in Threads, KeyAllocFails(t)
    PROVE  KV!KVFail(t)
<1> USE DEF Goto, Inv, TypeOK
<1>1. OwnStep(t)
    BY OwnSteps
<1>2. OwnEntry(t) /\ OwnEntry(t)'
    BY <1>1, OwnFacts, OwnFactsNext DEF OwnEntries, OwnStep
<1>3. /\ pc[t] = "alloc" /\ pc'[t] = "unlock" /\ res'[t] = Err
      /\ UNCHANGED <<req, cell, ekey>> /\ "key" \in OutOfMemory
    BY DEF KeyAllocFails, heapVars
<1>4. Absent(req[t].key) /\ Absent(req[t].key)'
    BY <1>3 DEF ShapeInv, SearchInv, Absent
<1>5. Visible(req[t].key) = NULL /\ Visible(req[t].key)' = NULL /\ req[t].key \in Keys
    BY <1>2, <1>3, <1>4 DEF OwnEntry, WriteLabels
<1>6. ~Committed(t) /\ Committed(t)' /\ Outcome(t)' = Err
    BY <1>3 DEF Committed, Outcome
<1>7. KV!Effect(t, NULL, Err)
    BY <1>1, <1>5, <1>6, OwnEffect
<1>8. CallOf(t) # NULL /\ CallOf(t).op \in {"SET", "INCR"}
    BY <1>3, RunningCall DEF CallsInv, PurposeInv, ArgLabels
<1>9. KV!Stored(t) = NULL
    BY <1>3, <1>5, StoredIsVisible
<1> QED
    BY <1>3, <1>7, <1>8, <1>9, EffectFail

\* The entry found has expired, or it has not: db_get() has read the clock.
LEMMA CheckIsGet ==
    ASSUME Inv, ShapeInv, CallsInv, (Inv /\ ShapeInv)', NEW t \in Threads,
           GetExpired(t) \/ GetAlive(t)
    PROVE  KV!KVGet(t)
<1> USE DEF Goto, Inv, TypeOK
<1>1. OwnStep(t)
    BY OwnSteps
<1>2. OwnEntry(t) /\ OwnEntry(t)'
    BY <1>1, OwnFacts, OwnFactsNext DEF OwnEntries, OwnStep
<1>3. /\ pc[t] = "check" /\ UNCHANGED <<req, cell, ekey, value, expires, cur, res>>
      /\ CallsInv /\ ResultInv(t)
    BY DEF GetExpired, GetAlive, heapVars, CallsInv
<1>4. cur[t] \in Addr /\ cell[cur[t]] = "linked" /\ ekey[cur[t]] = req[t].key
    BY <1>3, EntryReadable DEF EntryLabels
<1> DEFINE e == [value |-> value[cur[t]], expires |-> expires[cur[t]]]
<1>5. Visible(req[t].key) = e /\ req[t].key \in Keys
    BY <1>2, <1>3, <1>4 DEF OwnEntry, WriteLabels, PurgeLabels
<1>6. KV!Stored(t) = e
    BY <1>3, <1>5, StoredIsVisible
<1>7. CallOf(t) # NULL /\ CallOf(t).op = "GET"
    BY <1>3, RunningCall, ZenonT(40) DEF CallInv
<1>8. e # NULL
  <2>1. value[cur[t]] \in Values \cup {NULL} /\ expires[cur[t]] \in Expiries
    BY <1>3, <1>4, EntryReadable DEF EntryLabels, CallsInv
  <2>2. e \in [value : Values \cup {NULL}, expires : Expiries]
    BY <2>1
  <2> QED
    BY <2>2, RecordAssumption
<1>9. CASE GetExpired(t)
  <2>1. pc'[t] = "undefHead" /\ req[t].op = "GET" /\ res[t] = NULL
    BY <1>3, <1>9 DEF GetExpired, CallInv, ResultInv
  <2>2. ~Committed(t) /\ Committed(t)' /\ Outcome(t)' = NULL
    BY <1>3, <2>1 DEF Committed, Outcome
  <2>3. Visible(req[t].key)' = NULL
    BY <1>2, <1>3, <2>1 DEF OwnEntry, PurgeLabels
  <2>4. KV!Effect(t, NULL, NULL)
    BY <1>1, <2>2, <2>3, OwnEffect
  <2>5. ~(e.expires = 0 \/ e.expires > now)
    BY <1>4, <1>9 DEF GetExpired, expired
  <2> QED
    BY <1>6, <1>7, <2>4, <2>5, EffectGet
<1>10. CASE GetAlive(t)
  <2>1. pc'[t] = "copy"
    BY <1>10 DEF GetAlive
  <2>2. ~Committed(t) /\ Committed(t)' /\ Outcome(t)' = value[cur[t]]
    BY <1>3, <2>1 DEF Committed, Outcome
  <2>3. Visible(req[t].key)' = e
    BY <1>2, <1>3, <1>4, <2>1 DEF OwnEntry, WriteLabels, PurgeLabels
  <2>4. KV!Effect(t, e, e.value)
    BY <1>1, <2>2, <2>3, OwnEffect
  <2>5. e.expires = 0 \/ e.expires > now
    BY <1>4, <1>10 DEF GetAlive, expired
  <2> QED
    BY <1>6, <1>7, <1>8, <2>4, <2>5, EffectGet
<1> QED
    BY <1>9, <1>10

\* install() publishes a new entry, or begins to overwrite the old one.
LEMMA InstallIsEffect ==
    ASSUME IncrAsBuilt, Inv, ShapeInv, CallsInv, (Inv /\ ShapeInv)', NEW t \in Threads,
           LinkHead(t) \/ FreeValue(t)
    PROVE  KV!KVSet(t) \/ KV!KVIncr(t)
<1> USE DEF Goto, Inv, TypeOK
<1>1. OwnStep(t)
    BY OwnSteps
<1>2. OwnEntry(t) /\ OwnEntry(t)'
    BY <1>1, OwnFacts, OwnFactsNext DEF OwnEntries, OwnStep
<1>3. /\ pc[t] \in {"linkHead", "freeValue"} /\ pc'[t] = "store"
      /\ UNCHANGED <<req, val, exp, res>>
    BY DEF LinkHead, FreeValue
<1>4. PurposeInv(t) /\ IncrInv(t) /\ req[t].op \in {"SET", "INCR"}
    BY <1>3 DEF CallsInv, PurposeInv, ArgLabels
<1>5. Visible(req[t].key)' = [value |-> val[t], expires |-> exp[t]] /\ req[t].key \in Keys
    BY <1>2, <1>3 DEF OwnEntry, WriteLabels
<1>6. ~Committed(t) /\ Committed(t)'
    BY <1>3 DEF Committed
<1>7. /\ req[t].op = "SET" => Outcome(t)' = NULL
      /\ req[t].op = "INCR" => Outcome(t)' = val[t]
    BY <1>3 DEF Committed, Outcome
<1>8. /\ CallOf(t) # NULL /\ CallOf(t).op = req[t].op
      /\ req[t].op = "SET" => CallOf(t).value = val[t] /\ CallOf(t).expires = exp[t]
    BY <1>3, RunningCall
<1>9. CASE req[t].op = "SET"
  <2>1. KV!Effect(t, [value |-> val[t], expires |-> exp[t]], NULL)
    BY <1>1, <1>5, <1>6, <1>7, <1>9, OwnEffect
  <2> QED
    BY <1>8, <1>9, <2>1, EffectSet
<1>10. CASE req[t].op = "INCR"
  <2>1. KV!Effect(t, [value |-> val[t], expires |-> exp[t]], val[t])
    BY <1>1, <1>5, <1>6, <1>7, <1>10, OwnEffect
  <2>2. CASE pc[t] = "linkHead"
    <3>1. val[t] = 1 /\ exp[t] = 0
        BY <1>4, <1>10, <2>2 DEF IncrInv
    <3>2. Absent(req[t].key)
        BY <2>2 DEF ShapeInv, SearchInv
    <3>3. Visible(req[t].key) = NULL
        BY <1>2, <2>2, <3>2 DEF OwnEntry, WriteLabels
    <3>4. KV!Stored(t) = NULL
        BY <1>3, <1>5, <3>3, StoredIsVisible
    <3> QED
        BY <1>8, <1>10, <2>1, <3>1, <3>4, EffectIncr
  <2>3. CASE pc[t] = "freeValue"
    <3> DEFINE e == [value |-> value[cur[t]], expires |-> expires[cur[t]]]
    <3>1. /\ value[cur[t]] \in Numbers
          /\ val[t] = Increment(value[cur[t]]) /\ exp[t] = expires[cur[t]]
        BY <1>4, <1>10, <2>3 DEF IncrInv
    <3>2. cur[t] \in Addr /\ cell[cur[t]] = "linked" /\ ekey[cur[t]] = req[t].key
        BY <2>3, EntryReadable DEF EntryLabels
    <3>3. Visible(req[t].key) = e
        BY <1>2, <2>3, <3>2 DEF OwnEntry, WriteLabels, PurgeLabels
    <3>4. KV!Stored(t) = e
        BY <1>3, <1>5, <3>3, StoredIsVisible
    <3>5. e \in [value : Values \cup {NULL}, expires : Expiries]
        BY <3>1, <3>2 DEF CallsInv, Values
    <3>6. e # NULL /\ e.value \in IntMin .. IntMax
        BY <3>1, <3>5, RecordAssumption DEF Numbers
    <3>7. KV!Effect(t, [value |-> Increment(e.value), expires |-> e.expires],
                    Increment(e.value))
        BY <2>1, <3>1
    <3> QED
        BY <1>8, <1>10, <3>4, <3>6, <3>7, EffectIncr
  <2> QED
    BY <1>3, <2>2, <2>3
<1> QED
    BY <1>4, <1>9, <1>10

\* The value is not a number: db_incr() leaves it.
LEMMA NotANumberIsIncr ==
    ASSUME IncrAsBuilt, Inv, ShapeInv, CallsInv, (Inv /\ ShapeInv)', NEW t \in Threads, IncrNotANumber(t)
    PROVE  KV!KVIncr(t)
<1> USE DEF Goto, Inv, TypeOK
<1>1. OwnStep(t)
    BY OwnSteps
<1>2. OwnEntry(t) /\ OwnEntry(t)'
    BY <1>1, OwnFacts, OwnFactsNext DEF OwnEntries, OwnStep
<1>3. /\ pc[t] = "number" /\ pc'[t] = "unlock" /\ res'[t] = Err
      /\ UNCHANGED <<req, cell, ekey, value, expires>>
      /\ value[cur[t]] \notin {NULL, Junk} /\ value[cur[t]] \notin Numbers
    BY DEF IncrNotANumber, heapVars, Readable, is_number
<1>4. cur[t] \in Addr /\ cell[cur[t]] = "linked" /\ ekey[cur[t]] = req[t].key
    BY <1>3, EntryReadable DEF EntryLabels
<1> DEFINE e == [value |-> value[cur[t]], expires |-> expires[cur[t]]]
<1>5. Visible(req[t].key) = e /\ Visible(req[t].key)' = e /\ req[t].key \in Keys
    BY <1>2, <1>3, <1>4 DEF OwnEntry, WriteLabels, PurgeLabels
<1>6. ~Committed(t) /\ Committed(t)' /\ Outcome(t)' = Err
    BY <1>3 DEF Committed, Outcome
<1>7. KV!Effect(t, e, Err)
    BY <1>1, <1>5, <1>6, OwnEffect
<1>8. CallOf(t) # NULL /\ CallOf(t).op = "INCR"
    BY <1>3, RunningCall DEF CallsInv, PurposeInv
<1>9. KV!Stored(t) = e
    BY <1>3, <1>5, StoredIsVisible
<1>10. value[cur[t]] \in Words /\ expires[cur[t]] \in Expiries
    BY <1>3, <1>4 DEF CallsInv, Values
<1>11. e \in [value : Values \cup {NULL}, expires : Expiries]
    BY <1>10 DEF Values
<1>12. e # NULL /\ e.value \in Words
    BY <1>10, <1>11, RecordAssumption
<1> QED
    BY <1>7, <1>8, <1>9, <1>12, EffectIncr

\* strdup(value) fails: the entry stays, without its value.
LEMMA ValueAllocFailsIsBreak ==
    ASSUME Inv, ShapeInv, CallsInv, (Inv /\ ShapeInv)', NEW t \in Threads, ValueAllocFails(t)
    PROVE  KV!KVBreak(t)
<1> USE DEF Goto, Inv, TypeOK
<1>1. OwnStep(t)
    BY OwnSteps
<1>2. OwnEntry(t)' /\ PlaceInv(t)
    BY <1>1, OwnFactsNext DEF OwnEntries, OwnStep
<1>3. /\ pc[t] = "store" /\ pc'[t] = "unlock" /\ res'[t] = Err
      /\ UNCHANGED <<req, cell, ekey, expires, now>> /\ "value" \in OutOfMemory
      /\ value' = [value EXCEPT ![cur[t]] = NULL]
    BY DEF ValueAllocFails
<1>4. cur[t] \in Addr /\ cell[cur[t]] = "linked" /\ ekey[cur[t]] = req[t].key
    BY <1>2, <1>3 DEF PlaceInv, EntryLabels
<1> DEFINE e == [value |-> NULL, expires |-> expires[cur[t]]]
<1>5. Visible(req[t].key)' = e
    BY <1>2, <1>3, <1>4 DEF OwnEntry, WriteLabels, PurgeLabels
<1>6. Committed(t) /\ Committed(t)' = Committed(t) /\ Outcome(t)' = Err
    BY <1>3 DEF Committed, Outcome
<1>7. /\ CallOf(t) # NULL /\ CallOf(t).op \in {"SET", "INCR"}
      /\ CallOf(t).key = req[t].key /\ req[t].key \in Keys
    BY <1>3, RunningCall DEF CallsInv, PurposeInv, ArgLabels
<1>8. expires[cur[t]] \in Expiries
    BY <1>4 DEF CallsInv
<1> DEFINE store  == [k \in Keys |-> Visible(k)]
           call   == [u \in Threads |-> CallOf(u)]
           done   == [u \in Threads |-> Committed(u)]
           answer == [u \in Threads |-> Outcome(u)]
<1>9. call[t] # NULL /\ call[t].op \in {"SET", "INCR"} /\ call[t].key = req[t].key /\ done[t]
    BY <1>6, <1>7
<1>10. UNCHANGED call
    BY <1>1, OwnStepKeeps
<1>11. UNCHANGED done
    BY <1>1, <1>6, OwnStepKeeps
<1>12. answer' = [answer EXCEPT ![t] = Err]
    BY <1>1, <1>6, OwnStepKeeps
<1>13. store' = [store EXCEPT ![req[t].key] = e]
    BY <1>1, <1>3, <1>5, <1>7, OwnStepKeeps
<1> QED
    BY <1>3, <1>8, <1>9, <1>10, <1>11, <1>12, <1>13 DEF KV!KVBreak, KV!Entry, CallOf

-----------------------------------------------------------------------------
(* Calls, returns and time                                                 *)

\* A step that leaves the heap, and every thread but t, as they are.
LEMMA BorderStep ==
    ASSUME Inv, NEW t \in Threads, UNCHANGED <<now, heapVars>>,
           pc[t] \in OutsideLabels, pc'[t] \in OutsideLabels,
           \A u \in Threads \ {t} :
              /\ pc'[u] = pc[u] /\ req'[u] = req[u] /\ cur'[u] = cur[u]
              /\ val'[u] = val[u] /\ exp'[u] = exp[u] /\ res'[u] = res[u]
    PROVE  /\ \A k : Visible(k)' = Visible(k)
           /\ \A u \in Threads \ {t} : /\ CallOf(u)' = CallOf(u)
                                       /\ Committed(u)' = Committed(u)
                                       /\ Outcome(u)' = Outcome(u)
<1>1. \A u \in Threads :
          /\ pc'[u] \in WriteLabels <=> pc[u] \in WriteLabels
          /\ pc'[u] \in PurgeLabels <=> pc[u] \in PurgeLabels
          /\ pc[u] \in WriteLabels \cup PurgeLabels =>
                req'[u] = req[u] /\ val'[u] = val[u] /\ exp'[u] = exp[u]
    BY DEF OutsideLabels, WriteLabels, PurgeLabels
<1>2. \A k : Visible(k)' = Visible(k)
    BY <1>1, SameMap
<1>3. ASSUME NEW u \in Threads \ {t}
      PROVE  /\ CallOf(u)' = CallOf(u) /\ Committed(u)' = Committed(u)
             /\ Outcome(u)' = Outcome(u)
    BY <1>3 DEF CallOf, Committed, Outcome, heapVars
<1> QED
    BY <1>2, <1>3

\* db_set(), db_get() and db_incr() are called.
LEMMA CallIsInvoke ==
    ASSUME Disciplined, Inv, NEW t \in Threads, Call(t)
    PROVE  \E r \in KV!KVRequests : KV!KVInvoke(t, r)
<1> USE DEF Goto, Inv, TypeOK
<1>1. /\ pc[t] = "idle" /\ pc'[t] = "lock" /\ UNCHANGED <<now, heapVars>>
      /\ \A u \in Threads \ {t} :
              /\ pc'[u] = pc[u] /\ req'[u] = req[u] /\ cur'[u] = cur[u]
              /\ val'[u] = val[u] /\ exp'[u] = exp[u] /\ res'[u] = res[u]
    BY DEF Call, CallSet, CallGet, CallIncr, CallDel, Begin, Disciplined
<1>2. /\ \A k : Visible(k)' = Visible(k)
      /\ \A u \in Threads \ {t} : /\ CallOf(u)' = CallOf(u)
                                  /\ Committed(u)' = Committed(u)
                                  /\ Outcome(u)' = Outcome(u)
    BY <1>1, BorderStep DEF OutsideLabels
<1>3. /\ CallOf(t) = NULL
      /\ Committed(t)' = Committed(t) /\ Outcome(t)' = Outcome(t)
    BY <1>1 DEF CallOf, Committed, Outcome
<1>4. PICK r \in KV!KVRequests : CallOf(t)' = r
  <2>1. ASSUME NEW k \in Keys, NEW v \in Inputs, NEW e \in Expiries, CallSet(t, k, v, e)
        PROVE  CallOf(t)' \in KV!KVRequests
    <3>1. /\ req'[t] = [op |-> "SET", key |-> k] /\ val'[t] = v /\ exp'[t] = e
        BY <2>1 DEF CallSet, Begin
    <3>2. CallOf(t)' = [op |-> "SET", key |-> k, value |-> v, expires |-> e]
        BY <1>1, <3>1 DEF CallOf
    <3> QED
        BY <3>2 DEF KV!KVRequests
  <2>2. ASSUME NEW k \in Keys, NEW op \in {"GET", "INCR"},
               req'[t] = [op |-> op, key |-> k]
        PROVE  CallOf(t)' \in KV!KVRequests
    <3>1. CallOf(t)' = [op |-> op, key |-> k]
        BY <1>1, <2>2 DEF CallOf
    <3> QED
        BY <3>1 DEF KV!KVRequests
  <2>3. ASSUME NEW k \in Keys, CallGet(t, k) PROVE req'[t] = [op |-> "GET", key |-> k]
    BY <2>3 DEF CallGet, Begin
  <2>4. ASSUME NEW k \in Keys, CallIncr(t, k) PROVE req'[t] = [op |-> "INCR", key |-> k]
    BY <2>4 DEF CallIncr, Begin
  <2>5. ASSUME NEW k \in Keys, CallDel(t, k) PROVE FALSE
    BY <2>5 DEF CallDel, Begin, Disciplined
  <2>6. CallOf(t)' \in KV!KVRequests
    BY <2>1, <2>2, <2>3, <2>4, <2>5 DEF Call
  <2> QED
    BY <2>6
<1> DEFINE store  == [k \in Keys |-> Visible(k)]
           call   == [u \in Threads |-> CallOf(u)]
           done   == [u \in Threads |-> Committed(u)]
           answer == [u \in Threads |-> Outcome(u)]
<1>5. UNCHANGED store
    BY <1>2
<1>6. UNCHANGED done
    BY <1>2, <1>3
<1>7. UNCHANGED answer
    BY <1>2, <1>3
<1>8. call[t] = NULL /\ call' = [call EXCEPT ![t] = r]
    BY <1>2, <1>3, <1>4
<1>9. KV!KVInvoke(t, r)
    BY <1>1, <1>5, <1>6, <1>7, <1>8 DEF KV!KVInvoke, CallOf
<1> QED
    BY <1>9

\* The call returns.
LEMMA ReturnIsReturn ==
    ASSUME Inv, CallsInv, NEW t \in Threads, Return(t)
    PROVE  KV!KVReturn(t)
<1> USE DEF Goto, Inv, TypeOK
<1>1. /\ pc[t] = "done" /\ pc'[t] = "idle" /\ UNCHANGED <<now, heapVars>>
      /\ \A u \in Threads \ {t} :
              /\ pc'[u] = pc[u] /\ req'[u] = req[u] /\ cur'[u] = cur[u]
              /\ val'[u] = val[u] /\ exp'[u] = exp[u] /\ res'[u] = res[u]
    BY DEF Return
<1>2. /\ \A k : Visible(k)' = Visible(k)
      /\ \A u \in Threads \ {t} : /\ CallOf(u)' = CallOf(u)
                                  /\ Committed(u)' = Committed(u)
                                  /\ Outcome(u)' = Outcome(u)
    BY <1>1, BorderStep DEF OutsideLabels
<1>3. CallOf(t)' = NULL /\ Committed(t) /\ Committed(t)' = FALSE /\ Outcome(t)' = NULL
    BY <1>1 DEF CallOf, Committed, Outcome
<1>4. CallOf(t) # NULL
    BY <1>1, RunningCall
<1> DEFINE store  == [k \in Keys |-> Visible(k)]
           call   == [u \in Threads |-> CallOf(u)]
           done   == [u \in Threads |-> Committed(u)]
           answer == [u \in Threads |-> Outcome(u)]
<1>5. UNCHANGED store
    BY <1>2
<1>6. done[t] /\ done' = [done EXCEPT ![t] = FALSE]
    BY <1>2, <1>3
<1>7. answer' = [answer EXCEPT ![t] = NULL]
    BY <1>2, <1>3
<1>8. call[t] # NULL /\ call' = [call EXCEPT ![t] = NULL]
    BY <1>2, <1>3, <1>4
<1> QED
    BY <1>1, <1>5, <1>6, <1>7, <1>8 DEF KV!KVReturn, CallOf

\* A step that leaves the heap and the threads alone changes nothing KVStore sees
\* but the clock.
LEMMA SameView ==
    ASSUME UNCHANGED <<heapVars, threadVars>>
    PROVE  /\ UNCHANGED [k \in Keys |-> Visible(k)]
           /\ UNCHANGED [u \in Threads |-> CallOf(u)]
           /\ UNCHANGED [u \in Threads |-> Committed(u)]
           /\ UNCHANGED [u \in Threads |-> Outcome(u)]
<1>1. \A k : Visible(k)' = Visible(k)
    BY SameMap DEF threadVars
<1>2. ASSUME NEW u \in Threads
      PROVE  /\ CallOf(u)' = CallOf(u) /\ Committed(u)' = Committed(u)
             /\ Outcome(u)' = Outcome(u)
    BY DEF CallOf, Committed, Outcome, heapVars, threadVars
<1> QED
    BY <1>1, <1>2

\* Time passes.
LEMMA TickIsTick ==
    ASSUME Tick
    PROVE  KV!KVTick
  BY SameView DEF Tick, KV!KVTick, CallOf

LEMMA StutterIsStutter ==
    ASSUME UNCHANGED vars
    PROVE  UNCHANGED KV!kvVars
  BY SameView DEF vars, KV!kvVars, CallOf

\* The empty table stands for the empty map.
LEMMA InitIsInit == Init => KV!KVInit
<1> SUFFICES ASSUME Init PROVE KV!KVInit
    OBVIOUS
<1>1. VisibleInv
    BY InitInv, ShapeInit, VisibleFacts
<1>2. \A k \in Keys : Visible(k) = NULL
    BY <1>1 DEF Init, VisibleInv, Absent, WriteLabels
<1>3. \A t \in Threads : CallOf(t) = NULL /\ Committed(t) = FALSE /\ Outcome(t) = NULL
    BY DEF Init, CallOf, Committed, Outcome
<1>4. /\ [k \in Keys |-> Visible(k)] = [k \in Keys |-> NULL]
      /\ [t \in Threads |-> CallOf(t)] = [t \in Threads |-> NULL]
      /\ [t \in Threads |-> Committed(t)] = [t \in Threads |-> FALSE]
      /\ [t \in Threads |-> Outcome(t)] = [t \in Threads |-> NULL]
    BY <1>2, <1>3
<1>5. now = 1
    BY DEF Init
<1> QED
    BY <1>4, <1>5 DEF KV!KVInit, CallOf

\* Every step of the store is one of KVStore, or one that it does not see.
LEMMA StepImplements ==
    ASSUME Disciplined, IncrAsBuilt, Inv, ShapeInv, CallsInv,
           (Inv /\ ShapeInv /\ CallsInv)', [Next]_vars
    PROVE  [KV!KVNext]_(KV!kvVars)
<1>1. CASE UNCHANGED vars
    BY <1>1, StutterIsStutter
<1>2. CASE Tick
    BY <1>2, TickIsTick DEF KV!KVNext
<1>3. ASSUME NEW t \in Threads, Call(t) PROVE KV!KVNext
    BY <1>3, CallIsInvoke DEF KV!KVNext
<1>4. ASSUME NEW t \in Threads, lookup(t) PROVE KV!KVNext \/ UNCHANGED KV!kvVars
    BY <1>4, SilentActions, MissingIsGet DEF lookup, KV!KVNext
<1>5. ASSUME NEW t \in Threads, install(t) PROVE KV!KVNext \/ UNCHANGED KV!kvVars
    BY <1>5, SilentActions, BuildStutters, StoreStutters, KeyAllocFailsIsFail,
       InstallIsEffect, ValueAllocFailsIsBreak DEF install, KV!KVNext
<1>6. ASSUME NEW t \in Threads, undef(t) PROVE UNCHANGED KV!kvVars
    BY <1>6, SilentActions, PurgeStutters DEF undef
<1>7. ASSUME NEW t \in Threads, Lock(t) \/ Unlock(t) \/ Copy(t) \/ IncrNumber(t)
      PROVE  UNCHANGED KV!kvVars
    BY <1>7, SilentActions
<1>8. ASSUME NEW t \in Threads,
             GetExpired(t) \/ GetAlive(t) \/ IncrNotANumber(t) \/ Return(t)
      PROVE  KV!KVNext
    BY <1>8, CheckIsGet, NotANumberIsIncr, ReturnIsReturn DEF KV!KVNext
<1> QED
    BY <1>1, <1>2, <1>3, <1>4, <1>5, <1>6, <1>7, <1>8 DEF Next, Run

\* Without DEL every operation of db.c takes effect at one instant between its
\* call and its return, on a map from keys to values and expiry times, whatever
\* the number of clients, keys, buckets and entries and whichever allocations fail.
\* Of INCR on an expired key the map says what db_incr does, not what db.h does.
THEOREM StoreImplementsMap == Disciplined /\ IncrAsBuilt => (Spec => Linearizable)
<1> SUFFICES ASSUME Disciplined, IncrAsBuilt PROVE Spec => Linearizable
    OBVIOUS
<1>1. Init => Inv /\ ShapeInv /\ CallsInv
    BY InitInv, ShapeInit, CallsInit
<1>2. Inv /\ ShapeInv /\ CallsInv /\ [Next]_vars => (Inv /\ ShapeInv /\ CallsInv)'
    BY NextInv, ShapeStep, CallsStep
<1>3. Inv /\ ShapeInv /\ CallsInv /\ (Inv /\ ShapeInv /\ CallsInv)' /\ [Next]_vars
        => [KV!KVNext]_(KV!kvVars)
    BY StepImplements
<1> QED
    BY <1>1, <1>2, <1>3, InitIsInit, PTL DEF Spec, Linearizable, KV!KVSpec
=============================================================================
