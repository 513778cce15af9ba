# TLA+ specifications of the coding challenges

The repository is a collection of small systems written from scratch in C: a
Redis clone, an HTTP load balancer, a web server, a Unix shell, a Bitcask-style
log store, and text tools (calculator, uniq, diff, grep, cut, wc).  They share no code.  This
directory holds TLA+ models of the ones that have state and control worth
checking, the TLC configurations that check them, and TLAPS proofs of what matters
most about the stores, the servers, the shell and the tools.

`PROJECT.json` is the machine-readable side of this file: for every definition
the source lines it models, for every property the hazard it is aimed at and a
mutated definition that breaks it.

## 1. The systems

### Redis clone (`8. redis server/redis_clone/src`)

* **State.** `db.c`: the chained hash table `hashtab[HASHSIZE]`, entries with
  `key`, `value`, `expires_at_ms`, `next`, all on the C heap; the mutex
  `db_lock`. `server.c`: per connection a descriptor, a thread, a read buffer.
* **Operations.** `db_set`, `db_set_ex`, `db_get`, `db_del`, `db_incr` over the
  helpers `lookup`, `install`, `undef`; `start_server` (accept),
  `per_client` (read, `parse`, `exec_command`, send), the commands PING,
  ECHO, SET with EX/PX/EXAT/PXAT, GET, EXISTS, INCR, DEL.
* **Interaction.** One detached thread per client; all call `db.c` on one table.
  TCP delivers bytes in pieces that do not respect requests.
* **Hard.** Interleavings on shared pointers (one function does not take the
  lock), allocation failures in the middle of an update, expiry between a check
  and a use, requests split over reads, clients that leave or send ahead,
  `SIGPIPE`.
* **Correct means.** No freed memory is used; chains stay well-formed; every
  operation looks atomic on a map; the lock is always given back; one matching
  reply per request, in order; the process never ends; descriptors come back.

### Load balancer (`5. load balancer/theories/lessons/lb.c`)

* **State.** The table of backends with their `healthy` flags, the cursor `rr`,
  one mutex; per connection two descriptors.
* **Operations.** `main` accepts and starts a thread per connection; `handle`
  reads the request, calls `pick_healthy`, dials, forwards, relays;
  `health_loop` calls `check_health` on each backend for ever.
* **Hard.** The flags change under the walk of `pick_healthy`, backends change
  between the pick and the relay, five ways out of `handle`, blocking reads.
* **Correct means.** A healthy backend is found if there is one; dead backends
  leave the rotation and recovered ones return; nobody starves; every client is
  answered or cut off for a reason; descriptors are closed.

### Forking balancer and backends (`lesson5_roundrobin.c`, `backend.c`, `lesson2_fork.c`)

* **State.** The cursor of `next_backend` in the balancer's parent; the listener
  and the connections, each held by any number of processes after a fork.
* **Operations.** Two accept loops of the same shape: accept, (choose,) fork; the
  child closes the listener, serves one connection and exits, the parent closes
  its copy.  The balancer's child dials, forwards and relays.
* **Hard.** A connection ends for its peer only when the last copy is closed; the
  children run in any order; forks fail; a backend's parent or child is killed
  while others hold its listener.
* **Correct means.** Connections are handed out in turn; every client sees the
  end of its connection, and not before its answer.

### Web server (`11. web server/web_server.c`)

* **State.** One connection, the flag `first_line`, the buffers `method`, `path`,
  `version` on the stack (not initialised, so they keep what the last connection
  left).
* **Operations.** accept, read lines up to an empty one or the end, answer.
* **Hard.** A silent client holds up all others; a malformed request line calls
  `exit(1)`; SIGPIPE is not ignored.
* **Correct means.** A client that sent a request line gets its own path back;
  nobody waits but for a client that still has something to say.

### Shell (`14. shell/ccsh.c`, `custom_cmd/cd.c`)

* **State.** The terminal's mode, the line and the draft, the history in memory
  and on file, the working directory; the pipe ends held by every process of a
  pipeline.
* **Operations.** `_fgets` (every key), `history_add`, `history_load`,
  `process_input`, `handle_cmd` (pipes, forks, closes, waits), `execute_cmd`
  (dup2, closes, built-ins, a second fork, exec), `cd`.
* **Hard.** Processes run in any order; end of file and broken pipes depend on
  who still holds an end; CTRL-C at any moment, which programs may survive;
  failing forks; a descriptor lost with every line.
* **Correct means.** The prompt comes back; no reader is told of an end too
  early; nothing is left behind from one line to the next but what CTRL-C did
  not end; the terminal is restored; the draft and the history survive.

### Bitcask (`96. bitcask/db.c`)

* **State.** Numbered log files, the hash table, its text file.
* **Operations.** `bitcask_open`, `bitcask_append`, `bitcask_close`, `ht_set`,
  `db_save`, `db_load`.
* **Hard.** Crashes and short writes inside a record; a save that truncates the
  old file first; a text format with separators and a fixed line buffer.
* **Correct means.** A position once returned stays right; a completed save is
  loaded back whole; a load never invents an entry.

### Stand-alone tools

`7. calculator` (shunting-yard and a stack machine on one global stack),
`10. uniq` (groups of equal lines), `13. diff tool` (longest common
subsequence), `9. grep` (lines that match, or a walk over a directory tree),
`4. cut tool` (fields as the bits of one word).  Sequential programs; what is
hard is the interplay of their loop conditions, limits nobody checks
(descriptors, bits of a word, a line buffer), and, in the calculator, state left
over from an earlier call.

### Not modelled

wc (a script that calls the system's wc), the CRC-32 of Bitcask (arithmetic that
nothing reads back), the lessons that repeat modelled code (`lesson4_proxy.c` is
lesson 5 with one backend, `lesson6_health.c` is `lb.c` with a fixed table,
`round_robin.c` the arithmetic of `next_backend`, `lesson3_http.c` formats one
answer), and the C and Go exercises: each shows one system call or language
feature, two of them a deadlock and a lost update on purpose, so there is nothing
they promise.

## 2. Modules

| Module | Models |
|---|---|
| `KVStore` | abstract: a map from keys to (value, expiry); every operation takes effect in one step between call and return |
| `RedisStore` | `db.c`, one step per access to shared memory; implements `KVStore` |
| `RedisStoreProofs` | TLAPS proofs about `RedisStore`: memory safety, the chains, the refinement of `KVStore` |
| `RedisServer` | `server.c` over `KVStore`, with the network |
| `RedisServerProofs` | TLAPS proofs about `RedisServer` |
| `Resp` | `resp.c`, byte by byte, on the buffer `per_client` hands it |
| `Rotation` | abstract: round robin in which a pick is one step |
| `LoadBalancer` | `lb.c` (and `lesson6_health.c`), with backends and clients as environment; implements `Rotation` |
| `LoadBalancerProofs` | TLAPS proofs about `LoadBalancer` |
| `ShellPipeline` | `handle_cmd`, `execute_cmd`, the processes and pipes of one command line |
| `Shell` | line editor, history, built-ins; extends `ShellPipeline` |
| `ShellProofs` | TLAPS proofs about `Shell` and its pipelines |
| `Bitcask` | the log, the table and its file, with crashes |
| `ForkBalancer` | `lesson5_roundrobin.c` in front of `backend.c`: processes, forks, copies of descriptors; implements `Rotation` |
| `WebServer` | `web_server.c` and its clients |
| `ServersProofs` | TLAPS proofs about the two, alone and as `Programs` starts them |
| `Calculator`, `Uniq`, `DiffTool`, `Grep`, `Cut` | the tools, each as a state machine with one step per token, line, table cell, directory entry or (cut) character |
| `ToolProofs` | TLAPS proofs about `Bitcask` (log and table), `DiffTool`, `Uniq`, `Grep` and `Cut` |
| `CalculatorProofs`, `RespProofs` | TLAPS proofs about the two parsers, with the lemmas of `ToolProofs` on induction and sequences |
| `TextPlaces` | what a program takes from a text, said by the places it takes, and the decimal numbers in a text |
| `LineTools` | one of the tools, `Resp` or `Bitcask`, chosen at the start; they share nothing |
| `Programs` | `ForkBalancer`, `WebServer` or `Shell`, chosen at the start; they share nothing |
| `MC*` | constants for TLC: request sets, hash functions, symmetry |

`RedisServer` extends `KVStore` and not `RedisStore`: the pointers implement the
map (theorem `StoreImplementsMap`; with DEL, for one thread, the run `store_all`),
so the server is checked on the map.  With two threads and DEL the implementation
fails (`store_race`), so what the server runs say of concurrent DELs is what they
would do if `db_del` took the lock.

### RedisStore

`Addr` are the addresses `malloc` may return for an `Entry`; `cell` is the
allocation state of each, `ekey`, `value`, `expires`, `next` its fields.  `pc`
names the C statement a thread is at, `req` the call it executes, `cur`/`prev`
the pointers of the running traversal, `val`/`exp` the arguments of the running
`install`.  `lookup(t)`, `install(t)` and `undef(t)` are the disjunctions of
the steps of those functions and have no state of their own: `after` says to
whom `lookup` returns.  `db_incr` therefore looks the key up twice, as the code
does.  A thread that is about to use freed memory, an unwritten string or NULL
is stopped; `Dangling` and `NullAccess` say so.  Values are integers of a
bounded C `int` (INCR wraps, as the unoptimised build does) and words that
`is_number` rejects.  Any of the allocations of an Entry, its key or its value
may fail.

### KVStore

`call`, `done` and `answer` per thread, and the map `store`.  A failed
allocation of a value is part of the abstract specification (`MayBreak`): the
key then holds no readable value.  `IncrExpires` chooses what INCR takes an expired
key for: a missing one, as `db.h` describes it (run `store_incr`, which the code
violates: finding 4), or one to count on and leave expired, as `db_incr` does.  The
other runs and the theorems take the latter, so that what they say of all else is
said of the code.

### RedisServer

A request travels as two pieces; `read()` returns as many as `Segments` allows.
`ParseWhole` is a read of exactly one request; `ParseTruncated` and `ParseTail`
are what the parser makes of half of one: it uses items it never set, goes on in
an earlier request that the buffer still holds, or `get_identify_type` calls
`exit(1)`.  Which of these a given text leads to is `Resp`'s subject.  A parsed request is a record; the loop of SET over
its options is `BadTurns`/`SetExpiry` over the token sequence, with times modulo
`Word64`; that it may wrap is finding 5.  DEL of several keys is several calls of the
store.  `Down` is the end of the process: `exit(1)`, SIGPIPE or a crash.

### LoadBalancer

`hpc`, `hi`, `hup` are the health thread; `pc`, `tries`, `idx` a worker inside
`handle` and `pick_healthy`; `conn` and `back` its two descriptors.  The walk of
`pick_healthy` is one step per backend, under the mutex.  Backends are up, sick
(answer without 200), down or hung and change at any time, each among its own
`Conditions`; a connection that a backend broke (`back` is `"broken"`) stays broken
when it comes up again.

`Rotation` has the cursor, the flags and the picks, and no lock and no walk: a
pick takes the first healthy backend from the cursor on.  `RotationAtomic` maps
the cursor of `LoadBalancer` to where the walk under way began and a pick to the
moment the walk ends, so it says that the walks and the health checks of all threads
look like steps made one after the other.

### ForkBalancer

A connection is a link, `front(c)` from a client to the balancer or `back(c)` from
the balancer's child to a backend, and the process that serves it is named after
it.  `fds` and `listen` hold, per link and per server, the processes that have a
copy open; `Fork` copies all of the parent's.  `Closed` (no copy left) is what the
peer reads as end of file.  `KillParent` and `KillChild` close what the process
held; `Restart` has to wait until no orphan has the listener.

### WebServer

A client's script is a sequence of kinds of line; it sends them one by one, may
stop for ever, end its side or leave.  `path` holds the client it came from, or
`Junk`; entering the loop body again it may be either, since it is not
initialised.

### Resp

Messages are sequences of characters, cut after any byte and at the latest after the
`ReadMax` (1023) bytes one `read()` takes.  The buffer is the bytes that arrived, a
zero, and what an earlier message left behind it (`Overlay`); bytes never written are
unknown.  `parse`, `ArrayItem` and `ArrayEnd` follow the code's positions, with
`strtol` skipping blanks and stopping where it does.  Numbers are written with all
their digits (`Numeral`).  Items that the loop did not reach end in `"undefined"`:
`exec_command` and `free_resp` would follow unset pointers.

### ShellPipeline and Shell

`pipefds` holds the pipe ends of every process, including the copies fork makes, so
that end of file (`ReadEnd`) and SIGPIPE (`WriteBroken`) are what the kernel
would decide.  Each segment is a child that wires itself and forks once more.
Programs are kinds of readers and writers.  `Interrupt` ends every child that has
called `signal(SIGINT, SIG_DFL)`, and of the programs any that do not ignore or catch
SIGINT: those in `survived` run on, with their pipe ends, although `wait` no longer
counts them.  When `handle_cmd` returns they are followed no further (`Return`): no
later line shares their pipes.

`Shell` adds one action per key class of `_fgets`, and auxiliary variables:
`typed`, the line as the user left it in the draft slot, and `ran`, the lines run in
all sessions.  `opened` counts the descriptors that `history_load` never closes,
against the `limit` of the session; without one left `history_add` writes nothing and
empties the history (`NoDescriptor`), and a pipeline without pipes ends in
`"undefined"` (`RunWithoutPipes`).  `NewSession` starts the shell again on the same
file.  A line has at most `MaxSegments` parts, since `extract_segments` has an array
of fixed size.

### Bitcask

Keys and values are short sequences of characters so that positions and
separators are those of the code.  `AppendWrite` writes any non-empty part of
what is left (short writes); `AppendFails` and `Restart` may come between any two
writes.  `index`, `saving` and `complete` are auxiliary.

### Calculator, Uniq, DiffTool, Grep, Cut

The calculator's value is the tree of the operations that produced it, so
that precedence and associativity cannot cancel out.  Expressions are chosen
token by token; `CalculatorCorrect` compares with a meaning that is given for every
part of the expression, by its first and last place: the operator outside brackets that
is applied last (`LastApplied`, the rightmost of the weakest) is applied to what stands
on its two sides.  The meaning knows neither a stack nor an order of reading.
`eval_postfix` leaves values on the global stack, which `to_postfix` reads as
characters: the model leaves any of `LowBytes` for each, since the low byte of a
double may be any.  `remains` keeps what was there when the expression began, and
`CalculatorCorrect` is about expressions that begin on zero bytes only: after
`(1/3) 1`, whose left-over has the low byte 0x55, `2+3` ends the process.  Text longer
than the bytes asked for and malloc's slack makes the call `"undefined"`.
In `DiffTool` a text of `LEN` lines or more is `"undefined"`: it does not fit `dp`.
`Uniq` is compared with the longest stretches of equal lines of the input, `DiffTool` with a
longest common subsequence found by trying all of them, `Grep` with what stands in
the text at the places of the selected lines (`Hits`, `Covered`, `Extracts`), `Cut`
with what stands in the line at the places of the chosen fields and of the delimiters
between them (`ChosenChars`, `ChosenDelimiters`), where a character's field is the
number of delimiters up to it, plus one.  A line of `Cut` is one of any number, each
read into the state the line before left.  In `Grep` the directory tree is chosen while it is walked, and only
descriptors are counted.

## 3. Runs

| Run | Instance | Checks | Shows |
|---|---|---|---|
| `store_all` | 1 thread, 2 keys in 1 bucket, 2 entries, all commands, all allocations may fail | `MemorySafe ChainsWellFormed Linearizable LockReleased` | every function of `db.c` is right when alone, on colliding keys |
| `store_two` | 2 threads, no DEL, `strdup(key)` may fail | `Inv Linearizable` | the functions that take the lock are linearizable; `Inv` is the invariant of the proof |
| `server` | 2 clients, 2 requests in all, whole reads, patient clients | `RepliesMatch RequestsAnswered` | every command and SET option, interleaved, gets one reply of its kind |
| `server_rough` | 1 client, 3 requests, reads of 1 to 3 pieces, impatient, failing threads | `DescriptorReleased` | whatever the client does, its descriptor comes back or the process has ended |
| `lb` | 3 backends, one up or sick, two up or down, 1 worker | `LockOwned PickCorrect NoDescriptorLeak AnsweredOrBroken RotationAtomic OneUpSuffices HealthConverges NoStarvation ConnectionEnds` | the walk against the health thread is the atomic rotation; all ways out of `handle`; progress of health checks, rotation and connections |
| `programs` | balancer: 2 clients, 2 backends, 1 failed fork or kill; web server: 2 clients with 4 scripts; shell: 4 keys in all sessions, lines of 5, 1 or 8 descriptors, pipelines of up to 3 segments over pipes of size 1 | `AnsweredByTurn OwnPath TerminalRestored DraftKept HistoryComplete ForkRotation ConnectionCloses WebAnswers NothingLeftBehind EofIsFinal PromptReturns` | copies of descriptors are closed at the right time on all paths; round robin across forks; no client of the web server gets another's path or waits without reason; editing, history and pipelines, with CTRL-C and failing forks |
| `tools` | 7 tokens; 5 lines and 3 arguments; texts of 5 lines, of which 4 fit; grep texts of 4 characters, trees of 6 entries; 2 options of cut and lines of 4 characters; arrays of 2 strings of up to 12 characters, one `read()` 40; 2 casks, 2 appends, 2 sets | `CalculatorCorrect UniqCorrect LcsCorrect GrepCorrect CutCorrect RespCorrect ValueAtPos SaveLoadRoundTrip LoadInventsNothing` | each part against its reference definition; Bitcask's positions and saved tables through crashes |
| `store_race` | 2 threads with DEL | `MemorySafe`, violated | finding 1 |
| `server_split` | 1 client, 1 request, reads of 1 or 2 pieces | `ServerUp`, violated | finding 2 |
| `lb_hung` | 2 backends (up, hung), 1 worker | `HungDropped`, violated | finding 3 |
| `store_incr` | 1 thread, 1 key, `IncrExpires` | `Linearizable`, violated | finding 4 |
| `server_expiry` | 1 client, 1 SET with a long time to live | `ExpiryAhead`, violated | finding 5 |

**Bounds, and why they are enough.**  Two keys in one bucket reach every case of
a chain (empty, head, behind the head), and two entries let both exist at once
and force reuse of a freed address.  Two threads are all that the races of one
mutex or of its absence need.  The clock runs from 1 to 2 with an expiry
at 2, so an entry may be alive at its SET and expired at any later step.  `IntMax` of 1
makes INCR overflow.  In the server, `Second` and `Word64` keep the
factor and the modulus apart from the other numbers.  Three backends are the
fewest with which the cursor can pass over a dead one and still have a choice; one
worker meets the health thread only, and the five safety properties of `lb` are
proved for any number of workers.  Three
segments have a middle one, with both an input and an output; a pipe of size 1 with
two writes blocks.  Four keys recall and run any of the saved lines in a first session,
the longest pipeline among them, and end it or begin another line; with a limit of 1
the first line run already finds no descriptor, with 8 a pipeline of three finds its
pipes for one line and not for the next.  Seven tokens hold `(1-1)/1` and two calls of
which the first leaves values on the stack; no property of the parser distinguishes numbers, and
one operator of each precedence is enough for precedence and associativity.
`LowBytes` has the harmless zero, a blank, an operator and a bracket; a slack of 0
and one of 23 (of the 24 bytes malloc gives at least, for a text of no characters) let
a text overflow or fit.  `LEN` of 5 stands for 1001: texts of 4 lines fit, those of 5
do not.
`HeaderSize` of 2 and `ItemSize` of 8 keep the arithmetic of positions and the line
that just fits.  Two backends and two clients make the rotation wrap and let a child
of one connection be forked while another's copies are open; one fault is what each
of the recovery paths is about.  A grep buffer of 4 with texts of 4 has lines that
fit and lines that do not; four descriptors run out within six entries.  The strings
of `MCStrings` hold everything that has a meaning in the text of a message.  `Bits` of 4
lets a field number reach the width of the word, though `CutCorrect` is stated for
fields below it (`FieldsFit`), as `GrepCorrect` is for lines that fit (`LinesFit`).

**Deadlock.**  `CHECK_DEADLOCK FALSE` is set where the bound on requests or
keys, a finished tool, or the end of the process may stop the system for good.

**Fairness.**  Every thread or process that can take a step by itself gets weak
fairness: the kernel schedules it.  Users, clients, keys, backends and the arrival of
a request get none; in `ForkBalancer` a client that has read to the end closes (it
has nothing else to do), and in `WebServer` clients get none at all, which is why
`WebAnswers` names the one that may hold up the others.  In `LoadBalancer` relaying is
fair, so that `ConnectionEnds` is about clients that read on or leave: one that stops
reading blocks `send` (`lb.c:54-65`) and keeps its thread.  In `RedisStore` acquiring
`db_lock` gets no fairness, since pthread mutexes promise no order; `LockReleased` does not need it.  The
progress properties of `LoadBalancer` do assume strong fairness of the mutex: with
an unfair one a waiter may be overtaken for ever.  This is an assumption on the
pthread library, not something `lb.c` ensures.

## 4. Proofs

The proof modules show, for every value of the constants that satisfies the
named assumptions of the models, that an inductive invariant holds, and derive the
properties from it.  Each has one lemma per action, or per group of actions that
change the same part of the state.  The constants that bound the runs (threads,
clients, backends, requests, keys pressed, casks) are arbitrary here.

**RedisStoreProofs.**  Any number of threads, keys, buckets and addresses, any
hash function, any allocation failures; `Disciplined` says that no client issues
DEL, the one command that does not take the lock (with it the theorem is false:
`store_race`).

* `Invariance`: `Inv` is an invariant.  `MemorySafe` alone is not inductive: that
  a traversal's next pointer may be followed depends on every pointer in the heap
  leading to a linked entry, and that freeing the entry just unlinked leaves no
  other pointer to it depends on each entry having one predecessor.  `Inv` has
  the types, `LockOwned`, heads and next pointers lead to linked cells only
  (`HeadsInv`, `NextsInv`), each entry is pointed to once (`OneRefInv`), linked
  entries that nobody is writing have a value (`ValueInv`), and what the running
  call's `cur` and `prev` point at, label by label.
* `MemorySafety`: no thread uses freed or unwritten memory or frees twice.
* `MutualExclusion`: the critical sections of `db_set`, `db_get` and `db_incr`
  exclude each other on all paths.

The steps of other threads are handled by the fact that a thread outside its
critical section holds no pointer that matters.

About the hash table and the map, for the same clients and constants; `RecordAssumption`
adds that NULL is neither a call nor an entry of the map:

* `TableInOrder`: `ChainsWellFormed`.  `Inv` does not exclude a chain that is a cycle
  apart from its head, nor an entry that was lost.  `ShapeInv` says that the chain of
  each bucket is a sequence of all its linked entries, each once (`ChainInv`), that no
  key is stored twice (`KeyInv`), that an entry on no chain is in the hands of a thread
  (`HeldInv`), and how far the running traversal has come (`SearchInv`): `lookup` and
  `undef` have passed over all entries in front of `cur`, none with the key, so that
  at the end the key is absent and `install` may add it.  `Reach` is the least
  set that has the head and is closed under `next`; `ReachIsChain` shows, with an
  entry of least position as counterexample, that it is the sequence.
* `StoreImplementsMap`: `Linearizable`.  `CallsInv` says what the calls are about
  to do to the map: which function each label belongs to, what results are set when,
  that what `install` stores is its argument, and that INCR calls it with one more than
  what the table still has when the old value is freed, although it looks the key up
  twice.  `VisibleFacts` computes `Visible` from `ShapeInv`; then there is one lemma
  per action: it is the step of `KVStore` at which the call takes effect (the
  `...Is...` lemmas), or `KVStore` does not see it.  A step inside a critical section
  changes the map under its own key only (`OtherKeys`), and what the map shows of the
  other threads does not depend on the heap (`OthersMap`).

**RedisServerProofs.**  Any number of clients and of requests, over any store that
`KVStore` allows.  The theorem names what it needs in its ASSUME, `WholeReads`: each
`read()` returns one request (without it it is false, and the server ends:
`server_split`).

* `RepliesInOrder`: `RepliesMatch`, for impatient clients and failing threads too.
  `TurnInv` says for each thread that there is a number n such that the requests
  after the n-th are on the wire, the n-th is what the thread works on, and the
  earlier ones are answered; and of a command in progress that the database call is
  the one it stands for and that DEL has counted no more keys than it is through
  with, without which the count it replies could exceed its number of keys.

**LoadBalancerProofs.**  Any number of backends and workers, any behaviour of
the backends.

* `MutualExclusion`: `LockOwned`.
* `PickHealthyCorrect`: `PickCorrect`.  It is not inductive: that the walk may give
  up after `n_backends` tries needs to know that the `tries` backends just behind
  `rr`, modulo `N`, are all unhealthy, and that no flag changes meanwhile.  `PickInv`
  says the former and `LockOwned` gives the latter.
* `RotationImplemented`: `RotationAtomic`, the refinement of `Rotation`.  The initial
  states map to initial states; the start of a walk, `rr - tries` modulo `N`, stays
  the same as the walk goes on (`StartKept`), so all its steps but the last are
  stutters, and the last is `Rotation`'s pick because the backends passed are
  unhealthy (`PickInv`, `Passed`).  Only the owner of the mutex walks or marks.
* `DescriptorsClosed`: `NoDescriptorLeak`, with the types of the connection.
* `NoSilentEnd`: `AnsweredOrBroken`, an action property, from the same invariant.

**ServersProofs.**  The forking balancer, for any number of backends and clients:

* `BackendsInTurn`: `ForkRotation`, for every fault.  Needs that no connection is
  twice in the backlog of the balancer and that none in it has a backend yet
  (`RotInv`), so that accepting one is one pick.
* `TurnAnswered`: `AnsweredByTurn`.  `ForkInv` adds `Calm`, for as long as nothing
  has failed: the parents run; what waits or has just been accepted has had no child;
  a child holds its own connection until it is done (so a connection without copies
  means the child is through); and the two children of a client keep in step.
* `BalancerStarted`: both, of `FairSpec` of `Programs`, which the run `programs` checks.

The web server, for any clients and scripts; no assumption on the constants:

* `PathIsOwn` and, of `FairSpec` of `Programs`, `WebServerStarted`: `OwnPath`.  `WebInv`
  says that nothing was read from or sent to a client still in the backlog, and that
  while a client is served `path` is its own as soon as its first line was a request.

**ShellProofs.**  Lines, histories and pipelines of any length, any programs, failing
forks.

* `TerminalKept`, `DraftReturns`: `TerminalRestored`, `DraftKept`, from `EditInv`: the
  terminal is raw in the editor only, and the user's line is in the buffer at the
  draft slot and in `draft` away from it.
* `HistoryOnFile`: `HistoryComplete`, over any number of sessions.  `EditInv` says that,
  as long as no line was entered without a descriptor, the file is the saved lines and
  all lines run since, with the line just added and not yet run at its end, and that
  the history in memory is the file.
* `PipelineCleansUp`: `NothingLeftBehind`.  `handle_cmd` waits as often as there are
  segments, whoever ends first, so the invariant counts: the children not yet waited
  for are at most as many as the waits to come (`Waits`).  `PipeInv` also says that
  the shell holds all ends of the pipes or none, that a child that has ended and a
  program that has ended hold nothing, and that a program runs only under a child
  that waits for it, unless it survived a CTRL-C.
* `InputWhole`: `EofIsFinal`, an action property.  It needs `Outlet`: a child that
  has not ended still has the write end of the pipe behind it, first as a copy of
  the shell's and then as its standard output.

**ToolProofs, RespProofs, CalculatorProofs.**  The parts whose promise is about data: what
a table, a list, a text or an expression comes out as.  The theorems are about `DiffSpec`,
`UniqSpec`, `GrepSpec`, `CutSpec`, `CaskSpec`, `RespSpec` and `CalcSpec`; a behaviour of
`LineTools` (run `tools`) in which that part runs is one of them.

The provers cannot instantiate an induction theorem that takes a predicate, so
`Induction` states it for sets: a set of naturals that has 0, and n + 1 with every
n, has them all (from the well-foundedness of `<`).  Each recursive function of the
models (`dp`, `Reading`, `Loading`, `Decimal`, `Numeral`, `ArrayText`, `Meanings`,
`Evaluated`) is first shown to exist, from functions that are right up to n
(`TableExists`, `ReadingExists`, `LoadingExists`, `DecimalExists`, `NumeralsExist`,
`ArrayTextExists`, `MeaningsExist`, `EvaluatedExists`), which gives its equations; what it
computes follows by a second induction.

* `LongestCommon`: `LcsCorrect`, for texts that fit a table of any size (`LEN` in Nat).
  `TableIsLongest`: no two beginnings of the texts have more lines in common,
  in order, than their entry of `dp` says, by induction on the sum of their lengths.
  `WalkInv`: on the way back `idx` is the entry at the place reached, and the items
  behind `idx` are common lines behind that place.  Together: as many items as the last
  entry says, and none left unset.
* `EveryGroupOnce`: `UniqCorrect`, for any lines, any length and any options; assumes
  that no line is the marker for the empty `prev` (`NoLineAssumption`).  `UniqInv`:
  `count` is the length of the last stretch of the input read so far and `prev` its
  line, and what was written lists the stretches before it.  `NextLine` says how one
  more line changes the set of stretches, `ListOneMore` how the list follows.
* `SelectedLinesOnce`: `GrepCorrect`, for a text of any length, any buffer, any tree and
  any number of descriptors (`GrepAssumption`).  `BetweenLines`, while the lines fit the
  buffer: `gpos` is where a line ends, and what was printed is what stands at the
  selected lines that end before it.  `FgetsIs`: a read that starts where a line does
  returns that line; `OneLineMore`: no other line ends in between; `ExtractMore`: the
  output grows by it.  `GrepInv` adds the modes and the walk, where every file opened
  and every directory on the way down holds a descriptor, so that the crash needs
  `locked` or a full table.
* `ChosenFieldsOnly`: `CutCorrect`, for any lists and lines, any number of options and
  any width of the word (`CutAssumption`).  `CutInv`, while the list is read: the bits
  are those of the numbers that have ended (`EndsHere`, `BitSet`) and `cval` is the value
  of the digits since; in a line: `field` counts the delimiters behind, `pfch` says
  whether a character of a chosen field is among them, and what is written is what
  stands at the places to be taken up to here (`NextTaken`, `TakeOne`).
* `ValueStays`: `ValueAtPos`, for any number of casks, any keys and values, any header
  size.  `LogInv` says that the active file ends in what has been written of the record
  and that `value_pos` counts from where that began, so that the value is in place when
  the last byte is; and that every value returned is in its file, which only grows.
* `SavedComesBack` and `NothingInvented`: `SaveLoadRoundTrip` and `LoadInventsNothing`,
  for all keys and values that the format can hold (`TextAssumption`: no separator in a
  key, no end of line anywhere, no line that reaches `ItemSize`).  `ReadItem`: a line
  that `snprintf` wrote is read by `fgets` as one line, whatever was read before;
  `LoadItem`: it sets the entry it was written from.  `TableInv`: the text, at any
  moment of a save, is whole lines and loads as a part of the table to be saved, the
  part that is not `left`; so a completed save is the whole table and one that was
  killed is a part of it.
* `SentIsParsed`: `RespCorrect`, for any messages the protocol allows, with strings of any
  characters and any length, cut after any byte, and any text left in the buffer
  (`RespAssumption`: lines have no end of line inside, counts are true and fit their
  type).  `NumeralValue`, `strtolReads`: the number `strtol` reads in the text of n is n,
  and it stops behind it; `ItemPlaces`: where part k of an array stands in the text;
  `ItemRead`: from that place the loop takes part k and stops where part k + 1 begins.
  `RespInv`: as long as the next part has arrived in full, `at` is its place; the items
  of the parts that have are right; and when the loop has ended none of those is missing.
  That needs no statement about what is read beyond them: a part that has arrived
  in full has all those before it there (`CompleteBefore`).
* `ExpressionValue`: `CalculatorCorrect`, for any numbers and any of the four operators
  (`CalcAssumption`: a number is no other token) and expressions of any length and depth,
  under the conditions that `CalculatorCorrect` names: the text fits what malloc gave
  (else the call is `"undefined"` and has no result), a NUL follows it, and the
  expression begins on zero bytes (`Clean`), whatever left them.
  `AllPartsRight`, by induction on the length of a part: when
  the scan has passed a part that has a meaning and whose operators outside brackets
  have precedence p or more, on a stack whose top stops operators of precedence p, then
  the stack has grown by some operators of precedence p or more, some text was written,
  and the text followed by those operators computes the meaning (`Leaves`).  With the
  left side of an operator for p its precedence and with the right side for p one more,
  these are the operators that `should_pop` pops and keeps; an opening bracket stops all.
  `ComputesNode`: the texts of two sides and their operator compute the node.  `CalcInv`:
  while an expression is scanned that began on zero bytes, there is a sequence of stacks
  and texts, one per token (`History`), that starts from them; then the text of an
  expression with a meaning is followed by such bytes only, which is where
  `eval_postfix` stops reading.

**Only model-checked.**

* What needs fairness, which the prover does not handle: `LockReleased`,
  `RequestsAnswered`, `DescriptorReleased`, `OneUpSuffices`, `HealthConverges`,
  `NoStarvation`, `ConnectionEnds`, `ConnectionCloses`, `WebAnswers`,
  `PromptReturns`.
* `MemorySafe`, `ChainsWellFormed` and `Linearizable` with DEL among the commands:
  the theorems exclude it, since with a second thread they are false (`store_race`);
  `store_all` checks them for one thread.
* Everything the violated runs show.

## 5. Findings

1. `db_del` calls `undef` without `db_lock` (`db.c:148`), although `db.h:7` says
   "All functions are thread-safe." and `db.c:77` asks the caller of `undef` to hold
   the lock.  `store_race`: a GET, SET or second DEL of the same bucket uses an
   entry that a DEL has freed.
2. `per_client` takes one `read()` for one request (`server.c:205`).
   `server_split`: a request that arrives in two reads makes the parser use items
   it never set, or `exit(1)`, which ends the server for every client
   (`server_main.c:3`: "listen on :6379 and serve forever").
3. `check_health` reads without a timeout (`lb.c:76`), while
   `06-health-checks.md:13` says a timeout drops a backend.  `lb_hung`: one backend that
   accepts and never answers stops all health checking and stays in the rotation.

4. `db_incr` does not look at the expiry (`db.c:160`), although `db.h:15` says "Expired
   keys are removed lazily when accessed." and `db.h:67` that INCR treats a key that does
   not exist as 0.  `store_incr`: an expired counter of 1 answers 2 and stays expired.
5. SET with EX or PX rejects only `n <= 0` (`server.c:123`) and adds `n * 1000` or `n` to the
   clock in 64 bits (`server.c:126-129`), although `tests/test_server.c:84-90` has the
   value there within its time to live.  `server_expiry`: with a large `n` the sum wraps into
   the past (`SET name hasan EX 18446744073709551`) or onto 0, and `+OK` is answered.

Other departures from what a reader might expect are modelled as the code
has them and listed as hazards: a NULL value after a failed `strdup`, a request without
the arguments its command reads, the low bytes of values left on the calculator's stack,
its postfix text that outgrows its buffer, the programs a CTRL-C does not end, the last
group of `uniq` going to stdout, the files `grep -r` and the shell's `history_load` never
close, the fields of `cut` beyond the width of a word, the uninitialised path of the web
server.  `cd` without argument, which ends the shell (`strlen` of NULL), is modelled
(`ChangeDirNowhere`) and on no list: it is one step from one key sequence.

## 6. What the models leave out

* **Redis clone.** Numbers too large for `int` or `long` in `Resp` (also those that come
  about where a cut message meets the text of an earlier one: nothing is claimed of what
  is read there); failure of the `DbResult` allocation.  `RedisServer` and `Resp` are
  not composed: the server takes any outcome the parser may have.
  The Entry lost when `strdup(key)` fails is not counted against `Addr`.
* **Load balancer.** Texts of requests and answers; a failing `malloc`.  (After a failing
  `pthread_create` main closes the connection again, which changes nothing here.)
* **Forking balancer.** Partial sends; a backlog that is full; the texts, except
  which backend an answer names.  **Web server.** Request lines longer than its
  buffer; failing socket set-up.
* **Shell.** What happens beyond the fixed sizes of `history`, `extract_segments`
  and `build_args`, and to lines of 1023 characters or more, which `history_load` would
  read back in pieces; what a failing `pipe()` leads to; what a program that survived
  CTRL-C does after the prompt is back; a second shell on the same history file.
* **Bitcask.** The bytes of a header; a save whose `write` fails; lines that do not
  fit `ITEM_SZ` and keys with a colon (`TextAssumption`); two processes at once.
* **Calculator.** Floating-point arithmetic, numbers with a point (and the lone point
  on which `eval_postfix` never ends).  The postfix text is neither terminated nor given
  enough space by the code: the property covers the calls in which it fits all the same
  and a NUL happens to follow it.
* **Diff.** `build_lcs_table` does not compile and is left out; texts that do not fit the table.
* **uniq.** Lines fit the buffer and end in a newline.
* **grep.** What a walk prints; `list_lines_recursively_with_exclude`, which nothing calls.
* **cut.** Lines longer than the buffer; other delimiters than TAB and comma.

## 7. Plan

Done: the store with its abstract specification and proofs, the server and its
parser with proofs about the server, the load balancer with its abstract
specification and proofs, the forking balancer, the web server, the shell and
Bitcask with proofs, the tools with proofs about diff, uniq, grep, cut, the calculator
and the RESP parser.

Next, in this order:

1. State and prove that a single thread may issue DEL too (`store_all` for any number
   of keys and entries): `undef` outside the lock is then the only step there is.
2. Model, if the code grows there: capacity limits of the shell's history and
   segments, saves of Bitcask whose writes fail, a second process on one Bitcask
   directory.
