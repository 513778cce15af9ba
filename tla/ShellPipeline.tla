--------------------------- MODULE ShellPipeline ---------------------------
(***************************************************************************)
(* How ccsh runs a pipeline (14. shell/ccsh.c: handle_cmd, execute_cmd).   *)
(*                                                                         *)
(* The shell makes one pipe per segment, forks one child per segment,      *)
(* closes its own ends and waits.  A child wires its standard input and    *)
(* output, closes every other end and forks once more for the program,     *)
(* which it waits for.  Whether a reader sees end of file and a writer     *)
(* sees a broken pipe depends on who still holds an end, so the model      *)
(* keeps the descriptors of every process.                                 *)
(*                                                                         *)
(* A program is one of a few kinds of reader and writer; what it reads and *)
(* writes is counted, not looked at.                                       *)
(***************************************************************************)
EXTENDS Integers, Sequences, FiniteSets

CONSTANTS
    MaxSegments,  \* length of the longest pipeline
    PipeSize,     \* how much a pipe holds
    Output,       \* how much a program writes by itself
    MayFail       \* fork() may fail

ASSUME PipelineAssumption ==
    /\ MaxSegments \in Nat \ {0} /\ PipeSize \in Nat \ {0} /\ Output \in Nat \ {0}
    /\ MayFail \in BOOLEAN

\* What a segment may run: a program that writes and ends, one that writes for
\* ever, one that copies its input, one that reads a little and ends, one that
\* is not there, and the built-ins of execute_cmd.
Kinds == {"source", "endless", "filter", "head", "missing", "history", "cd"}
Builtins == {"history", "cd"}

Seg == 1 .. MaxSegments

\* The processes: the shell, the child of each segment, and its program.
Shell    == 0
Child(i) == i
Prog(i)  == MaxSegments + i
Procs    == 0 .. 2 * MaxSegments

VARIABLES
    spc,      \* where the shell is in handle_cmd ("line": it is not)
    segments, \* the segments, as the kinds of their programs
    i,        \* the loop counter: children forked, or waited for
    children, \* phase of each child
    prog,     \* phase of each program
    left,     \* what the program of a segment has still to do by itself
    pipefds,  \* the pipe ends each process holds
    pipe,     \* how full each pipe is
    survived  \* auxiliary: segments whose program a CTRL-C did not end

procVars == <<children, prog, left, pipefds, pipe>>
pipeVars == <<spc, segments, survived, i, procVars>>

sc == Len(segments)

\* An end of pipe p: "r" or "w", as a number of pipefds or as stdin/stdout.
End(p, e, std) == [pipe |-> p, end |-> e, std |-> std]

Held(p, e) == \E q \in Procs : \E d \in pipefds[q] : d.pipe = p /\ d.end = e

PipelineInit ==
    /\ spc = "line" /\ segments = <<>> /\ i = 0
    /\ children = [s \in Seg |-> "none"]
    /\ prog = [s \in Seg |-> "none"]
    /\ left = [s \in Seg |-> 0]
    /\ pipefds = [q \in Procs |-> {}]
    /\ pipe = [s \in Seg |-> 0]
    /\ survived = {}

-----------------------------------------------------------------------------
(* handle_cmd in the shell                                                 *)

\* Both ends of a pipe for every segment.
Pipes == [pipe : 1 .. sc, end : {"r", "w"}, std : {FALSE}]

MakePipes ==
    /\ spc = "pipes"
    /\ pipefds' = [pipefds EXCEPT ![Shell] = Pipes]
    /\ spc' = "fork" /\ i' = 0
    /\ UNCHANGED <<segments, survived, children, prog, left, pipe>>

\* The child of the next segment starts with every descriptor of the shell.
ForkChild ==
    /\ spc = "fork" /\ i < sc
    /\ i' = i + 1
    /\ children' = [children EXCEPT ![i + 1] = "setup"]
    /\ pipefds' = [pipefds EXCEPT ![Child(i + 1)] = pipefds[Shell]]
    /\ UNCHANGED <<spc, segments, survived, prog, left, pipe>>

\* fork() returns -1, which the shell takes for a child's pid.
ForkChildFails ==
    /\ MayFail
    /\ spc = "fork" /\ i < sc
    /\ i' = i + 1
    /\ UNCHANGED <<spc, segments, survived, procVars>>

AllForked ==
    /\ spc = "fork" /\ i = sc
    /\ spc' = "close"
    /\ UNCHANGED <<segments, survived, i, procVars>>

CloseEnds ==
    /\ spc = "close"
    /\ pipefds' = [pipefds EXCEPT ![Shell] = {}]
    /\ spc' = "wait" /\ i' = 0
    /\ UNCHANGED <<segments, survived, children, prog, left, pipe>>

\* wait(NULL) takes any child that has ended, and returns at once when there
\* is none left to wait for.
Wait ==
    /\ spc = "wait" /\ i < sc
    /\ \/ \E s \in Seg : /\ children[s] = "exited"
                         /\ children' = [children EXCEPT ![s] = "none"]
       \/ /\ \A s \in Seg : children[s] = "none"
          /\ UNCHANGED children
    /\ i' = i + 1
    /\ UNCHANGED <<spc, segments, survived, prog, left, pipefds, pipe>>

\* handle_cmd returns.  What runs on behind it keeps to its own pipes, which no
\* later command line shares: it is followed no further.
Return ==
    /\ spc' = "line" /\ segments' = <<>> /\ i' = 0 /\ survived' = {}
    /\ prog' = [s \in Seg |-> "none"]
    /\ left' = [s \in Seg |-> 0]
    /\ pipe' = [s \in Seg |-> 0]
    /\ pipefds' = [q \in Procs |-> IF q > MaxSegments THEN {} ELSE pipefds[q]]
    /\ UNCHANGED children

\* One wait() too few.
AllWaitedEarly == spc = "wait" /\ i + 1 >= sc /\ Return

AllWaited == spc = "wait" /\ i = sc /\ Return

handle_cmd ==
    MakePipes \/ ForkChild \/ ForkChildFails \/ AllForked \/ CloseEnds \/ Wait \/ AllWaited

-----------------------------------------------------------------------------
(* ... and in the child of segment s                                       *)

\* The last child that writes to a pipe left on the terminal.
StdioShort(s) == {d \in {End(s - 1, "r", TRUE), End(s, "w", TRUE)} :
                    IF d.end = "r" THEN s > 1 ELSE s < sc - 1}

\* The ends that become stdin and stdout.
Stdio(s) == {d \in {End(s - 1, "r", TRUE), End(s, "w", TRUE)} :
               IF d.end = "r" THEN s > 1 ELSE s < sc}

\* signal(SIGINT, SIG_DFL) and the two dup2.
ChildSetup(s) ==
    /\ children[s] = "setup"
    /\ pipefds' = [pipefds EXCEPT ![Child(s)] = @ \cup Stdio(s)]
    /\ children' = [children EXCEPT ![s] = "close"]
    /\ UNCHANGED <<spc, segments, survived, i, prog, left, pipe>>

\* A child that closes the ends it does not use but for its own input pipe's.
ChildCloseSome(s) ==
    /\ children[s] = "close"
    /\ pipefds' = [pipefds EXCEPT ![Child(s)] = {d \in @ : d.std \/ d.pipe = s - 1}]
    /\ children' = [children EXCEPT ![s] = "exec"]
    /\ UNCHANGED <<spc, segments, survived, i, prog, left, pipe>>

ChildClose(s) ==
    /\ children[s] = "close"
    /\ pipefds' = [pipefds EXCEPT ![Child(s)] = {d \in @ : d.std}]
    /\ children' = [children EXCEPT ![s] = "exec"]
    /\ UNCHANGED <<spc, segments, survived, i, prog, left, pipe>>

\* execute_cmd of a built-in, in the child: history prints, cd says nothing.
ExecBuiltin(s) ==
    /\ children[s] = "exec" /\ segments[s] \in Builtins
    /\ children' = [children EXCEPT ![s] = "builtin"]
    /\ left' = [left EXCEPT ![s] = IF segments[s] = "history" THEN 1 ELSE 0]
    /\ UNCHANGED <<spc, segments, survived, i, prog, pipefds, pipe>>

\* execute_cmd of a program: fork, execvp.  If there is no such program the
\* second child prints an error and exits.
ExecProgram(s) ==
    /\ children[s] = "exec" /\ segments[s] \notin Builtins
    /\ children' = [children EXCEPT ![s] = "wait"]
    /\ prog' = [prog EXCEPT ![s] = IF segments[s] \in {"filter", "head"} THEN "read"
                                   ELSE "write"]
    /\ left' = [left EXCEPT ![s] = IF segments[s] \in {"source", "endless"} THEN Output
                                   ELSE 1]
    /\ pipefds' = [pipefds EXCEPT ![Prog(s)] = pipefds[Child(s)]]
    /\ UNCHANGED <<spc, segments, survived, i, pipe>>

\* A process of segment s ends: its descriptors are closed.
ProgExit(s) ==
    /\ prog' = [prog EXCEPT ![s] = "exited"]
    /\ left' = [left EXCEPT ![s] = 0]
    /\ pipefds' = [pipefds EXCEPT ![Prog(s)] = {}]
    /\ UNCHANGED children

ChildEnds(s) ==
    /\ children' = [children EXCEPT ![s] = "exited"]
    /\ left' = [left EXCEPT ![s] = 0]
    /\ pipefds' = [pipefds EXCEPT ![Child(s)] = {}]
    /\ UNCHANGED prog

\* The second fork() fails: wait(NULL) returns at once and the child exits.
ExecForkFails(s) ==
    /\ MayFail
    /\ children[s] = "exec" /\ segments[s] \notin Builtins
    /\ ChildEnds(s)
    /\ UNCHANGED <<spc, segments, survived, i, pipe>>

ChildReap(s) ==
    /\ children[s] = "wait" /\ prog[s] = "exited"
    /\ ChildEnds(s)
    /\ UNCHANGED <<spc, segments, survived, i, pipe>>

BuiltinDone(s) ==
    /\ children[s] = "builtin" /\ left[s] = 0
    /\ ChildEnds(s)
    /\ UNCHANGED <<spc, segments, survived, i, pipe>>

-----------------------------------------------------------------------------
(* The programs, and what the kernel makes of their reads and writes       *)
(* (external)                                                              *)

Writing(s) == (prog[s] = "write" \/ children[s] = "builtin") /\ left[s] > 0
Exit(s) == IF prog[s] = "write" THEN ProgExit(s) ELSE ChildEnds(s)

\* After one write: the end of a program's output, or back to its input.
Write(s) ==
    /\ Writing(s)
    /\ \/ s = sc /\ UNCHANGED pipe
       \/ /\ s < sc /\ Held(s, "r") /\ pipe[s] < PipeSize
          /\ pipe' = [pipe EXCEPT ![s] = @ + 1]
    /\ left' = [left EXCEPT ![s] = IF segments[s] \in {"endless", "filter"} THEN @ ELSE @ - 1]
    /\ prog' = [prog EXCEPT ![s] = IF segments[s] = "filter" THEN "read" ELSE @]
    /\ UNCHANGED <<spc, segments, survived, i, children, pipefds>>

\* SIGPIPE.
WriteBroken(s) ==
    /\ Writing(s) /\ s < sc /\ ~Held(s, "r")
    /\ Exit(s)
    /\ UNCHANGED <<spc, segments, survived, i, pipe>>

ProgDone(s) ==
    /\ prog[s] = "write" /\ left[s] = 0
    /\ ProgExit(s)
    /\ UNCHANGED <<spc, segments, survived, i, pipe>>

Read(s) ==
    /\ prog[s] = "read" /\ s > 1 /\ pipe[s - 1] > 0
    /\ pipe' = [pipe EXCEPT ![s - 1] = @ - 1]
    /\ prog' = [prog EXCEPT ![s] = "write"]
    /\ UNCHANGED <<spc, segments, survived, i, children, left, pipefds>>

\* End of file: the pipe is empty and nobody can write to it.  The terminal,
\* which the first program reads, is taken to be at its end.
ReadEnd(s) ==
    /\ prog[s] = "read"
    /\ s = 1 \/ (pipe[s - 1] = 0 /\ ~Held(s - 1, "w"))
    /\ ProgExit(s)
    /\ UNCHANGED <<spc, segments, survived, i, pipe>>

\* CTRL-C at the terminal while the pipeline runs.  The shell ignores SIGINT,
\* and so does a child until its signal(SIGINT, SIG_DFL); from then on it dies of
\* it.  So does its program, unless that ignores SIGINT or catches it and goes on.
Hit(s)     == children[s] \in {"close", "exec", "builtin", "wait"}
Running(s) == prog[s] \in {"read", "write"}

Interrupt ==
    /\ spc \in {"fork", "close", "wait"}
    /\ \E s \in Seg : Hit(s)
    /\ \E alive \in SUBSET {s \in Seg : Running(s) /\ segments[s] # "missing"} :
          /\ survived' = survived \cup alive
          /\ prog' = [s \in Seg |-> IF Running(s) /\ s \notin alive THEN "exited" ELSE prog[s]]
          /\ left' = [s \in Seg |-> IF s \in alive THEN left[s] ELSE 0]
          /\ pipefds' = [q \in Procs |->
                            IF \E s \in Seg : (q = Child(s) /\ Hit(s)) \/ (q = Prog(s) /\ s \notin alive)
                            THEN {} ELSE pipefds[q]]
    /\ children' = [s \in Seg |-> IF Hit(s) THEN "exited" ELSE children[s]]
    /\ UNCHANGED <<spc, segments, i, pipe>>

Segment(s) ==
    \/ ChildSetup(s) \/ ChildClose(s) \/ ExecBuiltin(s) \/ ExecProgram(s)
    \/ ExecForkFails(s) \/ ChildReap(s) \/ BuiltinDone(s)
    \/ Write(s) \/ WriteBroken(s) \/ ProgDone(s) \/ Read(s) \/ ReadEnd(s)

-----------------------------------------------------------------------------
(* Properties                                                              *)

\* When handle_cmd returns, every child has been waited for, the shell holds no
\* end of a pipe, and no program still runs but one that a CTRL-C did not end:
\* neither zombies nor descriptors pile up from one command line to the next, and
\* the user does not get his prompt beside a program he has not interrupted.
NothingLeftBehind ==
    [][spc = "wait" /\ spc' = "line" =>
          /\ \A s \in Seg : children[s] = "none" /\ (Running(s) => s \in survived)
          /\ pipefds[Shell] = {}]_pipeVars

\* A program that reads from a pipe is told of its end only once everything
\* that writes to it has ended, the program before it and its child: no program
\* works on half its input because of the order in which the shell forks, wires
\* and closes.  (A program whose own child CTRL-C has ended is left aside.)
EofIsFinal ==
    [][\A s \in Seg \ {1} :
          (/\ prog[s] = "read" /\ prog'[s] = "exited" /\ pipe[s - 1] = 0
           /\ children[s] = "wait" /\ children'[s] = "wait")
          => children[s - 1] \in {"none", "exited"} /\ ~Running(s - 1)]_pipeVars
=============================================================================
