---------------------------- MODULE ShellProofs ----------------------------
(***************************************************************************)
(* For lines, histories and pipelines of any length: the editor leaves the *)
(* terminal and the user's draft as it should, and a pipeline leaves no    *)
(* process and no descriptor behind, nor ends a program's input too soon.  *)
(***************************************************************************)
EXTENDS Shell, TLAPS, FiniteSetTheorems

Lines == Seq(STRING)

-----------------------------------------------------------------------------
(* The editor                                                              *)

\* As long as there were descriptors, the file has the lines of earlier sessions
\* and those run since, the one about to be run with them, and memory has the file.
Kept ==
    \/ starved
    \/ /\ file = Saved \o (IF pc = "dispatch" THEN Append(ran, buf) ELSE ran)
       /\ history = file

\* While a line is edited the cursor is in the history, and the user's line is
\* in the buffer or, away from the draft slot, in draft.
EditInv ==
    /\ pc \in {"prompt", "edit", "line", "dispatch", "busy", "ended", "undefined"}
    /\ raw \in BOOLEAN /\ (raw <=> pc = "edit")
    /\ buf \in Lines /\ draft \in Lines /\ typed \in Lines
    /\ file \in Seq(Lines) /\ history \in Seq(Lines) /\ ran \in Seq(Lines)
    /\ Kept
    /\ pc = "edit" => /\ hpos \in 0 .. hc
                      /\ hpos = hc => buf = typed
                      /\ hpos < hc => draft = typed

-----------------------------------------------------------------------------
(* The pipeline                                                            *)

Ends == [pipe : Nat, end : {"r", "w"}, std : BOOLEAN]

PipeTypeOK ==
    /\ spc \in {"line", "pipes", "fork", "close", "wait"}
    /\ sc \in 0 .. MaxSegments
    /\ i \in 0 .. sc
    /\ spc \in {"line", "pipes"} => i = 0
    /\ children \in [Seg -> {"none", "setup", "close", "exec", "builtin", "wait", "exited"}]
    /\ prog \in [Seg -> {"none", "read", "write", "exited"}]
    /\ pipefds \in [Procs -> SUBSET Ends]
    /\ survived \in SUBSET Seg

\* The shell has all the ends of the pipes, or none.
ShellEnds ==
    pipefds[Shell] = IF spc \in {"fork", "close"} THEN Pipes ELSE {}

\* Children and programs exist only for segments forked so far; a program runs
\* under a child that waits for it, or has survived a CTRL-C that the child has not.
Phase(s) ==
    /\ \/ children[s] = "none" /\ prog[s] = "none" /\ s \notin survived
       \/ /\ s <= sc /\ spc \in {"fork", "close", "wait"}
          /\ spc = "fork" => s <= i
    /\ prog[s] \in {"read", "write"} => children[s] = "wait" \/ s \in survived
    /\ s \in survived => children[s] \in {"none", "exited"}
    /\ children[s] \in {"setup", "close", "exec", "builtin"} => prog[s] = "none"
    /\ children[s] = "builtin" => segments[s] \in Builtins

\* Who has ended holds nothing.
Dropped(s) ==
    /\ children[s] \in {"none", "exited"} => pipefds[Child(s)] = {}
    /\ prog[s] \in {"none", "exited"} => pipefds[Prog(s)] = {}

\* A child or a program that has not ended can still write to the pipe behind it.
Outlet(s) ==
    s < sc =>
        /\ children[s] = "setup" => End(s, "w", FALSE) \in pipefds[Child(s)]
        /\ children[s] \in {"close", "exec", "builtin", "wait"} =>
              End(s, "w", TRUE) \in pipefds[Child(s)]
        /\ prog[s] \in {"read", "write"} => End(s, "w", TRUE) \in pipefds[Prog(s)]

SegmentInv(s) == Phase(s) /\ Dropped(s) /\ Outlet(s)

\* The children there are to wait for.
Unreaped == {s \in Seg : children[s] # "none"}

\* There are as many waits to come as there can be children.
Waits == spc = "wait" => Cardinality(Unreaped) <= sc - i

PipeInv ==
    /\ PipeTypeOK /\ ShellEnds /\ Waits
    /\ \A s \in Seg : SegmentInv(s)
    /\ spc = "line" \/ pc = "busy"

-----------------------------------------------------------------------------
(* The editor's steps                                                      *)

\* The shell starts with the history file of earlier sessions.
LEMMA EditInit == ShellInit => EditInv
<1> SUFFICES ASSUME ShellInit PROVE EditInv
    OBVIOUS
<1>1. <<>> \in Lines /\ Saved \in Seq(Lines) /\ <<>> \in Seq(Lines)
    BY ShellAssumption DEF Lines
<1>2. Saved \o <<>> = Saved
    BY <1>1
<1>3. Kept
    BY <1>2 DEF ShellInit, ShellStart, Kept
<1> QED
    BY <1>1, <1>3 DEF ShellInit, ShellStart, EditInv, hc

\* The lines of the history are lines, and there is a natural number of them.
LEMMA HistoryFacts ==
    ASSUME EditInv
    PROVE  /\ history \in Seq(Lines) /\ hc \in Nat
           /\ \A n \in 1 .. hc : history[n] \in Lines
  BY DEF EditInv, hc

\* The history is touched by history_add and a new session only.
LEMMA KeptFrame ==
    ASSUME EditInv, UNCHANGED <<storeVars, ran>>, pc # "dispatch", pc' # "dispatch"
    PROVE  /\ Kept'
           /\ file' \in Seq(Lines) /\ history' \in Seq(Lines) /\ ran' \in Seq(Lines)
  BY DEF EditInv, Kept, storeVars

\* A key typed changes the buffer, and with it the user's line in the draft slot.
LEMMA KeyCharEdit ==
    ASSUME EditInv, NEW c \in Words, KeyChar(c)
    PROVE  EditInv'
<1>1. c \in STRING
    BY ShellAssumption
<1>2. Append(buf, c) \in Lines
    BY <1>1 DEF EditInv, Lines
<1>3. Key /\ pc' = "edit"
    BY DEF KeyChar, Key
<1> QED
    BY <1>2, <1>3, KeptFrame DEF KeyChar, Key, Typed, storeVars, EditInv, hc

\* Backspace takes the last character.
LEMMA KeyBackspaceEdit ==
    ASSUME EditInv, KeyBackspace
    PROVE  EditInv'
<1>1. buf # <<>> => Front(buf) \in Lines
    BY DEF EditInv, Lines, Front
<1>2. Key /\ pc' = "edit"
    BY DEF KeyBackspace, Key
<1> QED
    BY <1>1, <1>2, KeptFrame DEF KeyBackspace, Key, Typed, storeVars, EditInv, hc

\* CTRL-C gives up the line and the place in the history.
LEMMA KeyInterruptEdit ==
    ASSUME EditInv, KeyInterrupt
    PROVE  EditInv'
<1>1. <<>> \in Lines
    BY DEF Lines
<1>2. Key /\ pc' = "edit"
    BY DEF KeyInterrupt, Key
<1> QED
    BY <1>1, <1>2, HistoryFacts, KeptFrame
       DEF KeyInterrupt, Key, Typed, storeVars, EditInv, hc

\* UP saves the line when it leaves the draft slot, and only then.
LEMMA KeyUpEdit ==
    ASSUME EditInv, KeyUp
    PROVE  EditInv'
<1>1. /\ pc = "edit" /\ hpos \in 0 .. hc /\ hpos > 0 /\ hpos' = hpos - 1
      /\ draft' = IF hpos = hc THEN buf ELSE draft
      /\ buf' = history[hpos]
      /\ UNCHANGED <<pc, raw, typed, history, storeVars, ran>>
    BY DEF KeyUp, Key, storeVars, EditInv
<1>2. hpos \in 1 .. hc /\ buf' \in Lines /\ hc' = hc /\ hc \in Nat
    BY <1>1, HistoryFacts DEF hc
<1>3. draft' = typed'
    BY <1>1, <1>2 DEF EditInv
<1> QED
    BY <1>1, <1>2, <1>3, KeptFrame DEF EditInv

\* DOWN brings the draft back at the end of the history.
LEMMA KeyDownEdit ==
    ASSUME EditInv, KeyDown
    PROVE  EditInv'
<1>1. /\ pc = "edit" /\ hpos \in 0 .. hc /\ hpos < hc /\ hpos' = hpos + 1
      /\ buf' = IF hpos' = hc THEN draft ELSE history[hpos' + 1]
      /\ UNCHANGED <<pc, raw, draft, typed, history, storeVars, ran>>
    BY DEF KeyDown, Key, storeVars, EditInv
<1>2. hc' = hc /\ hc \in Nat /\ hpos' \in 0 .. hc
    BY <1>1, HistoryFacts DEF hc
<1>3. buf' \in Lines
  <2>1. hpos' # hc => hpos' + 1 \in 1 .. hc
    BY <1>1, <1>2
  <2> QED
    BY <1>1, <2>1, HistoryFacts DEF EditInv
<1> QED
    BY <1>1, <1>2, <1>3, KeptFrame DEF EditInv

\* The line goes to the end of the file, which is loaded again; or, without a
\* descriptor, the shell is starved from then on.
LEMMA HistoryAddEdit ==
    ASSUME EditInv, history_add
    PROVE  EditInv'
<1>1. /\ pc = "line" /\ pc' = "dispatch"
      /\ UNCHANGED <<raw, buf, draft, hpos, typed, ran>>
    BY DEF history_add, editVars
<1>2. CASE AppendAndLoad
  <2>1. /\ file' = Append(file, buf) /\ history' = file' /\ starved' = starved
        /\ file' \in Seq(Lines)
    BY <1>2 DEF AppendAndLoad, EditInv
  <2>2. ASSUME file = Saved \o ran PROVE file' = Saved \o Append(ran, buf)
    <3>1. Saved \in Seq(Lines) /\ ran \in Seq(Lines) /\ buf \in Lines
        BY ShellAssumption DEF EditInv, Lines
    <3>2. Append(Saved \o ran, buf) = Saved \o Append(ran, buf)
        BY <3>1
    <3> QED
        BY <2>1, <2>2, <3>2
  <2>3. Kept'
    BY <1>1, <2>1, <2>2 DEF EditInv, Kept
  <2> QED
    BY <1>1, <2>1, <2>3 DEF EditInv
<1>3. CASE NoDescriptor
  <2>1. history' = <<>> /\ starved' = TRUE /\ file' = file
    BY <1>3 DEF NoDescriptor
  <2>2. Kept'
    BY <2>1 DEF Kept
  <2> QED
    BY <1>1, <2>1, <2>2 DEF EditInv
<1> QED
    BY <1>2, <1>3 DEF history_add

\* The line that history_add has written is run.
LEMMA RunLineEdit ==
    ASSUME EditInv, RunLine, pc' \in {"prompt", "busy", "ended", "undefined"}
    PROVE  EditInv'
<1>1. /\ pc = "dispatch" /\ ran' = Append(ran, buf)
      /\ UNCHANGED <<raw, buf, draft, hpos, typed, history, file, starved>>
    BY DEF RunLine, editVars, storeVars
<1>2. Kept'
    BY <1>1 DEF EditInv, Kept
<1> QED
    BY <1>1, <1>2 DEF EditInv

\* The other steps of the editor and of process_input.
LEMMA LineEdit ==
    ASSUME EditInv,
           \/ KeyEnter \/ KeyEof
           \/ EditLine \/ BlankLine \/ history_add \/ ExitCommand
           \/ ChangeDir \/ ChangeDirNowhere \/ RunPipeline \/ RunWithoutPipes
           \/ PipelineDone \/ NewSession
    PROVE  EditInv'
<1>1. CASE KeyEnter \/ KeyEof
  <2>1. /\ UNCHANGED <<storeVars, ran, buf, draft, hpos, typed>>
        /\ pc = "edit" /\ pc' \in {"line", "ended"} /\ raw' = FALSE
    BY <1>1 DEF KeyEnter, KeyEof, Key
  <2> QED
    BY <2>1, KeptFrame DEF EditInv
<1>2. CASE EditLine
  <2>1. /\ UNCHANGED <<history, file, starved, ran>>
        /\ pc = "prompt" /\ pc' = "edit" /\ raw' = TRUE
        /\ buf' = <<>> /\ draft' = <<>> /\ typed' = <<>> /\ hpos' = hc
    BY <1>2 DEF EditLine, storeVars
  <2>2. <<>> \in Lines /\ hc' = hc /\ hc \in Nat
    BY <2>1, HistoryFacts DEF Lines, hc
  <2>3. Kept'
    BY <2>1 DEF EditInv, Kept
  <2> QED
    BY <2>1, <2>2, <2>3 DEF EditInv
<1>3. CASE BlankLine \/ PipelineDone
  <2>1. /\ UNCHANGED <<storeVars, ran, buf, draft, hpos, typed, raw>>
        /\ pc \in {"line", "busy"} /\ pc' = "prompt"
    BY <1>3 DEF BlankLine, PipelineDone, editVars
  <2> QED
    BY <2>1, KeptFrame DEF EditInv
<1>4. CASE \/ ExitCommand \/ ChangeDir \/ ChangeDirNowhere
           \/ RunPipeline \/ RunWithoutPipes
  <2>1. RunLine /\ pc' \in {"prompt", "busy", "ended", "undefined"}
    BY <1>4, ZenonT(40)
       DEF ExitCommand, ChangeDir, ChangeDirNowhere, RunPipeline, RunWithoutPipes, Command
  <2> QED
    BY <2>1, RunLineEdit
<1>5. CASE NewSession
  <2>1. /\ UNCHANGED <<file, starved, ran, raw, buf, draft, hpos, typed>>
        /\ pc = "ended" /\ pc' = "prompt" /\ history' = file
    BY <1>5 DEF NewSession, editVars
  <2>2. Kept'
    BY <2>1 DEF EditInv, Kept
  <2> QED
    BY <2>1, <2>2 DEF EditInv
<1> QED
    BY <1>1, <1>2, <1>3, <1>4, <1>5, HistoryAddEdit

\* Every step of the shell preserves the editor's invariant.
LEMMA EditStep ==
    ASSUME EditInv, [ShellNext]_shellVars
    PROVE  EditInv'
<1>1. ASSUME UNCHANGED <<pc, editVars, storeVars, ran>> PROVE EditInv'
    BY <1>1 DEF editVars, storeVars, EditInv, Kept, hc
<1>2. CASE UNCHANGED shellVars
    BY <1>1, <1>2 DEF shellVars
<1>3. CASE PressKey
    BY <1>3, LineEdit, KeyCharEdit, KeyBackspaceEdit, KeyInterruptEdit, KeyUpEdit,
       KeyDownEdit DEF PressKey
<1>4. CASE process_input \/ NewSession
    BY <1>4, LineEdit DEF process_input
<1>5. CASE InPipeline(handle_cmd) \/ InPipeline(Interrupt)
    BY <1>1, <1>5 DEF InPipeline
<1>6. ASSUME NEW s \in Seg, InPipeline(Segment(s)) PROVE EditInv'
    BY <1>1, <1>6 DEF InPipeline
<1> QED
    BY <1>2, <1>3, <1>4, <1>5, <1>6 DEF ShellNext

\* The editor's invariant holds in every state.
LEMMA EditInvariance == ShellSpec => []EditInv
<1>1. EditInv /\ [ShellNext]_shellVars => EditInv'
    BY EditStep
<1> QED
    BY <1>1, EditInit, PTL DEF ShellSpec

\* On every way out of the editor (Enter, end of input, a full buffer) the
\* terminal is restored, and nothing else makes it raw.
THEOREM TerminalKept == ShellSpec => []TerminalRestored
<1>1. EditInv => TerminalRestored
    BY DEF EditInv, TerminalRestored
<1> QED
    BY <1>1, EditInvariance, PTL

\* However long the walk through a history of any length, the draft slot gives
\* back the line that the user left there.
THEOREM DraftReturns == ShellSpec => []DraftKept
<1>1. EditInv => DraftKept
    BY DEF EditInv, DraftKept
<1> QED
    BY <1>1, EditInvariance, PTL

\* After any number of sessions, each ended in its own way, every line run is in
\* the history, in order, as long as no line was entered without a descriptor.
THEOREM HistoryOnFile == ShellSpec => []HistoryComplete
<1>1. EditInv => HistoryComplete
    BY DEF EditInv, Kept, HistoryComplete
<1> QED
    BY <1>1, EditInvariance, PTL

-----------------------------------------------------------------------------
(* The pipeline's steps                                                    *)

\* The processes are different ones.
LEMMA ProcFacts ==
    /\ Shell \in Procs
    /\ \A s \in Seg : /\ s \in Nat \ {0} /\ s <= MaxSegments
                      /\ Child(s) \in Procs /\ Prog(s) \in Procs
                      /\ Child(s) # Shell /\ Prog(s) # Shell
    /\ \A s, t \in Seg : /\ Child(s) # Prog(t)
                         /\ Child(s) = Child(t) => s = t
                         /\ Prog(s) = Prog(t) => s = t
    /\ \A q \in Procs : q = Shell \/ \E s \in Seg : q = Child(s) \/ q = Prog(s)
<1>1. MaxSegments \in Nat \ {0}
    BY PipelineAssumption
<1>2. ASSUME NEW q \in Procs PROVE q = Shell \/ \E s \in Seg : q = Child(s) \/ q = Prog(s)
  <2>1. CASE q > MaxSegments
    <3>1. q - MaxSegments \in Seg /\ q = MaxSegments + (q - MaxSegments)
        BY <1>1, <1>2, <2>1 DEF Procs, Seg
    <3> QED
        BY <3>1 DEF Prog
  <2>2. CASE q <= MaxSegments
    BY <1>1, <1>2, <2>2 DEF Procs, Shell, Child, Seg
  <2> QED
    BY <1>1, <2>1, <2>2 DEF Procs
<1> QED
    BY <1>1, <1>2 DEF Procs, Seg, Shell, Child, Prog

\* Ends of pipes are ends of pipes.
LEMMA EndFacts ==
    /\ \A p \in Nat, e \in {"r", "w"}, b \in BOOLEAN :
          /\ End(p, e, b) \in Ends
          /\ End(p, e, b).pipe = p /\ End(p, e, b).end = e /\ End(p, e, b).std = b
  BY DEF End, Ends

\* The pipes of a command line are as many as its segments.
LEMMA PipesFacts ==
    /\ UNCHANGED sc => UNCHANGED Pipes
    /\ sc \in Nat => Pipes \in SUBSET Ends
<1>1. UNCHANGED sc => UNCHANGED Pipes
    BY DEF Pipes
<1>2. ASSUME sc \in Nat, NEW d \in Pipes PROVE d \in Ends
  <2>1. /\ d = [pipe |-> d.pipe, end |-> d.end, std |-> d.std]
        /\ d.pipe \in 1 .. sc /\ d.end \in {"r", "w"} /\ d.std \in {FALSE}
    BY <1>2 DEF Pipes
  <2>2. d.pipe \in Nat
    BY <1>2, <2>1
  <2>3. d.std \in BOOLEAN
    BY <2>1, Zenon
  <2> QED
    BY <2>1, <2>2, <2>3 DEF Ends
<1> QED
    BY <1>1, <1>2

\* Nothing runs at first.
LEMMA PipeInit == ShellInit => PipeInv
<1> SUFFICES ASSUME ShellInit PROVE PipeInv
    OBVIOUS
<1>1. sc = 0
    BY DEF ShellInit, ShellStart, PipelineInit, sc
<1>2. PipeTypeOK
    BY <1>1, PipelineAssumption DEF ShellInit, ShellStart, PipelineInit, PipeTypeOK
<1>3. ShellEnds /\ Waits
    BY ProcFacts DEF ShellInit, ShellStart, PipelineInit, ShellEnds, Waits
<1>4. ASSUME NEW s \in Seg PROVE SegmentInv(s)
    BY ProcFacts DEF ShellInit, ShellStart, PipelineInit, SegmentInv, Phase, Dropped, Outlet
<1> QED
    BY <1>2, <1>3, <1>4 DEF PipeInv, ShellInit, ShellStart, PipelineInit

\* What a process of segment s does concerns that segment: as long as the child
\* is not reaped, the rest of the invariant stays.
LEMMA SegmentFrame ==
    ASSUME PipeInv, PipeTypeOK', NEW s \in Seg, UNCHANGED <<pc, spc, segments, survived, i>>,
           children[s] = "none" <=> children'[s] = "none",
           \A t \in Seg \ {s} : children'[t] = children[t] /\ prog'[t] = prog[t],
           \A q \in Procs : q \notin {Child(s), Prog(s)} => pipefds'[q] = pipefds[q],
           SegmentInv(s)'
    PROVE  PipeInv'
<1>1. sc' = sc
    BY DEF sc
<1>2. ShellEnds'
    BY <1>1, ProcFacts, PipesFacts DEF PipeInv, ShellEnds
<1>3. Waits'
  <2>1. Unreaped' = Unreaped
    BY DEF Unreaped
  <2> QED
    BY <1>1, <2>1 DEF PipeInv, Waits
<1>4. ASSUME NEW t \in Seg PROVE SegmentInv(t)'
  <2>1. CASE t # s
    <3>1. pipefds'[Child(t)] = pipefds[Child(t)] /\ pipefds'[Prog(t)] = pipefds[Prog(t)]
        BY <2>1, ProcFacts
    <3> QED
        BY <1>1, <2>1, <3>1 DEF PipeInv, SegmentInv, Phase, Dropped, Outlet
  <2> QED
    BY <2>1
<1> QED
    BY <1>2, <1>3, <1>4 DEF PipeInv

\* The first half of a child's life, up to its program or built-in.
LEMMA SetupPipe ==
    ASSUME PipeInv, NEW s \in Seg, UNCHANGED pc,
           ChildSetup(s) \/ ChildClose(s) \/ ExecBuiltin(s) \/ ExecProgram(s)
    PROVE  PipeInv'
<1> USE DEF PipeInv, PipeTypeOK, SegmentInv, Phase, Dropped, Outlet
<1>0. UNCHANGED sc
    BY DEF ChildSetup, ChildClose, ExecBuiltin, ExecProgram, sc
<1>1. CASE ChildSetup(s)
  <2>1. Stdio(s) \in SUBSET Ends /\ (s < sc => End(s, "w", TRUE) \in Stdio(s))
    <3>1. s - 1 \in Nat /\ s \in Nat
        BY ProcFacts
    <3>2. End(s - 1, "r", TRUE) \in Ends /\ End(s, "w", TRUE) \in Ends
        BY <3>1, EndFacts
    <3>3. End(s, "w", TRUE).end = "w"
        BY DEF End
    <3> QED
        BY <3>2, <3>3 DEF Stdio
  <2>2. PipeTypeOK'
    BY <1>0, <1>1, <2>1, ProcFacts DEF ChildSetup
  <2>3. SegmentInv(s)'
    BY <1>0, <1>1, <2>1, ProcFacts DEF ChildSetup
  <2> QED
    BY <1>1, <2>2, <2>3, SegmentFrame DEF ChildSetup
<1>2. CASE ChildClose(s)
  <2>1. PipeTypeOK'
    BY <1>0, <1>2, ProcFacts DEF ChildClose
  <2>2. pipefds'[Child(s)] = {d \in pipefds[Child(s)] : d.std} /\ pipefds'[Prog(s)] = pipefds[Prog(s)]
    BY <1>2, ProcFacts DEF ChildClose
  <2>3. End(s, "w", TRUE).std
    BY DEF End
  <2>4. s < sc => End(s, "w", TRUE) \in pipefds'[Child(s)]
    BY <1>2, <2>2, <2>3 DEF ChildClose
  <2>5. SegmentInv(s)'
    BY <1>0, <1>2, <2>2, <2>4 DEF ChildClose
  <2> QED
    BY <1>2, <2>1, <2>5, SegmentFrame DEF ChildClose
<1>3. CASE ExecBuiltin(s)
  <2>1. PipeTypeOK'
    BY <1>0, <1>3 DEF ExecBuiltin
  <2>2. SegmentInv(s)'
    BY <1>0, <1>3 DEF ExecBuiltin
  <2> QED
    BY <1>3, <2>1, <2>2, SegmentFrame DEF ExecBuiltin
<1>4. CASE ExecProgram(s)
  <2>1. PipeTypeOK'
    BY <1>0, <1>4, ProcFacts DEF ExecProgram
  <2>2. SegmentInv(s)'
    BY <1>0, <1>4, ProcFacts DEF ExecProgram
  <2> QED
    BY <1>4, <2>1, <2>2, SegmentFrame DEF ExecProgram
<1> QED
    BY <1>1, <1>2, <1>3, <1>4

\* A process ends only while its child has not been waited for.
LEMMA ExitPipe ==
    ASSUME PipeInv, NEW s \in Seg, UNCHANGED <<pc, spc, segments, survived, i>>,
           \/ prog[s] \in {"read", "write"} /\ ProgExit(s)
           \/ /\ children[s] # "none" /\ prog[s] \in {"none", "exited"}
              /\ ChildEnds(s)
    PROVE  PipeInv'
<1> USE DEF PipeInv, PipeTypeOK, SegmentInv, Phase, Dropped, Outlet
<1>0. UNCHANGED sc
    BY DEF sc
<1>1. CASE prog[s] \in {"read", "write"} /\ ProgExit(s)
  <2>1. PipeTypeOK'
    BY <1>0, <1>1, ProcFacts DEF ProgExit
  <2>2. SegmentInv(s)'
    BY <1>0, <1>1, ProcFacts DEF ProgExit
  <2> QED
    BY <1>1, <2>1, <2>2, SegmentFrame DEF ProgExit
<1>2. CASE children[s] # "none" /\ prog[s] \in {"none", "exited"} /\ ChildEnds(s)
  <2>1. PipeTypeOK'
    BY <1>0, <1>2, ProcFacts DEF ChildEnds
  <2>2. SegmentInv(s)'
    BY <1>0, <1>2, ProcFacts DEF ChildEnds
  <2> QED
    BY <1>2, <2>1, <2>2, SegmentFrame DEF ChildEnds
<1> QED
    BY <1>1, <1>2

\* Reading and writing keeps every process and every descriptor.
LEMMA DataPipe ==
    ASSUME PipeInv, NEW s \in Seg, UNCHANGED pc, Write(s) \/ Read(s)
    PROVE  PipeInv'
<1>0. UNCHANGED sc
    BY DEF Write, Read, sc
<1>3. ASSUME PipeTypeOK', SegmentInv(s)' PROVE PipeInv'
  <2>1. /\ UNCHANGED <<spc, segments, survived, i, children, pipefds>>
        /\ \A t \in Seg \ {s} : prog'[t] = prog[t]
    BY DEF Write, Read, PipeInv, PipeTypeOK
  <2> QED
    BY <1>3, <2>1, SegmentFrame, SMTT(30)
<1> USE DEF PipeInv, PipeTypeOK, SegmentInv, Phase, Dropped, Outlet
<1>1. CASE Write(s)
  <2>1. PipeTypeOK'
    BY <1>0, <1>1 DEF Write
  <2>2. SegmentInv(s)'
    BY <1>0, <1>1 DEF Write, Writing, Builtins
  <2> QED
    BY <1>3, <2>1, <2>2, Zenon
<1>2. CASE Read(s)
  <2>1. PipeTypeOK'
    BY <1>0, <1>2 DEF Read
  <2>2. SegmentInv(s)'
    BY <1>0, <1>2 DEF Read
  <2> QED
    BY <1>3, <2>1, <2>2, Zenon
<1> QED
    BY <1>1, <1>2

\* Every step of a segment's processes preserves the invariant.
LEMMA SegmentPipe ==
    ASSUME PipeInv, NEW s \in Seg, UNCHANGED pc, Segment(s)
    PROVE  PipeInv'
<1>1. CASE ChildSetup(s) \/ ChildClose(s) \/ ExecBuiltin(s) \/ ExecProgram(s)
    BY <1>1, SetupPipe
<1>2. CASE Write(s) \/ Read(s)
    BY <1>2, DataPipe
<1>3. Phase(s) /\ prog[s] \in {"none", "read", "write", "exited"}
    BY DEF PipeInv, PipeTypeOK, SegmentInv
<1>4. CASE ExecForkFails(s) \/ ChildReap(s) \/ BuiltinDone(s)
    BY <1>3, <1>4, ExitPipe DEF ExecForkFails, ChildReap, BuiltinDone, Phase
<1>5. CASE WriteBroken(s) \/ ProgDone(s) \/ ReadEnd(s)
    BY <1>3, <1>5, ExitPipe DEF WriteBroken, Writing, Exit, ProgDone, ReadEnd, Phase
<1> QED
    BY <1>1, <1>2, <1>4, <1>5 DEF Segment

\* CTRL-C ends children, which are still to be waited for, and of the programs
\* those that do not survive it.
LEMMA InterruptPipe ==
    ASSUME PipeInv, UNCHANGED pc, Interrupt
    PROVE  PipeInv'
<1> USE DEF PipeInv, PipeTypeOK, SegmentInv
<1>0. UNCHANGED sc
    BY DEF Interrupt, sc
<1>1. PICK alive \in SUBSET {s \in Seg : Running(s) /\ segments[s] # "missing"} :
          /\ survived' = survived \cup alive
          /\ prog' = [s \in Seg |-> IF Running(s) /\ s \notin alive THEN "exited" ELSE prog[s]]
          /\ pipefds' = [q \in Procs |->
                            IF \E s \in Seg : (q = Child(s) /\ Hit(s)) \/ (q = Prog(s) /\ s \notin alive)
                            THEN {} ELSE pipefds[q]]
    BY DEF Interrupt
<1>2. /\ children' = [s \in Seg |-> IF Hit(s) THEN "exited" ELSE children[s]]
      /\ spc \in {"fork", "close", "wait"} /\ UNCHANGED <<spc, segments, i>>
    BY DEF Interrupt
<1>3. alive \subseteq Seg /\ \A s \in alive : Running(s)
    BY <1>1
<1>4. PipeTypeOK'
    BY <1>0, <1>1, <1>2, <1>3
<1>5. ShellEnds'
  <2>1. pipefds'[Shell] = pipefds[Shell]
    BY <1>1, ProcFacts
  <2> QED
    BY <1>0, <1>2, <2>1, PipesFacts DEF ShellEnds
<1>6. Waits'
  <2>1. Unreaped' = Unreaped
    BY <1>2 DEF Unreaped, Hit
  <2> QED
    BY <1>0, <1>2, <2>1 DEF Waits
<1>7. ASSUME NEW s \in Seg PROVE SegmentInv(s)'
  <2>1. /\ children'[s] = IF Hit(s) THEN "exited" ELSE children[s]
        /\ prog'[s] = IF Running(s) /\ s \notin alive THEN "exited" ELSE prog[s]
    BY <1>1, <1>2
  <2>2. /\ pipefds'[Child(s)] = IF Hit(s) THEN {} ELSE pipefds[Child(s)]
        /\ pipefds'[Prog(s)] = IF s \notin alive THEN {} ELSE pipefds[Prog(s)]
    BY <1>1, ProcFacts
  <2>3. Phase(s)'
    BY <1>0, <1>1, <1>2, <1>3, <2>1 DEF Phase, Hit, Running
  <2>4. Dropped(s)'
    BY <2>1, <2>2, <1>3 DEF Dropped, Hit, Running
  <2>5. Outlet(s)'
    BY <1>0, <2>1, <2>2, <1>3 DEF Outlet, Hit, Running
  <2> QED
    BY <2>3, <2>4, <2>5
<1> QED
    BY <1>2, <1>4, <1>5, <1>6, <1>7

-----------------------------------------------------------------------------
(* handle_cmd                                                              *)

\* Making the pipes: there is no child yet.
LEMMA MakePipesPipe ==
    ASSUME PipeInv, UNCHANGED pc, MakePipes
    PROVE  PipeInv'
<1>0. UNCHANGED sc /\ sc \in Nat
    BY DEF MakePipes, sc, PipeInv, PipeTypeOK
<1>1. Pipes \in SUBSET Ends /\ Pipes' = Pipes
    BY <1>0, PipesFacts
<1>2. PipeTypeOK'
    BY <1>0, <1>1, ProcFacts DEF MakePipes, PipeInv, PipeTypeOK
<1>3. ShellEnds'
    BY <1>1, ProcFacts DEF MakePipes, PipeInv, PipeTypeOK, ShellEnds
<1>4. ASSUME NEW s \in Seg PROVE SegmentInv(s)'
    BY <1>0, ProcFacts DEF MakePipes, PipeInv, PipeTypeOK, SegmentInv, Phase, Dropped, Outlet
<1> QED
    BY <1>2, <1>3, <1>4 DEF MakePipes, PipeInv, Waits

\* The child of the next segment has every end the shell has.
LEMMA ForkChildPipe ==
    ASSUME PipeInv, UNCHANGED pc, ForkChild
    PROVE  PipeInv'
<1>0. UNCHANGED sc /\ sc \in 0 .. MaxSegments /\ i \in 0 .. sc /\ i < sc
    BY DEF ForkChild, sc, PipeInv, PipeTypeOK
<1>1. PICK s \in Seg : s = i + 1 /\ s \in 1 .. sc
    BY <1>0, PipelineAssumption DEF Seg
<1>2. /\ spc = "fork" /\ UNCHANGED <<spc, segments, survived, prog>>
      /\ i' = i + 1
      /\ children' = [children EXCEPT ![s] = "setup"] /\ pipefds' = [pipefds EXCEPT ![Child(s)] = pipefds[Shell]]
    BY <1>1 DEF ForkChild
<1>3. PipeTypeOK'
    BY <1>0, <1>2, ProcFacts DEF PipeInv, PipeTypeOK
<1>4. ShellEnds'
    BY <1>0, <1>2, ProcFacts, PipesFacts DEF PipeInv, PipeTypeOK, ShellEnds
<1>5. ASSUME NEW t \in Seg PROVE SegmentInv(t)'
  <2>1. CASE t = s
    <3>1. pipefds'[Child(s)] = pipefds[Shell] /\ pipefds'[Prog(s)] = pipefds[Prog(s)]
        BY <1>2, ProcFacts DEF PipeInv, PipeTypeOK
    <3>2. End(s, "w", FALSE) \in pipefds[Shell]
        BY <1>1, <1>2 DEF PipeInv, ShellEnds, Pipes, End
    <3>3. children[s] = "none" /\ prog[s] = "none" /\ s \notin survived
        BY <1>0, <1>1, <1>2 DEF PipeInv, PipeTypeOK, SegmentInv, Phase
    <3>4. children'[s] = "setup" /\ prog'[s] = "none" /\ pipefds[Prog(s)] = {}
        BY <1>2, <3>3 DEF PipeInv, PipeTypeOK, SegmentInv, Phase, Dropped
    <3>5. Phase(s)'
        BY <1>0, <1>1, <1>2, <3>3, <3>4 DEF Phase
    <3>6. Dropped(s)'
        BY <3>1, <3>4 DEF Dropped
    <3>7. Outlet(s)'
        BY <3>1, <3>2, <3>4 DEF Outlet
    <3> QED
        BY <2>1, <3>5, <3>6, <3>7 DEF SegmentInv
  <2>2. CASE t # s
    <3>1. pipefds'[Child(t)] = pipefds[Child(t)] /\ pipefds'[Prog(t)] = pipefds[Prog(t)]
        BY <1>2, <2>2, ProcFacts DEF PipeInv, PipeTypeOK
    <3>2. children'[t] = children[t] /\ prog'[t] = prog[t] /\ t \in Nat
        BY <1>2, <2>2, ProcFacts DEF PipeInv, PipeTypeOK
    <3>3. Phase(t)'
        BY <1>0, <1>2, <3>2 DEF PipeInv, SegmentInv, Phase
    <3>4. Dropped(t)' /\ Outlet(t)'
        BY <1>0, <3>1, <3>2 DEF PipeInv, SegmentInv, Dropped, Outlet
    <3> QED
        BY <3>3, <3>4 DEF SegmentInv
  <2> QED
    BY <2>1, <2>2
<1> QED
    BY <1>2, <1>3, <1>4, <1>5 DEF PipeInv, Waits

\* A failed fork and the end of the loop change the counter or the place.
LEMMA ForkOtherPipe ==
    ASSUME PipeInv, UNCHANGED pc, ForkChildFails \/ AllForked
    PROVE  PipeInv'
<1>0. UNCHANGED sc /\ sc \in 0 .. MaxSegments /\ i \in 0 .. sc
    BY DEF ForkChildFails, AllForked, sc, PipeInv, PipeTypeOK
<1>1. /\ spc = "fork" /\ spc' \in {"fork", "close"} /\ i' \in {i, i + 1} /\ i' \in 0 .. sc
      /\ UNCHANGED <<segments, survived, children, prog, pipefds>>
    BY <1>0 DEF ForkChildFails, AllForked, procVars
<1>2. PipeTypeOK' /\ ShellEnds' /\ Waits'
    BY <1>0, <1>1, PipesFacts DEF PipeInv, PipeTypeOK, ShellEnds, Waits
<1>3. ASSUME NEW s \in Seg PROVE SegmentInv(s)'
  <2>1. s \in Nat
    BY ProcFacts
  <2>2. Phase(s)'
    BY <1>0, <1>1, <2>1 DEF PipeInv, SegmentInv, Phase
  <2>3. Dropped(s)' /\ Outlet(s)'
    BY <1>0, <1>1 DEF PipeInv, SegmentInv, Dropped, Outlet
  <2> QED
    BY <2>2, <2>3 DEF SegmentInv
<1> QED
    BY <1>1, <1>2, <1>3 DEF PipeInv

\* The shell closes all its ends; the children to wait for are among the first
\* sc.
LEMMA CloseEndsPipe ==
    ASSUME PipeInv, UNCHANGED pc, CloseEnds
    PROVE  PipeInv'
<1>0. UNCHANGED sc /\ sc \in 0 .. MaxSegments
    BY DEF CloseEnds, sc, PipeInv, PipeTypeOK
<1>1. /\ spc = "close" /\ spc' = "wait" /\ i' = 0 /\ pipefds' = [pipefds EXCEPT ![Shell] = {}]
      /\ UNCHANGED <<segments, survived, children, prog>>
    BY DEF CloseEnds
<1>2. PipeTypeOK' /\ ShellEnds'
    BY <1>0, <1>1, ProcFacts DEF PipeInv, PipeTypeOK, ShellEnds
<1>3. Waits'
  <2>1. Unreaped \subseteq 1 .. sc
    BY <1>1, ProcFacts DEF Unreaped, PipeInv, SegmentInv, Phase
  <2>2. IsFiniteSet(1 .. sc) /\ Cardinality(1 .. sc) = sc
    BY <1>0, FS_Interval
  <2>3. Cardinality(Unreaped) <= sc
    BY <2>1, <2>2, FS_Subset
  <2>4. Unreaped' = Unreaped
    BY <1>1 DEF Unreaped
  <2> QED
    BY <1>0, <1>1, <2>3, <2>4 DEF Waits
<1>4. ASSUME NEW s \in Seg PROVE SegmentInv(s)'
    BY <1>0, <1>1, ProcFacts DEF PipeInv, PipeTypeOK, SegmentInv, Phase, Dropped, Outlet
<1> QED
    BY <1>1, <1>2, <1>3, <1>4 DEF PipeInv

\* The set of children is finite.
LEMMA UnreapedFinite == IsFiniteSet(Unreaped) /\ Cardinality(Unreaped) \in Nat
<1>1. IsFiniteSet(Seg)
    BY PipelineAssumption, FS_Interval DEF Seg
<1>2. Unreaped \subseteq Seg
    BY DEF Unreaped
<1> QED
    BY <1>1, <1>2, FS_Subset, FS_CardinalityType

\* wait() takes one child, or there is none left.
LEMMA WaitPipe ==
    ASSUME PipeInv, UNCHANGED pc, Wait
    PROVE  PipeInv'
<1>0. UNCHANGED sc /\ sc \in 0 .. MaxSegments /\ i \in 0 .. sc /\ i < sc
    BY DEF Wait, sc, PipeInv, PipeTypeOK
<1>1. spc = "wait" /\ i' = i + 1 /\ UNCHANGED <<spc, segments, survived, prog, pipefds>>
    BY DEF Wait
<1>2. Cardinality(Unreaped) <= sc - i
    BY <1>1 DEF PipeInv, Waits
<1>3. ASSUME NEW s \in Seg, children[s] = "exited",
             children' = [children EXCEPT ![s] = "none"]
      PROVE  PipeInv'
  <2>1. PipeTypeOK' /\ ShellEnds'
    BY <1>0, <1>1, <1>3 DEF PipeInv, PipeTypeOK, ShellEnds
  <2>2. Unreaped' = Unreaped \ {s} /\ s \in Unreaped
    BY <1>3 DEF Unreaped, PipeInv, PipeTypeOK
  <2>3. Cardinality(Unreaped') = Cardinality(Unreaped) - 1
    BY <2>2, UnreapedFinite, FS_RemoveElement
  <2>4. Waits'
    BY <1>0, <1>1, <1>2, <2>3, UnreapedFinite DEF Waits
  <2>5. ASSUME NEW t \in Seg PROVE SegmentInv(t)'
    BY <1>0, <1>1, <1>3 DEF PipeInv, PipeTypeOK, SegmentInv, Phase, Dropped, Outlet
  <2> QED
    BY <1>1, <2>1, <2>4, <2>5 DEF PipeInv
<1>4. ASSUME \A s \in Seg : children[s] = "none", UNCHANGED children
      PROVE  PipeInv'
  <2>1. PipeTypeOK' /\ ShellEnds'
    BY <1>0, <1>1, <1>4 DEF PipeInv, PipeTypeOK, ShellEnds
  <2>2. Unreaped' = {}
    BY <1>4 DEF Unreaped
  <2>3. Waits'
    BY <1>0, <1>1, <2>2, FS_EmptySet DEF Waits
  <2>4. ASSUME NEW t \in Seg PROVE SegmentInv(t)'
    BY <1>0, <1>1, <1>4 DEF PipeInv, SegmentInv, Phase, Dropped, Outlet
  <2> QED
    BY <1>1, <2>1, <2>3, <2>4 DEF PipeInv
<1> QED
    BY <1>3, <1>4 DEF Wait

\* After sc waits there is no child left, whichever forks failed.
LEMMA NoChildLeft ==
    ASSUME PipeInv, AllWaited
    PROVE  \A s \in Seg : children[s] = "none"
<1>1. sc \in Nat /\ spc = "wait" /\ i = sc
    BY DEF AllWaited, PipeInv, PipeTypeOK
<1>2. Cardinality(Unreaped) <= 0
    BY <1>1 DEF PipeInv, Waits
<1>3. Cardinality(Unreaped) = 0
    BY <1>2, UnreapedFinite
<1> QED
    BY <1>3, UnreapedFinite, FS_EmptySet DEF Unreaped

LEMMA AllWaitedPipe ==
    ASSUME PipeInv, UNCHANGED pc, AllWaited
    PROVE  PipeInv'
<1>1. /\ sc' = 0 /\ spc' = "line" /\ i' = 0 /\ survived' = {}
      /\ UNCHANGED children /\ prog' = [s \in Seg |-> "none"]
      /\ pipefds' = [q \in Procs |-> IF q > MaxSegments THEN {} ELSE pipefds[q]]
    BY DEF AllWaited, Return, sc
<1>2. spc = "wait" /\ \A s \in Seg : children[s] = "none"
    BY NoChildLeft DEF AllWaited
<1>3. PipeTypeOK'
    BY <1>1, PipelineAssumption DEF PipeInv, PipeTypeOK
<1>4. ShellEnds'
  <2>1. pipefds[Shell] = {} /\ ~(Shell > MaxSegments)
    BY <1>2, PipelineAssumption DEF PipeInv, ShellEnds, Shell
  <2> QED
    BY <1>1, <2>1, ProcFacts DEF ShellEnds
<1>5. ASSUME NEW s \in Seg PROVE SegmentInv(s)'
  <2>1. Prog(s) > MaxSegments /\ ~(Child(s) > MaxSegments)
    BY PipelineAssumption DEF Seg, Prog, Child
  <2>2. pipefds'[Prog(s)] = {} /\ pipefds'[Child(s)] = {}
    BY <1>1, <1>2, <2>1, ProcFacts DEF PipeInv, SegmentInv, Dropped
  <2> QED
    BY <1>1, <1>2, <2>2 DEF SegmentInv, Phase, Dropped, Outlet
<1> QED
    BY <1>1, <1>3, <1>4, <1>5 DEF PipeInv, Waits

\* Steps of the editor and of process_input leave the pipeline alone ...
LEMMA PipeKept ==
    ASSUME PipeInv, UNCHANGED pipeVars, spc = "line" \/ pc' = "busy"
    PROVE  PipeInv'
<1>1. UNCHANGED <<spc, segments, survived, i, children, prog, pipefds>> /\ sc' = sc
    BY DEF pipeVars, procVars, sc
<1>2. PipeTypeOK' /\ ShellEnds'
    BY <1>1, PipesFacts DEF PipeInv, PipeTypeOK, ShellEnds
<1>3. Waits'
    BY <1>1 DEF PipeInv, Waits, Unreaped
<1>4. ASSUME NEW s \in Seg PROVE SegmentInv(s)'
    BY <1>1 DEF PipeInv, SegmentInv, Phase, Dropped, Outlet
<1> QED
    BY <1>1, <1>2, <1>3, <1>4 DEF PipeInv

\* ... but for the one that starts it.
LEMMA InputPipe ==
    ASSUME PipeInv, PressKey \/ process_input \/ NewSession
    PROVE  PipeInv'
<1>1. CASE RunPipeline
  <2>1. pc = "dispatch" /\ spc = "line"
    BY <1>1 DEF RunPipeline, Command, RunLine, PipeInv
  <2>2. /\ spc' = "pipes" /\ pc' = "busy" /\ sc' \in 0 .. MaxSegments
        /\ UNCHANGED <<survived, i, children, prog, pipefds>> /\ i = 0
    BY <1>1, <2>1 DEF RunPipeline, procVars, sc, PipeInv, PipeTypeOK
  <2>3. PipeTypeOK' /\ ShellEnds' /\ Waits'
    BY <2>1, <2>2 DEF PipeInv, PipeTypeOK, ShellEnds, Waits
  <2>4. ASSUME NEW s \in Seg PROVE SegmentInv(s)'
    BY <2>1, <2>2 DEF PipeInv, PipeTypeOK, SegmentInv, Phase, Dropped, Outlet
  <2> QED
    BY <2>2, <2>3, <2>4 DEF PipeInv
<1>2. CASE PressKey
    BY <1>2, PipeKept DEF PipeInv, PressKey, KeyEnter, KeyBackspace, KeyInterrupt, KeyUp,
                      KeyDown, KeyEof, KeyChar, Key
<1>3. CASE EditLine \/ BlankLine \/ history_add
    BY <1>3, PipeKept DEF PipeInv, EditLine, BlankLine, history_add
<1>4. CASE ExitCommand \/ ChangeDir \/ ChangeDirNowhere \/ RunWithoutPipes
    BY <1>4, PipeKept DEF PipeInv, ExitCommand, ChangeDir, ChangeDirNowhere, RunWithoutPipes,
                      Command, RunLine
<1>5. CASE PipelineDone \/ NewSession
    BY <1>5, PipeKept DEF PipeInv, PipelineDone, NewSession
<1> QED
    BY <1>1, <1>2, <1>3, <1>4, <1>5 DEF process_input

\* Every step of the shell and of its processes preserves the invariant.
LEMMA PipeStep ==
    ASSUME PipeInv, [ShellNext]_shellVars
    PROVE  PipeInv'
<1>1. CASE UNCHANGED shellVars
  <2>1. UNCHANGED <<pc, pipeVars>>
    BY <1>1 DEF shellVars
  <2> QED
    BY <2>1, PipeKept DEF PipeInv
<1>2. CASE InPipeline(handle_cmd)
    BY <1>2, MakePipesPipe, ForkChildPipe, ForkOtherPipe, CloseEndsPipe, WaitPipe,
       AllWaitedPipe DEF InPipeline, handle_cmd
<1>3. ASSUME NEW s \in Seg, InPipeline(Segment(s)) PROVE PipeInv'
    BY <1>3, SegmentPipe DEF InPipeline
<1>4. CASE InPipeline(Interrupt)
    BY <1>4, InterruptPipe DEF InPipeline
<1> QED
    BY <1>1, <1>2, <1>3, <1>4, InputPipe DEF ShellNext

\* The pipeline's invariant holds in every state.
LEMMA PipeInvariance == ShellSpec => []PipeInv
<1>1. PipeInv /\ [ShellNext]_shellVars => PipeInv'
    BY PipeStep
<1> QED
    BY <1>1, PipeInit, PTL DEF ShellSpec

\* Only AllWaited brings the shell from its waits back to the line.
LEMMA ReturnStep ==
    ASSUME PipeInv, [ShellNext]_shellVars, spc = "wait", spc' = "line"
    PROVE  AllWaited
<1>1. CASE PressKey \/ process_input \/ NewSession
    BY <1>1 DEF PipeInv, PressKey, KeyEnter, KeyBackspace, KeyInterrupt, KeyUp, KeyDown,
        KeyEof, KeyChar, Key, process_input, EditLine, BlankLine, history_add, RunLine,
        ExitCommand, ChangeDir, ChangeDirNowhere, RunPipeline, RunWithoutPipes, Command,
        PipelineDone, NewSession, pipeVars
<1>2. CASE InPipeline(handle_cmd)
    BY <1>2 DEF InPipeline, handle_cmd, MakePipes, ForkChild, ForkChildFails, AllForked,
        CloseEnds, Wait
<1>3. CASE InPipeline(Interrupt)
    BY <1>3 DEF InPipeline, Interrupt
<1>4. ASSUME NEW t \in Seg, InPipeline(Segment(t)) PROVE UNCHANGED spc
    BY <1>4 DEF InPipeline, Segment, ChildSetup, ChildClose, ExecBuiltin, ExecProgram,
        ExecForkFails, ChildReap, BuiltinDone, Write, WriteBroken, ProgDone, Read, ReadEnd
<1>5. CASE UNCHANGED shellVars
    BY <1>5 DEF shellVars, pipeVars
<1> QED
    BY <1>1, <1>2, <1>3, <1>4, <1>5 DEF ShellNext

\* For pipelines of every length: whichever forks fail, whatever CTRL-C ends and
\* whatever survives it, handle_cmd returns without a zombie or an open end, and
\* with no program behind it but survivors.
THEOREM PipelineCleansUp == ShellSpec => NothingLeftBehind
<1>1. ASSUME PipeInv, [ShellNext]_shellVars, spc = "wait", spc' = "line"
      PROVE  /\ \A s \in Seg : children[s] = "none" /\ (Running(s) => s \in survived)
             /\ pipefds[Shell] = {}
  <2>1. \A s \in Seg : children[s] = "none"
    BY <1>1, ReturnStep, NoChildLeft
  <2>2. \A s \in Seg : Running(s) => s \in survived
    BY <1>1, <2>1 DEF PipeInv, SegmentInv, Phase, Running
  <2>3. pipefds[Shell] = {}
    BY <1>1 DEF PipeInv, ShellEnds
  <2> QED
    BY <2>1, <2>2, <2>3
<1>2. PipeInv /\ [ShellNext]_shellVars
      => [spc = "wait" /\ spc' = "line" =>
             /\ \A s \in Seg : children[s] = "none" /\ (Running(s) => s \in survived)
             /\ pipefds[Shell] = {}]_pipeVars
    BY <1>1
<1> QED
    BY <1>2, PipeInvariance, PTL DEF ShellSpec, NothingLeftBehind

\* While a child or its program has not ended, the pipe behind it can be written to.
LEMMA OutletHeld ==
    ASSUME PipeInv, NEW s \in Seg, s < sc,
           children[s] \notin {"none", "exited"} \/ Running(s)
    PROVE  Held(s, "w")
<1>1. PICK q \in Procs, b \in BOOLEAN : End(s, "w", b) \in pipefds[q]
    BY ProcFacts DEF PipeInv, PipeTypeOK, SegmentInv, Outlet, Running
<1>2. End(s, "w", b).pipe = s /\ End(s, "w", b).end = "w"
    BY DEF End
<1> QED
    BY <1>1, <1>2 DEF Held

\* A program that reads ends, while its child goes on, only at the end of its
\* input.
LEMMA EofStep ==
    ASSUME PipeInv, [ShellNext]_shellVars, NEW s \in Seg \ {1},
           prog[s] = "read", prog'[s] = "exited", pipe[s - 1] = 0,
           children[s] = "wait", children'[s] = "wait"
    PROVE  children[s - 1] \in {"none", "exited"} /\ ~Running(s - 1)
<1>0. /\ s <= sc /\ spc # "line" /\ sc \in 0 .. MaxSegments
      /\ children = [t \in Seg |-> children[t]] /\ prog = [t \in Seg |-> prog[t]]
    BY DEF PipeInv, PipeTypeOK, SegmentInv, Phase
<1>1. s \in Nat /\ s - 1 \in Seg /\ s - 1 < sc
    BY <1>0, PipelineAssumption DEF Seg
<1>2. CASE ~Held(s - 1, "w")
    BY <1>1, <1>2, OutletHeld
<1>3. CASE PressKey \/ process_input \/ NewSession
  <2>1. UNCHANGED prog
    BY <1>0, <1>3 DEF PipeInv, PressKey, KeyEnter, KeyBackspace, KeyInterrupt, KeyUp, KeyDown,
        KeyEof, KeyChar, Key, process_input, EditLine, BlankLine, history_add, RunLine,
        ExitCommand, ChangeDir, ChangeDirNowhere, RunPipeline, RunWithoutPipes, Command,
        PipelineDone, NewSession, pipeVars, procVars
  <2> QED
    BY <2>1
<1>4. CASE InPipeline(handle_cmd)
  <2>1. CASE AllWaited
    BY <2>1, NoChildLeft
  <2> QED
    BY <1>4, <2>1 DEF InPipeline, handle_cmd, MakePipes, ForkChild, ForkChildFails, AllForked,
       CloseEnds, Wait, procVars
<1>5. CASE InPipeline(Interrupt)
    BY <1>0, <1>5 DEF InPipeline, Interrupt, Hit
<1>6. ASSUME NEW t \in Seg, InPipeline(Segment(t)) PROVE prog'[s] = prog[s] \/ ReadEnd(s)
  <2>1. CASE t = s
    BY <1>0, <1>6, <2>1 DEF InPipeline, Segment, ChildSetup, ChildClose, ExecBuiltin,
       ExecProgram, ExecForkFails, ChildReap, BuiltinDone, ChildEnds, Write, Writing,
       WriteBroken, Exit, ProgExit, ProgDone, Read
  <2>2. CASE t # s
    BY <1>0, <1>6, <2>2 DEF InPipeline, Segment, ChildSetup, ChildClose, ExecBuiltin,
       ExecProgram, ExecForkFails, ChildReap, BuiltinDone, ChildEnds, Write, Writing,
       WriteBroken, Exit, ProgExit, ProgDone, Read, ReadEnd
  <2> QED
    BY <2>1, <2>2
<1>7. ReadEnd(s) => ~Held(s - 1, "w")
    BY DEF ReadEnd
<1>8. CASE UNCHANGED shellVars
    BY <1>8 DEF shellVars, pipeVars, procVars
<1> QED
    BY <1>2, <1>3, <1>4, <1>5, <1>6, <1>7, <1>8 DEF ShellNext

\* For pipelines of every length: no program's input ends before everything
\* that writes to it has.
THEOREM InputWhole == ShellSpec => EofIsFinal
<1>1. PipeInv /\ [ShellNext]_shellVars
      => [\A s \in Seg \ {1} :
             (/\ prog[s] = "read" /\ prog'[s] = "exited" /\ pipe[s - 1] = 0
              /\ children[s] = "wait" /\ children'[s] = "wait")
             => children[s - 1] \in {"none", "exited"} /\ ~Running(s - 1)]_pipeVars
    BY EofStep
<1> QED
    BY <1>1, PipeInvariance, PTL DEF ShellSpec, EofIsFinal
=============================================================================
