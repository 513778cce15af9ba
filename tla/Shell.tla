------------------------------- MODULE Shell -------------------------------
(***************************************************************************)
(* ccsh (14. shell/ccsh.c, custom_cmd/cd.c): the raw-mode line editor, the *)
(* history it walks through, the built-ins of the shell itself, and the    *)
(* pipelines of ShellPipeline.                                             *)
(*                                                                         *)
(* The characters of a line are words and bars: what extract_segments and  *)
(* build_args take apart.                                                  *)
(***************************************************************************)
EXTENDS ShellPipeline, SequencesExt

CONSTANTS
    Words,      \* what the user types: programs, arguments, and "|"
    Dirs,       \* directories that exist
    Home,       \* $HOME
    Saved,      \* the history file of earlier sessions
    LineSize,   \* sz, the size of the line buffer
    FdLimits,   \* how many more files a shell may have open
    MaxKeys,    \* bound on the keys pressed in all sessions
    NULL

ASSUME ShellAssumption ==
    /\ Home \in Dirs /\ NULL \notin Dirs
    /\ LineSize \in Nat \ {0} /\ MaxKeys \in Nat
    /\ FdLimits \subseteq Nat \ {0}
    /\ Words \subseteq STRING /\ Saved \in Seq(Seq(STRING))

VARIABLES
    pc,          \* where process_input is
    raw,         \* the terminal is in raw mode
    buf, draft,  \* the line, and the line kept while browsing the history
    hpos,        \* position in the history; Len(history) is the draft
    history,     \* history[0..hc-1]
    file,        \* ~/.ccsh_history
    limit,       \* descriptors the shell may still get when it starts
    opened,      \* descriptors that history_load has opened and never closes
    ran,         \* auxiliary: the lines run, in this session and before
    starved,     \* auxiliary: a line was entered when no descriptor was left
    cwd, OLDPWD, \* working directory, and the variable cd sets
    keys,        \* keys pressed
    typed        \* auxiliary: the line as the user left it in the draft slot

editVars  == <<raw, buf, draft, hpos, typed>>
storeVars == <<history, file, limit, opened, starved>>
dirVars   == <<cwd, OLDPWD>>
shellVars == <<pipeVars, pc, editVars, storeVars, ran, dirVars, keys>>

hc == Len(history)

ShellStart ==
    /\ PipelineInit
    /\ raw = FALSE
    /\ buf = <<>> /\ draft = <<>> /\ typed = <<>>
    /\ history = Saved /\ file = Saved /\ hpos = Len(Saved)
    /\ opened = 1 /\ ran = <<>> /\ starved = FALSE
    /\ cwd = Home /\ OLDPWD = NULL
    /\ keys = 0

\* main loads the history.
ShellInit == ShellStart /\ limit \in FdLimits /\ pc = "prompt"

-----------------------------------------------------------------------------
(* _fgets                                                                  *)

EditLine ==
    /\ pc = "prompt"
    /\ pc' = "edit" /\ raw' = TRUE
    /\ buf' = <<>> /\ draft' = <<>> /\ typed' = <<>> /\ hpos' = hc
    /\ UNCHANGED <<pipeVars, storeVars, ran, dirVars, keys>>

Key ==
    /\ pc = "edit" /\ keys < MaxKeys
    /\ keys' = keys + 1
    /\ UNCHANGED <<pipeVars, storeVars, ran, dirVars>>

Full == Len(buf) >= LineSize

\* The user's line in the draft slot follows the buffer while it is there.
Typed == typed' = IF hpos' = hc THEN buf' ELSE typed

\* Enter; in a full buffer any key counts as Enter (of an arrow the first byte
\* does, the others begin the next line), and the NUL that ends the line falls
\* one byte behind the buffer.
KeyEnter ==
    /\ Key
    /\ pc' = "line" /\ raw' = FALSE
    /\ UNCHANGED <<buf, draft, hpos, typed>>

KeyChar(c) ==
    /\ Key /\ ~Full
    /\ buf' = Append(buf, c)
    /\ UNCHANGED <<pc, raw, draft, hpos>>
    /\ Typed

KeyBackspace ==
    /\ Key /\ ~Full
    /\ buf' = IF buf = <<>> THEN buf ELSE Front(buf)
    /\ UNCHANGED <<pc, raw, draft, hpos>>
    /\ Typed

KeyInterrupt ==
    /\ Key /\ ~Full
    /\ buf' = <<>> /\ draft' = <<>> /\ hpos' = hc
    /\ UNCHANGED <<pc, raw>>
    /\ Typed

\* UP saving the draft at every step of the way.
KeyUpSaves ==
    /\ Key /\ ~Full /\ hpos > 0
    /\ draft' = buf
    /\ hpos' = hpos - 1
    /\ buf' = history[hpos]
    /\ UNCHANGED <<pc, raw, typed>>

KeyUp ==
    /\ Key /\ ~Full /\ hpos > 0
    /\ draft' = IF hpos = hc THEN buf ELSE draft
    /\ hpos' = hpos - 1
    /\ buf' = history[hpos]
    /\ UNCHANGED <<pc, raw, typed>>

KeyDown ==
    /\ Key /\ ~Full /\ hpos < hc
    /\ hpos' = hpos + 1
    /\ buf' = IF hpos' = hc THEN draft ELSE history[hpos' + 1]
    /\ UNCHANGED <<pc, raw, draft, typed>>

\* The end of input that leaves the terminal raw.
KeyEofRaw ==
    /\ Key
    /\ pc' = "ended"
    /\ UNCHANGED <<raw, buf, draft, hpos, typed>>

\* read() returns no key: process_input and main return.
KeyEof ==
    /\ Key
    /\ pc' = "ended" /\ raw' = FALSE
    /\ UNCHANGED <<buf, draft, hpos, typed>>

-----------------------------------------------------------------------------
(* process_input                                                           *)

BlankLine ==
    /\ pc = "line" /\ buf = <<>>
    /\ pc' = "prompt"
    /\ UNCHANGED <<pipeVars, editVars, storeVars, ran, dirVars, keys>>

\* The line appended, and the file not loaded again.
AppendOnly ==
    /\ file' = Append(file, buf)
    /\ UNCHANGED <<history, opened, starved>>

\* open and fopen succeed: the line is in the file and all of the file in memory.
\* open's descriptor is closed, that of history_load is not.
AppendAndLoad ==
    /\ file' = Append(file, buf)
    /\ history' = file'
    /\ opened' = opened + 1
    /\ UNCHANGED starved

\* Both fail: nothing is written, and hc = 0.
NoDescriptor ==
    /\ history' = <<>>
    /\ starved' = TRUE
    /\ UNCHANGED <<file, opened>>

history_add ==
    /\ pc = "line" /\ buf # <<>>
    /\ IF opened < limit THEN AppendAndLoad ELSE NoDescriptor
    /\ pc' = "dispatch"
    /\ UNCHANGED <<pipeVars, editVars, limit, ran, dirVars, keys>>

\* The line is taken up to be run.
RunLine ==
    /\ pc = "dispatch"
    /\ ran' = Append(ran, buf)
    /\ UNCHANGED <<editVars, storeVars, keys>>

ExitCommand ==
    /\ RunLine /\ buf = <<"exit">>
    /\ pc' = "ended"
    /\ UNCHANGED <<pipeVars, dirVars>>

\* cd(): "~" is the home directory, "-" the one before; chdir fails if there
\* is no such directory, and then nothing changes.
Target(arg) == CASE arg = "~" -> Home [] arg = "-" -> OLDPWD [] OTHER -> arg

ChangeDir ==
    /\ RunLine /\ buf[1] = "cd" /\ Len(buf) > 1
    /\ \/ /\ Target(buf[2]) \in Dirs
          /\ OLDPWD' = cwd /\ cwd' = Target(buf[2])
       \/ /\ Target(buf[2]) \notin Dirs
          /\ UNCHANGED dirVars
    /\ pc' = "prompt"
    /\ UNCHANGED pipeVars

\* exec_cd(NULL): strlen of a null pointer, before cd() can turn it into $HOME.
ChangeDirNowhere ==
    /\ RunLine /\ buf = <<"cd">>
    /\ pc' = "ended"
    /\ UNCHANGED <<pipeVars, dirVars>>

\* extract_segments: the parts between the bars.  trim() of a blank part is
\* NULL, which ends the array for handle_cmd.
PartStarts(line) == {1} \cup {n + 1 : n \in {m \in 1 .. Len(line) : line[m] = "|"}}
BlankPart(line, n) == n > Len(line) \/ line[n] = "|"

extract_segments(line) ==
    LET blank == {n \in PartStarts(line) : BlankPart(line, n)}
        used  == {n \in PartStarts(line) : \A b \in blank : n < b}
        starts == SetToSortSeq(used, <)
    IN  [k \in 1 .. Len(starts) |->
            IF line[starts[k]] \in Kinds THEN line[starts[k]] ELSE "missing"]

\* The array of extract_segments has a fixed size; MaxSegments bounds the parts
\* of a line, and longer ones are not run.
Command == RunLine /\ buf # <<"exit">> /\ buf[1] # "cd"

RunPipeline ==
    /\ Command
    /\ segments' = extract_segments(buf)
    /\ Len(segments') \in 0 .. MaxSegments
    /\ opened + 2 * Len(segments') <= limit
    /\ spc' = "pipes"
    /\ pc' = "busy"
    /\ UNCHANGED <<survived, i, procVars, dirVars>>

\* pipe() fails for want of descriptors and is not checked: the children dup and
\* close whatever numbers were in pipefds.  Nothing is said of what follows.
RunWithoutPipes ==
    /\ Command
    /\ opened + 2 * Len(extract_segments(buf)) > limit
    /\ pc' = "undefined"
    /\ UNCHANGED <<pipeVars, dirVars>>

PipelineDone ==
    /\ pc = "busy" /\ spc = "line"
    /\ pc' = "prompt"
    /\ UNCHANGED <<pipeVars, editVars, storeVars, ran, dirVars, keys>>

(* main                                                                    *)

\* The user starts a shell again, which loads the history.
NewSession ==
    /\ pc = "ended"
    /\ pc' = "prompt"
    /\ history' = file /\ opened' = 1 /\ limit' \in FdLimits
    /\ cwd' = Home /\ OLDPWD' = NULL
    /\ UNCHANGED <<pipeVars, editVars, file, ran, starved, keys>>

-----------------------------------------------------------------------------
\* The shell's own steps, all of which it takes without waiting for the user.
process_input ==
    \/ EditLine \/ BlankLine \/ history_add \/ ExitCommand
    \/ ChangeDir \/ ChangeDirNowhere \/ RunPipeline \/ RunWithoutPipes \/ PipelineDone

PressKey ==
    \/ KeyEnter \/ KeyBackspace \/ KeyInterrupt \/ KeyUp \/ KeyDown \/ KeyEof
    \/ \E c \in Words : KeyChar(c)

InPipeline(A) == A /\ UNCHANGED <<pc, editVars, storeVars, ran, dirVars, keys>>

ShellStep   == process_input \/ InPipeline(handle_cmd)
SegmentStep(s) == InPipeline(Segment(s))

ShellNext ==
    \/ PressKey \/ process_input \/ NewSession
    \/ InPipeline(handle_cmd)
    \/ \E s \in Seg : InPipeline(Segment(s))
    \/ InPipeline(Interrupt)

ShellSpec == ShellInit /\ [][ShellNext]_shellVars

\* The kernel runs every process that can go on; nobody has to press a key.
ShellFairness ==
    /\ WF_shellVars(ShellStep)
    /\ \A s \in Seg : WF_shellVars(SegmentStep(s))

-----------------------------------------------------------------------------
(* Properties                                                              *)

\* ccsh.c:231 ("Restore the terminal before existing"): raw mode lasts exactly
\* as long as the editor reads a line.  Programs, and whoever runs after the
\* shell, find the terminal as it was.
TerminalRestored == raw <=> pc = "edit"

\* Whichever way the user walks through the history, the draft slot holds the
\* line as he left it there (ccsh.c:327 "leaving the draft: save what's typed",
\* ccsh.c:340 "back to the draft slot").
DraftKept == pc = "edit" /\ hpos = hc => buf = typed

\* Every line run, in this session and in the ones before it, whichever way they
\* ended, is in the history file once and in the order they were run, and in what
\* UP walks through: as long as history_load, which closes nothing, has left a
\* descriptor for each line entered.
HistoryComplete ==
    pc \in {"prompt", "edit", "busy", "ended"} /\ ~starved =>
        file = Saved \o ran /\ (pc # "ended" => history = file)

\* Some program after each endless one stops reading, or never reads.
Terminating(ps) ==
    \A s \in 1 .. Len(ps) : ps[s] = "endless" =>
        \E t \in s + 1 .. Len(ps) : ps[t] \notin {"endless", "filter"}

\* Every pipeline that can end does end, and the user gets the prompt back:
\* end of file and broken pipes reach every program that waits for them, even
\* when a fork fails or CTRL-C kills some of the processes.
PromptReturns == pc = "busy" /\ Terminating(segments) ~> pc = "prompt"
=============================================================================
