------------------------------ MODULE LineTools ------------------------------
(***************************************************************************)
(* The parts that work on their own: each run of one of them shares        *)
(* nothing with the others, so a behaviour is that of the part that was    *)
(* started.                                                                *)
(***************************************************************************)
EXTENDS Calculator, Uniq, DiffTool, Grep, Cut, Resp, Bitcask

VARIABLE tool

vars == <<tool, calcVars, uniqVars, diffVars, grepVars, cutVars, respVars, caskVars>>

Tools == {"calculator", "uniq", "diff", "grep", "cut", "resp", "bitcask"}

\* The state of a tool that is not running.
CalcIdle == CalcInit
UniqIdle ==
    /\ opts = NoOptions /\ input = <<>> /\ prev = NoLine /\ count = 0
    /\ outfile = <<>> /\ stdout = <<>> /\ uniq = "done"
DiffIdle ==
    /\ a = <<>> /\ b = <<>> /\ i = 0 /\ j = 0 /\ idx = 0 /\ items = <<>> /\ diff = "done"
CaskIdle == CaskInit /\ \A n \in Casks : cask[n] = NULL

Init ==
    /\ tool \in Tools
    /\ IF tool = "calculator" THEN CalcInit ELSE CalcIdle
    /\ IF tool = "uniq" THEN UniqInit ELSE UniqIdle
    /\ IF tool = "diff" THEN DiffInit ELSE DiffIdle
    /\ IF tool = "grep" THEN GrepInit ELSE GrepIdle
    /\ IF tool = "cut" THEN CutInit ELSE CutIdle
    /\ IF tool = "resp" THEN RespInit ELSE RespIdle
    /\ IF tool = "bitcask" THEN CaskInit ELSE CaskIdle

Next ==
    \/ /\ tool = "calculator" /\ CalcNext
       /\ UNCHANGED <<tool, uniqVars, diffVars, grepVars, cutVars, respVars, caskVars>>
    \/ /\ tool = "uniq" /\ UniqNext
       /\ UNCHANGED <<tool, calcVars, diffVars, grepVars, cutVars, respVars, caskVars>>
    \/ /\ tool = "diff" /\ DiffNext
       /\ UNCHANGED <<tool, calcVars, uniqVars, grepVars, cutVars, respVars, caskVars>>
    \/ /\ tool = "grep" /\ GrepNext
       /\ UNCHANGED <<tool, calcVars, uniqVars, diffVars, cutVars, respVars, caskVars>>
    \/ /\ tool = "cut" /\ CutNext
       /\ UNCHANGED <<tool, calcVars, uniqVars, diffVars, grepVars, respVars, caskVars>>
    \/ /\ tool = "resp" /\ RespNext
       /\ UNCHANGED <<tool, calcVars, uniqVars, diffVars, grepVars, cutVars, caskVars>>
    \/ /\ tool = "bitcask" /\ CaskNext
       /\ UNCHANGED <<tool, calcVars, uniqVars, diffVars, grepVars, cutVars, respVars>>

Spec == Init /\ [][Next]_vars
=============================================================================
