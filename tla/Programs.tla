------------------------------ MODULE Programs ------------------------------
(***************************************************************************)
(* The programs of several processes that need no thread: the forking      *)
(* balancer with its backends, the web server that takes one client after  *)
(* the other, and the shell with its pipelines.  They share nothing; a     *)
(* behaviour is that of the one that was started.                          *)
(***************************************************************************)
EXTENDS ForkBalancer, WebServer, Shell

VARIABLE program

vars == <<program, forkVars, webVars, shellVars>>

\* The web server before its first client, and a shell that does nothing, for a
\* behaviour of another program.
WebIdle   == WebInit /\ \A c \in Browsers : script[c] = <<>>
ShellIdle == ShellStart /\ limit = 0 /\ pc = "undefined"

Init ==
    \/ program = "balancer" /\ ForkInit /\ WebIdle /\ ShellIdle
    \/ program = "web" /\ ForkInit /\ WebInit /\ ShellIdle
    \/ program = "shell" /\ ForkInit /\ WebIdle /\ ShellInit

Next ==
    \/ program = "balancer" /\ ForkNext /\ UNCHANGED <<program, webVars, shellVars>>
    \/ program = "web" /\ WebNext /\ UNCHANGED <<program, forkVars, shellVars>>
    \/ program = "shell" /\ ShellNext /\ UNCHANGED <<program, forkVars, webVars>>

\* The program that was not started has no step to take.
FairSpec == Init /\ [][Next]_vars /\ ForkFairness /\ WebFairness /\ ShellFairness
=============================================================================
