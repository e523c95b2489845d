------------------------------ MODULE Session ------------------------------
(***************************************************************************)
(* The shell and the editor together: Hello forks a process that execs     *)
(* ted, waits while ted reads what is typed at the console, and prompts    *)
(* again when ted has exited.                                              *)
(***************************************************************************)
EXTENDS Shell, Ted

sessionvars == <<vars, tedvars>>

SessionInit == Init /\ TedInit

ShellMain == Main /\ UNCHANGED tedvars
ShellRun(i) == Run(i) /\ UNCHANGED tedvars

\* The process that has exec'ed ted.
InTed(i) == At(i, "program") /\ proc[i].file \in Interactive

StartTed(i) == InTed(i) /\ TedStart(Tail(proc[i].cmd.argv)) /\ UNCHANGED vars
RunTed(i) == /\ InTed(i)
             /\ \E line \in Lines : TedCommand(line)
             /\ UNCHANGED vars
EndTed(i) == /\ InTed(i)
             /\ \E line \in Lines : TedQuit(line)
             /\ Finish(i)

SessionNext ==
    \/ ShellMain
    \/ \E i \in Slot : ShellRun(i) \/ StartTed(i) \/ RunTed(i) \/ EndTed(i)

\* The scheduler runs every process, and a process that has exec'ed ted does not
\* stay before the first prompt (this is weak fairness of StartTed, which is
\* enabled exactly there); whoever types leaves the editor some time.
SessionSpec ==
    /\ SessionInit /\ [][SessionNext]_sessionvars
    /\ WF_sessionvars(ShellMain)
    /\ \A i \in Slot : /\ WF_sessionvars(ShellRun(i))
                       /\ []<>~ (InTed(i) /\ typing = -1)
                       /\ WF_sessionvars(EndTed(i))
=============================================================================
