------------------------------- MODULE Shell -------------------------------
(***************************************************************************)
(* The Hello shell (user/bin/hello.c): the parser, the built-in commands,  *)
(* and runcmd(), which runs a command tree with fork, pipe, dup, close,    *)
(* open, exec and wait.  A line is a sequence of tokens.  A program is     *)
(* taken to copy its input, to the end, to its output and to add its name, *)
(* so that what arrives where shows how the programs were connected.       *)
(***************************************************************************)
EXTENDS Integers, FiniteSets, SequencesExt

CONSTANTS Scripts,    \* what may be typed: sequences of lines
          Programs,   \* executable files: the directory the name is looked up
                      \* from, the segment of the path, the name
          Segments,   \* the segments of what may follow "path set": the text is
                      \* cut after 127 characters and divided at its colons
          Slashed,    \* names that contain a slash
          Dirs,       \* directories there are
          Interactive, \* the programs that read commands from the console
          InputFiles, \* files there are at first, with the directory
          MAXARGS, NOFILE,
          NProc       \* processes there can be; 1 is the shell

Slot == 1..NProc
Symbol == {"|", "&", ";", "(", ")", "<", ">", ">>"}

VARIABLES script,  \* lines not yet read
          proc,    \* processes
          pipes,   \* what has been written to each pipe, in order of creation
          out,     \* what has arrived at the console and in files
          files,   \* files that open() finds
          failed,  \* a fork, a pipe or an open() found no room in the kernel
          typed    \* history: the commands typed, with the directory, the path
                   \* and the files there were

vars == <<script, proc, pipes, out, files, failed, typed>>

-----------------------------------------------------------------------------
(* The parser.  A result is a tree and the tokens that are left; "panic" is *)
(* a tree of its own.                                                       *)

Exec(argv) == [type |-> "EXEC", argv |-> argv]
Redir(cmd, fd, file) == [type |-> "REDIR", cmd |-> cmd, fd |-> fd, file |-> file]
Pipe(l, r) == [type |-> "PIPE", left |-> l, right |-> r]
List(l, r) == [type |-> "LIST", left |-> l, right |-> r]
Back(cmd) == [type |-> "BACK", cmd |-> cmd]
Panic == [type |-> "panic"]

Result(t, rest) == [t |-> t, rest |-> rest]
Fails(r) == r.t.type = "panic"
peek(s, toks) == s # <<>> /\ Head(s) \in toks
Word(s) == s # <<>> /\ Head(s) \notin Symbol

\* parseredirs(): each redirection goes around the command it follows.
RECURSIVE parseredirs(_, _)
parseredirs(cmd, s) ==
    IF ~ peek(s, {"<", ">", ">>"}) THEN Result(cmd, s)
    ELSE IF ~ Word(Tail(s)) THEN Result(Panic, s)
    ELSE parseredirs(Redir(cmd, IF Head(s) = "<" THEN 0 ELSE 1, s[2]),
                     SubSeq(s, 3, Len(s)))

\* The EXEC at the bottom of its redirections gets one more argument.
RECURSIVE AddArg(_, _)
AddArg(t, word) ==
    IF t.type = "EXEC" THEN [t EXCEPT !.argv = Append(@, word)]
    ELSE [t EXCEPT !.cmd = AddArg(t.cmd, word)]

\* The loop of parseexec(), with argc arguments so far.
RECURSIVE parseargs(_, _)
parseargs(r, argc) ==
    IF Fails(r) \/ r.rest = <<>> \/ peek(r.rest, {"|", ")", "&", ";"}) THEN r
    ELSE IF ~ Word(r.rest) \/ argc + 1 >= MAXARGS THEN Result(Panic, r.rest)
    ELSE parseargs(parseredirs(AddArg(r.t, Head(r.rest)), Tail(r.rest)),
                   argc + 1)

RECURSIVE parseline(_), parsepipe(_), parseback(_)

parseblock(s) ==
    LET r == parseline(Tail(s)) IN
    IF Fails(r) THEN r
    ELSE IF ~ peek(r.rest, {")"}) THEN Result(Panic, r.rest)
    ELSE parseredirs(r.t, Tail(r.rest))

parseexec(s) ==
    IF peek(s, {"("}) THEN parseblock(s)
    ELSE parseargs(parseredirs(Exec(<<>>), s), 0)

parsepipe(s) ==
    LET l == parseexec(s) IN
    IF Fails(l) \/ ~ peek(l.rest, {"|"}) THEN l
    ELSE LET r == parsepipe(Tail(l.rest)) IN
         IF Fails(r) THEN r ELSE Result(Pipe(l.t, r.t), r.rest)

\* The loop over "&" in parseline().
parseback(r) == IF Fails(r) \/ ~ peek(r.rest, {"&"}) THEN r
                ELSE parseback(Result(Back(r.t), Tail(r.rest)))

parseline(s) ==
    LET l == parseback(parsepipe(s)) IN
    IF Fails(l) \/ ~ peek(l.rest, {";"}) THEN l
    ELSE LET r == parseline(Tail(l.rest)) IN
         IF Fails(r) THEN r ELSE Result(List(l.t, r.t), r.rest)

\* What is left of the line is not looked at.
MutParsecmd(s) == parseline(s).t

parsecmd(s) == LET r == parseline(s) IN
               IF ~ Fails(r) /\ r.rest # <<>> THEN Panic ELSE r.t

\* The trees of the lines.
Tree == [line \in UNION {Range(lines) : lines \in Scripts} |-> parsecmd(line)]

-----------------------------------------------------------------------------
(* Processes and file descriptors. *)

None == <<"none">>
Console == <<"console">>
Unused == [state |-> "unused", pc |-> "", cmd |-> Panic, parent |-> 0,
           fds |-> [fd \in 0..(NOFILE - 1) |-> None], p |-> <<0, 0>>,
           file |-> None,
           env |-> [path |-> <<"bin">>, cwd |-> "/"], bg |-> FALSE]

\* init leaves the shell its own three descriptors on the console (init.c).
Init ==
    /\ script \in Scripts
    /\ proc = [i \in Slot |-> IF i = 1
                              THEN [Unused EXCEPT !.state = "live", !.pc = "open",
                                   !.fds = [fd \in DOMAIN @ |->
                                               IF fd < 3 THEN Console ELSE @[fd]]]
                              ELSE Unused]
    /\ pipes = <<>>
    /\ out = {}
    /\ files = InputFiles
    /\ failed = FALSE
    /\ typed = {}

At(i, pc) == proc[i].state = "live" /\ proc[i].pc = pc
Cmd(i, type) == At(i, "runcmd") /\ proc[i].cmd.type = type

Free(fds) == {fd \in DOMAIN fds : fds[fd] = None}
\* open() and dup() take the lowest free descriptor.
Alloc(fds, object) == [fds EXCEPT ![Min(Free(fds))] = object]
Close(fds, fd) == [fds EXCEPT ![fd] = None]

Holds(i, end) == /\ proc[i].state = "live"
                 /\ \E fd \in DOMAIN proc[i].fds : proc[i].fds[fd] = end

\* exit(): descriptors are closed, and children are left to init, which
\* waits for them.
Gone(procs, i) ==
    [k \in Slot |->
        IF k = i THEN IF procs[k].parent = 0 /\ k # 1 THEN Unused
                      ELSE [procs[k] EXCEPT !.state = "zombie",
                                            !.fds = Unused.fds]
        ELSE IF procs[k].parent = i
        THEN IF procs[k].state = "zombie" THEN Unused
             ELSE [procs[k] EXCEPT !.parent = 0]
        ELSE procs[k]]

ExitProc(i) == proc' = Gone(proc, i)

\* fork1(): child says what the child starts with, and the parent goes on at
\* pc; when the kernel has no slot or no memory for it the parent panics.
fork1(i, pc, child) ==
    LET slots == {k \in Slot : proc[k].state = "unused"} IN
    \/ /\ ExitProc(i)
       /\ failed' = TRUE
    \/ /\ slots # {}
       /\ proc' = [proc EXCEPT ![i].pc = pc, ![Min(slots)] = child]
       /\ UNCHANGED failed

Child(i, pc, cmd) ==
    [proc[i] EXCEPT !.parent = i, !.pc = pc, !.cmd = cmd]

\* wait() returns a child that has exited, or at once if there is none.
wait(i, pc, cmd) ==
    LET kids == {k \in Slot : proc[k].state # "unused" /\ proc[k].parent = i}
        done == {k \in kids : proc[k].state = "zombie"} IN
    /\ kids = {} \/ done # {}
    /\ \E k \in IF done = {} THEN {0} ELSE done :
          proc' = [j \in Slot |->
                     IF j = k THEN Unused
                     ELSE IF j = i THEN [proc[i] EXCEPT !.pc = pc, !.cmd = cmd]
                     ELSE proc[j]]

-----------------------------------------------------------------------------
(* main() *)

\* The console is opened until there are three descriptors; a fourth is closed
\* again.  An open() that fails ends the loop too.
OpenConsole ==
    /\ At(1, "open")
    /\ \/ LET fds == Alloc(proc[1].fds, Console)
              fd == Min(Free(proc[1].fds)) IN
          proc' = [proc EXCEPT ![1].fds = IF fd >= 3 THEN Close(fds, fd) ELSE fds,
                               ![1].pc = IF fd >= 3 THEN "getcmd" ELSE "open"]
       \/ proc' = [proc EXCEPT ![1].pc = "getcmd"]
    /\ UNCHANGED <<script, pipes, out, files, failed, typed>>

\* try_exec(): the segments of the path in turn, then the name as it is; a
\* name with a slash is not looked up.  The file that is run, or none.
Candidates(env, name) ==
    LET tries == IF name \in Slashed THEN <<"">> ELSE Append(env.path, "") IN
    SelectSeq([k \in 1..Len(tries) |-> <<env.cwd, tries[k], name>>],
              LAMBDA file : file \in Programs)

\* handle_builtin(): an empty line, cd, path, help and version are not forked.
Builtin(line) ==
    \/ line = <<>>
    \/ line[1] \in {"cd", "path"}
    \/ line \in {<<"help">>, <<"version">>, <<"--version">>}

\* cd changes the directory if there is one, "path set" the path.
handle_builtin(env, line) ==
    IF Len(line) = 2 /\ line[1] = "cd" /\ line[2] \in Dirs
    THEN [env EXCEPT !.cwd = line[2]]
    ELSE IF Len(line) >= 2 /\ line[1] = "path" /\ line[2] = "set"
    THEN [env EXCEPT !.path = IF Len(line) = 2 THEN <<"bin">>
                              ELSE Segments[SubSeq(line, 3, Len(line))]]
    ELSE env

GetCmd ==
    /\ At(1, "getcmd") /\ script # <<>>
    /\ script' = Tail(script)
    /\ LET line == Head(script)
           env == proc[1].env IN
       IF Builtin(line)
       THEN /\ proc' = [proc EXCEPT ![1].env = handle_builtin(env, line)]
            /\ UNCHANGED <<failed, typed>>
       ELSE /\ fork1(1, "wait", Child(1, "runcmd", Tree[line]))
            /\ typed' = typed \cup {<<env, files, line>>}
    /\ UNCHANGED <<pipes, out, files>>

WaitCmd ==
    /\ At(1, "wait")
    /\ wait(1, "getcmd", proc[1].cmd)
    /\ UNCHANGED <<script, pipes, out, files, failed, typed>>

\* The end of the input: the shell exits.
EndOfInput ==
    /\ At(1, "getcmd") /\ script = <<>>
    /\ ExitProc(1)
    /\ UNCHANGED <<script, pipes, out, files, failed, typed>>

-----------------------------------------------------------------------------
(* runcmd() *)

\* A syntax error, or no command.
RunNothing(i) ==
    /\ Cmd(i, "panic") \/ (Cmd(i, "EXEC") /\ proc[i].cmd.argv = <<>>)
    /\ ExitProc(i)
    /\ UNCHANGED <<script, pipes, out, files, failed, typed>>

\* exec() of the first candidate there is.
RunExec(i) ==
    /\ Cmd(i, "EXEC") /\ proc[i].cmd.argv # <<>>
    /\ LET found == Candidates(proc[i].env, proc[i].cmd.argv[1]) IN
       IF found = <<>> THEN ExitProc(i)
       ELSE proc' = [proc EXCEPT ![i].pc = "program", ![i].file = found[1]]
    /\ UNCHANGED <<script, pipes, out, files, failed, typed>>

\* close(), then open(): the file gets the descriptor that was closed.
Redirected(fds, fd, file) == Alloc(Close(fds, fd), file)

\* For output a file that is not there is made.
RunRedir(i) ==
    /\ Cmd(i, "REDIR")
    /\ LET c == proc[i].cmd
           file == <<"file", proc[i].env.cwd, c.file>> IN
       IF c.fd = 0 /\ file \notin files THEN ExitProc(i) /\ UNCHANGED files
       ELSE /\ proc' = [proc EXCEPT ![i].cmd = c.cmd,
                            ![i].fds = Redirected(@, c.fd, file)]
            /\ files' = files \cup {file}
    /\ UNCHANGED <<script, pipes, out, failed, typed>>

\* open() fails in either direction: no file structure, or no such directory.
RedirFails(i) ==
    /\ Cmd(i, "REDIR")
    /\ ExitProc(i)
    /\ failed' = TRUE
    /\ UNCHANGED <<script, pipes, out, files, typed>>

RunList(i) ==
    /\ Cmd(i, "LIST")
    /\ fork1(i, "list", Child(i, "runcmd", proc[i].cmd.left))
    /\ UNCHANGED <<script, pipes, out, files, typed>>

\* Only the left side is run.
MutListWait(i) ==
    /\ At(i, "list")
    /\ wait(i, "exit", proc[i].cmd)
    /\ UNCHANGED <<script, pipes, out, files, failed, typed>>

ListWait(i) ==
    /\ At(i, "list")
    /\ wait(i, "runcmd", proc[i].cmd.right)
    /\ UNCHANGED <<script, pipes, out, files, failed, typed>>

RunBack(i) ==
    /\ Cmd(i, "BACK")
    /\ fork1(i, "exit", [Child(i, "runcmd", proc[i].cmd.cmd) EXCEPT !.bg = TRUE])
    /\ UNCHANGED <<script, pipes, out, files, typed>>

\* pipe()
PipeEnds(fds, r, w, k) == [fds EXCEPT ![r] = <<"r", k>>, ![w] = <<"w", k>>]

RunPipe(i) ==
    /\ Cmd(i, "PIPE") /\ Cardinality(Free(proc[i].fds)) >= 2
    /\ LET k == Len(pipes) + 1
           fds == proc[i].fds
           r == Min(Free(fds))
           w == Min(Free(fds) \ {r}) IN
       proc' = [proc EXCEPT ![i].pc = "left", ![i].p = <<r, w>>,
                    ![i].fds = PipeEnds(fds, r, w, k)]
    /\ pipes' = Append(pipes, {})
    /\ UNCHANGED <<script, out, files, failed, typed>>

\* The kernel has no descriptors, file structures or memory for a pipe: panic.
PipeFails(i) ==
    /\ Cmd(i, "PIPE")
    /\ ExitProc(i)
    /\ failed' = TRUE
    /\ UNCHANGED <<script, pipes, out, files, typed>>

ForkLeft(i) ==
    /\ At(i, "left")
    /\ fork1(i, "right", Child(i, "dup1", proc[i].cmd.left))
    /\ UNCHANGED <<script, pipes, out, files, typed>>

ForkRight(i) ==
    /\ At(i, "right")
    /\ fork1(i, "close", Child(i, "dup0", proc[i].cmd.right))
    /\ UNCHANGED <<script, pipes, out, files, typed>>

ClosePipe(fds, p) == Close(Close(fds, p[1]), p[2])

\* The children of a pipe: one end becomes descriptor 1 or 0, both are closed.
Dup(i, pc, fd, end) ==
    /\ At(i, pc)
    /\ LET p == proc[i].p
           fds == Alloc(Close(proc[i].fds, fd), proc[i].fds[p[end]]) IN
       proc' = [proc EXCEPT ![i].fds = ClosePipe(fds, p), ![i].pc = "runcmd"]
    /\ UNCHANGED <<script, pipes, out, files, failed, typed>>

\* The shell of a pipe keeps both ends open.
MutCloseBoth(i) ==
    /\ At(i, "close")
    /\ proc' = [proc EXCEPT ![i].pc = "wait2"]
    /\ UNCHANGED <<script, pipes, out, files, failed, typed>>

CloseBoth(i) ==
    /\ At(i, "close")
    /\ proc' = [proc EXCEPT ![i].fds = ClosePipe(@, proc[i].p), ![i].pc = "wait2"]
    /\ UNCHANGED <<script, pipes, out, files, failed, typed>>

\* It waits for one of the two children.
MutPipeWait(i) ==
    /\ At(i, "wait2") /\ wait(i, "exit", proc[i].cmd)
    /\ UNCHANGED <<script, pipes, out, files, failed, typed>>

PipeWait(i) ==
    /\ \/ At(i, "wait2") /\ wait(i, "wait1", proc[i].cmd)
       \/ At(i, "wait1") /\ wait(i, "exit", proc[i].cmd)
    /\ UNCHANGED <<script, pipes, out, files, failed, typed>>

RunExit(i) ==
    /\ At(i, "exit")
    /\ ExitProc(i)
    /\ UNCHANGED <<script, pipes, out, files, failed, typed>>

-----------------------------------------------------------------------------
\* A program reads to the end of its input, writes, and exits.
Finish(i) ==
    /\ At(i, "program")
    /\ LET in == proc[i].fds[0]
           to == proc[i].fds[1]
           text == {proc[i].file} \cup
                   CASE in[1] = "r" -> pipes[in[2]]
                     [] in[1] = "file" -> {in}
                     [] OTHER -> {} IN
       /\ in[1] = "r" => \A k \in Slot : ~ Holds(k, <<"w", in[2]>>)
       /\ out' = IF to[1] \in {"console", "file"} THEN out \cup ({to} \X text)
                 ELSE out
       /\ pipes' = IF to[1] = "w" /\ \E k \in Slot : Holds(k, <<"r", to[2]>>)
                   THEN [pipes EXCEPT ![to[2]] = @ \cup text] ELSE pipes
    /\ ExitProc(i)
    /\ UNCHANGED <<script, files, failed, typed>>

Program(i) == proc[i].file \notin Interactive /\ Finish(i)

-----------------------------------------------------------------------------
Run(i) ==
    \/ RunNothing(i) \/ RunExec(i) \/ RunRedir(i) \/ RedirFails(i) \/ RunList(i)
    \/ ListWait(i) \/ RunBack(i) \/ RunPipe(i) \/ PipeFails(i) \/ ForkLeft(i) \/ ForkRight(i)
    \/ Dup(i, "dup1", 1, 2) \/ Dup(i, "dup0", 0, 1) \/ CloseBoth(i)
    \/ PipeWait(i) \/ RunExit(i) \/ Program(i)

Main == OpenConsole \/ GetCmd \/ WaitCmd \/ EndOfInput

Next == Main \/ \E i \in Slot : Run(i)

Spec == Init /\ [][Next]_vars /\ WF_vars(Main) /\ \A i \in Slot : WF_vars(Run(i))

-----------------------------------------------------------------------------
(* Properties. *)

\* The files that are there after a tree has run, when only fs were before.
RECURSIVE Leaves(_, _, _)
Leaves(t, env, fs) ==
    CASE t.type = "REDIR" ->
            LET file == <<"file", env.cwd, t.file>> IN
            IF t.fd = 0 /\ file \notin fs THEN fs
            ELSE Leaves(t.cmd, env, fs \cup {file})
      [] t.type \in {"PIPE", "LIST"} -> Leaves(t.right, env, Leaves(t.left, env, fs))
      [] t.type = "BACK" -> Leaves(t.cmd, env, fs)
      [] OTHER -> fs

\* What a tree means: the pairs of a place and a text that it sends there, with
\* the files there are, the text on its input and the place its output goes to.
\* (Whether a command finds a file that another one makes at the same time, in
\* a pipe or after "&", is open; no line of Scripts asks it.)
RECURSIVE Meaning(_, _, _, _, _)
Meaning(t, env, fs, in, to) ==
    CASE t.type = "EXEC" ->
            IF t.argv = <<>> \/ Candidates(env, t.argv[1]) = <<>> THEN {}
            ELSE {to} \X ({Candidates(env, t.argv[1])[1]} \cup in)
      [] t.type = "REDIR" ->
            LET file == <<"file", env.cwd, t.file>> IN
            IF t.fd = 1 THEN Meaning(t.cmd, env, fs \cup {file}, in, file)
            ELSE IF file \in fs THEN Meaning(t.cmd, env, fs, {file}, to)
            ELSE {}
      [] t.type = "PIPE" ->
            LET l == Meaning(t.left, env, fs, in, <<"pipe">>)
                sent == {x \in l : x[1] = <<"pipe">>} IN
            (l \ sent) \cup Meaning(t.right, env, fs, {x[2] : x \in sent}, to)
      [] t.type = "LIST" ->
            Meaning(t.left, env, fs, in, to) \cup
            Meaning(t.right, env, Leaves(t.left, env, fs), in, to)
      [] t.type = "BACK" -> Meaning(t.cmd, env, fs, in, to)
      [] OTHER -> {}

Wanted == UNION {Meaning(Tree[x[3]], x[1], x[2], {}, Console) : x \in typed}

\* Nothing ever arrives at a place it is not meant for, and when everything has
\* ended, exactly what the lines mean has arrived: every program had the input
\* and the output its place in the line gives it.
OutputIsMeaning ==
    /\ out \subseteq Wanted
    /\ (\A i \in Slot : proc[i].state # "live") /\ ~ failed => out = Wanted

\* The shell prompts again only when all processes of the command have ended,
\* those after "&" excepted.
ForegroundFirst ==
    At(1, "getcmd") /\ ~ failed =>
        \A i \in Slot \ {1} : proc[i].state = "live" => proc[i].bg

\* A tree uses up its line: written out, it has the words and separators of the
\* line in their order, and its redirections in theirs.
RECURSIVE Flat(_)
Flat(t) ==
    CASE t.type = "EXEC" -> t.argv
      [] t.type = "REDIR" -> Flat(t.cmd) \o <<IF t.fd = 0 THEN "<" ELSE ">", t.file>>
      [] t.type = "PIPE" -> Flat(t.left) \o <<"|">> \o Flat(t.right)
      [] t.type = "LIST" -> Flat(t.left) \o <<";">> \o Flat(t.right)
      [] t.type = "BACK" -> Flat(t.cmd) \o <<"&">>
      [] OTHER -> <<>>

OfRedir(s, k) == \/ s[k] \in {"<", ">"}
                 \/ k > 1 /\ s[k - 1] \in {"<", ">"}
Part(s, redir) ==
    LET ks == SelectSeq([k \in 1..Len(s) |-> k], LAMBDA k :
                  s[k] \notin {"(", ")"} /\ OfRedir(s, k) = redir) IN
    [n \in 1..Len(ks) |-> s[ks[n]]]
OneArrow(s) == [k \in 1..Len(s) |-> IF s[k] = ">>" THEN ">" ELSE s[k]]

ParserKeepsLine ==
    \A k \in 1..Len(script) : LET t == Tree[script[k]] IN
        t.type # "panic" =>
            \A b \in BOOLEAN : Part(Flat(t), b) = Part(OneArrow(script[k]), b)

\* The shell ends when its input does, and every process that runs a command
\* ends: nobody waits for the end of an input that another keeps open.
AllEnd == <>[](\A i \in Slot : proc[i].state # "live")
=============================================================================
