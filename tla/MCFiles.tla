------------------------------ MODULE MCFiles ------------------------------
(* A small instance of Files: two processes and four inodes. *)
EXTENDS Files, TLC

Dir(nlink, ents) ==
    [type |-> "dir", nlink |-> nlink,
     ents |-> [n \in {"a", "b", ".", ".."} |->
                 IF n \in DOMAIN ents THEN ents[n] ELSE 0]]
Plain == [type |-> "file", nlink |-> 1,
          ents |-> [n \in {"a", "b", ".", ".."} |-> 0]]
Unused == [Plain EXCEPT !.type = "free", !.nlink = 0]
Root == Dir(2, [a |-> 2] @@ ("." :> 1) @@ (".." :> 1))

\* /a is a directory with a file b, or with a directory b in it.
WithFile == <<Root, Dir(1, [b |-> 3] @@ ("." :> 2) @@ (".." :> 1)), Plain,
              Unused>>
WithDir == <<Root, Dir(2, [b |-> 3] @@ ("." :> 2) @@ (".." :> 1)),
             Dir(1, ("." :> 3) @@ (".." :> 2)), Unused>>

\* The second process runs or has yet to be forked, or both have the file open.
MCStarts ==
    [disk : {WithFile}, cwd : {[p |-> 1, q |-> 2], [p |-> 1, q |-> 0]}, file : {0}]
    \cup [disk : {WithFile}, cwd : {[p |-> 1, q |-> 1]}, file : {3}]
    \cup [disk : {WithDir}, cwd : {[p |-> 1, q |-> 3]}, file : {0}]

\* The first process changes names, the other uses them.
MCCalls ==
  [p |-> {[op |-> "create", path |-> <<"/", "a", "b">>, type |-> "file"],
          [op |-> "create", path |-> <<"/", "b">>, type |-> "dir"],
          [op |-> "unlink", path |-> <<"/", "a", "b">>],
          [op |-> "unlink", path |-> <<"/", "a">>],
          [op |-> "link", path |-> <<"/", "a", "b">>, new |-> <<"b">>],
          [op |-> "link", path |-> <<"/", "a", "b">>, new |-> <<"/", "a", "..">>],
          [op |-> "link", path |-> <<"/", "a", "b">>, new |-> <<"/", "a", ".">>]}
          \cup [op : {"fork", "close"}],
   q |-> {[op |-> "open", path |-> <<"/", "a", "b">>, mode |-> "O_RDONLY"],
          [op |-> "open", path |-> <<"..">>, mode |-> "O_RDWR"],
          [op |-> "unlink", path |-> <<"/", "a", "b">>],
          [op |-> "unlink", path |-> <<"/", "a">>],
          [op |-> "chdir", path |-> <<"..">>]}
          \cup [op : {"close", "dup", "fstat", "pipe", "exit"}]]

\* Two processes that remove and look up the same names.
MCFewCalls ==
  [p |-> {[op |-> "create", path |-> <<"/", "a", "a">>, type |-> "dir"],
          [op |-> "unlink", path |-> <<"/", "a", "b">>]},
   q |-> {[op |-> "open", path |-> <<"/", "a", "b">>, mode |-> "O_RDONLY"],
          [op |-> "unlink", path |-> <<"/", "a", "a">>],
          [op |-> "close"]}]
=============================================================================
