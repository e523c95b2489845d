------------------------------ MODULE MCShell ------------------------------
EXTENDS Session

MCInteractive == {<<"/", "bin", "ted">>}

MCPrograms == {<<"/", "bin", "cat">>, <<"/", "bin", "wc">>, <<"/", "opt", "cat">>,
               <<"/", "", "hello">>, <<"/d", "", "./run">>} \cup MCInteractive

MCSegments == (<<"opt:bin">> :> <<"opt", "bin">>) @@ (<<"opt">> :> <<"opt">>)

MCInputFiles == {<<"file", "/", "f">>}

Token == {"cat", "f", "|", "&", ";", "(", ")", "<", ">"}

\* Every line of up to three tokens, and some longer ones.
MCScripts ==
    {<<s>> : s \in UNION {[1..n -> Token] : n \in 0..3}} \cup
    {<<<<"path", "set", "opt:bin">>, <<"wc", "|", "cat">>>>,
     <<<<"cat", "&">>, <<"path", "set", "opt">>, <<"cat">>, <<"hello">>>>,
     <<<<"cd", "/d">>, <<"./run">>, <<"cat">>, <<"cd", "/e">>>>,
     <<<<"help">>, <<"cat", "f", "|", "wc", ">", "g", ">", "h">>>>,
     <<<<"cat", "|", "wc", "|", "cat">>>>,
     <<<<"cat", "&", ";", "wc", "|", "cat">>>>,
     <<<<"(", "cat", ";", "wc", ")", "|", "cat", ">>", "g">>>>,
     <<<<"cat", "a", "b", "c">>, <<"wc", ">", "g", "<", "f">>>>,
     <<<<"cat", "<", "none">>, <<"path", "set">>, <<"wc", "&">>, <<"cat">>>>,
     <<<<"wc", ">", "g">>, <<"cat", "<", "g", ";", "wc", ">", "h", ";", "cat", "<", "h">>>>,
     <<<<"ted">>>>, <<<<"ted", "f">>>>}

MCSpelling == [word \in {"0", "5", "10", "20", "x", "yyyy"} |->
    CASE word = "0" -> <<"0">> [] word = "5" -> <<"5">>
      [] word = "10" -> <<"1", "0">> [] word = "20" -> <<"2", "0">>
      [] word = "x" -> <<"x">> [] word = "yyyy" -> <<"y", "y", "y", "y">>]

\* A file with lines out of order and one of them without a number, and a file
\* with a number that does not fit an int.
MCFiles == [name \in {"f", "g", "none/h"} |->
    CASE name = "f" -> <<"2", "0", " ", "x", "\n", "5", " ", "x", "\n", "y">>
      [] name = "g" -> <<"4", "0", " ", "x", "\n">>
      [] OTHER -> Absent]

MCLines == {<<"0", "x">>, <<"5", "x">>, <<"10", "x">>, <<"20", "yyyy">>, <<"5">>,
            <<"D", "20">>, <<"D">>, <<"NEW">>, <<"O", "f">>, <<"O", "g">>,
            <<"O", "none/h">>, <<"O">>, <<"W">>, <<"W", "f">>, <<"W", "g">>, <<"W", "none/h">>,
            <<"LIST">>, <<>>, <<"q">>, <<"q!">>, <<"Q!">>}
=============================================================================
