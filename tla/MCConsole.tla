----------------------------- MODULE MCConsole -----------------------------
(* p reads and q prints.  The scripts type a line, correct it, fill the       *)
(* buffer, end the input with the right control key and d, and press and      *)
(* release both control keys in turn.                                         *)
EXTENDS Console

Uart(ch) == <<"uart", ch>>
Key(k) == <<"kbd", k>>

MCScripts == {<<Uart("a"), Uart("a"), Uart("bs"), Uart("cr")>>,
              <<Uart("a"), Uart("^U"), Uart("^P"), Uart("cr")>>,
              <<Uart("a"), Key("rctl"), Key("d"), Key("rctl")>>,
              <<Key("ctl"), Key("rctl"), Key("ctl"), Key("rctl")>>}

MCCalls == [x \in {"p", "q"} |-> IF x = "p" THEN <<"read", 2>>
                                ELSE <<"write", 2>>]
=============================================================================
