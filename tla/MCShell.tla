------------------------------ MODULE MCShell ------------------------------
(***************************************************************************)
(* Shell with words of one and two letters, some the beginning of others.  *)
(***************************************************************************)
EXTENDS Shell

Words ==
  <<[word |-> <<"3", "3">>, cmd |-> "help"],
    [word |-> <<"9">>,      cmd |-> "ps"],
    [word |-> <<"k">>,      cmd |-> "kill"],
    [word |-> <<"3">>,      cmd |-> "echo"],
    [word |-> <<"9", "9">>, cmd |-> "clear"],
    [word |-> <<"k", "k">>, cmd |-> "crash"]>>

Keys == {"k", "3", "9", " "}

Values == [d \in {"3", "9"} |-> IF d = "3" THEN 3 ELSE 9]

=============================================================================
