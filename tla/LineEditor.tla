----------------------------- MODULE LineEditor -----------------------------
(***************************************************************************)
(* What the shell promises a user at the keyboard: a line that can be      *)
(* typed and erased, and a command that is run as it stands when Enter is  *)
(* pressed.                                                                *)
(***************************************************************************)
EXTENDS Integers, Sequences, FiniteSetsExt

CONSTANTS
  CAPACITY,  \* characters a line can hold
  Chars,     \* characters that can be typed
  Blanks,    \* those that separate words
  Table      \* the commands: a set of [word, cmd]

VARIABLES
  text,  \* the line so far
  ran    \* the command being run, or Idle

Idle == [cmd |-> "idle", arg |-> << >>]

\* The line split into its first word and the rest without leading blanks.
Words(s) ==
  LET solid == {i \in DOMAIN s : s[i] \notin Blanks}
      first == Min(solid)
      stop  == Min({i \in DOMAIN s : i > first /\ s[i] \in Blanks} \cup {Len(s) + 1})
      more  == {i \in solid : i > stop}
  IN [word |-> IF solid = {} THEN << >> ELSE SubSeq(s, first, stop - 1),
      arg  |-> IF solid = {} \/ more = {} THEN << >> ELSE SubSeq(s, Min(more), Len(s))]

\* The command whose word is the line's first.
Interpret(s) ==
  LET w == Words(s)
      known == {e \in Table : e.word = w.word}
  IN IF w.word = << >> THEN [cmd |-> "nothing", arg |-> << >>]
     ELSE IF known = {} THEN [cmd |-> "unknown", arg |-> << >>]
     ELSE [cmd |-> (CHOOSE e \in known : TRUE).cmd, arg |-> w.arg]

Init ==
  /\ text = << >>
  /\ ran = Idle

\* A full line ignores the key.
Type(c) ==
  /\ ran = Idle
  /\ text' = IF Len(text) < CAPACITY THEN Append(text, c) ELSE text
  /\ UNCHANGED ran

Erase ==
  /\ ran = Idle
  /\ text # << >>
  /\ text' = SubSeq(text, 1, Len(text) - 1)
  /\ UNCHANGED ran

Enter ==
  /\ ran = Idle
  /\ ran' = Interpret(text)
  /\ text' = << >>

\* The command has been answered, or has ended the shell.
Done ==
  /\ ran' = Idle
  /\ UNCHANGED text

Next == (\E c \in Chars : Type(c)) \/ Erase \/ Enter \/ Done

Spec == Init /\ [][Next]_<<text, ran>>

=============================================================================
