--------------------------- MODULE MCUserProgram ---------------------------
(***************************************************************************)
(* UserProgram with seven-bit words: three decimal digits, four two-bit    *)
(* nibbles, a window of 42 bytes in the middle of the address space.       *)
(***************************************************************************)
EXTENDS UserProgram, SequencesExt

\* Both sides of each end of the window and of the address space.
SomeBuffers == {0, 31, 32, 33, 50, 73, 74, 75, 120, 127}

\* Up to more than the window, and enough to wrap from each buffer.
SomeLengths == 0 .. 44 \cup {53, 54, 55, 95, 96, 127}

SomeNumbers == {0, 1, 2, 3, 4, 7, 8, 9, 10, 63, 64, 65, 99, 100, 126, 127}

\* Every format of up to three characters, and the kernel's longer ones.
SomeFormats ==
  BoundedSeq({"%", "u", "x", "s", "a"}, 3)
    \cup {<<"%", "d">>, <<"%", "p">>, <<"%", "c">>, <<"%", "-", "3", "s">>, <<"%", "0", "8", "x">>, <<"%", "u", "a", "%", "x">>}

SomeStrings == {<< >>, <<"h", "i">>}

\* One name fills its column and one does not.
TwoNames == <<<<"p">>, <<"q", "q">>>>

\* A reader asleep, a process gone, a thread gone.
SomeSnapshots ==
  {<<"RUNNING", "READY", "READY", "READY">>, <<"READY", "RUNNING", "BLOCKED", "DEAD">>,
   <<"DEAD", "DEAD", "RUNNING", "BLOCKED">>, <<"BLOCKED", "DEAD", "READY", "RUNNING">>}

ByTid == {[t \in Tids |-> s[t + 1]] : s \in SomeSnapshots}

=============================================================================
