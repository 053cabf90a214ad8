------------------------------- MODULE Shell -------------------------------
(***************************************************************************)
(* The shell process at the terminal: its reader thread edits a line and   *)
(* runs commands, its second thread prints heartbeats, and another program *)
(* prints lines of its own.                                                *)
(*                                                                         *)
(* The threads share nothing but the UART.  A thread in sys_write has      *)
(* interrupts masked until its last byte is out; between two system calls  *)
(* any thread may run.  What the scheduler and the ticks decide about when *)
(* a thread runs is left open here.                                        *)
(*                                                                         *)
(* Bytes are visible characters and the control characters a terminal      *)
(* obeys; "clear" stands for the escape sequence.  Keys are visible        *)
(* characters, Enter and the two erase keys.                               *)
(***************************************************************************)
EXTENDS Integers, Sequences, FiniteSetsExt

CONSTANTS
  LINE_MAX,       \* 64 in the code
  Visible,        \* visible characters that can be typed, the blank included
  Digits,         \* value of the digits among them
  INT_RANGE,      \* 2^32 in the code: values of an int
  Commands,       \* the words dispatch tries, in order: a sequence of [word, cmd]
  NUM_PROCESSES,
  SHELL_PID, OTHER_PID

ASSUME ShellAssumption ==
  /\ LINE_MAX \in Nat \ {0}
  /\ NUM_PROCESSES \in Nat
  /\ INT_RANGE \in Nat \ {0}
  /\ Digits \in [DOMAIN Digits -> 0 .. 9]
  /\ SHELL_PID # OTHER_PID

\* Keys are no control characters; the words of the table are distinct and
\* hold no blank.
ASSUME TableAssumption ==
  /\ Visible \cap {"nul", "junk", "\r", "\n", "bs", "clear"} = {}
  /\ Commands \in Seq([word : Seq(Visible \ {" ", "\t"}) \ {<< >>}, cmd : STRING])
  /\ \A i, j \in DOMAIN Commands : Commands[i].word = Commands[j].word => i = j

Threads == {"reader", "heart", "other"}

PidOf == [t \in Threads |-> IF t = "other" THEN OTHER_PID ELSE SHELL_PID]

VARIABLES
  line, n,      \* the reader's array and the number of characters in it
  ran,          \* the command dispatched, until its answer is complete
  todo,         \* what each thread is going to do, in order
  writing,      \* threads inside sys_write
  sending,      \* bytes of each thread's write that are still to go
  alive,        \* threads not DEAD
  row, col,     \* the terminal's current line and its cursor
  lastWriter,   \* history: whose byte the terminal received last
  undisturbed   \* history: nobody else wrote since Enter was pressed

shellVars == <<line, n, ran, todo, writing, sending, alive, row, col, lastWriter, undisturbed>>

screen == <<row, col, lastWriter, undisturbed>>

NUL == "nul"
JUNK == "junk"  \* what an uninitialised array holds
Idle == [cmd |-> "idle", arg |-> << >>]
Indices == 0 .. LINE_MAX - 1

\* A message is a sequence of writes.  ulib_printf, ulib_puts and ulib_putc
\* make one write each.
Puts(bytes) == [kind |-> "message", writes |-> <<bytes>>, begun |-> FALSE]

prompt == Puts(<<">">>)

-----------------------------------------------------------------------------
(* The terminal. *)

Blank(k) == [i \in 1 .. k |-> " "]

\* A line feed keeps the column; a backspace stops at the margin.
Shows(scr, c) ==
  CASE c = "\r"    -> [scr EXCEPT !.col = 0]
    [] c = "\n"    -> [scr EXCEPT !.row = Blank(scr.col)]
    [] c = "bs"    -> [scr EXCEPT !.col = IF @ = 0 THEN 0 ELSE @ - 1]
    [] c = "clear" -> [row |-> << >>, col |-> 0]
    [] OTHER       -> [row |-> IF scr.col < Len(scr.row)
                               THEN [scr.row EXCEPT ![scr.col + 1] = c]
                               ELSE Append(scr.row, c),
                       col |-> scr.col + 1]

\* A line feed is preceded by a carriage return.
uart_putc(scr, c) == IF c = "\n" THEN Shows(Shows(scr, "\r"), "\n") ELSE Shows(scr, c)

\* Thread t's bytes have reached the terminal.  Its line is of interest until
\* another thread's bytes mix with the reader's, and again from the next Enter
\* on, which starts a new line.
Terminal(t, scr) ==
  /\ undisturbed' = (undisturbed /\ t = "reader")
  /\ row' = IF undisturbed' THEN scr.row ELSE << >>
  /\ col' = IF undisturbed' THEN scr.col ELSE 0
  /\ lastWriter' = t

Screen == [row |-> row, col |-> col]

-----------------------------------------------------------------------------
(* Parsing. *)

\* The string at the start of the array, as far as its terminator.
CString(arr) ==
  LET ends == {i \in Indices : arr[i] = NUL}
      end  == IF ends = {} THEN LINE_MAX ELSE Min(ends)
  IN [i \in 1 .. end |-> arr[i - 1]]

IsBlank(c) == c \in {" ", "\t"}

skip_spaces(s) ==
  LET solid == {i \in DOMAIN s : ~IsBlank(s[i])}
  IN IF solid = {} THEN << >>
     ELSE SubSeq(s, Min(solid), Len(s))

\* Whether s begins with the word, and what follows it.
Matches(s, word) ==
  /\ Len(word) <= Len(s)
  /\ \A i \in 1 .. Len(word) : s[i] = word[i]
  /\ Len(s) = Len(word) \/ IsBlank(s[Len(word) + 1])

AfterWord(s, word) == skip_spaces(SubSeq(s, Len(word) + 1, Len(s)))

\* The first command of the table that matches.
dispatch(arr) ==
  LET p    == skip_spaces(CString(arr))
      hits == {i \in 1 .. Len(Commands) : Matches(p, Commands[i].word)}
      e    == Commands[Min(hits)]
  IN IF p = << >> THEN [cmd |-> "nothing", arg |-> << >>]
     ELSE IF hits = {} THEN [cmd |-> "unknown", arg |-> << >>]
     ELSE [cmd |-> e.cmd, arg |-> AfterWord(p, e.word)]

\* Digits up to the first character that is none.  The product and the sum
\* wrap; sys_kill takes the result as an unsigned int.
ulib_atoi(s) ==
  LET stops == {i \in DOMAIN s : s[i] \notin DOMAIN Digits}
      len   == IF stops = {} THEN Len(s) ELSE Min(stops) - 1
      v[k \in 0 .. len] == IF k = 0 THEN 0 ELSE (v[k - 1] * 10 + Digits[s[k]]) % INT_RANGE
  IN v[len]

-----------------------------------------------------------------------------
(* Commands. *)

\* Mutant: a missing argument is not noticed.
MutantNoUsage(arg) == <<[kind |-> "kill", pid |-> ulib_atoi(arg)]>>

cmd_kill(arg) ==
  IF arg = << >> THEN <<Puts(<<"?", "\n">>)>>
  ELSE <<[kind |-> "kill", pid |-> ulib_atoi(arg)]>>

\* What a command does.  One character stands for a line of its text.
Script(c) ==
  CASE c.cmd = "nothing" -> << >>
    [] c.cmd = "help"    -> <<Puts(<<"?", "\n", "?", "\n">>)>>
    [] c.cmd = "ps"      -> <<Puts(<<"?", "\n">>)>>
    [] c.cmd = "kill"    -> cmd_kill(c.arg)
    [] c.cmd = "echo"    -> <<Puts(c.arg), Puts(<<"\n">>)>>
    [] c.cmd = "clear"   -> <<Puts(<<"clear">>)>>
    [] c.cmd = "crash"   -> <<Puts(<<"?", "\n">>), [kind |-> "crash"]>>
    [] OTHER             -> <<Puts(<<"?", "\n">>)>>

Init ==
  /\ line = [i \in Indices |-> JUNK]
  /\ n = 0
  /\ ran = Idle
  /\ todo = [t \in Threads |-> IF t = "reader" THEN <<Puts(<<"\n", "?", "\n">>), prompt>> ELSE << >>]
  /\ writing = {}
  /\ sending = [t \in Threads |-> << >>]
  /\ alive = Threads
  /\ row = << >>
  /\ col = 0
  /\ lastWriter = "reader"
  /\ undisturbed = TRUE

-----------------------------------------------------------------------------
(* The reader's sys_read returns a key. *)

\* A thread can run while no other is inside the kernel.
Runs(t) ==
  /\ t \in alive
  /\ writing \subseteq {t}

AwaitsKey ==
  /\ Runs("reader")
  /\ todo["reader"] = << >>

ReaderPuts(messages) == todo' = [todo EXCEPT !["reader"] = messages]

\* Mutant: the line is not terminated before it is parsed.
MutantNoTerminator ==
  /\ AwaitsKey
  /\ line' = line
  /\ ran' = dispatch(line)
  /\ ReaderPuts(<<Puts(<<"\r", "\n">>)>> \o Script(dispatch(line)) \o <<prompt>>)
  /\ n' = 0
  /\ undisturbed' = TRUE
  /\ UNCHANGED <<writing, sending, alive, row, col, lastWriter>>

PressEnter ==
  /\ AwaitsKey
  /\ line' = [line EXCEPT ![n] = NUL]
  /\ ran' = dispatch(line')
  /\ ReaderPuts(<<Puts(<<"\r", "\n">>)>> \o Script(ran') \o <<prompt>>)
  /\ n' = 0
  /\ undisturbed' = TRUE
  /\ UNCHANGED <<writing, sending, alive, row, col, lastWriter>>

PressErase ==
  /\ AwaitsKey
  /\ IF n > 0
     THEN /\ n' = n - 1
          /\ ReaderPuts(<<Puts(<<"bs", " ", "bs">>)>>)
     ELSE UNCHANGED <<n, todo>>
  /\ UNCHANGED <<line, ran, writing, sending, alive, screen>>

\* Mutant: the test leaves no room for the terminator.
MutantFillsLine(c) ==
  /\ AwaitsKey
  /\ IF n < LINE_MAX
     THEN /\ line' = [line EXCEPT ![n] = c]
          /\ n' = n + 1
          /\ ReaderPuts(<<Puts(<<c>>)>>)
     ELSE UNCHANGED <<line, n, todo>>
  /\ UNCHANGED <<ran, writing, sending, alive, screen>>

\* Mutant: a key that is dropped is echoed all the same.
MutantEchoesDropped(c) ==
  /\ AwaitsKey
  /\ IF n + 1 < LINE_MAX
     THEN /\ line' = [line EXCEPT ![n] = c]
          /\ n' = n + 1
     ELSE UNCHANGED <<line, n>>
  /\ ReaderPuts(<<Puts(<<c>>)>>)
  /\ UNCHANGED <<ran, writing, sending, alive, screen>>

\* A key past the end of the array is dropped, and not echoed.
PressVisible(c) ==
  /\ AwaitsKey
  /\ IF n + 1 < LINE_MAX
     THEN /\ line' = [line EXCEPT ![n] = c]
          /\ n' = n + 1
          /\ ReaderPuts(<<Puts(<<c>>)>>)
     ELSE UNCHANGED <<line, n, todo>>
  /\ UNCHANGED <<ran, writing, sending, alive, screen>>

-----------------------------------------------------------------------------
(* System calls. *)

Starting(t, kind) ==
  /\ Runs(t)
  /\ t \notin writing
  /\ todo[t] # << >>
  /\ Head(todo[t]).kind = kind

\* The thread has done the first thing of rest; a reader with nothing left to
\* do has answered its command.
GoesOn(t, rest) ==
  /\ todo' = [todo EXCEPT ![t] = rest]
  /\ ran' = IF t = "reader" /\ rest = << >> THEN Idle ELSE ran

WriteStarts(t) ==
  /\ Starting(t, "message")
  /\ writing' = writing \cup {t}
  /\ sending' = [sending EXCEPT ![t] = Head(Head(todo[t]).writes)]
  /\ UNCHANGED <<line, n, ran, todo, alive, screen>>

\* The chip's putc waits for room in its transmit FIFO; the byte goes out.
WriteByte(t) ==
  /\ Runs(t)
  /\ t \in writing
  /\ sending[t] # << >>
  /\ sending' = [sending EXCEPT ![t] = Tail(@)]
  /\ todo' = [todo EXCEPT ![t][1].begun = TRUE]
  /\ Terminal(t, uart_putc(Screen, Head(sending[t])))
  /\ UNCHANGED <<line, n, ran, writing, alive>>

\* Mutant: a write that returns 0 is tried again.
MutantRetriesShortWrite(t) ==
  /\ Runs(t)
  /\ t \in writing
  /\ sending[t] = << >>
  /\ writing' = writing \ {t}
  /\ IF Head(Head(todo[t]).writes) = << >>
     THEN UNCHANGED <<todo, ran>>
     ELSE GoesOn(t, Tail(todo[t]))
  /\ UNCHANGED <<line, n, sending, alive, screen>>

WriteReturns(t) ==
  /\ Runs(t)
  /\ t \in writing
  /\ sending[t] = << >>
  /\ writing' = writing \ {t}
  /\ LET left == Tail(Head(todo[t]).writes)
     IN GoesOn(t, IF left = << >> THEN Tail(todo[t])
                  ELSE [todo[t] EXCEPT ![1].writes = left])
  /\ UNCHANGED <<line, n, sending, alive, screen>>

\* Every thread of the process is DEAD; a dead thread has nothing to do.  (What
\* happens when nobody else is runnable is module Kernel's.)
Retire(pid) ==
  LET dead == {t \in alive : PidOf[t] = pid}
  IN /\ alive' = alive \ dead
     /\ todo' = [t \in Threads |-> IF t \in dead THEN << >>
                                   ELSE IF t = "reader" THEN Tail(todo[t]) ELSE todo[t]]
     /\ ran' = IF "reader" \in dead THEN Idle ELSE ran

\* A line the kernel prints on the reader's behalf.
KernelLine(scr) == uart_putc(uart_putc(scr, "!"), "\n")

\* sys_kill and the shell's answer to its result.
Kill ==
  /\ Starting("reader", "kill")
  /\ LET pid == Head(todo["reader"]).pid
     IN IF pid >= NUM_PROCESSES
        THEN /\ ReaderPuts(<<Puts(<<"?", "\n">>)>> \o Tail(todo["reader"]))
             /\ UNCHANGED <<ran, alive, screen>>
        ELSE IF \A t \in alive : PidOf[t] # pid
        THEN /\ ReaderPuts(Tail(todo["reader"]))
             /\ UNCHANGED <<ran, alive, screen>>
        ELSE Retire(pid) /\ Terminal("reader", KernelLine(Screen))
  /\ UNCHANGED <<line, n, writing, sending>>

\* The store through NULL faults, and the kernel retires the process.
Crash ==
  /\ Starting("reader", "crash")
  /\ Retire(SHELL_PID)
  /\ Terminal("reader", KernelLine(KernelLine(Screen)))
  /\ UNCHANGED <<line, n, writing, sending>>

-----------------------------------------------------------------------------
(* The threads that only print. *)

\* Mutant: the heartbeat is put together from two writes.
MutantHeartbeatInPieces ==
  [kind |-> "message", writes |-> <<<<"\r", "\n", "H">>, <<"\r", "\n", ">">>>>, begun |-> FALSE]

\* Newline, message and a fresh prompt in one write.
Heartbeat == Puts(<<"\r", "\n", "H", "\r", "\n", ">">>)

\* ulib_delay_ticks is over.
HeartbeatDue ==
  /\ Runs("heart")
  /\ todo["heart"] = << >>
  /\ todo' = [todo EXCEPT !["heart"] = <<Heartbeat>>]
  /\ UNCHANGED <<line, n, ran, writing, sending, alive, screen>>

\* A line of another program, counter's for one.
LineDue ==
  /\ Runs("other")
  /\ todo["other"] = << >>
  /\ todo' = [todo EXCEPT !["other"] = <<Puts(<<"O", "\n">>)>>]
  /\ UNCHANGED <<line, n, ran, writing, sending, alive, screen>>

Act(t) ==
  \/ WriteStarts(t)
  \/ WriteByte(t)
  \/ WriteReturns(t)
  \/ t = "reader" /\ (Kill \/ Crash)

\* No program is left.
Over == alive = {} /\ UNCHANGED shellVars

Next ==
  \/ PressEnter
  \/ PressErase
  \/ \E c \in Visible : PressVisible(c)
  \/ \E t \in Threads : Act(t)
  \/ HeartbeatDue
  \/ LineDue
  \/ Over

\* The scheduler lets every thread run again and again.
Fairness == \A t \in Threads : SF_shellVars(Act(t))

Spec == Init /\ [][Next]_shellVars /\ Fairness
-----------------------------------------------------------------------------
Typed == [i \in 1 .. n |-> line[i - 1]]

\* The line and its terminator stay inside the array, whatever is typed and
\* erased.
LineFits == n \in Indices

\* Nothing comes between the bytes of one write: a heartbeat, the text of an echo
\* or a line of another program is on the terminal whole.  Between two writes
\* (echo's text and its line feed, an answer and the next prompt) another thread's
\* message may come.
MessagesWhole ==
  \A t \in alive :
    todo[t] # << >> /\ Head(todo[t]).kind = "message" /\ Head(todo[t]).begun => lastWriter = t

\* While nobody else writes, the terminal shows the prompt and exactly the
\* characters that Enter would run, with the cursor behind them.
ScreenShowsLine ==
  AwaitsKey /\ undisturbed =>
    /\ SubSeq(row, 1, col) = <<">">> \o Typed
    /\ \A i \in col + 1 .. Len(row) : row[i] = " "

Editor == INSTANCE LineEditor
  WITH CAPACITY <- LINE_MAX - 1, Chars <- Visible, Blanks <- {" ", "\t"},
       Table <- Range(Commands), text <- Typed, ran <- ran

\* The array, its stale bytes and the C string functions amount to a line that
\* is typed, erased and run by its first word.
ImplementsLineEditor == Editor!Spec

\* The number the leading digits of s denote.
LeadingNumber(s) ==
  LET len == CHOOSE k \in 0 .. Len(s) :
               /\ \A i \in 1 .. k : s[i] \in DOMAIN Digits
               /\ k < Len(s) => s[k + 1] \notin DOMAIN Digits
      power[i \in 0 .. len] == IF i = 0 THEN 1 ELSE power[i - 1] * 10
      sum[i \in 0 .. len] == IF i = 0 THEN 0 ELSE sum[i - 1] + Digits[s[i]] * power[len - i]
  IN sum[len]

\* A process dies whole, and only by the command that names it: crash for the
\* shell itself, kill for the process whose number was typed, as far as an int
\* can hold it.  An argument that does not begin with a digit counts as 0, as
\* ulib_atoi reads it, so that such a kill names process 0; without an argument
\* nothing dies.
DeathsAreOrdered ==
  [][alive' # alive =>
       \E pid \in {SHELL_PID, OTHER_PID} :
         /\ alive \ alive' = {t \in alive : PidOf[t] = pid}
         /\ \/ ran.cmd = "crash" /\ pid = SHELL_PID
            \/ ran.cmd = "kill" /\ ran.arg # << >> /\ pid = LeadingNumber(ran.arg) % INT_RANGE]_shellVars

\* The shell comes back to its prompt after every key and every command, unless
\* the command was its end.
PromptReturns == todo["reader"] # << >> ~> todo["reader"] = << >>

=============================================================================
