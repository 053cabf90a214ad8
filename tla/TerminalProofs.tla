--------------------------- MODULE TerminalProofs ---------------------------
(***************************************************************************)
(* What the terminal shows, byte by byte of every write: while nobody else *)
(* writes, the prompt and the line that Enter would run, for any line      *)
(* length, keys, command table and pids.                                   *)
(***************************************************************************)
EXTENDS ShellProofs

\* Every byte a program can hand to the terminal, and those it obeys.
Bytes == Visible \cup {NUL, JUNK, " ", ">", "?", "H", "O", "!", "\r", "\n", "bs", "clear"}

Controls == {"\r", "\n", "bs", "clear"}

\* An argument is made of bytes.
LEMMA ArgBytes ==
  ASSUME NEW arr \in Arrays
  PROVE  dispatch(arr).arg \in Seq(Bytes)
<1> DEFINE S == Visible \cup {NUL, JUNK}
<1>1. S \subseteq Bytes
  BY Zenon DEF Bytes
<1>2. dispatch(arr).arg \in Seq(S)
  BY ArgType
<1> HIDE DEF S
<1> QED  BY <1>1, <1>2, SeqMonotonic

\* Everything the programs write is made of bytes.
LEMMA TextType == \A b \in Texts : b \in Seq(Bytes)
<1> TAKE b \in Texts
<1>1. CASE b \in {dispatch(a).arg : a \in Arrays}
  BY <1>1, ArgBytes
<1>2. CASE b \in {<<c>> : c \in Visible}
  <2>1. Visible \subseteq Bytes
    BY Zenon DEF Bytes
  <2>2. \A c \in Bytes : <<c>> \in Seq(Bytes)
    OBVIOUS
  <2> QED  BY <1>2, <2>1, <2>2
<1>3. CASE b \in {<<">">>, <<"\r", "\n">>, <<"\n", "?", "\n">>, <<"?", "\n">>, <<"?", "\n", "?", "\n">>,
                  <<"\n">>, <<"clear">>, <<"bs", " ", "bs">>, <<"O", "\n">>,
                  <<"\r", "\n", "H", "\r", "\n", ">">>}
  <2>1. /\ ">" \in Bytes /\ "\r" \in Bytes /\ "\n" \in Bytes /\ "?" \in Bytes /\ "clear" \in Bytes
        /\ "bs" \in Bytes /\ " " \in Bytes /\ "O" \in Bytes /\ "H" \in Bytes
    BY DEF Bytes
  <2>2. /\ \A u \in Bytes : <<u>> \in Seq(Bytes)
        /\ \A u, v \in Bytes : <<u, v>> \in Seq(Bytes)
        /\ \A u, v, w \in Bytes : <<u, v, w>> \in Seq(Bytes)
        /\ \A u, v, w, x \in Bytes : <<u, v, w, x>> \in Seq(Bytes)
        /\ \A u, v, w, x, y, z \in Bytes : <<u, v, w, x, y, z>> \in Seq(Bytes)
    OBVIOUS
  <2>3. /\ <<">">> \in Seq(Bytes) /\ <<"\n">> \in Seq(Bytes) /\ <<"clear">> \in Seq(Bytes)
        /\ <<"\r", "\n">> \in Seq(Bytes) /\ <<"?", "\n">> \in Seq(Bytes) /\ <<"O", "\n">> \in Seq(Bytes)
        /\ <<"\n", "?", "\n">> \in Seq(Bytes) /\ <<"bs", " ", "bs">> \in Seq(Bytes)
    BY <2>1, <2>2, Zenon
  <2>4. /\ <<"?", "\n", "?", "\n">> \in Seq(Bytes)
        /\ <<"\r", "\n", "H", "\r", "\n", ">">> \in Seq(Bytes)
    BY <2>1, <2>2, Zenon
  <2> QED  BY <1>3, <2>3, <2>4, Zenon
<1> QED  BY <1>1, <1>2, <1>3, Zenon DEF Texts

\* A character put into a row at the cursor.
Put(r, k, c) == IF k < Len(r) THEN [r EXCEPT ![k + 1] = c] ELSE Append(r, c)

\* Only the place at the cursor changes.
LEMMA PutFacts ==
  ASSUME NEW r \in Seq(Bytes), NEW k \in 0 .. Len(r), NEW c \in Bytes
  PROVE  /\ Put(r, k, c) \in Seq(Bytes)
         /\ Len(Put(r, k, c)) = IF k < Len(r) THEN Len(r) ELSE Len(r) + 1
         /\ k + 1 \in 1 .. Len(Put(r, k, c))
         /\ Put(r, k, c)[k + 1] = c
         /\ \A i \in 1 .. Len(r) : i # k + 1 => Put(r, k, c)[i] = r[i]
<1>1. CASE k < Len(r)
  <2> DEFINE q == [r EXCEPT ![k + 1] = c]
  <2>1. k + 1 \in 1 .. Len(r)
    BY <1>1
  <2>2. /\ q \in Seq(Bytes) /\ Len(q) = Len(r) /\ q[k + 1] = c
        /\ \A i \in 1 .. Len(r) : i # k + 1 => q[i] = r[i]
    BY <2>1
  <2>3. Put(r, k, c) = q
    BY <1>1 DEF Put
  <2> HIDE DEF q
  <2> QED  BY <1>1, <2>1, <2>2, <2>3
<1>2. CASE ~(k < Len(r))
  <2> DEFINE q == Append(r, c)
  <2>1. k = Len(r)
    BY <1>2
  <2>2. /\ q \in Seq(Bytes) /\ Len(q) = Len(r) + 1 /\ q[Len(r) + 1] = c
        /\ \A i \in 1 .. Len(r) : q[i] = r[i]
    BY AppendProperties
  <2>3. Put(r, k, c) = q
    BY <1>2 DEF Put
  <2> HIDE DEF q
  <2> QED  BY <1>2, <2>1, <2>2, <2>3
<1> QED  BY <1>1, <1>2

\* Two bytes leave an empty row.
LEMMA PutcCleans ==
  ASSUME NEW r, NEW k \in Nat
  PROVE  /\ uart_putc([row |-> r, col |-> k], "\n") = [row |-> << >>, col |-> 0]
         /\ uart_putc([row |-> r, col |-> k], "clear") = [row |-> << >>, col |-> 0]
<1> DEFINE scr == [row |-> r, col |-> k]
<1>1. Shows(scr, "\r") = [row |-> r, col |-> 0]
  BY DEF Shows
<1>2. Blank(0) = << >>
  BY DEF Blank
<1>3. Shows([row |-> r, col |-> 0], "\n") = [row |-> Blank(0), col |-> 0]
  BY DEF Shows
<1>4. Shows(scr, "clear") = [row |-> << >>, col |-> 0]
  BY DEF Shows
<1> HIDE DEF scr
<1>5. /\ uart_putc(scr, "\n") = Shows(Shows(scr, "\r"), "\n")
      /\ uart_putc(scr, "clear") = Shows(scr, "clear")
  BY DEF uart_putc
<1> QED  BY <1>1, <1>2, <1>3, <1>4, <1>5 DEF scr

\* What uart_putc makes of the screen, byte by byte.
LEMMA Putc ==
  ASSUME NEW r, NEW k \in Nat, NEW c
  PROVE  /\ c = "\n" => uart_putc([row |-> r, col |-> k], c) = [row |-> << >>, col |-> 0]
         /\ c = "clear" => uart_putc([row |-> r, col |-> k], c) = [row |-> << >>, col |-> 0]
         /\ c = "\r" => uart_putc([row |-> r, col |-> k], c) = [row |-> r, col |-> 0]
         /\ c = "bs" => uart_putc([row |-> r, col |-> k], c) = [row |-> r, col |-> IF k = 0 THEN 0 ELSE k - 1]
         /\ c \notin Controls => uart_putc([row |-> r, col |-> k], c) = [row |-> Put(r, k, c), col |-> k + 1]
<1> DEFINE scr == [row |-> r, col |-> k]
<1>1. /\ scr.row = r /\ scr.col = k
      /\ [scr EXCEPT !.col = 0] = [row |-> r, col |-> 0]
      /\ [scr EXCEPT !.col = IF k = 0 THEN 0 ELSE k - 1] = [row |-> r, col |-> IF k = 0 THEN 0 ELSE k - 1]
  OBVIOUS
<1>2. c = "\r" => Shows(scr, c) = [row |-> r, col |-> 0]
  BY <1>1 DEF Shows
<1>3. c = "bs" => Shows(scr, c) = [row |-> r, col |-> IF k = 0 THEN 0 ELSE k - 1]
  BY <1>1 DEF Shows
<1>4. c \notin Controls => Shows(scr, c) = [row |-> Put(r, k, c), col |-> k + 1]
  BY <1>1 DEF Shows, Put, Controls
<1>5. c = "\n" \/ c = "clear" => uart_putc(scr, c) = [row |-> << >>, col |-> 0]
  BY PutcCleans
<1> HIDE DEF scr
<1>6. c # "\n" => uart_putc(scr, c) = Shows(scr, c)
  BY DEF uart_putc
<1>7. c = "\r" => uart_putc(scr, c) = [row |-> r, col |-> 0]
  BY <1>2, <1>6
<1>8. c = "bs" => uart_putc(scr, c) = [row |-> r, col |-> IF k = 0 THEN 0 ELSE k - 1]
  BY <1>3, <1>6
<1>9. c \notin Controls => uart_putc(scr, c) = [row |-> Put(r, k, c), col |-> k + 1]
  BY <1>4, <1>6 DEF Controls
<1> QED  BY <1>5, <1>7, <1>8, <1>9 DEF scr

\* The cursor stays inside the row or right behind it.
LEMMA PutcType ==
  ASSUME NEW r \in Seq(Bytes), NEW k \in 0 .. Len(r), NEW c \in Bytes
  PROVE  \E q \in Seq(Bytes) : \E l \in 0 .. Len(q) :
           uart_putc([row |-> r, col |-> k], c) = [row |-> q, col |-> l]
<1>0. k \in Nat /\ Len(r) \in Nat
  BY LenProperties
<1>1. CASE c = "\n" \/ c = "clear"
  <2>1. << >> \in Seq(Bytes) /\ 0 \in 0 .. Len(<< >>)
    OBVIOUS
  <2>2. uart_putc([row |-> r, col |-> k], c) = [row |-> << >>, col |-> 0]
    BY <1>0, <1>1, PutcCleans
  <2> QED  BY <2>1, <2>2, Zenon
<1>2. CASE c = "\r"
  <2>1. 0 \in 0 .. Len(r)
    BY <1>0
  <2>2. uart_putc([row |-> r, col |-> k], c) = [row |-> r, col |-> 0]
    BY <1>0, <1>2, Putc, Zenon
  <2> QED  BY <2>1, <2>2, Zenon
<1>3. CASE c = "bs"
  <2> DEFINE l == IF k = 0 THEN 0 ELSE k - 1
  <2>1. l \in 0 .. Len(r)
    BY <1>0
  <2>2. uart_putc([row |-> r, col |-> k], c) = [row |-> r, col |-> l]
    BY <1>0, <1>3, Putc, Zenon
  <2> HIDE DEF l
  <2> QED  BY <2>1, <2>2, Zenon
<1>4. CASE c \notin Controls
  <2> DEFINE q == Put(r, k, c)
  <2>1. q \in Seq(Bytes) /\ k + 1 \in 0 .. Len(q)
    <3>1. q \in Seq(Bytes) /\ k + 1 \in 1 .. Len(q)
      BY PutFacts
    <3> QED  BY <3>1
  <2>2. uart_putc([row |-> r, col |-> k], c) = [row |-> q, col |-> k + 1]
    BY <1>0, <1>4, Putc, Zenon
  <2> HIDE DEF q
  <2> QED  BY <2>1, <2>2, Zenon
<1> QED  BY <1>1, <1>2, <1>3, <1>4, Zenon DEF Controls

\* A line of the kernel's ends at the margin of an empty row.
LEMMA KernelLineCleans ==
  ASSUME NEW r \in Seq(Bytes), NEW k \in 0 .. Len(r)
  PROVE  KernelLine([row |-> r, col |-> k]) = [row |-> << >>, col |-> 0]
<1>1. "!" \in Bytes
  BY Zenon DEF Bytes
<1>2. PICK q \in Seq(Bytes) : \E l \in 0 .. Len(q) :
        uart_putc([row |-> r, col |-> k], "!") = [row |-> q, col |-> l]
  BY <1>1, PutcType, Zenon
<1>3. PICK l \in 0 .. Len(q) : uart_putc([row |-> r, col |-> k], "!") = [row |-> q, col |-> l]
  BY <1>2
<1>4. l \in Nat
  BY <1>3, LenProperties
<1>5. uart_putc([row |-> q, col |-> l], "\n") = [row |-> << >>, col |-> 0]
  BY <1>4, PutcCleans, Zenon
<1> QED  BY <1>3, <1>5 DEF KernelLine

\* A row with the prompt and the first k characters of an array, blank beyond
\* the m-th.
Display(r, a, k, m) ==
  /\ m < Len(r)
  /\ r[1] = ">"
  /\ \A i \in 1 .. k : r[i + 1] = a[i - 1]
  /\ \A i \in m + 2 .. Len(r) : r[i] = " "

\* The row after a prompt, after the next character, after a blank over the
\* last one.
LEMMA DisplayPrompt ==
  ASSUME NEW a
  PROVE  Display(Put(<< >>, 0, ">"), a, 0, 0)
<1>1. Put(<< >>, 0, ">") = <<">">>
  BY DEF Put
<1>2. Len(<<">">>) = 1 /\ <<">">>[1] = ">"
  OBVIOUS
<1>3. 0 < 1 /\ (\A i \in 1 .. 0 : FALSE) /\ (\A i \in 0 + 2 .. 1 : FALSE)
  OBVIOUS
<1> HIDE DEF Display
<1> QED  BY <1>1, <1>2, <1>3, Zenon DEF Display

\* A character behind the line extends what is shown.
LEMMA DisplayTyped ==
  ASSUME NEW r \in Seq(Bytes), NEW a, NEW k \in Nat, a[k] \in Bytes, Display(r, a, k, k)
  PROVE  Display(Put(r, k + 1, a[k]), a, k + 1, k + 1)
<1> DEFINE q == Put(r, k + 1, a[k])
<1>0. /\ k < Len(r) /\ r[1] = ">"
      /\ \A i \in 1 .. k : r[i + 1] = a[i - 1]
      /\ \A i \in k + 2 .. Len(r) : r[i] = " "
  BY Zenon DEF Display
<1>1. Len(r) \in Nat /\ k + 1 \in 0 .. Len(r)
  <2>1. Len(r) \in Nat /\ k < Len(r)
    BY <1>0, LenProperties, Zenon
  <2> QED  BY <2>1
<1>2. /\ Len(q) = IF k + 1 < Len(r) THEN Len(r) ELSE Len(r) + 1
      /\ q[(k + 1) + 1] = a[k]
      /\ \A i \in 1 .. Len(r) : i # (k + 1) + 1 => q[i] = r[i]
  <2> DEFINE j == k + 1
  <2>1. j \in 0 .. Len(r)
    BY <1>1
  <2> HIDE DEF j
  <2>2. /\ Len(Put(r, j, a[k])) = IF j < Len(r) THEN Len(r) ELSE Len(r) + 1
        /\ Put(r, j, a[k])[j + 1] = a[k]
        /\ \A i \in 1 .. Len(r) : i # j + 1 => Put(r, j, a[k])[i] = r[i]
    BY <2>1, PutFacts, ZenonT(40)
  <2> QED  BY <2>2 DEF j
<1> HIDE DEF q
<1>3. k + 1 < Len(q) /\ q[1] = ">"
  <2>1. 1 \in 1 .. Len(r) /\ 1 # (k + 1) + 1
    BY <1>1
  <2>2. q[1] = ">"
    BY <1>0, <1>2, <2>1, Zenon
  <2>3. k + 1 < Len(q)
    BY <1>1, <1>2
  <2> QED  BY <2>2, <2>3
<1>4. ASSUME NEW i \in 1 .. k + 1
      PROVE  q[i + 1] = a[i - 1]
  <2>1. CASE i = k + 1
    <3>1. i - 1 = k
      BY <2>1
    <3> QED  BY <1>2, <2>1, <3>1
  <2>2. CASE i # k + 1
    <3>1. i \in 1 .. k /\ i + 1 \in 1 .. Len(r) /\ i + 1 # (k + 1) + 1
      BY <1>1, <2>2
    <3> QED  BY <1>0, <1>2, <3>1, Zenon
  <2> QED  BY <2>1, <2>2
<1>5. ASSUME NEW i \in (k + 1) + 2 .. Len(q)
      PROVE  q[i] = " "
  <2>1. i \in 1 .. Len(r) /\ i # (k + 1) + 1 /\ i \in k + 2 .. Len(r)
    BY <1>1, <1>2
  <2> QED  BY <1>0, <1>2, <2>1, Zenon
<1> QED  BY <1>3, <1>4, <1>5, Zenon DEF Display, q

\* A blank over the character behind the line removes it from what is shown.
LEMMA DisplayBlanked ==
  ASSUME NEW r \in Seq(Bytes), NEW a, NEW k \in Nat, Display(r, a, k, k + 1)
  PROVE  Display(Put(r, k + 1, " "), a, k, k)
<1> DEFINE q == Put(r, k + 1, " ")
<1> DEFINE j == k + 1
<1>0. /\ j < Len(r) /\ r[1] = ">"
      /\ \A i \in 1 .. k : r[i + 1] = a[i - 1]
      /\ \A i \in j + 2 .. Len(r) : r[i] = " "
  BY Zenon DEF Display
<1>1. Len(r) \in Nat /\ j \in Nat /\ j < Len(r) /\ j = k + 1
  <2>1. Len(r) \in Nat
    BY LenProperties
  <2>2. j \in Nat /\ j = k + 1
    OBVIOUS
  <2> QED  BY <1>0, <2>1, <2>2, Zenon
<1>2. /\ Len(q) = Len(r) /\ q[j + 1] = " "
      /\ \A i \in 1 .. Len(r) : i # j + 1 => q[i] = r[i]
  <2>1. q = Put(r, j, " ")
    OBVIOUS
  <2> HIDE DEF j, q
  <2>2. j \in 0 .. Len(r)
    BY <1>1
  <2>3. " " \in Bytes
    BY Zenon DEF Bytes
  <2>4. /\ Len(Put(r, j, " ")) = IF j < Len(r) THEN Len(r) ELSE Len(r) + 1
        /\ Put(r, j, " ")[j + 1] = " "
        /\ \A i \in 1 .. Len(r) : i # j + 1 => Put(r, j, " ")[i] = r[i]
    BY <2>2, <2>3, PutFacts, Zenon
  <2>5. j < Len(r)
    BY <1>1
  <2> QED  BY <2>1, <2>4, <2>5, Zenon
<1> HIDE DEF q, j
<1>3. k < Len(q) /\ q[1] = ">"
  <2>1. 1 \in 1 .. Len(r) /\ 1 # j + 1
    BY <1>1
  <2>2. q[1] = ">"
    BY <1>0, <1>2, <2>1, Zenon
  <2>3. k < Len(q)
    <3>1. k < Len(r)
      BY <1>1
    <3> QED  BY <1>2, <3>1, Zenon
  <2> QED  BY <2>2, <2>3
<1>4. ASSUME NEW i \in 1 .. k
      PROVE  q[i + 1] = a[i - 1]
  <2>1. i + 1 \in 1 .. Len(r) /\ i + 1 # j + 1
    BY <1>1
  <2> QED  BY <1>0, <1>2, <2>1, Zenon
<1>5. ASSUME NEW i \in k + 2 .. Len(q)
      PROVE  q[i] = " "
  <2>1. CASE i = j + 1
    BY <1>2, <2>1, Zenon
  <2>2. CASE i # j + 1
    <3>1. i \in k + 2 .. Len(r)
      BY <1>2, Zenon
    <3>2. i \in 1 .. Len(r) /\ i \in j + 2 .. Len(r)
      BY <1>1, <2>2, <3>1
    <3> QED  BY <1>0, <1>2, <2>2, <3>2, Zenon
  <2> QED  BY <2>1, <2>2, Zenon
<1> QED  BY <1>3, <1>4, <1>5, Zenon DEF Display, q

\* What the reader has to do, and what is left of its first message.
Plan == todo["reader"]

Text == Plan[1].writes[1]

Pending == IF "reader" \in writing THEN sending["reader"] ELSE Text

Clean == row = << >> /\ col = 0

\* Steps that want an empty row, and steps that leave one behind.
Wants(s) == s.kind = "kill" \/ (s.kind = "message" /\ s.writes[1] = <<">">>)

Leaves(s) ==
  s.kind = "message" => s.writes[1] # << >> /\ s.writes[1][Len(s.writes[1])] \in {"\n", "clear"}

Orderly(s) == \A i \in 2 .. Len(s) : Wants(s[i]) => Leaves(s[i - 1])

\* Waiting for a key.
Waiting == Plan = << >> /\ col = n + 1 /\ Display(row, line, n, n)

\* The last character of the line is being echoed.
Echoing ==
  /\ Len(Plan) = 1 /\ Plan[1].kind = "message"
  /\ n > 0 /\ Text = <<line[n - 1]>>
  /\ Pending # << >> => col = n /\ Display(row, line, n - 1, n - 1)
  /\ Pending = << >> => col = n + 1 /\ Display(row, line, n, n)

\* The character behind the line is being erased: back, blank, back.
Erasing ==
  /\ Len(Plan) = 1 /\ Plan[1].kind = "message"
  /\ Text = <<"bs", " ", "bs">>
  /\ Len(Pending) = 3 => col = n + 2 /\ Display(row, line, n, n + 1)
  /\ Len(Pending) = 2 => col = n + 1 /\ Display(row, line, n, n + 1)
  /\ Len(Pending) = 1 => col = n + 2 /\ Display(row, line, n, n)
  /\ Len(Pending) = 0 => col = n + 1 /\ Display(row, line, n, n)

\* A command is being answered, and a prompt comes last.
Answering ==
  /\ n = 0 /\ Plan # << >>
  /\ Plan[Len(Plan)].kind = "message" /\ Plan[Len(Plan)].writes[1] = <<">">>
  /\ Orderly(Plan)
  /\ Plan[1].kind = "kill" => Clean
  /\ Plan[1].kind = "message" =>
       /\ Wants(Plan[1]) /\ Pending = Text => Clean
       /\ Leaves(Plan[1]) /\ Pending = << >> => Clean
       /\ Len(Plan) = 1 /\ Pending = << >> => col = 1 /\ Display(row, line, 0, 0)

\* The reader's write goes on where it was left, and while nobody else writes
\* the terminal shows one of the four.
ScreenInv ==
  /\ row \in Seq(Bytes) /\ col \in 0 .. Len(row)
  /\ sending \in [Threads -> Seq(Bytes)]
  /\ "reader" \in writing =>
       /\ Len(sending["reader"]) <= Len(Text)
       /\ \A i \in 1 .. Len(sending["reader"]) :
            sending["reader"][i] = Text[Len(Text) - Len(sending["reader"]) + i]
  /\ undisturbed /\ "reader" \in alive => Waiting \/ Echoing \/ Erasing \/ Answering

\* The texts whose last byte leaves an empty row.
LEMMA LeavesFacts ==
  /\ Leaves(Puts(<<"\r", "\n">>)) /\ Leaves(Puts(<<"?", "\n">>)) /\ Leaves(Puts(<<"\n">>))
  /\ Leaves(Puts(<<"clear">>)) /\ Leaves(Puts(<<"?", "\n", "?", "\n">>)) /\ Leaves(Puts(<<"\n", "?", "\n">>))
  /\ Leaves([kind |-> "crash"]) /\ \A p : Leaves([kind |-> "kill", pid |-> p])
  /\ ~Wants(Puts(<<"\r", "\n">>)) /\ ~Wants(Puts(<<"\n">>)) /\ ~Wants([kind |-> "crash"])
  /\ ~Wants(Puts(<<"?", "\n">>)) /\ ~Wants(Puts(<<"\n", "?", "\n">>))
<1>1. \A b : Puts(b).kind = "message" /\ Puts(b).writes[1] = b
  BY DEF Puts
<1>2. /\ <<"\r", "\n">> # << >> /\ <<"?", "\n">> # << >> /\ <<"\n">> # << >> /\ <<"clear">> # << >>
      /\ <<"?", "\n", "?", "\n">> # << >> /\ <<"\n", "?", "\n">> # << >>
      /\ <<"\r", "\n">>[Len(<<"\r", "\n">>)] = "\n" /\ <<"?", "\n">>[Len(<<"?", "\n">>)] = "\n"
      /\ <<"\n">>[Len(<<"\n">>)] = "\n" /\ <<"clear">>[Len(<<"clear">>)] = "clear"
      /\ <<"?", "\n", "?", "\n">>[Len(<<"?", "\n", "?", "\n">>)] = "\n"
      /\ <<"\n", "?", "\n">>[Len(<<"\n", "?", "\n">>)] = "\n"
  OBVIOUS
<1>3. \A b : b # << >> /\ b[Len(b)] \in {"\n", "clear"} => Leaves(Puts(b))
  BY <1>1 DEF Leaves
<1>4. /\ Leaves(Puts(<<"\r", "\n">>)) /\ Leaves(Puts(<<"?", "\n">>)) /\ Leaves(Puts(<<"\n">>))
      /\ Leaves(Puts(<<"clear">>)) /\ Leaves(Puts(<<"?", "\n", "?", "\n">>)) /\ Leaves(Puts(<<"\n", "?", "\n">>))
  BY <1>2, <1>3, Zenon
<1>5. Leaves([kind |-> "crash"]) /\ \A p : Leaves([kind |-> "kill", pid |-> p])
  BY DEF Leaves
<1>6. ~Wants([kind |-> "crash"])
  BY DEF Wants
<1>7. \A b : b # <<">">> => ~Wants(Puts(b))
  BY <1>1, Zenon DEF Wants
<1>8. <<"\r", "\n">> # <<">">> /\ <<"\n">> # <<">">> /\ <<"?", "\n">> # <<">">> /\ <<"\n", "?", "\n">> # <<">">>
  OBVIOUS
<1>9. ~Wants(Puts(<<"\r", "\n">>)) /\ ~Wants(Puts(<<"\n">>)) /\ ~Wants(Puts(<<"?", "\n">>)) /\ ~Wants(Puts(<<"\n", "?", "\n">>))
  BY <1>7, <1>8
<1> QED  BY <1>4, <1>5, <1>6, <1>9

\* The bytes of the reader go to the terminal; those of another disturb.
LEMMA TerminalFacts ==
  ASSUME NEW t, NEW scr, Terminal(t, scr)
  PROVE  /\ undisturbed' => undisturbed /\ t = "reader" /\ row' = scr.row /\ col' = scr.col
         /\ ~undisturbed' => row' = << >> /\ col' = 0
<1>1. undisturbed' => undisturbed /\ t = "reader"
  BY Zenon DEF Terminal
<1>2. undisturbed' => row' = scr.row /\ col' = scr.col
  BY DEF Terminal
<1>3. ~undisturbed' => row' = << >> /\ col' = 0
  BY DEF Terminal
<1> QED  BY <1>1, <1>2, <1>3

\* A step that neither moves the reader nor shows anything.
LEMMA ScreenSame ==
  ASSUME ScreenInv, sending' \in [Threads -> Seq(Bytes)], sending'["reader"] = sending["reader"],
         UNCHANGED <<row, col, line, n, undisturbed, Plan>>,
         "reader" \in writing' <=> "reader" \in writing, "reader" \in alive' => "reader" \in alive
  PROVE  ScreenInv'
<1>1. Text' = Text /\ Pending' = Pending
  BY DEF Text, Pending
<1>2. Waiting => Waiting'
  BY DEF Waiting
<1>3. Echoing => Echoing'
  BY <1>1 DEF Echoing
<1>4. Erasing => Erasing'
  BY <1>1, Zenon DEF Erasing
<1>5. Answering => Answering'
  BY <1>1 DEF Answering, Clean
<1>6. /\ row' \in Seq(Bytes) /\ col' \in 0 .. Len(row')
      /\ "reader" \in writing' =>
           /\ Len(sending'["reader"]) <= Len(Text')
           /\ \A i \in 1 .. Len(sending'["reader"]) :
                sending'["reader"][i] = Text'[Len(Text') - Len(sending'["reader"]) + i]
  BY <1>1, Zenon DEF ScreenInv
<1>7. undisturbed' /\ "reader" \in alive' => Waiting' \/ Echoing' \/ Erasing' \/ Answering'
  BY <1>2, <1>3, <1>4, <1>5, Zenon DEF ScreenInv
<1> QED  BY <1>6, <1>7, Zenon DEF ScreenInv

\* At the start the reader is about to print, on an empty row.
LEMMA ScreenInit == Init => ScreenInv
<1> SUFFICES ASSUME Init  PROVE ScreenInv
  OBVIOUS
<1> DEFINE hello == Puts(<<"\n", "?", "\n">>)
<1>1. /\ row = << >> /\ col = 0 /\ n = 0 /\ writing = {} /\ Plan = <<hello, prompt>>
      /\ sending = [t \in Threads |-> << >>]
  BY DEF Init, Plan, Threads
<1>2. /\ hello.kind = "message" /\ prompt.kind = "message"
      /\ hello.writes[1] = <<"\n", "?", "\n">> /\ prompt.writes[1] = <<">">>
  BY DEF Puts, prompt
<1>3. Leaves(hello) /\ ~Wants(hello)
  BY LeavesFacts
<1> HIDE DEF hello
<1>4. Len(Plan) = 2 /\ Plan # << >> /\ Plan[1] = hello /\ Plan[2] = prompt
  BY <1>1
<1>5. Orderly(Plan)
  <2>1. \A i \in 2 .. 2 : i = 2 /\ i - 1 = 1
    OBVIOUS
  <2> QED  BY <1>3, <1>4, <2>1 DEF Orderly
<1>6. Text = <<"\n", "?", "\n">> /\ Pending = Text
  BY <1>1, <1>2, <1>4 DEF Text, Pending
<1>7. Text # << >>
  BY <1>6
<1>8. Answering
  BY <1>1, <1>2, <1>3, <1>4, <1>5, <1>6, <1>7 DEF Answering
<1>9. row \in Seq(Bytes) /\ col \in 0 .. Len(row) /\ sending \in [Threads -> Seq(Bytes)]
  <2>1. << >> \in Seq(Bytes) /\ 0 \in 0 .. Len(<< >>)
    OBVIOUS
  <2> QED  BY <1>1, <2>1
<1> QED  BY <1>1, <1>8, <1>9 DEF ScreenInv

\* Another thread's bytes, or none.
LEMMA ScreenOther ==
  ASSUME MInv, ScreenInv, NEW t \in Threads \ {"reader"}, WriteStarts(t) \/ WriteByte(t) \/ WriteReturns(t)
  PROVE  ScreenInv'
<1>0. /\ "reader" \in Threads /\ todo \in [Threads -> Seq(Steps)]
      /\ sending \in [Threads -> Seq(Bytes)]
  BY DEF MInv, ScreenInv, Threads
<1>1. CASE WriteStarts(t)
  <2>1. /\ writing' = writing \cup {t} /\ UNCHANGED <<row, col, line, n, undisturbed, todo, alive>>
        /\ sending' = [sending EXCEPT ![t] = Head(Head(todo[t]).writes)]
        /\ todo[t] # << >> /\ Head(todo[t]).kind = "message"
    BY <1>1 DEF WriteStarts, Starting, screen
  <2>2. todo[t][1].kind = "message" /\ todo[t] \in Seq(Steps) /\ Head(todo[t]) = todo[t][1]
    BY <1>0, <2>1
  <2>3. Head(Head(todo[t]).writes) \in Seq(Bytes)
    BY <2>1, <2>2, HeadMessage, TextType
  <2>4. sending' \in [Threads -> Seq(Bytes)] /\ sending'["reader"] = sending["reader"]
    BY <1>0, <2>1, <2>3
  <2>5. Plan' = Plan
    BY <2>1 DEF Plan
  <2> QED  BY <2>1, <2>4, <2>5, ScreenSame
<1>2. CASE WriteByte(t)
  <2>1. /\ writing = {t} /\ writing' = writing
        /\ sending' = [sending EXCEPT ![t] = Tail(sending[t])] /\ sending[t] # << >>
        /\ Terminal(t, uart_putc(Screen, Head(sending[t])))
    BY <1>2 DEF WriteByte, Runs
  <2>2. ~undisturbed' /\ row' = << >> /\ col' = 0
    BY <2>1, TerminalFacts
  <2>3. sending' \in [Threads -> Seq(Bytes)]
    <3>1. Tail(sending[t]) \in Seq(Bytes)
      BY <1>0, <2>1
    <3> QED  BY <1>0, <2>1, <3>1
  <2>4. row' \in Seq(Bytes) /\ col' \in 0 .. Len(row') /\ "reader" \notin writing'
    <3>1. << >> \in Seq(Bytes) /\ 0 \in 0 .. Len(<< >>)
      OBVIOUS
    <3> QED  BY <2>1, <2>2, <3>1
  <2> QED  BY <2>2, <2>3, <2>4, Zenon DEF ScreenInv
<1>3. CASE WriteReturns(t)
  <2>1. /\ writing = {t} /\ writing' = {} /\ GoesOn(t, Tail(todo[t]))
        /\ UNCHANGED <<line, n, alive, row, col, undisturbed, sending>>
    BY <1>3, Returned
  <2>2. Plan' = Plan
    BY <1>0, <2>1 DEF Plan, GoesOn
  <2>3. "reader" \in writing' <=> "reader" \in writing
    BY <2>1
  <2> QED  BY <1>0, <2>1, <2>2, <2>3, ScreenSame
<1> QED  BY <1>1, <1>2, <1>3

\* The reader enters sys_write.
LEMMA ScreenStarts ==
  ASSUME MInv, ScreenInv, WriteStarts("reader")
  PROVE  ScreenInv'
<1>0. /\ "reader" \in Threads /\ Plan \in Seq(Steps)
      /\ sending \in [Threads -> Seq(Bytes)]
  BY DEF MInv, ScreenInv, Threads, Plan
<1>1. /\ "reader" \notin writing /\ "reader" \in writing' /\ UNCHANGED <<row, col, line, n, undisturbed, todo, alive>>
      /\ sending' = [sending EXCEPT !["reader"] = Head(Head(Plan).writes)]
      /\ Plan # << >> /\ Head(Plan).kind = "message"
  BY DEF WriteStarts, Starting, screen, Plan
<1>2. Plan[1].kind = "message"
  BY <1>0, <1>1
<1>3. Text \in Seq(Bytes) /\ Head(Head(Plan).writes) = Text
  BY <1>0, <1>1, <1>2, HeadMessage, TextType DEF Plan, Text
<1>4. sending' \in [Threads -> Seq(Bytes)] /\ sending'["reader"] = Text
  BY <1>0, <1>1, <1>3
<1>5. Plan' = Plan /\ Text' = Text
  BY <1>1 DEF Plan, Text
<1>6. Pending' = Pending
  BY <1>1, <1>4, <1>5 DEF Pending
<1>7. Waiting => Waiting'
  BY <1>1, <1>5 DEF Waiting
<1>8. Echoing => Echoing'
  BY <1>1, <1>5, <1>6 DEF Echoing
<1>9. Erasing => Erasing'
  BY <1>1, <1>5, <1>6, Zenon DEF Erasing
<1>10. Answering => Answering'
  BY <1>1, <1>5, <1>6 DEF Answering, Clean
<1>11. /\ Len(sending'["reader"]) <= Len(Text')
       /\ \A i \in 1 .. Len(sending'["reader"]) :
            sending'["reader"][i] = Text'[Len(Text') - Len(sending'["reader"]) + i]
  <2>1. Len(Text) \in Nat
    BY <1>3, LenProperties
  <2>2. Len(Text) <= Len(Text) /\ \A i \in 1 .. Len(Text) : Len(Text) - Len(Text) + i = i
    BY <2>1
  <2> QED  BY <1>4, <1>5, <2>2
<1>12. row' \in Seq(Bytes) /\ col' \in 0 .. Len(row')
  BY <1>1 DEF ScreenInv
<1>13. undisturbed' /\ "reader" \in alive' => Waiting' \/ Echoing' \/ Erasing' \/ Answering'
  BY <1>1, <1>7, <1>8, <1>9, <1>10, Zenon DEF ScreenInv
<1> QED  BY <1>4, <1>11, <1>12, <1>13, Zenon DEF ScreenInv

\* The reader leaves sys_write.
LEMMA ScreenReturns ==
  ASSUME MInv, ScreenInv, WriteReturns("reader")
  PROVE  ScreenInv'
<1>0. /\ "reader" \in Threads /\ Plan \in Seq(Steps) /\ todo \in [Threads -> Seq(Steps)]
      /\ sending \in [Threads -> Seq(Bytes)]
  BY DEF MInv, ScreenInv, Threads, Plan
<1>1. /\ Plan # << >> /\ Plan[1].kind = "message" /\ "reader" \in writing /\ "reader" \notin writing'
      /\ Plan' = Tail(Plan)
      /\ UNCHANGED <<line, n, alive, row, col, undisturbed, sending>>
  BY <1>0, Returned DEF GoesOn, Plan
<1>2. Pending = << >>
  BY <1>1 DEF Pending, WriteReturns
<1>3. /\ Len(Plan) \in Nat \ {0}
      /\ Tail(Plan) \in Seq(Steps) /\ Len(Tail(Plan)) = Len(Plan) - 1
      /\ \A i \in 1 .. Len(Plan) - 1 : Tail(Plan)[i] = Plan[i + 1]
      /\ Tail(Plan) = << >> <=> Len(Plan) = 1
      /\ Tail(Plan) # << >> => Tail(Plan)[Len(Tail(Plan))] = Plan[Len(Plan)]
  BY <1>0, <1>1, TailEnd, Zenon
<1>4. ~Waiting
  BY <1>1 DEF Waiting
<1>5. Echoing => Waiting'
  BY <1>1, <1>2, <1>3 DEF Echoing, Waiting
<1>6. Erasing => Waiting'
  <2>1. Len(Pending) = 0
    BY <1>2
  <2> QED  BY <1>1, <1>3, <2>1, Zenon DEF Erasing, Waiting
<1>7. ASSUME Answering, Len(Plan) = 1
      PROVE  Waiting'
  BY <1>1, <1>2, <1>3, <1>7 DEF Answering, Waiting
<1>8. ASSUME Answering, Len(Plan) # 1
      PROVE  Answering'
  <2> DEFINE next == Tail(Plan)
  <2>1. /\ next # << >> /\ next \in Seq(Steps) /\ Len(next) \in Nat \ {0}
        /\ next[1] = Plan[2] /\ 2 \in 2 .. Len(Plan)
        /\ \A i \in 2 .. Len(next) : next[i] = Plan[i + 1] /\ next[i - 1] = Plan[i] /\ i + 1 \in 2 .. Len(Plan) /\ (i + 1) - 1 = i
    <3>1. Len(Plan) \in Nat \ {0, 1} /\ Len(next) = Len(Plan) - 1
      BY <1>3, <1>8
    <3>2. 1 \in 1 .. Len(Plan) - 1 /\ 1 + 1 = 2 /\ 2 \in 2 .. Len(Plan)
      <4>1. \A l \in Nat \ {0, 1} : 1 \in 1 .. l - 1 /\ 1 + 1 = 2 /\ 2 \in 2 .. l
        OBVIOUS
      <4> QED  BY <3>1, <4>1, Zenon
    <3>3. ASSUME NEW i \in 2 .. Len(next)
          PROVE  /\ i \in 1 .. Len(Plan) - 1 /\ i - 1 \in 1 .. Len(Plan) - 1 /\ (i - 1) + 1 = i
                 /\ i + 1 \in 2 .. Len(Plan) /\ (i + 1) - 1 = i
      BY <3>1
    <3> HIDE DEF next
    <3>4. /\ \A i \in 1 .. Len(Plan) - 1 : next[i] = Plan[i + 1]
          /\ next # << >> /\ next \in Seq(Steps)
      BY <1>3, <1>8 DEF next
    <3>5. next[1] = Plan[2]
      BY <3>2, <3>4
    <3>6. \A i \in 2 .. Len(next) : next[i] = Plan[i + 1] /\ next[i - 1] = Plan[i]
      BY <3>3, <3>4
    <3> QED  BY <3>1, <3>2, <3>3, <3>4, <3>5, <3>6
  <2>2. next[Len(next)].kind = "message" /\ next[Len(next)].writes[1] = <<">">>
    BY <1>3, <1>8, <2>1 DEF Answering
  <2> HIDE DEF next
  <2>3. Orderly(next)
    BY <1>8, <2>1 DEF Answering, Orderly
  <2>4. Wants(next[1]) => Clean
    <3>1. Wants(next[1]) => Leaves(Plan[1])
      <4>1. 2 - 1 = 1
        OBVIOUS
      <4> QED  BY <1>8, <2>1, <4>1 DEF Answering, Orderly
    <3> QED  BY <1>1, <1>2, <1>8, <3>1 DEF Answering
  <2>5. Plan' = next
    BY <1>1 DEF next
  <2>6. next[1].kind = "kill" => Clean
    BY <2>4 DEF Wants
  <2>7. next[1].kind = "message" =>
          /\ Leaves(next[1]) => next[1].writes[1] # << >>
          /\ Len(next) = 1 => next[1].writes[1] # << >>
    <3>1. <<">">> # << >>
      OBVIOUS
    <3> QED  BY <2>2, <3>1 DEF Leaves
  <2>8. Pending' = next[1].writes[1] /\ Text' = next[1].writes[1]
    BY <1>1, <2>5, Zenon DEF Pending, Text
  <2>9. n' = 0 /\ (Clean => Clean')
    BY <1>1, <1>8 DEF Answering, Clean
  <2> QED  BY <2>1, <2>2, <2>3, <2>4, <2>5, <2>6, <2>7, <2>8, <2>9 DEF Answering
<1>9. undisturbed' /\ "reader" \in alive' => Waiting' \/ Echoing' \/ Erasing' \/ Answering'
  <2>1. undisturbed' /\ "reader" \in alive' => Echoing \/ Erasing \/ Answering
    BY <1>1, <1>4, Zenon DEF ScreenInv
  <2> QED  BY <1>5, <1>6, <1>7, <1>8, <2>1, Zenon
<1>10. row' \in Seq(Bytes) /\ col' \in 0 .. Len(row') /\ sending' \in [Threads -> Seq(Bytes)]
  BY <1>0, <1>1 DEF ScreenInv
<1> QED  BY <1>1, <1>9, <1>10, Zenon DEF ScreenInv

\* A byte of the reader's reaches the terminal.
LEMMA ScreenByte ==
  ASSUME MInv, EditInv, ScreenInv, WriteByte("reader")
  PROVE  ScreenInv'
<1> DEFINE s == sending["reader"]
<1> DEFINE b == Head(s)
<1>0. /\ "reader" \in Threads /\ Plan \in Seq(Steps) /\ n \in Nat
      /\ sending \in [Threads -> Seq(Bytes)] /\ s \in Seq(Bytes)
      /\ row \in Seq(Bytes) /\ col \in 0 .. Len(row) /\ col \in Nat
  <2>1. n \in Nat
    BY ShellAssumption DEF MInv, Indices
  <2>2. row \in Seq(Bytes) /\ col \in 0 .. Len(row)
    BY DEF ScreenInv
  <2>3. col \in Nat
    BY <2>2, LenProperties
  <2> QED  BY <2>1, <2>2, <2>3 DEF MInv, ScreenInv, Threads, Plan
<1>1. /\ "reader" \in writing /\ "reader" \in writing' /\ UNCHANGED <<line, n, alive>>
      /\ Plan # << >> /\ Plan[1].kind = "message" /\ Len(Plan') = Len(Plan)
      /\ \A i \in 2 .. Len(Plan) : Plan'[i] = Plan[i]
      /\ Plan'[1].kind = "message" /\ Plan'[1].writes = Plan[1].writes /\ Plan' \in Seq(Steps)
  BY <1>0, ByteSent DEF Plan
<1>2. /\ s # << >> /\ sending' = [sending EXCEPT !["reader"] = Tail(s)]
      /\ Terminal("reader", uart_putc(Screen, b))
  BY DEF WriteByte
<1>3. Text' = Text /\ Text \in Seq(Bytes)
  BY <1>0, <1>1, HeadMessage, TextType DEF Plan, Text
<1>4. sending' \in [Threads -> Seq(Bytes)] /\ sending'["reader"] = Tail(s)
  BY <1>0, <1>2
<1>5. Pending = s /\ Pending' = Tail(s)
  BY <1>1, <1>4 DEF Pending
<1>6. /\ Len(s) \in Nat \ {0} /\ Len(Text) \in Nat /\ Len(s) <= Len(Text)
      /\ \A i \in 1 .. Len(s) : s[i] = Text[Len(Text) - Len(s) + i]
  <2>1. Len(s) \in Nat \ {0}
    BY <1>0, <1>2, LenProperties, EmptySeq
  <2>2. Len(Text) \in Nat
    BY <1>3, LenProperties
  <2> QED  BY <1>1, <2>1, <2>2, Zenon DEF ScreenInv
<1>7. b \in Bytes /\ b = s[1] /\ b = Text[Len(Text) - Len(s) + 1]
  <2>1. b = s[1] /\ s[1] \in Bytes
    BY <1>0, <1>2
  <2>2. 1 \in 1 .. Len(s)
    BY <1>6
  <2> QED  BY <1>6, <2>1, <2>2, Zenon
<1>8. /\ Tail(s) \in Seq(Bytes) /\ Len(Tail(s)) = Len(s) - 1
      /\ \A i \in 1 .. Len(s) - 1 : Tail(s)[i] = s[i + 1]
      /\ Tail(s) = << >> <=> Len(s) = 1
  BY <1>0, <1>2, TailEnd
<1> HIDE DEF s, b
<1>9. /\ Len(sending'["reader"]) <= Len(Text')
      /\ \A i \in 1 .. Len(sending'["reader"]) :
           sending'["reader"][i] = Text'[Len(Text') - Len(sending'["reader"]) + i]
  <2>1. Len(Tail(s)) <= Len(Text)
    BY <1>6, <1>8
  <2>2. ASSUME NEW i \in 1 .. Len(Tail(s))
        PROVE  Tail(s)[i] = Text[Len(Text) - Len(Tail(s)) + i]
    <3>1. i \in 1 .. Len(s) - 1 /\ i + 1 \in 1 .. Len(s)
      BY <1>6, <1>8
    <3>2. Len(Text) - Len(s) + (i + 1) = Len(Text) - Len(Tail(s)) + i
      BY <1>6, <1>8, <3>1
    <3>3. Tail(s)[i] = s[i + 1] /\ s[i + 1] = Text[Len(Text) - Len(s) + (i + 1)]
      BY <1>6, <1>8, <3>1
    <3> QED  BY <3>2, <3>3, Zenon
  <2> QED  BY <1>3, <1>4, <2>1, <2>2, Zenon
<1> DEFINE ls == Len(s)
<1> DEFINE lt == Len(Text)
<1>17. ls \in Nat \ {0} /\ lt \in Nat /\ ls <= lt
  BY <1>6
<1>18. Len(Tail(s)) = ls - 1 /\ b = Text[lt - ls + 1]
  BY <1>7, <1>8
<1> HIDE DEF ls, lt
<1> DEFINE scr == uart_putc([row |-> row, col |-> col], b)
<1>10. Terminal("reader", scr)
  BY <1>2 DEF Screen
<1>11. /\ undisturbed' => undisturbed /\ row' = scr.row /\ col' = scr.col
       /\ ~undisturbed' => row' = << >> /\ col' = 0
  <2> HIDE DEF scr
  <2> QED  BY <1>10, TerminalFacts
<1>12. row' \in Seq(Bytes) /\ col' \in 0 .. Len(row')
  <2>1. CASE undisturbed'
    <3>1. PICK q \in Seq(Bytes) : \E l \in 0 .. Len(q) : scr = [row |-> q, col |-> l]
      BY <1>0, <1>7, PutcType, Zenon
    <3>2. PICK l \in 0 .. Len(q) : scr = [row |-> q, col |-> l]
      BY <3>1
    <3> HIDE DEF scr
    <3>3. row' = q /\ col' = l
      BY <1>11, <2>1, <3>2
    <3> QED  BY <3>2, <3>3
  <2>2. CASE ~undisturbed'
    <3>1. << >> \in Seq(Bytes) /\ 0 \in 0 .. Len(<< >>)
      OBVIOUS
    <3>2. row' = << >> /\ col' = 0
      BY <1>11, <2>2
    <3> QED  BY <3>1, <3>2, Zenon
  <2> QED  BY <2>1, <2>2
<1>13. ASSUME Echoing, undisturbed'
       PROVE  Echoing'
  <2> DEFINE k == n - 1
  <2>1. n > 0 /\ Text = <<line[n - 1]>> /\ Len(Plan) = 1
    BY <1>13 DEF Echoing
  <2>2. k \in Nat /\ n = k + 1 /\ k \in 0 .. n - 1
    BY <1>0, <2>1
  <2>3. lt = 1 /\ Text[1] = line[k]
    BY <2>1 DEF lt
  <2>4. ls = 1 /\ lt - ls + 1 = 1
    BY <1>17, <2>3
  <2>5. b = line[k] /\ Tail(s) = << >>
    BY <1>8, <1>18, <2>3, <2>4 DEF ls
  <2>6. line[k] \in Visible
    BY <2>2 DEF EditInv
  <2>7. line[k] \in Bytes /\ line[k] \notin Controls
    <3>1. Visible \cap {"nul", "junk", "\r", "\n", "bs", "clear"} = {}
      BY TableAssumption, Zenon
    <3> QED  BY <2>6, <3>1, Zenon DEF Bytes, Controls
  <2>8. col = n /\ Display(row, line, n - 1, n - 1)
    BY <1>2, <1>5, <1>13 DEF Echoing
  <2> HIDE DEF k
  <2>9. Display(row, line, k, k)
    BY <2>8 DEF k
  <2>10. scr = [row |-> Put(row, col, b), col |-> col + 1]
    BY <1>0, <2>5, <2>7, Putc, Zenon
  <2>11. Display(Put(row, k + 1, line[k]), line, k + 1, k + 1)
    BY <1>0, <2>2, <2>7, <2>9, DisplayTyped
  <2> HIDE DEF scr
  <2>12. row' = Put(row, k + 1, line[k]) /\ col' = n + 1
    BY <1>11, <1>13, <2>2, <2>5, <2>8, <2>10
  <2>13. Display(row', line', n', n')
    BY <1>1, <2>2, <2>11, <2>12
  <2>14. Text' = <<line'[n' - 1]>> /\ n' > 0
    BY <1>1, <1>3, <2>1
  <2> QED  BY <1>1, <1>5, <2>1, <2>5, <2>12, <2>13, <2>14 DEF Echoing
<1>14. ASSUME Erasing, undisturbed'
       PROVE  Erasing'
  <2>1. Text = <<"bs", " ", "bs">> /\ Len(Plan) = 1
    BY <1>14, Zenon DEF Erasing
  <2>2. lt = 3
    BY <2>1, Zenon DEF lt
  <2>3. Text[1] = "bs" /\ Text[2] = " " /\ Text[3] = "bs"
    BY <2>1, Zenon
  <2>4. ls \in 1 .. 3
    BY <1>17, <2>2
  <2>5. Len(Pending) = ls /\ Len(Pending') = ls - 1
    BY <1>5, <1>18 DEF ls
  <2>6. CASE ls = 3
    <3>1. b = "bs" /\ col = n + 2 /\ Display(row, line, n, n + 1)
      <4>1. lt - ls + 1 = 1
        BY <2>6, <2>2
      <4>2. b = "bs"
        BY <1>18, <2>3, <4>1, Zenon
      <4> QED  BY <1>14, <2>5, <2>6, <4>2, Zenon DEF Erasing
    <3>2. scr = [row |-> row, col |-> n + 1]
      <4>1. scr = [row |-> row, col |-> IF col = 0 THEN 0 ELSE col - 1]
        BY <1>0, <3>1, Putc, Zenon
      <4>2. (IF col = 0 THEN 0 ELSE col - 1) = n + 1
        BY <1>0, <3>1
      <4> QED  BY <4>1, <4>2
    <3> HIDE DEF scr
    <3>3. row' = row /\ col' = n' + 1 /\ Display(row', line', n', n' + 1)
      BY <1>1, <1>11, <1>14, <3>1, <3>2
    <3>4. Len(Pending') # 0 /\ Len(Pending') # 1 /\ Len(Pending') # 3
      BY <2>5, <2>6
    <3> QED  BY <1>1, <1>3, <2>1, <3>3, <3>4, Zenon DEF Erasing
  <2>7. CASE ls = 2
    <3>1. b = " " /\ col = n + 1 /\ Display(row, line, n, n + 1)
      <4>1. lt - ls + 1 = 2
        BY <2>7, <2>2
      <4>2. b = " "
        BY <1>18, <2>3, <4>1, Zenon
      <4> QED  BY <1>14, <2>5, <2>7, <4>2, Zenon DEF Erasing
    <3>2. scr = [row |-> Put(row, n + 1, " "), col |-> n + 2]
      <4>1. " " \notin Controls
        BY DEF Controls
      <4>2. scr = [row |-> Put(row, col, " "), col |-> col + 1]
        BY <1>0, <3>1, <4>1, Putc, Zenon
      <4>3. col + 1 = n + 2
        <5>1. col = n + 1
          BY <3>1, Zenon
        <5> QED  BY <1>0, <5>1
      <4> QED  BY <3>1, <4>2, <4>3, Zenon
    <3>3. Display(Put(row, n + 1, " "), line, n, n)
      BY <1>0, <3>1, DisplayBlanked, Zenon
    <3> HIDE DEF scr
    <3>4. row' = Put(row, n + 1, " ") /\ col' = n' + 2
      BY <1>1, <1>11, <1>14, <3>2, Zenon
    <3>5. Display(row', line', n', n')
      BY <1>1, <3>3, <3>4, Zenon
    <3>6. Len(Pending') # 0 /\ Len(Pending') # 2 /\ Len(Pending') # 3
      BY <2>5, <2>7
    <3> QED  BY <1>1, <1>3, <2>1, <3>4, <3>5, <3>6, Zenon DEF Erasing
  <2>8. CASE ls = 1
    <3>1. b = "bs" /\ col = n + 2 /\ Display(row, line, n, n)
      <4>1. lt - ls + 1 = 3
        BY <2>8, <2>2
      <4>2. b = "bs"
        BY <1>18, <2>3, <4>1, Zenon
      <4> QED  BY <1>14, <2>5, <2>8, <4>2, Zenon DEF Erasing
    <3>2. scr = [row |-> row, col |-> n + 1]
      <4>1. scr = [row |-> row, col |-> IF col = 0 THEN 0 ELSE col - 1]
        BY <1>0, <3>1, Putc, Zenon
      <4>2. (IF col = 0 THEN 0 ELSE col - 1) = n + 1
        BY <1>0, <3>1
      <4> QED  BY <4>1, <4>2
    <3> HIDE DEF scr
    <3>3. row' = row /\ col' = n' + 1 /\ Display(row', line', n', n')
      BY <1>1, <1>11, <1>14, <3>1, <3>2
    <3>4. Len(Pending') # 1 /\ Len(Pending') # 2 /\ Len(Pending') # 3
      BY <2>5, <2>8
    <3> QED  BY <1>1, <1>3, <2>1, <3>3, <3>4, Zenon DEF Erasing
  <2> QED  BY <2>4, <2>6, <2>7, <2>8
<1>15. ASSUME Answering, undisturbed'
       PROVE  Answering'
  <2>0. /\ n = 0 /\ Orderly(Plan) /\ Len(Plan) \in Nat \ {0}
        /\ Plan[Len(Plan)].kind = "message" /\ Plan[Len(Plan)].writes[1] = <<">">>
        /\ Wants(Plan[1]) /\ Pending = Text => Clean
    <3>1. Len(Plan) \in Nat \ {0}
      BY <1>0, <1>1, LenProperties, EmptySeq
    <3> QED  BY <1>1, <1>15, <3>1 DEF Answering
  <2>1. ASSUME Leaves(Plan[1]), Tail(s) = << >>
        PROVE  Clean'
    <3>1. ls = 1
      BY <1>8, <2>1 DEF ls
    <3>4. lt - ls + 1 = lt
      BY <1>17, <3>1
    <3>2. b \in {"\n", "clear"}
      BY <1>1, <1>18, <2>1, <3>4 DEF Leaves, Text, lt
    <3>3. scr = [row |-> << >>, col |-> 0]
      <4>1. /\ uart_putc([row |-> row, col |-> col], "\n") = [row |-> << >>, col |-> 0]
            /\ uart_putc([row |-> row, col |-> col], "clear") = [row |-> << >>, col |-> 0]
        BY <1>0, PutcCleans
      <4>2. b = "\n" \/ b = "clear"
        BY <3>2
      <4> QED  BY <4>1, <4>2
    <3> HIDE DEF scr
    <3> QED  BY <1>11, <1>15, <3>3 DEF Clean
  <2>2. ASSUME Wants(Plan[1])
        PROVE  col' = 1 /\ Display(row', line', 0, 0)
    <3>1. Text = <<">">>
      BY <1>1, <2>2 DEF Wants, Text
    <3>2. lt = 1 /\ Text[1] = ">"
      BY <3>1 DEF lt
    <3>3. ls = 1 /\ s[1] = Text[1] /\ b = ">"
      <4>1. ls = 1 /\ lt - ls + 1 = 1
        BY <1>17, <3>2
      <4> QED  BY <1>7, <1>18, <3>2, <4>1
    <3>4. s = Text
      <4>1. \A i \in 1 .. 1 : s[i] = Text[i]
        BY <3>3
      <4> QED  BY <1>0, <1>3, <3>2, <3>3, <4>1, SeqEqual DEF s, ls, lt
    <3>5. row = << >> /\ col = 0
      BY <1>5, <2>0, <2>2, <3>4 DEF Clean
    <3>6. ">" \notin Controls /\ 0 + 1 = 1
      BY DEF Controls
    <3>7. scr = [row |-> Put(<< >>, 0, ">"), col |-> 1]
      BY <1>0, <3>3, <3>5, <3>6, Putc
    <3> HIDE DEF scr
    <3>8. row' = Put(<< >>, 0, ">") /\ col' = 1
      BY <1>11, <1>15, <3>7
    <3> QED  BY <3>8, DisplayPrompt
  <2>3. /\ Wants(Plan'[1]) <=> Wants(Plan[1])
        /\ Leaves(Plan'[1]) <=> Leaves(Plan[1])
    BY <1>1 DEF Wants, Leaves
  <2>4. Plan'[Len(Plan')].kind = "message" /\ Plan'[Len(Plan')].writes[1] = <<">">>
    <3>1. \A l \in Nat \ {0} : l = 1 \/ l \in 2 .. l
      OBVIOUS
    <3>2. Len(Plan) = 1 \/ Len(Plan) \in 2 .. Len(Plan)
      BY <2>0, <3>1, Zenon
    <3> QED  BY <1>1, <2>0, <3>2
  <2>5. Orderly(Plan')
    <3> SUFFICES ASSUME NEW i \in 2 .. Len(Plan), Wants(Plan'[i])
                 PROVE  Leaves(Plan'[i - 1])
      BY <1>1 DEF Orderly
    <3>1. Plan'[i] = Plan[i]
      BY <1>1
    <3>2. Leaves(Plan[i - 1])
      BY <2>0, <3>1 DEF Orderly
    <3>3. i - 1 = 1 \/ i - 1 \in 2 .. Len(Plan)
      BY <2>0
    <3> QED  BY <1>1, <2>3, <3>2, <3>3
  <2>6. Pending' # Text'
    <3>1. Len(Tail(s)) # Len(Text)
      <4>1. ls - 1 # lt
        BY <1>17
      <4> QED  BY <1>18, <4>1 DEF lt
    <3> QED  BY <1>3, <1>5, <3>1, Zenon
  <2>7. Plan' # << >> /\ Plan'[1].kind # "kill" /\ n' = 0
    <3>1. Len(Plan') # 0
      BY <1>1, <2>0
    <3>2. Plan' # << >>
      BY <1>1, <3>1, EmptySeq
    <3> QED  BY <1>1, <2>0, <3>2
  <2>8. Len(Plan') = 1 => Wants(Plan[1])
    BY <1>1, <2>0 DEF Wants
  <2>9. /\ Leaves(Plan'[1]) /\ Pending' = << >> => Clean'
        /\ Len(Plan') = 1 => col' = 1 /\ Display(row', line', 0, 0)
    BY <1>5, <2>1, <2>2, <2>3, <2>8
  <2> QED  BY <2>4, <2>5, <2>6, <2>7, <2>9 DEF Answering
<1>16. undisturbed' /\ "reader" \in alive' => Waiting' \/ Echoing' \/ Erasing' \/ Answering'
  <2>1. ~Waiting
    BY <1>1 DEF Waiting
  <2>2. undisturbed' /\ "reader" \in alive' => Echoing \/ Erasing \/ Answering
    BY <1>1, <1>11, <2>1, Zenon DEF ScreenInv
  <2> QED  BY <1>13, <1>14, <1>15, <2>2, Zenon
<1> QED  BY <1>4, <1>9, <1>12, <1>16, Zenon DEF ScreenInv

\* What a command does leaves an empty row at its end, and before each of its
\* steps that wants one.
LEMMA ScriptOrderly ==
  ASSUME NEW arr \in Arrays
  PROVE  /\ Orderly(Script(dispatch(arr)))
         /\ Script(dispatch(arr)) # << >> => Leaves(Script(dispatch(arr))[Len(Script(dispatch(arr)))])
<1> DEFINE c == dispatch(arr)
<1> HIDE DEF c
<1>1. ASSUME NEW x, Leaves(x)
      PROVE  Orderly(<<x>>) /\ Leaves(<<x>>[Len(<<x>>)])
  <2>1. Len(<<x>>) = 1 /\ <<x>>[1] = x /\ \A i \in 2 .. 1 : FALSE
    OBVIOUS
  <2> QED  BY <1>1, <2>1 DEF Orderly
<1>2. ASSUME NEW x, NEW y, ~Wants(y), Leaves(y)
      PROVE  Orderly(<<x, y>>) /\ Leaves(<<x, y>>[Len(<<x, y>>)])
  <2>1. Len(<<x, y>>) = 2 /\ <<x, y>>[2] = y /\ \A i \in 2 .. 2 : i = 2
    OBVIOUS
  <2> QED  BY <1>2, <2>1 DEF Orderly
<1>3. Orderly(<< >>)
  <2>1. Len(<< >>) = 0 /\ \A i \in 2 .. 0 : FALSE
    OBVIOUS
  <2> QED  BY <2>1 DEF Orderly
<1>4. \/ Script(c) = << >>
      \/ \E x : Leaves(x) /\ Script(c) = <<x>>
      \/ \E x, y : ~Wants(y) /\ Leaves(y) /\ Script(c) = <<x, y>>
  <2>1. CASE c.cmd = "nothing"
    BY <2>1 DEF Script
  <2>2. CASE c.cmd = "help"
    BY <2>2, LeavesFacts DEF Script
  <2>3. CASE c.cmd = "kill"
    <3>1. Script(c) = cmd_kill(c.arg)
      BY <2>3 DEF Script
    <3>2. \E x : Leaves(x) /\ cmd_kill(c.arg) = <<x>>
      BY LeavesFacts DEF cmd_kill
    <3> QED  BY <3>1, <3>2
  <2>4. CASE c.cmd = "echo"
    BY <2>4, LeavesFacts DEF Script
  <2>5. CASE c.cmd = "clear"
    BY <2>5, LeavesFacts DEF Script
  <2>6. CASE c.cmd = "crash"
    BY <2>6, LeavesFacts DEF Script
  <2>7. CASE c.cmd \notin {"nothing", "help", "kill", "echo", "clear", "crash"}
    BY <2>7, LeavesFacts DEF Script
  <2> QED  BY <2>1, <2>2, <2>3, <2>4, <2>5, <2>6, <2>7
<1>5. Orderly(Script(c)) /\ (Script(c) # << >> => Leaves(Script(c)[Len(Script(c))]))
  BY <1>1, <1>2, <1>3, <1>4
<1> QED  BY <1>5 DEF c

\* A step that leaves an empty row, put in front.
LEMMA OrderlyFront ==
  ASSUME NEW S, NEW x \in S, NEW s \in Seq(S), Orderly(s), Leaves(x)
  PROVE  Orderly(<<x>> \o s)
<1> DEFINE w == <<x>> \o s
<1>1. /\ Len(s) \in Nat /\ Len(w) = Len(s) + 1 /\ w[1] = x
      /\ \A i \in 2 .. Len(s) + 1 : w[i] = s[i - 1]
  OBVIOUS
<1> HIDE DEF w
<1> SUFFICES ASSUME NEW i \in 2 .. Len(s) + 1, Wants(w[i])
             PROVE  Leaves(w[i - 1])
  BY <1>1 DEF Orderly, w
<1>2. CASE i = 2
  <2>1. i - 1 = 1
    BY <1>2
  <2> QED  BY <1>1, <2>1
<1>3. CASE i # 2
  <2>1. i - 1 \in 2 .. Len(s) + 1 /\ i - 1 \in 2 .. Len(s)
    BY <1>1, <1>3
  <2>2. w[i] = s[i - 1] /\ w[i - 1] = s[(i - 1) - 1]
    BY <1>1, <2>1
  <2> QED  BY <2>1, <2>2 DEF Orderly
<1> QED  BY <1>2, <1>3

\* Any step, put behind a sequence that leaves an empty row.
LEMMA OrderlyBack ==
  ASSUME NEW S, NEW x \in S, NEW s \in Seq(S), Orderly(s), s # << >>, Leaves(s[Len(s)])
  PROVE  Orderly(s \o <<x>>)
<1> DEFINE w == s \o <<x>>
<1>1. /\ Len(s) \in Nat \ {0} /\ Len(w) = Len(s) + 1
      /\ \A i \in 1 .. Len(s) : w[i] = s[i]
  OBVIOUS
<1> HIDE DEF w
<1> SUFFICES ASSUME NEW i \in 2 .. Len(s) + 1, Wants(w[i])
             PROVE  Leaves(w[i - 1])
  BY <1>1 DEF Orderly, w
<1>2. CASE i = Len(s) + 1
  <2>1. i - 1 = Len(s) /\ Len(s) \in 1 .. Len(s)
    BY <1>1, <1>2
  <2> QED  BY <1>1, <2>1
<1>3. CASE i # Len(s) + 1
  <2>1. i \in 2 .. Len(s) /\ i \in 1 .. Len(s) /\ i - 1 \in 1 .. Len(s)
    BY <1>1, <1>3
  <2>2. w[i] = s[i] /\ w[i - 1] = s[i - 1]
    BY <1>1, <2>1
  <2> QED  BY <2>1, <2>2 DEF Orderly
<1> QED  BY <1>2, <1>3

\* A key is pressed.
LEMMA ScreenKey ==
  ASSUME MInv, ScreenInv, PressEnter \/ PressErase \/ \E c \in Visible : PressVisible(c)
  PROVE  ScreenInv'
<1>0. /\ "reader" \in Threads /\ todo \in [Threads -> Seq(Steps)] /\ n \in Indices /\ n \in Nat
      /\ line \in Arrays /\ sending \in [Threads -> Seq(Bytes)]
      /\ row \in Seq(Bytes) /\ col \in 0 .. Len(row)
  BY ShellAssumption DEF MInv, ScreenInv, Threads, Indices
<1>1. /\ writing = {} /\ Plan = << >> /\ UNCHANGED <<writing, sending, alive, row, col>>
  <2>1. AwaitsKey /\ UNCHANGED <<writing, sending, alive, row, col>>
    BY Zenon DEF PressEnter, PressErase, PressVisible, screen
  <2> QED  BY <2>1 DEF AwaitsKey, Runs, MInv, Plan
<1>2. undisturbed /\ "reader" \in alive => col = n + 1 /\ Display(row, line, n, n)
  <2>1. Len(Plan) = 0
    BY <1>1
  <2>2. ~Echoing /\ ~Erasing /\ ~Answering
    BY <1>1, <2>1 DEF Echoing, Erasing, Answering
  <2>3. undisturbed /\ "reader" \in alive => Waiting
    BY <2>2, Zenon DEF ScreenInv
  <2> QED  BY <2>3 DEF Waiting
<1>3. ASSUME undisturbed' /\ "reader" \in alive' => Waiting' \/ Echoing' \/ Erasing' \/ Answering'
      PROVE  ScreenInv'
  <2>1. /\ row' \in Seq(Bytes) /\ col' \in 0 .. Len(row') /\ sending' \in [Threads -> Seq(Bytes)]
        /\ "reader" \notin writing'
    BY <1>0, <1>1
  <2> QED  BY <1>3, <2>1, Zenon DEF ScreenInv
<1>4. ASSUME NEW b, Plan' = <<Puts(b)>>
      PROVE  /\ Len(Plan') = 1 /\ Plan'[1].kind = "message" /\ Text' = b /\ Pending' = b
  <2>1. Len(<<Puts(b)>>) = 1 /\ <<Puts(b)>>[1] = Puts(b)
    OBVIOUS
  <2>2. Puts(b).kind = "message" /\ Puts(b).writes[1] = b
    BY DEF Puts
  <2>3. Text' = b
    BY <1>4, <2>1, <2>2 DEF Text
  <2> QED  BY <1>1, <1>4, <2>1, <2>2, <2>3 DEF Pending
<1>5. ASSUME UNCHANGED <<line, n, todo, undisturbed>>
      PROVE  ScreenInv'
  <2>1. Plan' = Plan
    BY <1>5 DEF Plan
  <2> QED  BY <1>0, <1>1, <1>5, <2>1, ScreenSame
<1>6. CASE PressEnter
  <2> DEFINE first == Puts(<<"\r", "\n">>)
  <2> DEFINE script == Script(ran')
  <2> DEFINE head == <<first>> \o script
  <2>1. line' \in Arrays /\ n' = 0 /\ Plan' = head \o <<prompt>> /\ ran' = dispatch(line')
    BY <1>0, <1>6 DEF PressEnter, ReaderPuts, Arrays, Plan
  <2>2. script \in Seq(Steps) /\ first \in Steps /\ prompt \in Steps
    <3>1. first \in Fresh /\ prompt \in Fresh
      BY PutsFresh, Zenon DEF Texts, prompt
    <3> QED  BY <2>1, <3>1, ScriptFresh, FreshSequence, Zenon DEF Fresh
  <2>3. Orderly(script) /\ (script # << >> => Leaves(script[Len(script)]))
    BY <2>1, ScriptOrderly
  <2>4. Leaves(first) /\ ~Wants(first)
    BY LeavesFacts
  <2>5. first.kind = "message" /\ first.writes[1] = <<"\r", "\n">> /\ first.writes[1] # << >>
    BY DEF Puts
  <2>6. prompt.kind = "message" /\ prompt.writes[1] = <<">">>
    BY DEF Puts, prompt
  <2> HIDE DEF first, script
  <2>7. head \in Seq(Steps) /\ head # << >> /\ head[1] = first
    BY <2>2
  <2>8. Orderly(head)
    BY <2>2, <2>3, <2>4, OrderlyFront
  <2>9. Leaves(head[Len(head)])
    <3>1. CASE script = << >>
      <4>1. head[Len(head)] = first
        BY <2>2, <3>1
      <4> QED  BY <2>4, <4>1
    <3>2. CASE script # << >>
      <4>1. head[Len(head)] = script[Len(script)]
        BY <2>2, <3>2
      <4> QED  BY <2>3, <3>2, <4>1
    <3> QED  BY <3>1, <3>2
  <2> HIDE DEF head
  <2>10. Orderly(Plan')
    BY <2>1, <2>2, <2>7, <2>8, <2>9, OrderlyBack
  <2>11. Plan' # << >> /\ Plan'[1] = first /\ Len(Plan') # 1 /\ Plan'[Len(Plan')] = prompt
    BY <2>1, <2>2, <2>7
  <2>12. Text' = first.writes[1] /\ Pending' = Text'
    BY <1>1, <2>11 DEF Text, Pending
  <2>13. Answering'
    BY <2>1, <2>4, <2>5, <2>6, <2>10, <2>11, <2>12 DEF Answering
  <2> QED  BY <1>3, <2>13
<1>7. CASE PressErase
  <2>1. line' = line /\ undisturbed' = undisturbed
    BY <1>7, Zenon DEF PressErase, screen
  <2>2. CASE n > 0
    <3> DEFINE k == n - 1
    <3>1. n' = k /\ Plan' = <<Puts(<<"bs", " ", "bs">>)>>
      BY <1>0, <1>7, <2>2, Zenon DEF PressErase, ReaderPuts, Plan
    <3>2. k \in Nat /\ n = k + 1 /\ n + 1 = k + 2
      BY <1>0, <2>2
    <3>3. Len(Plan') = 1 /\ Plan'[1].kind = "message" /\ Text' = <<"bs", " ", "bs">> /\ Pending' = <<"bs", " ", "bs">>
      BY <1>4, <3>1, Zenon
    <3>4. Len(Pending') = 3
      BY <3>3, Zenon
    <3> HIDE DEF k
    <3>5. undisturbed' /\ "reader" \in alive' => col' = n' + 2 /\ Display(row', line', n', n' + 1)
      <4> SUFFICES ASSUME undisturbed', "reader" \in alive'
                   PROVE  col' = n' + 2 /\ Display(row', line', n', n' + 1)
        OBVIOUS
      <4>1. col = k + 2 /\ Display(row, line, k + 1, k + 1)
        BY <1>1, <1>2, <2>1, <3>2
      <4>2. \A i \in 1 .. k : i \in 1 .. k + 1
        BY <3>2
      <4>3. Display(row, line, k, k + 1)
        BY <4>1, <4>2, Zenon DEF Display
      <4> QED  BY <1>1, <2>1, <3>1, <4>1, <4>3, Zenon
    <3>6. Len(Pending') # 2 /\ Len(Pending') # 1 /\ Len(Pending') # 0
      BY <3>4
    <3>7. undisturbed' /\ "reader" \in alive' => Erasing'
      BY <3>3, <3>5, <3>6, Zenon DEF Erasing
    <3> QED  BY <1>3, <3>7, Zenon
  <2>3. CASE ~(n > 0)
    BY <1>5, <1>7, <2>1, <2>3 DEF PressErase
  <2> QED  BY <2>2, <2>3
<1>8. ASSUME NEW c \in Visible, PressVisible(c)  PROVE ScreenInv'
  <2>1. undisturbed' = undisturbed
    BY <1>8 DEF PressVisible, screen
  <2>2. CASE n + 1 < LINE_MAX
    <3>1. n' = n + 1 /\ line' = [line EXCEPT ![n] = c] /\ Plan' = <<Puts(<<c>>)>>
      BY <1>0, <1>8, <2>2 DEF PressVisible, ReaderPuts, Plan
    <3>2. n' > 0 /\ n' - 1 = n /\ \A i \in 1 .. n : i - 1 \in Indices \ {n}
      <4>1. n' > 0 /\ n' - 1 = n
        BY <1>0, <3>1
      <4>2. \A i \in 1 .. n : i - 1 \in Indices \ {n}
        BY <1>0, ShellAssumption DEF Indices
      <4> QED  BY <4>1, <4>2
    <3>3. Len(Plan') = 1 /\ Plan'[1].kind = "message" /\ Text' = <<c>> /\ Pending' = <<c>>
      BY <1>4, <3>1
    <3>4. line'[n] = c /\ \A i \in 1 .. n : line'[i - 1] = line[i - 1]
      BY <1>0, <3>1, <3>2 DEF Arrays
    <3>5. <<c>> # << >>
      OBVIOUS
    <3>6. undisturbed' /\ "reader" \in alive' => col' = n' /\ Display(row', line', n' - 1, n' - 1)
      <4> SUFFICES ASSUME undisturbed', "reader" \in alive'
                   PROVE  col' = n' /\ Display(row', line', n' - 1, n' - 1)
        OBVIOUS
      <4>1. col = n + 1 /\ Display(row, line, n, n)
        BY <1>1, <1>2, <2>1
      <4>2. Display(row, line', n, n)
        BY <3>4, <4>1, Zenon DEF Display
      <4> QED  BY <1>1, <3>1, <3>2, <4>1, <4>2
    <3>7. undisturbed' /\ "reader" \in alive' => Echoing'
      BY <3>2, <3>3, <3>4, <3>5, <3>6 DEF Echoing
    <3> QED  BY <1>3, <3>7, Zenon
  <2>3. CASE ~(n + 1 < LINE_MAX)
    BY <1>5, <1>8, <2>1, <2>3 DEF PressVisible
  <2> QED  BY <2>2, <2>3
<1> QED  BY <1>6, <1>7, <1>8

\* The reader kills, or crashes.
LEMMA ScreenKill ==
  ASSUME MInv, ScreenInv, Kill \/ Crash
  PROVE  ScreenInv'
<1> DEFINE rest == Tail(Plan)
<1>0. /\ "reader" \in Threads /\ todo \in [Threads -> Seq(Steps)] /\ Plan \in Seq(Steps)
      /\ sending \in [Threads -> Seq(Bytes)]
      /\ row \in Seq(Bytes) /\ col \in 0 .. Len(row)
  BY DEF MInv, ScreenInv, Threads, Plan
<1>1. /\ Plan # << >> /\ "reader" \notin writing' /\ UNCHANGED <<line, n, sending>>
      /\ Kill => Plan[1].kind = "kill"
  <2>1. ASSUME NEW kind, Starting("reader", kind)
        PROVE  Plan # << >> /\ "reader" \notin writing /\ Plan[1].kind = kind
    BY <1>0, <2>1 DEF Starting, Plan
  <2>2. CASE Kill
    BY <2>1, <2>2 DEF Kill
  <2>3. CASE Crash /\ ~Kill
    BY <2>1, <2>3 DEF Crash
  <2> QED  BY <2>2, <2>3
<1>2. /\ Len(Plan) \in Nat \ {0}
      /\ rest \in Seq(Steps) /\ Len(rest) = Len(Plan) - 1
      /\ \A i \in 1 .. Len(Plan) - 1 : rest[i] = Plan[i + 1]
      /\ rest = << >> <=> Len(Plan) = 1
      /\ rest # << >> => rest[Len(rest)] = Plan[Len(Plan)]
  BY <1>0, <1>1, TailEnd, Zenon
<1>3. ASSUME row' \in Seq(Bytes) /\ col' \in 0 .. Len(row'),
             undisturbed' /\ "reader" \in alive' => Answering'
      PROVE  ScreenInv'
  BY <1>0, <1>1, <1>3 DEF ScreenInv
<1>4. << >> \in Seq(Bytes) /\ 0 \in 0 .. Len(<< >>)
  OBVIOUS
<1>5. CASE Crash
  <2>1. "reader" \notin alive'
    BY <1>0, <1>5 DEF Crash, Retire, PidOf
  <2>2. Terminal("reader", KernelLine(KernelLine([row |-> row, col |-> col])))
    BY <1>5 DEF Crash, Screen
  <2>3. KernelLine(KernelLine([row |-> row, col |-> col])) = [row |-> << >>, col |-> 0]
    BY <1>0, <1>4, KernelLineCleans, Zenon
  <2>4. row' = << >> /\ col' = 0
    BY <2>2, <2>3, TerminalFacts
  <2> QED  BY <1>3, <1>4, <2>1, <2>4
<1> HIDE DEF rest
<1>6. ASSUME Kill, undisturbed, "reader" \in alive
      PROVE  Answering /\ Clean /\ Len(Plan) # 1 /\ n' = 0
  <2>1. Plan[1].kind # "message"
    BY <1>1, <1>6
  <2>2. ~Waiting /\ ~Echoing /\ ~Erasing
    BY <1>1, <2>1, Zenon DEF Waiting, Echoing, Erasing
  <2>3. Answering
    BY <1>6, <2>2, Zenon DEF ScreenInv
  <2>4. Clean /\ Len(Plan) # 1 /\ n = 0
    BY <1>1, <1>6, <2>1, <2>3 DEF Answering
  <2> QED  BY <1>1, <2>3, <2>4
\* What remains of an orderly plan.
<1>7. ASSUME Answering, Len(Plan) # 1
      PROVE  /\ rest # << >> /\ Orderly(rest) /\ Len(rest) \in Nat \ {0}
             /\ rest[Len(rest)].kind = "message" /\ rest[Len(rest)].writes[1] = <<">">>
  <2> DEFINE l == Len(Plan)
  <2>1. l \in Nat \ {0, 1} /\ Len(rest) = l - 1
    BY <1>2, <1>7
  <2> HIDE DEF l
  <2>2. Len(rest) \in Nat \ {0}
    BY <2>1
  <2>3. ASSUME NEW i \in 2 .. Len(rest), Wants(rest[i])
        PROVE  Leaves(rest[i - 1])
    <3>1. i \in 1 .. l - 1 /\ i - 1 \in 1 .. l - 1 /\ (i - 1) + 1 = i /\ i + 1 \in 2 .. l /\ (i + 1) - 1 = i
      BY <2>1
    <3>2. rest[i] = Plan[i + 1] /\ rest[i - 1] = Plan[i]
      BY <1>2, <3>1 DEF l
    <3> QED  BY <1>7, <2>3, <3>1, <3>2 DEF Answering, Orderly, l
  <2> QED  BY <1>2, <1>7, <2>2, <2>3 DEF Answering, Orderly
\* The plan goes on behind the kill, with an empty row.
<1>8. ASSUME Answering, Len(Plan) # 1, Plan' = rest, Clean', n' = 0
      PROVE  Answering'
  <2>1. /\ rest # << >> /\ Orderly(rest) /\ Len(rest) \in Nat \ {0}
        /\ rest[Len(rest)].kind = "message" /\ rest[Len(rest)].writes[1] = <<">">>
    BY <1>7, <1>8
  <2>2. Pending' = Text' /\ Text' = rest[1].writes[1]
    BY <1>1, <1>8 DEF Pending, Text
  <2>3. <<">">> # << >>
    OBVIOUS
  <2>4. Len(rest) = 1 => Pending' # << >>
    BY <2>1, <2>2, <2>3
  <2> QED  BY <1>8, <2>1, <2>2, <2>4 DEF Answering
<1>9. CASE Kill
  <2> DEFINE pid == Head(Plan).pid
  <2>1. CASE pid >= NUM_PROCESSES
    <3> DEFINE first == Puts(<<"?", "\n">>)
    <3>1. Plan' = <<first>> \o rest /\ UNCHANGED <<alive, row, col, undisturbed>>
      BY <1>0, <1>9, <2>1 DEF Kill, ReaderPuts, Plan, rest, screen
    <3>2. first \in Steps
      BY PutsFresh, Zenon DEF Texts, Fresh
    <3>3. Leaves(first) /\ ~Wants(first)
      BY LeavesFacts
    <3>4. first.kind = "message" /\ first.writes[1] = <<"?", "\n">> /\ first.writes[1] # << >>
      BY DEF Puts
    <3> HIDE DEF first
    <3>5. ASSUME undisturbed', "reader" \in alive'
          PROVE  Answering'
      <4>1. Answering /\ Len(Plan) # 1 /\ n' = 0
        BY <1>6, <1>9, <3>1, <3>5, Zenon
      <4>2. /\ rest # << >> /\ Orderly(rest) /\ Len(rest) \in Nat \ {0}
            /\ rest[Len(rest)].kind = "message" /\ rest[Len(rest)].writes[1] = <<">">>
        BY <1>7, <4>1
      <4>3. Orderly(Plan')
        BY <1>2, <3>1, <3>2, <3>3, <4>2, OrderlyFront
      <4>4. Plan' # << >> /\ Len(Plan') # 1 /\ Plan'[1] = first /\ Plan'[Len(Plan')] = rest[Len(rest)]
        BY <1>2, <3>1, <3>2, <4>2
      <4>5. Pending' = Text' /\ Text' = first.writes[1]
        BY <1>1, <4>4 DEF Pending, Text
      <4> QED  BY <3>3, <3>4, <4>1, <4>2, <4>3, <4>4, <4>5 DEF Answering
    <3> QED  BY <1>0, <1>3, <3>1, <3>5
  <2>2. CASE ~(pid >= NUM_PROCESSES) /\ \A t \in alive : PidOf[t] # pid
    <3>1. Plan' = rest /\ UNCHANGED <<alive, row, col, undisturbed>>
      BY <1>0, <1>9, <2>2 DEF Kill, ReaderPuts, Plan, rest, screen
    <3>2. ASSUME undisturbed', "reader" \in alive'
          PROVE  Answering'
      <4>1. Answering /\ Clean /\ Len(Plan) # 1 /\ n' = 0
        BY <1>6, <1>9, <3>1, <3>2, Zenon
      <4>2. Clean'
        BY <3>1, <4>1 DEF Clean
      <4> QED  BY <1>8, <3>1, <4>1, <4>2
    <3> QED  BY <1>0, <1>3, <3>1, <3>2
  <2>3. CASE Retire(pid) /\ Terminal("reader", KernelLine(Screen))
    <3>1. KernelLine(Screen) = [row |-> << >>, col |-> 0]
      BY <1>0, KernelLineCleans DEF Screen
    <3>2. row' = << >> /\ col' = 0 /\ (undisturbed' => undisturbed)
      BY <2>3, <3>1, TerminalFacts
    <3>3. ASSUME undisturbed', "reader" \in alive'
          PROVE  Answering'
      <4>1. "reader" \in alive /\ Plan' = rest
        BY <1>0, <2>3, <3>3 DEF Retire, Plan, rest
      <4>2. Answering /\ Len(Plan) # 1 /\ n' = 0
        BY <1>6, <1>9, <3>2, <3>3, <4>1, Zenon
      <4>3. Clean'
        BY <3>2 DEF Clean
      <4> QED  BY <1>8, <4>1, <4>2, <4>3
    <3> QED  BY <1>3, <1>4, <3>2, <3>3
  <2> QED  BY <1>9, <2>1, <2>2, <2>3 DEF Kill, Plan
<1> QED  BY <1>5, <1>9

\* Every step keeps the terminal invariant.
LEMMA ScreenStep == MInv /\ EditInv /\ ScreenInv /\ [Next]_shellVars => ScreenInv'
<1> SUFFICES ASSUME MInv, EditInv, ScreenInv, [Next]_shellVars  PROVE ScreenInv'
  OBVIOUS
<1>0. "reader" \in Threads /\ todo \in [Threads -> Seq(Steps)] /\ sending \in [Threads -> Seq(Bytes)]
  BY DEF MInv, ScreenInv, Threads
<1>1. CASE PressEnter \/ PressErase \/ \E c \in Visible : PressVisible(c)
  BY <1>1, ScreenKey
<1>2. ASSUME NEW t \in Threads, Act(t)  PROVE ScreenInv'
  <2>1. CASE t # "reader"
    BY <1>2, <2>1, ScreenOther DEF Act
  <2>2. CASE t = "reader"
    BY <1>2, <2>2, ScreenStarts, ScreenByte, ScreenReturns, ScreenKill DEF Act
  <2> QED  BY <2>1, <2>2
<1>3. CASE HeartbeatDue \/ LineDue
  <2>1. Plan' = Plan
    BY <1>0, <1>3 DEF HeartbeatDue, LineDue, Plan
  <2>2. UNCHANGED <<line, n, writing, sending, alive, row, col, undisturbed>>
    BY <1>3 DEF HeartbeatDue, LineDue, screen
  <2> QED  BY <1>0, <2>1, <2>2, ScreenSame
<1>4. CASE UNCHANGED shellVars
  <2>1. UNCHANGED <<line, n, writing, sending, alive, row, col, undisturbed>> /\ Plan' = Plan
    BY <1>4 DEF shellVars, Plan
  <2> QED  BY <1>0, <2>1, ScreenSame
<1> QED  BY <1>1, <1>2, <1>3, <1>4 DEF Next, Over

\* While nobody else writes, a shell that waits for a key shows the prompt and
\* exactly what Enter would run (shell.c:120-151, uart_core.c:57-62).
THEOREM ScreenCorrect == Spec => []ScreenShowsLine
<1>1. Init => MInv /\ EditInv /\ ScreenInv
  BY MInit, EditInit, ScreenInit
<1>2. MInv /\ EditInv /\ ScreenInv /\ [Next]_shellVars => (MInv /\ EditInv /\ ScreenInv)'
  BY MStep, EditStep, ScreenStep
<1>3. MInv /\ EditInv /\ ScreenInv => ScreenShowsLine
  <2> SUFFICES ASSUME MInv, EditInv, ScreenInv, AwaitsKey, undisturbed
               PROVE  /\ SubSeq(row, 1, col) = <<">">> \o Typed
                      /\ \A i \in col + 1 .. Len(row) : row[i] = " "
    BY Zenon DEF ScreenShowsLine
  <2>1. Waiting
    <3>1. "reader" \in alive /\ Plan = << >> /\ Len(Plan) # 1
      BY DEF AwaitsKey, Runs, Plan
    <3>2. ~Echoing /\ ~Erasing /\ ~Answering
      BY <3>1, Zenon DEF Echoing, Erasing, Answering
    <3> QED  BY <3>1, <3>2, Zenon DEF ScreenInv
  <2>2. /\ line \in Arrays /\ n \in Indices /\ n \in Nat /\ row \in Seq(Bytes) /\ Len(row) \in Nat
        /\ \A i \in 0 .. n - 1 : line[i] \in Visible
    BY ShellAssumption DEF MInv, ScreenInv, EditInv, Indices
  <2>3. Typed \in Seq(Visible) /\ Len(Typed) = n /\ \A i \in 1 .. n : Typed[i] = line[i - 1]
    BY <2>2, BeginningFacts DEF Typed, Beginning
  <2>4. col = n + 1 /\ n < Len(row) /\ \A i \in 1 .. n : row[i + 1] = line[i - 1]
    BY <2>1, Zenon DEF Waiting, Display
  <2>a. row[1] = ">" /\ \A i \in n + 2 .. Len(row) : row[i] = " "
    BY <2>1, Zenon DEF Waiting, Display
  <2> DEFINE l == SubSeq(row, 1, col)
             r == <<">">> \o Typed
  <2>5. 1 \in 1 .. Len(row) + 1 /\ col \in 1 - 1 .. Len(row) /\ col - 1 + 1 = n + 1
    BY <2>2, <2>4
  <2>6. l \in Seq(Bytes) /\ Len(l) = n + 1 /\ \A i \in 1 .. n + 1 : l[i] = row[1 + i - 1]
    BY <2>2, <2>5, Part
  <2>7. Typed \in Seq(Bytes) /\ <<">">> \in Seq(Bytes) /\ Len(<<">">>) = 1 /\ <<">">>[1] = ">"
    <3>1. Visible \subseteq Bytes /\ ">" \in Bytes
      BY Zenon DEF Bytes
    <3>2. \A i \in 1 .. n : Typed[i] \in Bytes
      BY <2>2, <2>3, <3>1, ElementOfSeq
    <3>3. Typed = [i \in 1 .. n |-> Typed[i]]
      BY DEF Typed
    <3>4. Typed \in Seq(Bytes)
      BY <2>2, <3>2, <3>3
    <3> QED  BY <3>1, <3>4
  <2>8. r \in Seq(Bytes) /\ Len(r) = n + 1 /\ r[1] = ">" /\ \A i \in 1 .. n : r[i + 1] = Typed[i]
    BY <2>2, <2>3, <2>7
  <2> HIDE DEF l, r
  <2>9. ASSUME NEW i \in 1 .. n + 1  PROVE l[i] = r[i]
    <3>1. l[i] = row[i]
      BY <2>2, <2>6
    <3>2. i = 1 \/ (i - 1 \in 1 .. n /\ (i - 1) + 1 = i)
      BY <2>2
    <3>3. i - 1 \in 1 .. n /\ (i - 1) + 1 = i => l[i] = r[i]
      BY <2>3, <2>4, <2>8, <3>1
    <3>4. i = 1 => l[i] = r[i]
      BY <2>a, <2>8, <3>1, Zenon
    <3> QED  BY <3>2, <3>3, <3>4
  <2>10. l = r
    BY <2>2, <2>6, <2>8, <2>9, SeqEqual
  <2>11. col + 1 = n + 2
    BY <2>2, <2>4
  <2> QED  BY <2>a, <2>10, <2>11, Zenon DEF l, r
<1> QED  BY <1>1, <1>2, <1>3, PTL DEF Spec

=============================================================================
