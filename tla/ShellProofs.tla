---------------------------- MODULE ShellProofs ----------------------------
(***************************************************************************)
(* For any line length, keys, command table and pids: the line fits its    *)
(* array, messages reach the terminal whole, and the array and the C       *)
(* string functions implement the line editor.                             *)
(***************************************************************************)
EXTENDS Shell, SequenceTheorems, WellFoundedInduction, TLAPS

Arrays == [Indices -> Visible \cup {NUL, JUNK}]

\* The texts written: arguments echoed, keys echoed, fixed texts.
Texts ==
  {dispatch(a).arg : a \in Arrays} \cup {<<c>> : c \in Visible}
    \cup {<<">">>, <<"\r", "\n">>, <<"\n", "?", "\n">>, <<"?", "\n">>, <<"?", "\n", "?", "\n">>,
          <<"\n">>, <<"clear">>, <<"bs", " ", "bs">>, <<"O", "\n">>,
          <<"\r", "\n", "H", "\r", "\n", ">">>}

Messages == [kind : {"message"}, writes : {<<b>> : b \in Texts}, begun : BOOLEAN]

Steps == Messages \cup {[kind |-> "kill", pid |-> ulib_atoi(x)] : x \in Texts} \cup {[kind |-> "crash"]}

\* Only a thread that is inside sys_write, and there is one at most, has begun
\* a message, and nobody has written since.
MInv ==
  /\ line \in Arrays
  /\ n \in Indices
  /\ todo \in [Threads -> Seq(Steps)]
  /\ writing \subseteq alive
  /\ alive \subseteq Threads
  /\ \A t, u \in writing : t = u
  /\ \A t \in writing : todo[t] # << >> /\ todo[t][1].kind = "message"
  /\ \A t \in Threads : \A i \in 1 .. Len(todo[t]) :
       todo[t][i].kind = "message" /\ todo[t][i].begun => i = 1 /\ t \in writing /\ lastWriter = t

\* Steps that are not begun.
Fresh == {s \in Steps : s.kind = "message" => ~s.begun}

\* What Puts makes of a text is a message not begun.
LEMMA PutsFresh == \A b \in Texts : Puts(b) \in Fresh
BY DEF Puts, Fresh, Steps, Messages

\* What a command does consists of steps not begun.
LEMMA ScriptFresh ==
  ASSUME NEW a \in Arrays
  PROVE  Script(dispatch(a)) \in Seq(Fresh)
<1> DEFINE c == dispatch(a)
<1>1. c.arg \in Texts
  BY Zenon DEF Texts
<1> HIDE DEF c
<1>2. /\ Puts(c.arg) \in Fresh
      /\ Puts(<<"?", "\n">>) \in Fresh
      /\ Puts(<<"\n">>) \in Fresh
      /\ Puts(<<"clear">>) \in Fresh
      /\ Puts(<<"?", "\n", "?", "\n">>) \in Fresh
  BY <1>1, PutsFresh, Zenon DEF Texts
<1>3. [kind |-> "kill", pid |-> ulib_atoi(c.arg)] \in Fresh
  BY <1>1 DEF Fresh, Steps
<1>4. [kind |-> "crash"] \in Fresh
  BY DEF Fresh, Steps
<1>5. cmd_kill(c.arg) \in Seq(Fresh)
  BY <1>2, <1>3 DEF cmd_kill
<1>6. Script(c) \in Seq(Fresh)
  BY <1>2, <1>4, <1>5 DEF Script
<1> QED  BY <1>6 DEF c

\* Sequences of steps not begun are sequences of steps.
LEMMA FreshSequence ==
  ASSUME NEW s \in Seq(Fresh)
  PROVE  /\ s \in Seq(Steps)
         /\ \A i \in 1 .. Len(s) : ~(s[i].kind = "message" /\ s[i].begun)
<1>1. \A i \in 1 .. Len(s) : s[i] \in Fresh
  OBVIOUS
<1>2. Fresh \subseteq Steps
  BY DEF Fresh
<1> QED  BY <1>1, <1>2 DEF Fresh

\* The initial states satisfy the invariant.
LEMMA MInit == Init => MInv
<1> SUFFICES ASSUME Init  PROVE MInv
  OBVIOUS
<1>1. Puts(<<"\n", "?", "\n">>) \in Fresh /\ prompt \in Fresh
  BY PutsFresh, Zenon DEF Texts, prompt
<1>2. /\ todo \in [Threads -> Seq(Fresh)]
      /\ writing = {} /\ alive = Threads
  BY <1>1 DEF Init
<1>3. line \in Arrays /\ n \in Indices
  BY ShellAssumption DEF Init, Arrays, Indices
<1> QED  BY <1>2, <1>3, FreshSequence DEF MInv

\* While nobody writes nothing is begun.
LEMMA NothingBegun ==
  ASSUME MInv, writing = {}
  PROVE  todo \in [Threads -> Seq(Fresh)]
<1>1. \A t \in Threads : todo[t] \in Seq(Fresh)
  <2> TAKE t \in Threads
  <2>1. todo[t] \in Seq(Steps)
    BY DEF MInv
  <2>2. \A i \in 1 .. Len(todo[t]) : todo[t][i] \in Fresh
    BY <2>1 DEF MInv, Fresh
  <2> QED  BY <2>1, <2>2
<1> QED  BY <1>1 DEF MInv

\* A step while nobody writes keeps the invariant when what the threads are
\* going to do afterwards is not begun.
LEMMA QuietStep ==
  ASSUME MInv, writing = {}, writing' = {}, alive' \subseteq alive,
         line' \in Arrays, n' \in Indices,
         todo' \in [Threads -> Seq(Fresh)]
  PROVE  MInv'
BY FreshSequence DEF MInv

\* Every step keeps the invariant.
LEMMA MStep == MInv /\ [Next]_shellVars => MInv'
<1> SUFFICES ASSUME MInv, [Next]_shellVars  PROVE MInv'
  OBVIOUS
<1> USE ShellAssumption
<1>0. /\ line \in Arrays /\ n \in Indices /\ n \in Int
      /\ todo \in [Threads -> Seq(Steps)]
      /\ "reader" \in Threads /\ "heart" \in Threads /\ "other" \in Threads
  BY DEF MInv, Indices, Threads
<1>1. ASSUME NEW t \in Threads, Runs(t), t \notin writing \/ todo[t] = << >>
      PROVE  writing = {} /\ todo \in [Threads -> Seq(Fresh)]
  <2>1. writing = {}
    BY <1>1 DEF MInv, Runs
  <2> QED  BY <2>1, NothingBegun
<1>2. CASE PressEnter
  <2>1. /\ writing = {} /\ todo \in [Threads -> Seq(Fresh)]
        /\ writing' = writing /\ alive' = alive
    BY <1>0, <1>1, <1>2 DEF PressEnter, AwaitsKey
  <2>2. line' \in Arrays /\ n' \in Indices
    BY <1>0, <1>2 DEF PressEnter, Arrays, Indices
  <2>3. Script(ran') \in Seq(Fresh)
    BY <1>2, <2>2, ScriptFresh DEF PressEnter
  <2>4. Puts(<<"\r", "\n">>) \in Fresh /\ prompt \in Fresh
    BY PutsFresh, Zenon DEF Texts, prompt
  <2>5. <<Puts(<<"\r", "\n">>)>> \o Script(ran') \o <<prompt>> \in Seq(Fresh)
    BY <2>3, <2>4
  <2>6. todo' \in [Threads -> Seq(Fresh)]
    BY <1>2, <2>1, <2>5, Zenon DEF PressEnter, ReaderPuts
  <2> QED  BY <2>1, <2>2, <2>6, QuietStep
<1>3. CASE PressErase
  <2>1. /\ writing = {} /\ todo \in [Threads -> Seq(Fresh)]
        /\ writing' = writing /\ alive' = alive /\ line' = line
    BY <1>0, <1>1, <1>3, Zenon DEF PressErase, AwaitsKey
  <2>2. n' \in Indices
    <3>1. n' = n \/ (n > 0 /\ n' = n - 1)
      BY <1>3, Zenon DEF PressErase
    <3> QED  BY <1>0, <3>1 DEF Indices
  <2>3. Puts(<<"bs", " ", "bs">>) \in Fresh
    BY PutsFresh, Zenon DEF Texts
  <2>4. todo' \in [Threads -> Seq(Fresh)]
    <3>0. \A s \in Fresh : <<s>> \in Seq(Fresh)
      OBVIOUS
    <3>1. <<Puts(<<"bs", " ", "bs">>)>> \in Seq(Fresh)
      BY <2>3, <3>0, Zenon
    <3>2. todo' = todo \/ todo' = [todo EXCEPT !["reader"] = <<Puts(<<"bs", " ", "bs">>)>>]
      BY <1>3, Zenon DEF PressErase, ReaderPuts
    <3> QED  BY <1>0, <2>1, <3>1, <3>2, Zenon
  <2> QED  BY <1>0, <2>1, <2>2, <2>4, QuietStep
<1>4. ASSUME NEW c \in Visible, PressVisible(c)  PROVE MInv'
  <2>1. /\ writing = {} /\ todo \in [Threads -> Seq(Fresh)]
        /\ writing' = writing /\ alive' = alive
    BY <1>0, <1>1, <1>4 DEF PressVisible, AwaitsKey
  <2>2. line' \in Arrays /\ n' \in Indices
    <3>1. CASE n + 1 < LINE_MAX
      <4>1. line' = [line EXCEPT ![n] = c] /\ n' = n + 1
        BY <1>4, <3>1 DEF PressVisible
      <4>2. n + 1 \in Indices
        BY <1>0, <3>1 DEF Indices
      <4> QED  BY <1>0, <4>1, <4>2 DEF Arrays
    <3>2. CASE ~(n + 1 < LINE_MAX)
      BY <1>0, <1>4, <3>2 DEF PressVisible
    <3> QED  BY <3>1, <3>2
  <2>3. Puts(<<c>>) \in Fresh
    <3>1. <<c>> \in Texts
      BY DEF Texts
    <3> QED  BY <3>1, PutsFresh
  <2>4. todo' \in [Threads -> Seq(Fresh)]
    <3>1. <<Puts(<<c>>)>> \in Seq(Fresh)
      BY <2>3
    <3>2. todo' = todo \/ todo' = [todo EXCEPT !["reader"] = <<Puts(<<c>>)>>]
      BY <1>4 DEF PressVisible, ReaderPuts
    <3> QED  BY <1>0, <2>1, <3>1, <3>2, Zenon
  <2> QED  BY <2>1, <2>2, <2>4, QuietStep
<1>5. ASSUME NEW t \in Threads, WriteStarts(t)  PROVE MInv'
  <2>1. /\ writing = {} /\ writing' = {t} /\ t \in alive
        /\ todo[t] # << >> /\ todo[t][1].kind = "message"
        /\ UNCHANGED <<line, n, todo, alive, lastWriter>>
    BY <1>0, <1>1, <1>5 DEF WriteStarts, Starting, Runs, screen
  <2> QED  BY <2>1 DEF MInv
<1>6. ASSUME NEW t \in Threads, WriteByte(t)  PROVE MInv'
  <2>1. /\ writing = {t} /\ lastWriter' = t
        /\ todo' = [todo EXCEPT ![t][1].begun = TRUE]
        /\ UNCHANGED <<line, n, writing, alive>>
    BY <1>6 DEF WriteByte, Runs, Terminal
  <2> DEFINE m == [todo[t][1] EXCEPT !.begun = TRUE]
  <2>2. todo[t] # << >> /\ todo[t][1].kind = "message" /\ todo[t] \in Seq(Steps)
    BY <1>0, <2>1 DEF MInv
  <2>3. todo[t][1] \in Messages
    BY <2>2 DEF Steps
  <2>4. m \in Messages /\ m \in Steps
    BY <2>3, Zenon DEF Messages, Steps
  <2>5. todo' = [todo EXCEPT ![t] = [todo[t] EXCEPT ![1] = m]]
    BY <2>1
  <2> HIDE DEF m
  <2>6. /\ todo' \in [Threads -> Seq(Steps)]
        /\ Len(todo'[t]) = Len(todo[t])
        /\ todo'[t] # << >> /\ todo'[t][1] = m
        /\ \A i \in 2 .. Len(todo[t]) : todo'[t][i] = todo[t][i]
        /\ \A u \in Threads \ {t} : todo'[u] = todo[u]
    BY <1>0, <2>2, <2>4, <2>5
  <2>7. m.kind = "message"
    BY <2>4 DEF Messages
  <2> QED  BY <2>1, <2>6, <2>7 DEF MInv
<1>7. ASSUME NEW t \in Threads, WriteReturns(t)  PROVE MInv'
  <2>1. /\ writing = {t} /\ writing' = {}
        /\ UNCHANGED <<line, n, alive, lastWriter>>
    BY <1>7, Zenon DEF WriteReturns, Runs, screen
  <2>2. todo[t] # << >> /\ todo[t][1].kind = "message" /\ todo[t] \in Seq(Steps)
    BY <1>0, <2>1 DEF MInv
  <2>3. Tail(Head(todo[t]).writes) = << >>
    <3>1. todo[t][1] \in Messages
      BY <2>2 DEF Steps
    <3>2. PICK b \in Texts : todo[t][1].writes = <<b>>
      BY <3>1 DEF Messages
    <3>3. Head(todo[t]) = todo[t][1]
      BY <2>2
    <3>4. Tail(<<b>>) = << >>
      OBVIOUS
    <3> QED  BY <3>2, <3>3, <3>4, Zenon
  <2>4. todo' = [todo EXCEPT ![t] = Tail(todo[t])]
    BY <1>7, <2>3 DEF WriteReturns, GoesOn
  <2>5. /\ Tail(todo[t]) \in Seq(Steps) /\ Len(Tail(todo[t])) = Len(todo[t]) - 1
        /\ \A i \in 1 .. Len(todo[t]) - 1 : Tail(todo[t])[i] = todo[t][i + 1] /\ i + 1 \in 2 .. Len(todo[t])
    BY <2>2
  <2>6. \A i \in 2 .. Len(todo[t]) : ~(todo[t][i].kind = "message" /\ todo[t][i].begun)
    BY <2>2 DEF MInv
  <2>7. \A u \in Threads \ {t} : \A i \in 1 .. Len(todo[u]) : ~(todo[u][i].kind = "message" /\ todo[u][i].begun)
    BY <2>1 DEF MInv
  <2> QED  BY <1>0, <2>1, <2>4, <2>5, <2>6, <2>7 DEF MInv
<1>8. ASSUME Starting("reader", "kill") \/ Starting("reader", "crash"),
             NEW pid, Retire(pid), UNCHANGED <<line, n, writing>>
      PROVE  MInv'
  <2>1. writing = {} /\ todo \in [Threads -> Seq(Fresh)] /\ todo["reader"] # << >>
    BY <1>0, <1>1, <1>8 DEF Starting
  <2>2. Tail(todo["reader"]) \in Seq(Fresh)
    BY <1>0, <2>1
  <2>3. todo' \in [Threads -> Seq(Fresh)] /\ alive' \subseteq alive
    BY <1>8, <2>1, <2>2 DEF Retire
  <2> QED  BY <1>0, <1>8, <2>1, <2>3, QuietStep
<1>9. CASE Kill
  <2> DEFINE rest == Tail(todo["reader"])
  <2>1. /\ writing = {} /\ todo \in [Threads -> Seq(Fresh)] /\ todo["reader"] # << >>
        /\ UNCHANGED <<line, n, writing>>
    BY <1>0, <1>1, <1>9 DEF Kill, Starting
  <2>2. rest \in Seq(Fresh)
    BY <1>0, <2>1
  <2>3. Puts(<<"?", "\n">>) \in Fresh
    BY PutsFresh, Zenon DEF Texts
  <2>4. <<Puts(<<"?", "\n">>)>> \o rest \in Seq(Fresh)
    BY <2>2, <2>3
  <2>5. CASE UNCHANGED alive /\ (ReaderPuts(<<Puts(<<"?", "\n">>)>> \o rest) \/ ReaderPuts(rest))
    <3>1. todo' \in [Threads -> Seq(Fresh)]
      BY <2>1, <2>2, <2>4, <2>5, Zenon DEF ReaderPuts
    <3> QED  BY <1>0, <2>1, <2>5, <3>1, QuietStep
  <2>6. CASE Retire(Head(todo["reader"]).pid)
    BY <1>8, <1>9, <2>1, <2>6 DEF Kill
  <2> QED  BY <1>9, <2>5, <2>6 DEF Kill
<1>10. CASE Crash
  BY <1>8, <1>10 DEF Crash
<1>11. CASE HeartbeatDue \/ LineDue
  <2>1. Heartbeat \in Fresh /\ Puts(<<"O", "\n">>) \in Fresh
    BY PutsFresh, Zenon DEF Texts, Heartbeat
  <2>2. /\ writing = {} /\ todo \in [Threads -> Seq(Fresh)]
        /\ UNCHANGED <<line, n, writing, alive>>
    BY <1>0, <1>1, <1>11 DEF HeartbeatDue, LineDue
  <2>3. todo' \in [Threads -> Seq(Fresh)]
    <3>1. <<Heartbeat>> \in Seq(Fresh) /\ <<Puts(<<"O", "\n">>)>> \in Seq(Fresh)
      BY <2>1
    <3> QED  BY <1>0, <1>11, <2>2, <3>1, Zenon DEF HeartbeatDue, LineDue
  <2> QED  BY <1>0, <2>2, <2>3, QuietStep
<1>12. CASE UNCHANGED shellVars
  BY <1>12 DEF shellVars, MInv
<1> QED
  BY <1>2, <1>3, <1>4, <1>5, <1>6, <1>7, <1>9, <1>10, <1>11, <1>12 DEF Next, Act, Over

\* The characters typed and their terminator stay inside the array line[] of
\* main(), for any LINE_MAX and any keys.
THEOREM LineFitsCorrect == Spec => []LineFits
<1>1. MInv => LineFits
  BY DEF MInv, LineFits
<1> QED  BY MInit, MStep, <1>1, PTL DEF Spec

\* Every text a program hands to one sys_write reaches the terminal with no
\* byte of another thread in between, whatever is typed, due or killed.
THEOREM MessagesWholeCorrect == Spec => []MessagesWhole
<1>1. MInv => MessagesWhole
  <2> SUFFICES ASSUME MInv, NEW t \in alive, todo[t] # << >>, Head(todo[t]).kind = "message", Head(todo[t]).begun
               PROVE  lastWriter = t
    BY DEF MessagesWhole
  <2>1. t \in Threads /\ todo[t] \in Seq(Steps) /\ Len(todo[t]) > 0
    BY DEF MInv
  <2>2. Head(todo[t]) = todo[t][1] /\ 1 \in 1 .. Len(todo[t])
    BY <2>1
  <2> QED  BY <2>1, <2>2 DEF MInv
<1> QED  BY MInit, MStep, <1>1, PTL DEF Spec

-----------------------------------------------------------------------------
(* The line as a user sees it.                                             *)

\* A set of naturals has a least element, and Min names it.
LEMMA Least ==
  ASSUME NEW T \in SUBSET Nat, T # {}
  PROVE  Min(T) \in T /\ \A y \in T : Min(T) <= y
<1>1. PICK x \in T : \A y \in T : ~(<<y, x>> \in OpToRel(<, Nat))
  BY WFMin, NatLessThanWellFounded, Zenon
<1>2. \A y \in T : x <= y
  <2> TAKE y \in T
  <2>1. x \in Nat /\ y \in Nat
    OBVIOUS
  <2>2. y < x => <<y, x>> \in OpToRel(<, Nat)
    BY <2>1 DEF OpToRel
  <2>3. ~(y < x)
    BY <1>1, <2>2, Zenon
  <2> QED  BY <2>1, <2>3
<1> QED  BY <1>2, Zenon DEF Min

\* A least element is the minimum.
LEMMA MinIs ==
  ASSUME NEW T \in SUBSET Nat, NEW m \in T, \A y \in T : m <= y
  PROVE  Min(T) = m
<1>1. Min(T) \in T /\ \A y \in T : Min(T) <= y
  BY Least
<1>2. Min(T) \in Nat /\ m \in Nat /\ m <= Min(T) /\ Min(T) <= m
  BY <1>1, Zenon
<1> QED  BY <1>2

\* A part of a sequence.
LEMMA Part ==
  ASSUME NEW S, NEW s \in Seq(S), NEW k \in 1 .. Len(s) + 1, NEW l \in k - 1 .. Len(s)
  PROVE  /\ SubSeq(s, k, l) \in Seq(S) /\ Len(SubSeq(s, k, l)) = l - k + 1
         /\ \A j \in 1 .. l - k + 1 : SubSeq(s, k, l)[j] = s[k + j - 1]
<1>1. Len(s) \in Nat /\ \A i \in 1 .. Len(s) : s[i] \in S
  BY ElementOfSeq, LenProperties
<1>2. k \in Int /\ l \in Int /\ \A i \in k .. l : s[i] \in S
  BY <1>1
<1>3. /\ SubSeq(s, k, l) \in Seq(S) /\ Len(SubSeq(s, k, l)) = IF k <= l THEN l - k + 1 ELSE 0
      /\ \A j \in 1 .. l - k + 1 : SubSeq(s, k, l)[j] = s[k + j - 1]
  BY <1>2, SubSeqProperties
<1> QED  BY <1>1, <1>2, <1>3

\* The places of a line: its characters that are not blank, the end of its
\* first word, and what is solid behind that.
Solid(s) == {i \in DOMAIN s : ~IsBlank(s[i])}
Stops(s) == {i \in DOMAIN s : i > Min(Solid(s)) /\ IsBlank(s[i])} \cup {Len(s) + 1}
Stop(s)  == Min(Stops(s))
More(s)  == {i \in Solid(s) : i > Stop(s)}

FirstWord(s) == SubSeq(s, Min(Solid(s)), Stop(s) - 1)

\* The first word is not empty, lies inside the string and ends at a blank or
\* at the end.
LEMMA Places ==
  ASSUME NEW S, NEW s \in Seq(S), Solid(s) # {}
  PROVE  /\ Min(Solid(s)) \in 1 .. Len(s) /\ Min(Solid(s)) \in Nat
         /\ Stop(s) \in Min(Solid(s)) + 1 .. Len(s) + 1
         /\ \A i \in Min(Solid(s)) .. Stop(s) - 1 : ~IsBlank(s[i])
         /\ \A i \in Stops(s) : Stop(s) <= i
         /\ Stop(s) <= Len(s) => IsBlank(s[Stop(s)])
<1> DEFINE first == Min(Solid(s))
<1>1. Len(s) \in Nat /\ DOMAIN s = 1 .. Len(s)
  BY LenProperties
<1>2. Solid(s) \in SUBSET Nat
  BY <1>1 DEF Solid
<1>3. first \in Solid(s)
  BY <1>2, Least
<1>4. first \in 1 .. Len(s) /\ ~IsBlank(s[first])
  BY <1>1, <1>3 DEF Solid
<1> HIDE DEF first
<1>5. Stops(s) = {i \in DOMAIN s : i > first /\ IsBlank(s[i])} \cup {Len(s) + 1}
  BY DEF Stops, first
<1>6. Stops(s) \in SUBSET Nat /\ Stops(s) # {}
  BY <1>1, <1>5
<1>7. Stop(s) \in Stops(s) /\ \A y \in Stops(s) : Stop(s) <= y
  BY <1>6, Least DEF Stop
<1>8. Stop(s) \in first + 1 .. Len(s) + 1
  BY <1>1, <1>4, <1>5, <1>7
<1>9. Stop(s) <= Len(s) => IsBlank(s[Stop(s)])
  BY <1>1, <1>5, <1>7
<1>10. ASSUME NEW i \in first .. Stop(s) - 1
       PROVE  ~IsBlank(s[i])
  <2>1. CASE i = first
    BY <1>4, <2>1
  <2>2. CASE i # first
    <3>1. i \in DOMAIN s /\ i > first /\ ~(Stop(s) <= i)
      BY <1>1, <1>4, <1>8, <2>2
    <3> QED  BY <1>5, <1>7, <3>1
  <2> QED  BY <2>1, <2>2
<1> QED  BY <1>1, <1>4, <1>7, <1>8, <1>9, <1>10 DEF first

\* The string without its leading blanks.
LEMMA Skipped ==
  ASSUME NEW S, NEW s \in Seq(S), Solid(s) # {}
  PROVE  /\ skip_spaces(s) \in Seq(S)
         /\ Len(skip_spaces(s)) = Len(s) - Min(Solid(s)) + 1
         /\ \A j \in 1 .. Len(s) - Min(Solid(s)) + 1 : skip_spaces(s)[j] = s[Min(Solid(s)) + j - 1]
<1> DEFINE first == Min(Solid(s))
<1>1. Len(s) \in Nat /\ first \in 1 .. Len(s)
  BY Places, LenProperties
<1>2. skip_spaces(s) = SubSeq(s, first, Len(s))
  BY Zenon DEF skip_spaces, Solid
<1> HIDE DEF first
<1>3. first \in 1 .. Len(s) + 1 /\ Len(s) \in first - 1 .. Len(s)
  BY <1>1
<1> QED  BY <1>2, <1>3, Part DEF first

\* The first word is that part of the string.
LEMMA FirstWordFacts ==
  ASSUME NEW S, NEW s \in Seq(S), Solid(s) # {}
  PROVE  /\ FirstWord(s) \in Seq(S)
         /\ Len(FirstWord(s)) = Stop(s) - Min(Solid(s))
         /\ \A j \in 1 .. Stop(s) - Min(Solid(s)) : FirstWord(s)[j] = s[Min(Solid(s)) + j - 1]
<1> DEFINE first == Min(Solid(s))
<1> DEFINE stop == Stop(s)
<1>1. Len(s) \in Nat /\ first \in 1 .. Len(s) /\ stop \in first + 1 .. Len(s) + 1
  BY Places, LenProperties
<1>2. FirstWord(s) = SubSeq(s, first, stop - 1)
  BY DEF FirstWord
<1> HIDE DEF first, stop
<1>3. first \in 1 .. Len(s) + 1 /\ stop - 1 \in first - 1 .. Len(s) /\ (stop - 1) - first + 1 = stop - first
  BY <1>1
<1>4. /\ SubSeq(s, first, stop - 1) \in Seq(S)
      /\ Len(SubSeq(s, first, stop - 1)) = (stop - 1) - first + 1
      /\ \A j \in 1 .. (stop - 1) - first + 1 : SubSeq(s, first, stop - 1)[j] = s[first + j - 1]
  BY <1>3, Part
<1> QED  BY <1>2, <1>3, <1>4 DEF first, stop

\* match_word, at the first solid character of a line, accepts exactly the
\* word the line begins with.
LEMMA MatchIsFirstWord ==
  ASSUME NEW S, NEW s \in Seq(S), Solid(s) # {},
         NEW word \in Seq(S), word # << >>, \A i \in 1 .. Len(word) : ~IsBlank(word[i])
  PROVE  Matches(skip_spaces(s), word) <=> word = FirstWord(s)
<1> DEFINE first == Min(Solid(s))
<1> DEFINE stop == Stop(s)
<1> DEFINE p == skip_spaces(s)
<1> DEFINE w == FirstWord(s)
<1> DEFINE k == Len(word)
<1>1. /\ Len(s) \in Nat /\ DOMAIN s = 1 .. Len(s)
      /\ first \in 1 .. Len(s) /\ stop \in first + 1 .. Len(s) + 1
      /\ \A i \in first .. stop - 1 : ~IsBlank(s[i])
      /\ \A i \in Stops(s) : stop <= i
      /\ stop <= Len(s) => IsBlank(s[stop])
  BY Places, LenProperties
<1>2. /\ p \in Seq(S) /\ Len(p) = Len(s) - first + 1
      /\ \A j \in 1 .. Len(s) - first + 1 : p[j] = s[first + j - 1]
  BY Skipped
<1>3. /\ w \in Seq(S) /\ Len(w) = stop - first
      /\ \A j \in 1 .. stop - first : w[j] = s[first + j - 1]
  BY FirstWordFacts
<1>4. k \in Nat \ {0}
  BY LenProperties, EmptySeq
<1>5. Stops(s) = {i \in 1 .. Len(s) : i > first /\ IsBlank(s[i])} \cup {Len(s) + 1}
  BY <1>1 DEF Stops
<1> HIDE DEF first, stop, p, w, k
<1>6. Matches(p, word) <=>
        /\ k <= Len(p)
        /\ \A j \in 1 .. k : p[j] = word[j]
        /\ Len(p) = k \/ IsBlank(p[k + 1])
  BY DEF Matches, k
<1>7. ASSUME Matches(p, word)
      PROVE  word = w
  <2>1. k <= Len(p) /\ (\A j \in 1 .. k : word[j] = p[j]) /\ (Len(p) = k \/ IsBlank(p[k + 1]))
    BY <1>6, <1>7
  <2>2. first + k <= Len(s) + 1
    BY <1>1, <1>2, <1>4, <2>1
  <2>3. ASSUME NEW i \in first .. first + k - 1
        PROVE  ~IsBlank(s[i])
    <3> DEFINE j == i - first + 1
    <3>1. j \in 1 .. k /\ j \in 1 .. Len(s) - first + 1 /\ first + j - 1 = i
      BY <1>1, <1>2, <1>4, <2>1
    <3>2. s[i] = word[j]
      BY <1>2, <2>1, <3>1
    <3> QED  BY <3>1, <3>2 DEF k
  <2>4. stop >= first + k
    <3>1. CASE stop = Len(s) + 1
      BY <1>1, <1>4, <2>2, <3>1
    <3>2. CASE stop <= Len(s)
      <4>1. ~(stop \in first .. first + k - 1)
        BY <1>1, <2>3, <3>2
      <4> QED  BY <1>1, <1>4, <4>1
    <3> QED  BY <1>1, <3>1, <3>2
  <2>5. first + k \in Stops(s)
    <3>1. CASE Len(p) = k
      <4>1. first + k = Len(s) + 1
        BY <1>1, <1>2, <1>4, <3>1
      <4> QED  BY <1>5, <4>1
    <3>2. CASE Len(p) # k
      <4>1. k + 1 \in 1 .. Len(s) - first + 1 /\ first + (k + 1) - 1 = first + k
        BY <1>1, <1>2, <1>4, <2>1, <3>2
      <4>2. IsBlank(s[first + k])
        BY <1>2, <2>1, <3>2, <4>1
      <4>3. first + k \in 1 .. Len(s) /\ first + k > first
        BY <1>1, <1>4, <4>1
      <4> QED  BY <1>5, <4>2, <4>3
    <3> QED  BY <3>1, <3>2
  <2>6. stop = first + k
    BY <1>1, <1>4, <2>4, <2>5
  <2>7. Len(w) = k
    BY <1>1, <1>3, <1>4, <2>6
  <2>8. \A j \in 1 .. k : word[j] = w[j]
    <3> TAKE j \in 1 .. k
    <3>1. j \in 1 .. stop - first /\ j \in 1 .. Len(s) - first + 1
      BY <1>1, <1>4, <2>2, <2>6
    <3> QED  BY <1>2, <1>3, <2>1, <3>1, Zenon
  <2> QED  BY <1>3, <2>7, <2>8, SeqEqual DEF k
<1>8. ASSUME word = w
       PROVE  Matches(p, word)
  <2>1. k = stop - first
    BY <1>3, <1>8 DEF k
  <2>2. k <= Len(p)
    BY <1>1, <1>2, <2>1
  <2>3. \A j \in 1 .. k : word[j] = p[j]
    <3> TAKE j \in 1 .. k
    <3>1. j \in 1 .. stop - first /\ j \in 1 .. Len(s) - first + 1
      BY <1>1, <2>1
    <3> QED  BY <1>2, <1>3, <1>8, <3>1
  <2>4. Len(p) = k \/ IsBlank(p[k + 1])
    <3>1. CASE stop = Len(s) + 1
      BY <1>1, <1>2, <2>1, <3>1
    <3>2. CASE stop <= Len(s)
      <4>1. k + 1 \in 1 .. Len(s) - first + 1 /\ first + (k + 1) - 1 = stop
        BY <1>1, <2>1, <3>2
      <4> QED  BY <1>1, <1>2, <3>2, <4>1, Zenon
    <3> QED  BY <1>1, <3>1, <3>2
  <2> QED  BY <1>6, <2>2, <2>3, <2>4
<1> QED  BY <1>7, <1>8 DEF p, w

\* What follows the word, without its leading blanks.
LEMMA ArgIsRest ==
  ASSUME NEW S, NEW s \in Seq(S), Solid(s) # {}
  PROVE  AfterWord(skip_spaces(s), FirstWord(s)) =
           IF More(s) = {} THEN << >> ELSE SubSeq(s, Min(More(s)), Len(s))
<1> DEFINE first == Min(Solid(s))
<1> DEFINE stop == Stop(s)
<1> DEFINE p == skip_spaces(s)
<1> DEFINE k == stop - first
<1> DEFINE q == SubSeq(p, k + 1, Len(p))
<1>1. /\ Len(s) \in Nat /\ DOMAIN s = 1 .. Len(s)
      /\ first \in 1 .. Len(s) /\ stop \in first + 1 .. Len(s) + 1
      /\ stop <= Len(s) => IsBlank(s[stop])
  BY Places, LenProperties
<1>2. /\ p \in Seq(S) /\ Len(p) = Len(s) - first + 1
      /\ \A j \in 1 .. Len(s) - first + 1 : p[j] = s[first + j - 1]
  BY Skipped
<1>3. AfterWord(p, FirstWord(s)) = skip_spaces(q)
  BY FirstWordFacts DEF AfterWord
<1>4. More(s) = {i \in 1 .. Len(s) : ~IsBlank(s[i]) /\ i > stop}
  BY <1>1 DEF More, Solid
<1> HIDE DEF first, stop, p
<1>5. /\ q \in Seq(S) /\ Len(q) = Len(s) - stop + 1 /\ DOMAIN q = 1 .. Len(s) - stop + 1
      /\ \A j \in 1 .. Len(s) - stop + 1 : q[j] = s[stop + j - 1]
  <2>1. k + 1 \in 1 .. Len(p) + 1 /\ Len(p) \in (k + 1) - 1 .. Len(p) /\ Len(p) - (k + 1) + 1 = Len(s) - stop + 1
    BY <1>1, <1>2
  <2>2. /\ q \in Seq(S) /\ Len(q) = Len(p) - (k + 1) + 1
        /\ \A j \in 1 .. Len(p) - (k + 1) + 1 : q[j] = p[(k + 1) + j - 1]
    <3> DEFINE b == k + 1
    <3>1. b \in 1 .. Len(p) + 1 /\ Len(p) \in b - 1 .. Len(p)
      BY <2>1
    <3> HIDE DEF b
    <3>2. /\ SubSeq(p, b, Len(p)) \in Seq(S) /\ Len(SubSeq(p, b, Len(p))) = Len(p) - b + 1
          /\ \A j \in 1 .. Len(p) - b + 1 : SubSeq(p, b, Len(p))[j] = p[b + j - 1]
      BY <1>2, <3>1, Part, ZenonT(30)
    <3> QED  BY <3>2, Zenon DEF b
  <2>3. ASSUME NEW j \in 1 .. Len(s) - stop + 1
        PROVE  q[j] = s[stop + j - 1]
    <3>1. q[j] = p[(k + 1) + j - 1]
      BY <2>1, <2>2
    <3>2. (k + 1) + j - 1 \in 1 .. Len(s) - first + 1 /\ first + ((k + 1) + j - 1) - 1 = stop + j - 1
      BY <1>1
    <3> QED  BY <1>2, <3>1, <3>2, Zenon
  <2>4. DOMAIN q = 1 .. Len(q)
    BY <2>2, LenProperties
  <2> QED  BY <2>1, <2>2, <2>3, <2>4
<1> HIDE DEF q
<1>6. Solid(q) = {j \in 1 .. Len(s) - stop + 1 : ~IsBlank(s[stop + j - 1])}
  BY <1>5 DEF Solid
<1>7. ASSUME NEW i \in More(s)
      PROVE  i - stop + 1 \in Solid(q)
  <2>1. i \in 1 .. Len(s) /\ i > stop /\ ~IsBlank(s[i])
    BY <1>4
  <2>2. i - stop + 1 \in 1 .. Len(s) - stop + 1 /\ stop + (i - stop + 1) - 1 = i
    BY <1>1, <2>1
  <2> QED  BY <1>6, <2>1, <2>2
<1>8. ASSUME NEW j \in Solid(q)
      PROVE  stop + j - 1 \in More(s)
  <2>1. j \in 1 .. Len(s) - stop + 1 /\ ~IsBlank(s[stop + j - 1])
    BY <1>6
  <2>2. stop + j - 1 \in 1 .. Len(s) /\ stop + j - 1 >= stop
    BY <1>1, <2>1
  <2>3. stop + j - 1 # stop
    BY <1>1, <2>1, <2>2
  <2> QED  BY <1>1, <1>4, <2>1, <2>2, <2>3
<1>9. CASE More(s) = {}
  <2>1. Solid(q) = {}
    BY <1>8, <1>9
  <2>2. skip_spaces(q) = << >>
    BY <2>1 DEF skip_spaces, Solid
  <2> QED  BY <1>3, <1>9, <2>2 DEF p
<1>10. CASE More(s) # {}
  <2> DEFINE m == Min(Solid(q))
  <2> DEFINE from == stop + m - 1
  <2>1. Solid(q) # {} /\ Solid(q) \in SUBSET Nat /\ More(s) \in SUBSET Nat
    BY <1>1, <1>4, <1>6, <1>7, <1>10
  <2>2. m \in Solid(q) /\ \A j \in Solid(q) : m <= j
    BY <2>1, Least
  <2>3. m \in 1 .. Len(s) - stop + 1
    BY <1>6, <2>2
  <2> HIDE DEF m
  <2>4. from \in More(s) /\ from \in 1 .. Len(s)
    BY <1>4, <1>8, <2>2
  <2>5. ASSUME NEW i \in More(s)
        PROVE  from <= i
    <3>1. m <= i - stop + 1
      BY <1>7, <2>2
    <3>2. i \in Int /\ m \in Int /\ stop \in Int
      BY <1>1, <1>4, <2>3
    <3> QED  BY <3>1, <3>2
  <2>6. Min(More(s)) = from
    <3> HIDE DEF from
    <3> QED  BY <2>1, <2>4, <2>5, MinIs
  <2>7. skip_spaces(q) = SubSeq(q, m, Len(q))
    BY <2>1, Zenon DEF skip_spaces, Solid, m
  <2> DEFINE a == SubSeq(q, m, Len(q))
  <2> DEFINE b == SubSeq(s, from, Len(s))
  <2>8. /\ a \in Seq(S) /\ Len(a) = Len(q) - m + 1
        /\ \A j \in 1 .. Len(q) - m + 1 : a[j] = q[m + j - 1]
    <3>1. m \in 1 .. Len(q) + 1 /\ Len(q) \in m - 1 .. Len(q)
      BY <1>1, <1>5, <2>3
    <3> QED  BY <1>5, <3>1, Part
  <2>9. /\ b \in Seq(S) /\ Len(b) = Len(s) - from + 1
        /\ \A j \in 1 .. Len(s) - from + 1 : b[j] = s[from + j - 1]
    <3>1. from \in 1 .. Len(s) + 1 /\ Len(s) \in from - 1 .. Len(s)
      BY <1>1, <2>4
    <3> HIDE DEF from
    <3> QED  BY <3>1, Part
  <2>10. Len(q) - m + 1 = Len(s) - from + 1
    BY <1>1, <1>5, <2>3
  <2>11. ASSUME NEW j \in 1 .. Len(s) - from + 1
         PROVE  a[j] = b[j]
    <3>1. a[j] = q[m + j - 1]
      BY <2>8, <2>10
    <3>2. m + j - 1 \in 1 .. Len(s) - stop + 1 /\ stop + (m + j - 1) - 1 = from + j - 1
      BY <1>1, <2>3
    <3> QED  BY <1>5, <2>9, <3>1, <3>2, Zenon
  <2> HIDE DEF a, b, from
  <2>12. a = b
    BY <2>8, <2>9, <2>10, <2>11, SeqEqual
  <2> QED  BY <1>3, <1>10, <2>6, <2>7, <2>12, Zenon DEF a, b, p
<1> QED  BY <1>9, <1>10

\* The string in the array is what was typed, whatever the array held behind
\* its terminator.
LEMMA TerminatedString ==
  ASSUME NEW a \in Arrays, NEW k \in Indices, \A i \in 0 .. k - 1 : a[i] \in Visible
  PROVE  /\ CString([a EXCEPT ![k] = NUL]) = [i \in 1 .. k |-> a[i - 1]]
         /\ [i \in 1 .. k |-> a[i - 1]] \in Seq(Visible)
<1> DEFINE b == [a EXCEPT ![k] = NUL]
<1> DEFINE ends == {i \in Indices : b[i] = NUL}
<1> DEFINE s == [i \in 1 .. k |-> a[i - 1]]
<1>1. k \in Nat /\ k < LINE_MAX /\ LINE_MAX \in Nat /\ NUL \notin Visible
  <2>1. k \in Nat /\ k < LINE_MAX /\ LINE_MAX \in Nat
    BY ShellAssumption DEF Indices
  <2>2. NUL \notin Visible
    BY TableAssumption, Zenon DEF NUL
  <2> QED  BY <2>1, <2>2
<1>2. b[k] = NUL /\ \A i \in Indices \ {k} : b[i] = a[i]
  BY DEF Arrays
<1>3. ends \in SUBSET Nat /\ k \in ends
  BY <1>1, <1>2 DEF Indices
<1>4. ASSUME NEW i \in ends
      PROVE  k <= i
  <2>1. i \in Nat /\ i \in Indices /\ b[i] = NUL
    BY <1>1 DEF Indices
  <2>2. ASSUME i < k
        PROVE  FALSE
    <3>1. i \in 0 .. k - 1 /\ i # k
      BY <1>1, <2>1, <2>2
    <3> QED  BY <1>1, <1>2, <2>1, <3>1
  <2> QED  BY <1>1, <2>1, <2>2
<1>5. Min(ends) = k
  <2> HIDE DEF ends
  <2> QED  BY <1>3, <1>4, MinIs
<1>6. CString(b) = [i \in 1 .. k |-> b[i - 1]]
  BY <1>3, <1>5 DEF CString
<1> HIDE DEF b
<1>7. \A i \in 1 .. k : b[i - 1] = a[i - 1] /\ a[i - 1] \in Visible
  <2> TAKE i \in 1 .. k
  <2>1. i - 1 \in Indices \ {k} /\ i - 1 \in 0 .. k - 1
    BY <1>1 DEF Indices
  <2> QED  BY <1>2, <2>1
<1>8. CString(b) = s
  BY <1>6, <1>7
<1>9. s \in [1 .. k -> Visible]
  BY <1>7
<1>10. s \in Seq(Visible)
  <2> HIDE DEF s
  <2> QED  BY <1>1, <1>9, SeqDef
<1> QED  BY <1>8, <1>10 DEF b

\* dispatch runs the command whose word the line begins with.
LEMMA DispatchIsInterpret ==
  ASSUME NEW arr, NEW s \in Seq(Visible), CString(arr) = s
  PROVE  dispatch(arr) = Editor!Interpret(s)
<1> DEFINE p == skip_spaces(s)
<1> DEFINE w == Editor!Words(s)
<1> DEFINE hits == {i \in 1 .. Len(Commands) : Matches(p, Commands[i].word)}
<1> DEFINE hit == Min(hits)
<1> DEFINE known == {e \in Range(Commands) : e.word = w.word}
<1>1. dispatch(arr) =
        IF p = << >> THEN [cmd |-> "nothing", arg |-> << >>]
        ELSE IF hits = {} THEN [cmd |-> "unknown", arg |-> << >>]
        ELSE [cmd |-> Commands[hit].cmd, arg |-> AfterWord(p, Commands[hit].word)]
  BY DEF dispatch
<1>2. Editor!Interpret(s) =
        IF w.word = << >> THEN [cmd |-> "nothing", arg |-> << >>]
        ELSE IF known = {} THEN [cmd |-> "unknown", arg |-> << >>]
        ELSE [cmd |-> (CHOOSE e \in known : TRUE).cmd, arg |-> w.arg]
  BY DEF Editor!Interpret
<1>3. w = [word |-> IF Solid(s) = {} THEN << >> ELSE FirstWord(s),
           arg |-> IF Solid(s) = {} \/ More(s) = {} THEN << >> ELSE SubSeq(s, Min(More(s)), Len(s))]
  <2> DEFINE solid == {i \in DOMAIN s : s[i] \notin {" ", "\t"}}
  <2> DEFINE first == Min(solid)
  <2> DEFINE stop == Min({i \in DOMAIN s : i > first /\ s[i] \in {" ", "\t"}} \cup {Len(s) + 1})
  <2> DEFINE more == {i \in solid : i > stop}
  <2>1. w = [word |-> IF solid = {} THEN << >> ELSE SubSeq(s, first, stop - 1),
             arg |-> IF solid = {} \/ more = {} THEN << >> ELSE SubSeq(s, Min(more), Len(s))]
    BY DEF Editor!Words, Editor!Min, Min
  <2>2. solid = Solid(s)
    BY DEF Solid, IsBlank
  <2> HIDE DEF solid
  <2>3. stop = Stop(s)
    BY <2>2 DEF Stop, Stops, IsBlank
  <2> HIDE DEF stop
  <2>4. more = More(s)
    BY <2>2, <2>3 DEF More
  <2> HIDE DEF more, w
  <2> QED  BY <2>1, <2>2, <2>3, <2>4 DEF FirstWord
<1> HIDE DEF w, hit, known
<1>4. CASE Solid(s) = {}
  <2>1. p = << >>
    BY <1>4 DEF skip_spaces, Solid
  <2>2. w.word = << >>
    BY <1>3, <1>4
  <2> QED  BY <1>1, <1>2, <2>1, <2>2
<1>5. CASE Solid(s) # {}
  <2>1. w.word = FirstWord(s) /\ w.arg = AfterWord(p, FirstWord(s))
    BY <1>3, <1>5, ArgIsRest
  <2>2. p # << >> /\ FirstWord(s) # << >>
    <3>1. /\ Len(s) \in Nat /\ Min(Solid(s)) \in 1 .. Len(s)
          /\ Stop(s) \in Min(Solid(s)) + 1 .. Len(s) + 1
      BY <1>5, Places, LenProperties
    <3>2. Len(p) = Len(s) - Min(Solid(s)) + 1 /\ Len(FirstWord(s)) = Stop(s) - Min(Solid(s))
      BY <1>5, Skipped, FirstWordFacts, Zenon
    <3>3. Len(p) # 0 /\ Len(FirstWord(s)) # 0
      BY <3>1, <3>2
    <3> QED  BY <3>3, EmptySeq
  <2>3. /\ Commands \in Seq([word : Seq(Visible \ {" ", "\t"}) \ {<< >>}, cmd : STRING])
        /\ \A i, j \in DOMAIN Commands : Commands[i].word = Commands[j].word => i = j
    BY TableAssumption, Zenon
  <2>4. Len(Commands) \in Nat /\ DOMAIN Commands = 1 .. Len(Commands)
    BY <2>3, LenProperties, Zenon
  <2>5. ASSUME NEW i \in 1 .. Len(Commands)
        PROVE  Matches(p, Commands[i].word) <=> Commands[i].word = FirstWord(s)
    <3> DEFINE word == Commands[i].word
    <3>1. word \in Seq(Visible \ {" ", "\t"}) /\ word # << >>
      <4>1. Commands[i] \in [word : Seq(Visible \ {" ", "\t"}) \ {<< >>}, cmd : STRING]
        BY <2>3, ElementOfSeq, Zenon
      <4> QED  BY <4>1, Zenon
    <3> HIDE DEF word
    <3>2. word \in Seq(Visible) /\ \A j \in 1 .. Len(word) : ~IsBlank(word[j])
      <4>1. Visible \ {" ", "\t"} \subseteq Visible
        BY Zenon
      <4>2. word \in Seq(Visible)
        BY <3>1, <4>1, SeqMonotonic, Zenon
      <4>3. \A j \in 1 .. Len(word) : word[j] \in Visible \ {" ", "\t"}
        BY <3>1, ElementOfSeq, Zenon
      <4> QED  BY <4>2, <4>3, Zenon DEF IsBlank
    <3>3. Matches(p, word) <=> word = FirstWord(s)
      BY <1>5, <3>1, <3>2, MatchIsFirstWord, Zenon
    <3> QED  BY <3>3 DEF word
  <2> HIDE DEF p
  <2>6. hits = {i \in 1 .. Len(Commands) : Commands[i].word = FirstWord(s)}
    BY <2>5
  <2>7. known = {Commands[i] : i \in hits}
    BY <2>1, <2>4, <2>6 DEF known, Range
  <2> HIDE DEF hits
  <2>8. CASE hits = {}
    <3>1. known = {}
      BY <2>7, <2>8
    <3> QED  BY <1>1, <1>2, <2>1, <2>2, <2>8, <3>1
  <2>9. CASE hits # {}
    <3>1. hits \in SUBSET Nat
      BY <2>4, <2>6
    <3>2. hit \in hits
      BY <2>9, <3>1, Least DEF hit
    <3>3. hit \in 1 .. Len(Commands) /\ Commands[hit].word = FirstWord(s)
      BY <2>4, <2>6, <3>2
    <3>4. hits = {hit}
      BY <2>3, <2>4, <2>6, <3>2, <3>3, Zenon
    <3>5. known = {Commands[hit]}
      BY <2>7, <3>4
    <3>6. (CHOOSE e \in known : TRUE) = Commands[hit]
      BY <3>5
    <3> QED  BY <1>1, <1>2, <2>1, <2>2, <2>9, <3>3, <3>5, <3>6
  <2> QED  BY <2>8, <2>9
<1> QED  BY <1>4, <1>5

-----------------------------------------------------------------------------
(* The shell implements the line editor.                                   *)

\* The first k characters of an array.
Beginning(a, k) == [i \in 1 .. k |-> a[i - 1]]

\* A beginning without a terminator is a sequence of visible characters.
LEMMA BeginningFacts ==
  ASSUME NEW a \in Arrays, NEW k \in Indices, \A i \in 0 .. k - 1 : a[i] \in Visible
  PROVE  /\ Beginning(a, k) \in Seq(Visible) /\ Len(Beginning(a, k)) = k
         /\ \A i \in 1 .. k : Beginning(a, k)[i] = a[i - 1]
<1> DEFINE s == Beginning(a, k)
<1>1. k \in Nat
  BY ShellAssumption DEF Indices
<1>2. s \in Seq(Visible)
  BY TerminatedString, Zenon DEF Beginning
<1>3. DOMAIN s = 1 .. k /\ \A i \in 1 .. k : s[i] = a[i - 1]
  BY DEF Beginning
<1>4. Len(s) \in Nat /\ DOMAIN s = 1 .. Len(s)
  BY <1>2, LenProperties
<1> HIDE DEF s
<1>5. Len(s) = k
  BY <1>1, <1>3, <1>4
<1> QED  BY <1>2, <1>3, <1>5 DEF s

\* One character more, and one less.
LEMMA BeginningGrows ==
  ASSUME NEW a \in Arrays, NEW k \in Indices, k + 1 \in Indices, NEW c \in Visible,
         \A i \in 0 .. k - 1 : a[i] \in Visible
  PROVE  /\ Beginning([a EXCEPT ![k] = c], k + 1) = Append(Beginning(a, k), c)
         /\ [a EXCEPT ![k] = c] \in Arrays
         /\ \A i \in 0 .. k : [a EXCEPT ![k] = c][i] \in Visible
<1> DEFINE b == [a EXCEPT ![k] = c]
<1> DEFINE s == Beginning(a, k)
<1> DEFINE l == Beginning(b, k + 1)
<1> DEFINE m == Append(s, c)
<1>1. k \in Nat
  BY ShellAssumption DEF Indices
<1>2. b \in Arrays /\ b[k] = c /\ \A i \in Indices \ {k} : b[i] = a[i]
  BY DEF Arrays
<1> HIDE DEF b
<1>3. \A i \in 0 .. k - 1 : i \in Indices \ {k}
  BY <1>1, ShellAssumption DEF Indices
<1>4. \A i \in 0 .. k : b[i] \in Visible
  <2> TAKE i \in 0 .. k
  <2>1. i = k \/ i \in 0 .. k - 1
    BY <1>1
  <2> QED  BY <1>2, <1>3, <2>1
<1>5. s \in Seq(Visible) /\ Len(s) = k /\ \A i \in 1 .. k : s[i] = a[i - 1]
  BY BeginningFacts
<1>6. l \in Seq(Visible) /\ Len(l) = k + 1 /\ \A i \in 1 .. k + 1 : l[i] = b[i - 1]
  <2>1. \A i \in 0 .. (k + 1) - 1 : b[i] \in Visible
    BY <1>1, <1>4
  <2> QED  BY <1>2, <2>1, BeginningFacts
<1> HIDE DEF s, l
<1>7. m \in Seq(Visible) /\ Len(m) = k + 1 /\ m[k + 1] = c /\ \A i \in 1 .. k : m[i] = s[i]
  BY <1>5, AppendProperties
<1> HIDE DEF m
<1>8. \A i \in 1 .. k + 1 : l[i] = m[i]
  <2> TAKE i \in 1 .. k + 1
  <2>1. CASE i = k + 1
    BY <1>1, <1>2, <1>6, <1>7, <2>1
  <2>2. CASE i # k + 1
    <3>1. i \in 1 .. k /\ i - 1 \in 0 .. k - 1
      BY <1>1, <2>2
    <3>2. l[i] = b[i - 1] /\ m[i] = s[i] /\ s[i] = a[i - 1]
      BY <1>5, <1>6, <1>7, <3>1
    <3>3. b[i - 1] = a[i - 1]
      BY <1>2, <1>3, <3>1
    <3> QED  BY <3>2, <3>3
  <2> QED  BY <2>1, <2>2
<1>9. l = m
  BY <1>6, <1>7, <1>8, SeqEqual
<1> QED  BY <1>2, <1>4, <1>9, Zenon DEF b, s, l, m

\* Counting one character less drops the last one.
LEMMA BeginningShrinks ==
  ASSUME NEW a \in Arrays, NEW k \in Indices, k # 0, \A i \in 0 .. k - 1 : a[i] \in Visible
  PROVE  Beginning(a, k - 1) = SubSeq(Beginning(a, k), 1, Len(Beginning(a, k)) - 1)
<1> DEFINE s == Beginning(a, k)
<1> DEFINE j == k - 1
<1> DEFINE l == Beginning(a, j)
<1> DEFINE m == SubSeq(s, 1, j)
<1>1. k \in Nat /\ j \in Nat /\ j \in Indices /\ j + 1 = k
  BY ShellAssumption DEF Indices
<1>2. s \in Seq(Visible) /\ Len(s) = k /\ \A i \in 1 .. k : s[i] = a[i - 1]
  BY BeginningFacts
<1>3. l \in Seq(Visible) /\ Len(l) = j /\ \A i \in 1 .. j : l[i] = a[i - 1]
  <2>1. \A i \in 0 .. j - 1 : a[i] \in Visible
    BY <1>1
  <2> HIDE DEF j
  <2> QED  BY <1>1, <2>1, BeginningFacts
<1>4. m \in Seq(Visible) /\ Len(m) = j /\ \A i \in 1 .. j : m[i] = s[i]
  <2>1. 1 \in 1 .. Len(s) + 1 /\ j \in 1 - 1 .. Len(s) /\ j - 1 + 1 = j
    BY <1>1, <1>2
  <2> HIDE DEF j, s
  <2>2. m \in Seq(Visible) /\ Len(m) = j - 1 + 1 /\ \A i \in 1 .. j - 1 + 1 : m[i] = s[1 + i - 1]
    BY <1>2, <2>1, Part
  <2>3. \A i \in 1 .. j : 1 + i - 1 = i
    BY <1>1
  <2> QED  BY <2>1, <2>2, <2>3
<1> HIDE DEF s, j, l, m
<1>5. \A i \in 1 .. j : l[i] = m[i]
  <2> TAKE i \in 1 .. j
  <2>1. i \in 1 .. k
    BY <1>1
  <2> QED  BY <1>2, <1>3, <1>4, <2>1
<1>6. l = m
  BY <1>3, <1>4, <1>5, SeqEqual
<1> QED  BY <1>2, <1>6 DEF s, j, l, m

\* Between two commands nothing is run; the array holds visible characters as
\* far as the line goes, and whatever it held behind; what the reader has to
\* do ends with a message.
EditInv ==
  /\ \A i \in 0 .. n - 1 : line[i] \in Visible
  /\ todo["reader"] = << >> => ran = Idle
  /\ todo["reader"] # << >> => todo["reader"][Len(todo["reader"])].kind = "message"

\* What is left of a sequence without its head ends as it did.
LEMMA TailEnd ==
  ASSUME NEW S, NEW s \in Seq(S), s # << >>
  PROVE  /\ Len(s) \in Nat \ {0}
         /\ Tail(s) \in Seq(S) /\ Len(Tail(s)) = Len(s) - 1
         /\ \A i \in 1 .. Len(s) - 1 : Tail(s)[i] = s[i + 1]
         /\ Tail(s) = << >> <=> Len(s) = 1
         /\ Tail(s) # << >> => Tail(s)[Len(Tail(s))] = s[Len(s)]
<1> DEFINE r == Tail(s)
<1>1. /\ Len(s) \in Nat \ {0} /\ r \in Seq(S) /\ Len(r) = Len(s) - 1
      /\ \A i \in 1 .. Len(s) - 1 : r[i] = s[i + 1]
  OBVIOUS
<1> HIDE DEF r
<1>2. r = << >> <=> Len(r) = 0
  BY <1>1, EmptySeq
<1>3. r = << >> <=> Len(s) = 1
  BY <1>1, <1>2
<1>4. ASSUME r # << >>
      PROVE  r[Len(r)] = s[Len(s)]
  <2>1. Len(r) \in 1 .. Len(s) - 1 /\ Len(r) + 1 = Len(s)
    BY <1>1, <1>3, <1>4
  <2> QED  BY <1>1, <2>1
<1> QED  BY <1>1, <1>3, <1>4 DEF r

\* The message at the head of a thread's plan.
LEMMA HeadMessage ==
  ASSUME MInv, NEW t \in Threads, todo[t] # << >>, todo[t][1].kind = "message"
  PROVE  /\ todo[t] \in Seq(Steps) /\ Head(todo[t]) = todo[t][1] /\ todo[t][1] \in Messages
         /\ todo[t][1].writes[1] \in Texts
         /\ Head(todo[t][1].writes) = todo[t][1].writes[1] /\ Tail(todo[t][1].writes) = << >>
<1>1. todo[t] \in Seq(Steps)
  BY DEF MInv
<1>2. todo[t][1] \in Messages /\ Head(todo[t]) = todo[t][1]
  BY <1>1 DEF Steps
<1>3. PICK b \in Texts : todo[t][1].writes = <<b>>
  BY <1>2 DEF Messages
<1>4. Tail(<<b>>) = << >> /\ Head(<<b>>) = b /\ <<b>>[1] = b
  OBVIOUS
<1> QED  BY <1>1, <1>2, <1>3, <1>4

\* What a write, once it returns, leaves its thread to do.
LEMMA Returned ==
  ASSUME MInv, NEW t \in Threads, WriteReturns(t)
  PROVE  /\ todo[t] # << >> /\ todo[t][1].kind = "message" /\ writing = {t} /\ writing' = {}
         /\ GoesOn(t, Tail(todo[t]))
         /\ UNCHANGED <<line, n, alive, row, col, lastWriter, undisturbed, sending>>
<1>1. /\ t \in writing /\ writing = {t} /\ writing' = {}
      /\ UNCHANGED <<line, n, alive, row, col, lastWriter, undisturbed, sending>>
  BY Zenon DEF WriteReturns, Runs, screen
<1>2. todo[t] # << >> /\ todo[t][1].kind = "message"
  BY <1>1 DEF MInv
<1>3. Tail(Head(todo[t]).writes) = << >>
  BY <1>2, HeadMessage
<1>4. GoesOn(t, Tail(todo[t]))
  BY <1>3 DEF WriteReturns
<1> QED  BY <1>1, <1>2, <1>4

\* A byte that goes out changes of the plan only that its head has begun.
LEMMA ByteSent ==
  ASSUME MInv, NEW t \in Threads, WriteByte(t)
  PROVE  /\ writing = {t} /\ UNCHANGED <<line, n, ran, writing, alive>>
         /\ todo[t] # << >> /\ todo[t][1].kind = "message"
         /\ \A u \in Threads \ {t} : todo'[u] = todo[u]
         /\ todo'[t] \in Seq(Steps) /\ Len(todo'[t]) = Len(todo[t])
         /\ \A i \in 2 .. Len(todo[t]) : todo'[t][i] = todo[t][i]
         /\ todo'[t][1].kind = "message" /\ todo'[t][1].writes = todo[t][1].writes
<1>1. /\ t \in writing /\ writing = {t} /\ UNCHANGED <<line, n, ran, writing, alive>>
      /\ todo' = [todo EXCEPT ![t][1].begun = TRUE]
  BY DEF WriteByte, Runs
<1> DEFINE m == [todo[t][1] EXCEPT !.begun = TRUE]
<1>2. todo[t] # << >> /\ todo[t][1].kind = "message" /\ todo \in [Threads -> Seq(Steps)]
  BY <1>1 DEF MInv
<1>3. todo[t] \in Seq(Steps) /\ todo[t][1] \in Messages
  BY <1>2, HeadMessage
<1>4. m \in Steps /\ m.kind = "message" /\ m.writes = todo[t][1].writes
  BY <1>3, Zenon DEF Messages, Steps
<1>5. todo' = [todo EXCEPT ![t] = [todo[t] EXCEPT ![1] = m]]
  BY <1>1
<1> HIDE DEF m
<1>6. /\ todo'[t] \in Seq(Steps) /\ Len(todo'[t]) = Len(todo[t])
      /\ todo'[t][1] = m
      /\ \A i \in 2 .. Len(todo[t]) : todo'[t][i] = todo[t][i]
      /\ \A u \in Threads \ {t} : todo'[u] = todo[u]
  BY <1>2, <1>3, <1>4, <1>5
<1> QED  BY <1>1, <1>2, <1>4, <1>6

\* The shell starts as the line editor does.
LEMMA EditInit == Init => EditInv /\ Editor!Init
<1> SUFFICES ASSUME Init  PROVE EditInv /\ Editor!Init
  OBVIOUS
<1>1. n = 0 /\ ran = Idle /\ todo["reader"] = <<Puts(<<"\n", "?", "\n">>), prompt>>
  BY DEF Init, Threads
<1>2. prompt.kind = "message"
  BY DEF prompt, Puts
<1>3. EditInv
  BY <1>1, <1>2 DEF EditInv
<1>4. MInv
  BY MInit
<1>5. Typed \in Seq(Visible) /\ Len(Typed) = 0
  BY <1>1, <1>3, <1>4, BeginningFacts DEF MInv, EditInv, Typed, Beginning
<1> QED  BY <1>1, <1>3, <1>5, EmptySeq DEF Editor!Init, Editor!Idle, Idle

\* Every step keeps the invariant.
LEMMA EditStep == MInv /\ EditInv /\ [Next]_shellVars => EditInv'
<1> SUFFICES ASSUME MInv, EditInv, [Next]_shellVars  PROVE EditInv'
  OBVIOUS
<1> DEFINE plan == todo["reader"]
<1>0. /\ line \in Arrays /\ n \in Indices /\ n \in Nat
      /\ "reader" \in Threads /\ todo \in [Threads -> Seq(Steps)] /\ plan \in Seq(Steps)
  BY ShellAssumption DEF MInv, Indices, Threads
<1>1. ASSUME UNCHANGED <<line, n, ran>>, UNCHANGED plan
      PROVE  EditInv'
  BY <1>1 DEF EditInv
<1>13. ASSUME NEW b, plan' = <<Puts(b)>>
       PROVE  plan' # << >> /\ plan'[Len(plan')].kind = "message"
  <2>1. Len(<<Puts(b)>>) = 1 /\ <<Puts(b)>>[1] = Puts(b) /\ <<Puts(b)>> # << >>
    OBVIOUS
  <2> QED  BY <1>13, <2>1 DEF Puts
<1>2. CASE PressEnter
  <2> DEFINE first == <<Puts(<<"\r", "\n">>)>> \o Script(ran')
  <2>1. line' \in Arrays /\ n' = 0 /\ plan' = first \o <<prompt>> /\ ran' = dispatch(line')
    BY <1>0, <1>2 DEF PressEnter, ReaderPuts, Arrays
  <2>2. Script(ran') \in Seq(Steps) /\ Puts(<<"\r", "\n">>) \in Steps /\ prompt \in Steps
    <3>1. Puts(<<"\r", "\n">>) \in Fresh /\ prompt \in Fresh
      BY PutsFresh, Zenon DEF Texts, prompt
    <3> QED  BY <2>1, <3>1, ScriptFresh, FreshSequence, Zenon DEF Fresh
  <2>3. first \in Seq(Steps)
    BY <2>2
  <2> HIDE DEF first
  <2>4. plan'[Len(plan')] = prompt /\ plan' # << >>
    BY <2>1, <2>2, <2>3
  <2> QED  BY <2>1, <2>4 DEF EditInv, prompt, Puts
<1>3. CASE PressErase
  <2>1. line' = line /\ ran' = ran /\ ran = Idle
    BY <1>3, Zenon DEF PressErase, AwaitsKey, EditInv
  <2>2. CASE n > 0
    <3>1. n' = n - 1 /\ plan' = <<Puts(<<"bs", " ", "bs">>)>>
      BY <1>0, <1>3, <2>2, Zenon DEF PressErase, ReaderPuts
    <3>2. \A i \in 0 .. n' - 1 : line'[i] \in Visible
      <4>1. \A i \in 0 .. (n - 1) - 1 : i \in 0 .. n - 1
        BY <1>0
      <4>2. \A i \in 0 .. n - 1 : line'[i] \in Visible
        BY <2>1 DEF EditInv
      <4> QED  BY <3>1, <4>1, <4>2, Zenon
    <3> QED  BY <1>13, <3>1, <3>2, Zenon DEF EditInv
  <2>3. CASE ~(n > 0)
    BY <1>1, <1>3, <2>1, <2>3 DEF PressErase
  <2> QED  BY <2>2, <2>3
<1>4. ASSUME NEW c \in Visible, PressVisible(c)  PROVE EditInv'
  <2>1. ran' = ran /\ ran = Idle
    BY <1>4 DEF PressVisible, AwaitsKey, EditInv
  <2>2. CASE n + 1 < LINE_MAX
    <3>1. /\ line' = [line EXCEPT ![n] = c] /\ n' = n + 1
          /\ plan' = <<Puts(<<c>>)>>
      BY <1>0, <1>4, <2>2 DEF PressVisible, ReaderPuts
    <3>2. n + 1 \in Indices
      BY <1>0, <2>2, ShellAssumption DEF Indices
    <3>3. \A i \in 0 .. n : line'[i] \in Visible
      BY <1>0, <3>1, <3>2, BeginningGrows DEF EditInv
    <3>4. 0 .. n' - 1 = 0 .. n
      BY <1>0, <3>1
    <3> QED  BY <1>13, <3>1, <3>3, <3>4, Zenon DEF EditInv
  <2>3. CASE ~(n + 1 < LINE_MAX)
    BY <1>1, <1>4, <2>1, <2>3 DEF PressVisible
  <2> QED  BY <2>2, <2>3
<1>5. ASSUME NEW t \in Threads, WriteStarts(t)  PROVE EditInv'
  BY <1>1, <1>5 DEF WriteStarts
<1>6. ASSUME NEW t \in Threads, WriteByte(t)  PROVE EditInv'
  <2>1. /\ UNCHANGED <<line, n, ran>> /\ todo[t] # << >> /\ todo[t] \in Seq(Steps)
        /\ Len(todo'[t]) = Len(todo[t]) /\ todo'[t] \in Seq(Steps)
        /\ \A i \in 2 .. Len(todo[t]) : todo'[t][i] = todo[t][i]
        /\ todo'[t][1].kind = "message"
    BY <1>0, <1>6, ByteSent
  <2>2. CASE t = "reader"
    BY <2>1, <2>2 DEF EditInv
  <2>3. CASE t # "reader"
    BY <1>0, <1>1, <1>6, <2>1, <2>3, ByteSent
  <2> QED  BY <2>2, <2>3
<1>7. ASSUME plan # << >>
      PROVE  /\ Tail(plan) \in Seq(Steps) /\ Len(Tail(plan)) = Len(plan) - 1
             /\ Tail(plan) # << >> => Tail(plan)[Len(Tail(plan))].kind = "message"
             /\ plan[1].kind # "message" => Tail(plan) # << >>
  <2>1. plan[Len(plan)].kind = "message"
    BY <1>7 DEF EditInv
  <2> HIDE DEF plan
  <2> QED  BY <1>0, <1>7, <2>1, TailEnd
<1>8. ASSUME NEW t \in Threads, WriteReturns(t)  PROVE EditInv'
  <2>1. GoesOn(t, Tail(todo[t])) /\ UNCHANGED <<line, n>> /\ todo[t] # << >>
    BY <1>8, Returned
  <2>2. CASE t = "reader"
    BY <1>0, <1>7, <2>1, <2>2 DEF GoesOn, EditInv
  <2>3. CASE t # "reader"
    BY <1>0, <1>1, <2>1, <2>3 DEF GoesOn
  <2> QED  BY <2>2, <2>3
<1>9. ASSUME NEW pid, Retire(pid), plan # << >>, plan[1].kind # "message", UNCHANGED <<line, n>>
      PROVE  EditInv'
  <2>1. CASE plan' = << >> /\ ran' = Idle
    BY <1>9, <2>1 DEF EditInv
  <2>2. CASE plan' = Tail(plan)
    BY <1>7, <1>9, <2>2 DEF EditInv
  <2> QED  BY <1>0, <1>9, <2>1, <2>2 DEF Retire
<1>10. CASE Kill \/ Crash
  <2>1. /\ plan # << >> /\ UNCHANGED <<line, n>>
        /\ plan[1].kind = "kill" \/ plan[1].kind = "crash"
    BY <1>0, <1>10 DEF Kill, Crash, Starting
  <2>2. plan[1].kind # "message"
    BY <2>1
  <2>3. CASE \E pid : Retire(pid)
    BY <1>9, <2>1, <2>2, <2>3
  <2>4. CASE ReaderPuts(Tail(plan)) /\ ran' = ran
    BY <1>0, <1>7, <2>1, <2>2, <2>4 DEF ReaderPuts, EditInv
  <2>5. CASE ReaderPuts(<<Puts(<<"?", "\n">>)>> \o Tail(plan)) /\ ran' = ran
    <3>1. Puts(<<"?", "\n">>) \in Steps
      BY PutsFresh, Zenon DEF Texts, Fresh
    <3>2. plan' = <<Puts(<<"?", "\n">>)>> \o Tail(plan)
      BY <1>0, <2>5 DEF ReaderPuts
    <3>3. plan' # << >> /\ plan'[Len(plan')] = Tail(plan)[Len(Tail(plan))]
      BY <1>7, <2>1, <2>2, <3>1, <3>2
    <3> QED  BY <1>7, <2>1, <2>2, <3>3 DEF EditInv
  <2> QED  BY <1>10, <2>3, <2>4, <2>5 DEF Kill, Crash
<1>11. CASE HeartbeatDue \/ LineDue
  BY <1>0, <1>1, <1>11 DEF HeartbeatDue, LineDue
<1>12. CASE UNCHANGED shellVars
  BY <1>1, <1>12 DEF shellVars
<1> QED
  BY <1>2, <1>3, <1>4, <1>5, <1>6, <1>8, <1>10, <1>11, <1>12 DEF Next, Act, Over

\* Every step is a step of the line editor, or leaves line and command alone.
LEMMA EditSimulates == MInv /\ EditInv /\ [Next]_shellVars => [Editor!Next]_<<Typed, ran>>
<1> SUFFICES ASSUME MInv, EditInv, [Next]_shellVars  PROVE [Editor!Next]_<<Typed, ran>>
  OBVIOUS
<1>0. /\ line \in Arrays /\ n \in Indices /\ n \in Nat /\ LINE_MAX \in Nat
      /\ "reader" \in Threads /\ todo \in [Threads -> Seq(Steps)]
      /\ \A i \in 0 .. n - 1 : line[i] \in Visible
  BY ShellAssumption DEF MInv, Indices, Threads, EditInv
<1>1. /\ Typed = Beginning(line, n) /\ Typed' = Beginning(line', n')
      /\ Typed \in Seq(Visible) /\ Len(Typed) = n
  BY <1>0, BeginningFacts DEF Typed, Beginning
<1>2. Idle = Editor!Idle
  BY DEF Idle, Editor!Idle
<1>3. ASSUME UNCHANGED <<line, n>>, ran' = ran \/ ran' = Idle
      PROVE  [Editor!Next]_<<Typed, ran>>
  <2>1. Typed' = Typed
    BY <1>3 DEF Typed
  <2> QED  BY <1>2, <1>3, <2>1 DEF Editor!Next, Editor!Done
<1>4. CASE PressEnter
  <2>1. ran = Idle /\ n' = 0 /\ line' = [line EXCEPT ![n] = NUL] /\ ran' = dispatch(line')
    BY <1>4 DEF PressEnter, AwaitsKey, EditInv
  <2>2. CString(line') = Typed
    BY <1>0, <1>1, <2>1, TerminatedString, Zenon DEF Beginning
  <2>3. ran' = Editor!Interpret(Typed)
    BY <1>1, <2>1, <2>2, DispatchIsInterpret
  <2>4. Typed' = << >>
    BY <2>1 DEF Typed
  <2> QED  BY <1>2, <2>1, <2>3, <2>4 DEF Editor!Next, Editor!Enter
<1>5. CASE PressErase
  <2>1. ran = Idle /\ ran' = ran /\ line' = line
    BY <1>5, Zenon DEF PressErase, AwaitsKey, EditInv
  <2>2. CASE n > 0
    <3>1. n' = n - 1 /\ n # 0
      <4>1. n' = n - 1
        BY <1>5, <2>2, Zenon DEF PressErase
      <4>2. n # 0
        BY <1>0, <2>2
      <4> QED  BY <4>1, <4>2
    <3>2. Typed' = SubSeq(Typed, 1, Len(Typed) - 1)
      BY <1>0, <1>1, <2>1, <3>1, BeginningShrinks, Zenon
    <3>3. Typed # << >>
      BY <1>1, <3>1, EmptySeq
    <3> QED  BY <1>2, <2>1, <3>2, <3>3 DEF Editor!Next, Editor!Erase
  <2>3. CASE ~(n > 0)
    BY <1>3, <1>5, <2>1, <2>3 DEF PressErase
  <2> QED  BY <2>2, <2>3
<1>6. ASSUME NEW c \in Visible, PressVisible(c)  PROVE [Editor!Next]_<<Typed, ran>>
  <2>1. ran = Idle /\ ran' = ran
    BY <1>6 DEF PressVisible, AwaitsKey, EditInv
  <2>2. CASE n + 1 < LINE_MAX
    <3>1. line' = [line EXCEPT ![n] = c] /\ n' = n + 1
      BY <1>6, <2>2 DEF PressVisible
    <3>2. n + 1 \in Indices /\ n < LINE_MAX - 1
      BY <1>0, <2>2 DEF Indices
    <3>3. Typed' = Append(Typed, c)
      <4>1. Beginning([line EXCEPT ![n] = c], n + 1) = Append(Beginning(line, n), c)
        BY <1>0, <3>2, BeginningGrows, ZenonT(40)
      <4> QED  BY <1>1, <3>1, <4>1, Zenon
    <3>4. Editor!Type(c)
      BY <1>1, <1>2, <2>1, <3>2, <3>3 DEF Editor!Type
    <3> QED  BY <3>4 DEF Editor!Next
  <2>3. CASE ~(n + 1 < LINE_MAX)
    BY <1>3, <1>6, <2>1, <2>3 DEF PressVisible
  <2> QED  BY <2>2, <2>3
<1>7. ASSUME NEW t \in Threads, Act(t)  PROVE [Editor!Next]_<<Typed, ran>>
  <2>1. CASE WriteStarts(t) \/ WriteByte(t)
    BY <1>3, <2>1 DEF WriteStarts, WriteByte
  <2>2. CASE WriteReturns(t)
    BY <1>3, <2>2 DEF WriteReturns, GoesOn
  <2>3. CASE Kill \/ Crash
    BY <1>3, <2>3 DEF Kill, Crash, Retire
  <2> QED  BY <1>7, <2>1, <2>2, <2>3 DEF Act
<1>8. CASE HeartbeatDue \/ LineDue \/ UNCHANGED shellVars
  BY <1>3, <1>8 DEF HeartbeatDue, LineDue, shellVars
<1> QED  BY <1>4, <1>5, <1>6, <1>7, <1>8 DEF Next, Over

\* What main(), dispatch and the string functions of the library make of the
\* keys is the line editor, for any line length, keys and command table: stale
\* bytes of earlier lines are never run, and a command is chosen by the whole
\* of the first word.
THEOREM LineEditorRefinement == Spec => ImplementsLineEditor
<1>1. Init => MInv /\ EditInv
  BY MInit, EditInit
<1>2. MInv /\ EditInv /\ [Next]_shellVars => (MInv /\ EditInv)'
  BY MStep, EditStep
<1> QED
  BY <1>1, <1>2, EditInit, EditSimulates, PTL DEF Spec, ImplementsLineEditor, Editor!Spec

-----------------------------------------------------------------------------
(* What an argument consists of.                                           *)

\* What is left of a string without its leading blanks.
LEMMA SkipType ==
  ASSUME NEW S, NEW s \in Seq(S)
  PROVE  skip_spaces(s) \in Seq(S)
<1>1. CASE Solid(s) = {}
  BY <1>1 DEF skip_spaces, Solid
<1>2. CASE Solid(s) # {}
  BY <1>2, Skipped
<1> QED  BY <1>1, <1>2

\* An argument consists of what the array holds.
LEMMA ArgType ==
  ASSUME NEW arr \in Arrays
  PROVE  dispatch(arr).arg \in Seq(Visible \cup {NUL, JUNK})
<1> DEFINE S == Visible \cup {NUL, JUNK}
<1> DEFINE ends == {i \in Indices : arr[i] = NUL}
<1> DEFINE end == IF ends = {} THEN LINE_MAX ELSE Min(ends)
<1> DEFINE s == CString(arr)
<1> DEFINE p == skip_spaces(s)
<1> DEFINE hits == {i \in 1 .. Len(Commands) : Matches(p, Commands[i].word)}
<1> DEFINE e == Commands[Min(hits)]
<1>1. LINE_MAX \in Nat /\ Indices \in SUBSET Nat
  BY ShellAssumption DEF Indices
<1>2. end \in Nat /\ end <= LINE_MAX
  <2>1. CASE ends = {}
    BY <1>1, <2>1
  <2>2. CASE ends # {}
    <3>1. ends \in SUBSET Nat
      BY <1>1, Zenon
    <3>2. Min(ends) \in ends
      <4> HIDE DEF ends
      <4> QED  BY <2>2, <3>1, Least
    <3> QED  BY <1>1, <2>2, <3>2 DEF Indices
  <2> QED  BY <2>1, <2>2
<1>3. s = [i \in 1 .. end |-> arr[i - 1]]
  BY DEF CString
<1> HIDE DEF end, s, p
<1>4. s \in Seq(S)
  <2>1. \A i \in 1 .. end : i - 1 \in Indices
    BY <1>1, <1>2 DEF Indices
  <2>2. s \in [1 .. end -> S]
    BY <1>3, <2>1 DEF Arrays
  <2> HIDE DEF S
  <2> QED  BY <1>2, <2>2, SeqDef
<1> HIDE DEF S
<1>5. p \in Seq(S)
  BY <1>4, SkipType DEF p
<1>6. /\ dispatch(arr).arg = << >> \/ dispatch(arr).arg = AfterWord(p, e.word)
      /\ hits = {} => dispatch(arr).arg = << >>
  BY DEF dispatch, p, s
<1>7. ASSUME hits # {}
      PROVE  AfterWord(p, e.word) \in Seq(S)
  <2>1. /\ Commands \in Seq([word : Seq(Visible \ {" ", "\t"}) \ {<< >>}, cmd : STRING])
    BY TableAssumption, Zenon
  <2>2. Len(Commands) \in Nat
    BY <2>1, LenProperties, Zenon
  <2>3. Min(hits) \in hits
    <3>1. hits \in SUBSET Nat
      BY <2>2
    <3> HIDE DEF hits
    <3> QED  BY <1>7, <3>1, Least
  <2>4. Min(hits) \in 1 .. Len(Commands) /\ Len(e.word) <= Len(p)
    BY <2>3, Zenon DEF Matches
  <2>5. e \in [word : Seq(Visible \ {" ", "\t"}) \ {<< >>}, cmd : STRING]
    BY <2>1, <2>4, ElementOfSeq, Zenon
  <2> HIDE DEF e
  <2> DEFINE k == Len(e.word)
  <2>6. k \in Nat /\ Len(p) \in Nat
    BY <1>5, <2>5, LenProperties, Zenon
  <2>7. k + 1 \in 1 .. Len(p) + 1 /\ Len(p) \in (k + 1) - 1 .. Len(p)
    BY <2>4, <2>6
  <2> HIDE DEF k
  <2>8. SubSeq(p, k + 1, Len(p)) \in Seq(S)
    BY <1>5, <2>7, Part
  <2> QED  BY <2>8, SkipType, Zenon DEF AfterWord, k
<1>8. dispatch(arr).arg \in Seq(S)
  <2>1. << >> \in Seq(S)
    OBVIOUS
  <2> HIDE DEF e, hits
  <2> QED  BY <1>6, <1>7, <2>1, Zenon
<1> QED  BY <1>8 DEF S

=============================================================================
