---------------------------- MODULE FormatProofs ----------------------------
(***************************************************************************)
(* The kernel's and the library's number formatting and printf, for any    *)
(* width of an int, radix, number of digits, format and arguments: every   *)
(* numeral denotes its number, and the two printfs put out the same text.  *)
(* So does a program's every message, since only ulib_printf makes one.    *)
(*                                                                         *)
(* The loops of the code are recursive functions.  Induction and Loop give *)
(* what TLAPS needs to reason about them: a function that starts with a    *)
(* value and goes on with a step exists, and two that take the same steps  *)
(* end alike.                                                              *)
(***************************************************************************)
EXTENDS UserProgram, WellFoundedInduction, TLAPS

-----------------------------------------------------------------------------
(* Messages.                                                               *)

\* The step ends in a call by one of these names.
Answers(ops) == "op" \in DOMAIN call' /\ call'.op \in ops

\* Both kinds of answer name the call they answer.
LEMMA AnswerNames ==
  ASSUME NEW op, NEW buf, NEW len, NEW n, NEW result
  PROVE  /\ ReturnsFrom(op, buf, len, n, result) => Answers({op})
         /\ Returns(op, result) => Answers({op})
<1>1. ReturnsFrom(op, buf, len, n, result) => Answers({op})
  BY DEF ReturnsFrom, Answers
<1>2. Returns(op, result) => Answers({op})
  BY DEF Returns, Answers
<1> QED  BY <1>1, <1>2

\* Every call the program can make.
LEMMA CallNames ==
  ASSUME MakeCall
  PROVE  Answers({"write", "read", "ps", "listing", "kill", "getpid", "bad"})
<1> DEFINE ops == {"write", "read", "ps", "listing", "kill", "getpid", "bad"}
<1>1. ASSUME NEW op \in ops, Answers({op})
      PROVE  Answers(ops)
  BY <1>1 DEF Answers
<1>2. "write" \in ops /\ "read" \in ops /\ "ps" \in ops /\ "kill" \in ops /\ "getpid" \in ops /\ "bad" \in ops
  OBVIOUS
<1> DEFINE listing(buf, len, states) ==
      call' = [op |-> "listing", buf |-> buf, len |-> len, states |-> states, out |-> << >>, i |-> 0]
<1>3. ASSUME NEW buf, NEW len, NEW states, listing(buf, len, states)
      PROVE  Answers(ops)
  BY <1>3 DEF Answers
<1> HIDE DEF ops
<1>4. ASSUME NEW buf, NEW len, sys_write(buf, len)
      PROVE  Answers(ops)
  BY <1>1, <1>2, <1>4, AnswerNames DEF sys_write
<1>5. ASSUME NEW buf, NEW len, NEW k, sys_read(buf, len, k)
      PROVE  Answers(ops)
  BY <1>1, <1>2, <1>5, AnswerNames DEF sys_read
<1>6. ASSUME NEW buf, NEW len, NEW states, sys_ps(buf, len, states)
      PROVE  Answers(ops)
  <2>1. ReturnsFrom("ps", buf, len, 0, E_FAULT) \/ listing(buf, len, states)
    BY <1>6 DEF sys_ps
  <2> HIDE DEF listing
  <2> QED  BY <1>1, <1>2, <1>3, <2>1, AnswerNames
<1>7. ASSUME NEW pid, sys_kill(pid) \/ sys_getpid(pid) \/ BadCall(pid)
      PROVE  Answers(ops)
  BY <1>1, <1>2, <1>7, AnswerNames DEF sys_kill, sys_getpid, BadCall
<1> HIDE DEF listing
<1>8. Answers(ops)
  BY <1>4, <1>5, <1>6, <1>7 DEF MakeCall
<1> QED  BY <1>8 DEF ops

\* A call has a name, and a message is what ulib_printf composes of arguments
\* the program has.
PrintInv ==
  /\ "op" \in DOMAIN call
  /\ call.op = "printf" =>
       \E fmt \in Formats, v \in Numbers, s \in Strings :
         call = [op |-> "printf", fmt |-> fmt, v |-> v, s |-> s, text |-> ulib_printf(fmt, v, s, Char)]

\* Only ulib_printf makes a message.
THEOREM MessageInvariance == Spec => []PrintInv
<1>1. Init => PrintInv
  BY DEF Init, SyscallsInit, NoCall, PrintInv
<1>2. ASSUME PrintInv, [Next]_progVars
      PROVE  PrintInv'
  <2>1. ASSUME NEW ops, Answers(ops), "printf" \notin ops
        PROVE  PrintInv'
    BY <2>1 DEF Answers, PrintInv
  <2>2. CASE UNCHANGED call
    BY <1>2, <2>2 DEF PrintInv
  <2>3. CASE MakeCall
    BY <2>1, <2>3, CallNames
  <2>4. CASE SyscallReturn
    <3>1. Answers({NoCall.op}) /\ NoCall.op # "printf"
      BY <2>4 DEF SyscallReturn, NoCall, Answers
    <3> QED  BY <2>1, <3>1
  <2>5. ASSUME NEW out, PsReturn(out)
        PROVE  PrintInv'
    <3>1. Answers({"ps"})
      BY <2>5 DEF PsReturn, Answers
    <3> QED  BY <2>1, <3>1
  <2>6. CASE PsLoop
    <3> DEFINE line == PsLine(call.out, call.i, call.states, call.len)
    <3>1. /\ call.op = "listing"
          /\ PsReturn(line.out) \/ call' = [call EXCEPT !.out = line.out, !.i = @ + 1]
      BY <2>6 DEF PsLoop
    <3> HIDE DEF line
    <3>2. ASSUME call' = [call EXCEPT !.out = line.out, !.i = @ + 1]
          PROVE  Answers({"listing"})
      BY <1>2, <3>1, <3>2 DEF PrintInv, Answers
    <3> QED  BY <2>1, <2>5, <3>1, <3>2
  <2>7. CASE PsDone
    BY <2>5, <2>7 DEF PsDone
  <2>8. ASSUME NEW fmt \in Formats, NEW v \in Numbers, NEW s \in Strings, Message(fmt, v, s)
        PROVE  PrintInv'
    BY <2>8 DEF Message, PrintInv
  <2> QED
    BY <1>2, <2>2, <2>3, <2>4, <2>6, <2>7, <2>8 DEF Next, progVars, Tick, Wait, Call, Ps, Return
<1> QED  BY <1>1, <1>2, PTL DEF Spec

\* The text of a message and the arguments it was composed of.
LEMMA MessageArguments ==
  ASSUME PrintInv, call.op = "printf"
  PROVE  /\ call.fmt \in Seq(Characters) /\ call.v \in UInts /\ call.s \in Seq(Characters)
         /\ Char \in Characters
         /\ call.text = ulib_printf(call.fmt, call.v, call.s, Char)
<1>1. PICK fmt \in Formats, v \in Numbers, s \in Strings :
        call = [op |-> "printf", fmt |-> fmt, v |-> v, s |-> s, text |-> ulib_printf(fmt, v, s, Char)]
  BY DEF PrintInv
<1>2. call.fmt = fmt /\ call.v = v /\ call.s = s /\ call.text = ulib_printf(fmt, v, s, Char)
  BY <1>1
<1>3. v \in UInts /\ s \in Seq(Characters) /\ fmt \in Seq(Characters) /\ Char \in Characters
  BY ProgramAssumption
<1> QED  BY <1>2, <1>3, Zenon

-----------------------------------------------------------------------------
(* Induction and loops.                                                    *)

\* A set of naturals that holds 0 and, below n, with every number the next one
\* holds 0 to n.
LEMMA Induction ==
  ASSUME NEW n \in Nat, NEW P, 0 \in P, \A k \in 0 .. n - 1 : k \in P => k + 1 \in P
  PROVE  \A k \in 0 .. n : k \in P
<1> DEFINE T == {k \in 0 .. n : k \notin P}
<1> SUFFICES ASSUME T # {} PROVE FALSE
  OBVIOUS
<1>1. T \subseteq Nat
  OBVIOUS
<1>2. \E x \in T : \A y \in T : ~(<<y, x>> \in OpToRel(<, Nat))
  <2> HIDE DEF T
  <2> QED  BY <1>1, WFMin, NatLessThanWellFounded, Zenon
<1>3. PICK x \in T : \A y \in T : ~(<<y, x>> \in OpToRel(<, Nat))
  BY <1>2, Zenon
<1>4. x \in 0 .. n /\ x \notin P /\ x # 0
  OBVIOUS
<1>5. x - 1 \in 0 .. n - 1 /\ (x - 1) + 1 = x /\ x - 1 \in 0 .. n /\ x - 1 < x /\ x - 1 \in Nat /\ x \in Nat
  BY <1>4
<1>6. x - 1 \notin P
  BY <1>4, <1>5
<1>7. x - 1 \in T
  BY <1>5, <1>6
<1>8. <<x - 1, x>> \in OpToRel(<, Nat)
  BY <1>5 DEF OpToRel
<1> QED  BY <1>3, <1>7, <1>8, Zenon

\* H[k] makes the k-th value of the earlier ones, and f is what it makes.
Makes(H, n, S) == \A k \in 0 .. n : \A g \in [0 .. k - 1 -> S] : H[k][g] \in S

IsMade(f, H, n, S) ==
  \A k \in 0 .. n : \A g \in [0 .. k - 1 -> S] :
    (\A i \in 0 .. k - 1 : g[i] = f[i]) => f[k] = H[k][g]

\* A function can be defined by saying what each value is made of the earlier ones.
LEMMA Recursion ==
  ASSUME NEW n \in Nat, NEW S, NEW H, Makes(H, n, S)
  PROVE  \E f \in [0 .. n -> S] : IsMade(f, H, n, S)
<1> USE DEF Makes, IsMade
<1> DEFINE Made(k, f) == /\ f \in [0 .. k - 1 -> S]
                         /\ \A j \in 0 .. k - 1 : f[j] = H[j][[i \in 0 .. j - 1 |-> f[i]]]
<1> DEFINE P == {k \in 0 .. n + 1 : \E f : Made(k, f)}
<1>1. 0 \in P
  <2>1. Made(0, [i \in 0 .. 0 - 1 |-> i])
    OBVIOUS
  <2> HIDE DEF Made
  <2> QED  BY <2>1
<1>2. ASSUME NEW k \in 0 .. (n + 1) - 1, k \in P
      PROVE  k + 1 \in P
  <2>1. PICK f : Made(k, f)
    BY <1>2
  <2> DEFINE g == [i \in 0 .. (k + 1) - 1 |-> IF i < k THEN f[i] ELSE H[k][f]]
  <2>2. k \in 0 .. n /\ k \in Nat /\ f \in [0 .. k - 1 -> S]
    BY <2>1
  <2>3. H[k][f] \in S
    BY <2>2
  <2>4. ASSUME NEW i \in 0 .. (k + 1) - 1 PROVE  g[i] \in S
    BY <2>2, <2>3, <2>4
  <2>5. g \in [0 .. (k + 1) - 1 -> S]
    BY <2>4
  <2>6. ASSUME NEW j \in 0 .. (k + 1) - 1
        PROVE  g[j] = H[j][[i \in 0 .. j - 1 |-> g[i]]]
    <3>1. CASE j < k
      <4>1. g[j] = f[j] /\ j \in 0 .. k - 1
        BY <2>2, <3>1
      <4>2. [i \in 0 .. j - 1 |-> g[i]] = [i \in 0 .. j - 1 |-> f[i]]
        BY <2>2, <3>1
      <4>3. f[j] = H[j][[i \in 0 .. j - 1 |-> f[i]]]
        BY <2>1, <4>1
      <4> HIDE DEF g
      <4> QED  BY <4>1, <4>2, <4>3
    <3>2. CASE ~(j < k)
      <4>1. j = k /\ g[j] = H[k][f]
        BY <2>2, <3>2
      <4>2. [i \in 0 .. k - 1 |-> g[i]] = f
        BY <2>2
      <4> HIDE DEF g
      <4> QED  BY <4>1, <4>2
    <3> QED  BY <3>1, <3>2
  <2>7. Made(k + 1, g)
    <3> HIDE DEF g
    <3> QED  BY <2>5, <2>6
  <2>8. k + 1 \in 0 .. n + 1
    OBVIOUS
  <2> HIDE DEF Made
  <2> QED  BY <2>7, <2>8
<1> HIDE DEF P
<1>3. \A k \in 0 .. n + 1 : k \in P
  <2>1. n + 1 \in Nat
    OBVIOUS
  <2> QED  BY <1>1, <1>2, <2>1, Induction, Zenon
<1>4. n + 1 \in P
  BY <1>3
<1>5. PICK f : Made(n + 1, f)
  BY <1>4 DEF P
<1>6. (n + 1) - 1 = n
  OBVIOUS
<1>7. ASSUME NEW k \in 0 .. n, NEW g \in [0 .. k - 1 -> S], \A i \in 0 .. k - 1 : g[i] = f[i]
      PROVE  f[k] = H[k][g]
  <2>1. g = [i \in 0 .. k - 1 |-> f[i]]
    BY <1>7
  <2> QED  BY <1>5, <1>6, <2>1
<1>8. f \in [0 .. n -> S]
  BY <1>5, <1>6
<1> QED  BY <1>7, <1>8

\* f starts with c and goes on with G.
StaysIn(G, n, S) == \A k \in 1 .. n : \A x \in S : G[k][x] \in S

Iterates(f, n, c, G) == f[0] = c /\ \A k \in 1 .. n : f[k] = G[k][f[k - 1]]

\* The same when each value depends on the one before it only.
LEMMA Loop ==
  ASSUME NEW n \in Nat, NEW S, NEW c \in S, NEW G,
         StaysIn(G, n, S)
  PROVE  \E f \in [0 .. n -> S] : Iterates(f, n, c, G)
<1> DEFINE H == [k \in 0 .. n |-> [g \in [0 .. k - 1 -> S] |-> IF k = 0 THEN c ELSE G[k][g[k - 1]]]]
<1>1. ASSUME NEW k \in 0 .. n, NEW g \in [0 .. k - 1 -> S]
      PROVE  H[k][g] = (IF k = 0 THEN c ELSE G[k][g[k - 1]]) /\ H[k][g] \in S
  <2>1. H[k][g] = (IF k = 0 THEN c ELSE G[k][g[k - 1]])
    OBVIOUS
  <2>2. k # 0 => k \in 1 .. n /\ g[k - 1] \in S
    OBVIOUS
  <2> HIDE DEF H
  <2> QED  BY <2>1, <2>2 DEF StaysIn
<1> HIDE DEF H
<1>2. Makes(H, n, S)
  BY <1>1 DEF Makes
<1>3. PICK f \in [0 .. n -> S] : IsMade(f, H, n, S)
  BY <1>2, Recursion
<1>4. ASSUME NEW k \in 0 .. n
      PROVE  f[k] = IF k = 0 THEN c ELSE G[k][f[k - 1]]
  <2> DEFINE g == [i \in 0 .. k - 1 |-> f[i]]
  <2>1. g \in [0 .. k - 1 -> S] /\ (\A i \in 0 .. k - 1 : g[i] = f[i]) /\ (k # 0 => g[k - 1] = f[k - 1])
    OBVIOUS
  <2> HIDE DEF g
  <2>2. f[k] = H[k][g]
    BY <1>3, <2>1 DEF IsMade
  <2> QED  BY <1>1, <2>1, <2>2
<1>5. Iterates(f, n, c, G)
  BY <1>4 DEF Iterates
<1> QED  BY <1>5
-----------------------------------------------------------------------------
\* Division by a number greater than one.
LEMMA Divide ==
  ASSUME NEW a \in Nat, NEW b \in Nat \ {0, 1}
  PROVE  /\ a \div b \in Nat /\ a % b \in 0 .. b - 1 /\ a = (a \div b) * b + (a % b)
         /\ a # 0 => a \div b < a
         /\ a \div b = 0 => a % b = a
OBVIOUS

\* A larger number has no smaller quotient.
LEMMA DivideMonotone ==
  ASSUME NEW a \in Nat, NEW c \in Nat, NEW b \in Nat \ {0, 1}, a <= c
  PROVE  a \div b <= c \div b
<1> DEFINE p == a \div b
           q == c \div b
<1>1. p \in Nat /\ p * b <= a
  BY Divide
<1>2. q \in Nat /\ c < q * b + b
  BY Divide
<1> HIDE DEF p, q
<1>3. p * b < (q + 1) * b
  BY <1>1, <1>2
<1>4. p < q + 1
  BY <1>1, <1>2, <1>3
<1> QED  BY <1>1, <1>2, <1>4 DEF p, q

\* The loop that divides, step by step.
Divides(q, v, b, n) == q[0] = v /\ \A i \in 1 .. n : q[i] = q[i - 1] \div b

\* Quotient is what it leaves.
LEMMA QuotientLoop ==
  ASSUME NEW v \in Nat, NEW b \in Nat \ {0, 1}, NEW n \in Nat
  PROVE  \E q \in [0 .. n -> Nat] : Divides(q, v, b, n) /\ Quotient(v, b, n) = q[n]
<1> DEFINE G == [i \in 1 .. n |-> [x \in Nat |-> x \div b]]
<1>1. \A i \in 1 .. n : \A x \in Nat : G[i][x] = x \div b /\ x \div b \in Nat
  BY Divide
<1> HIDE DEF G
<1>2. StaysIn(G, n, Nat)
  BY <1>1 DEF StaysIn
<1>3. PICK f \in [0 .. n -> Nat] : Iterates(f, n, v, G)
  BY <1>2, Loop, Zenon
<1>4. f = [i \in 0 .. n |-> IF i = 0 THEN v ELSE f[i - 1] \div b]
  <2>1. ASSUME NEW i \in 0 .. n
        PROVE  f[i] = IF i = 0 THEN v ELSE f[i - 1] \div b
    <3>1. i # 0 => i \in 1 .. n /\ f[i - 1] \in Nat
      OBVIOUS
    <3> QED  BY <1>1, <1>3, <3>1, Zenon DEF Iterates
  <2> QED  BY <2>1
<1> DEFINE q == CHOOSE g : g = [i \in 0 .. n |-> IF i = 0 THEN v ELSE g[i - 1] \div b]
<1>5. q = [i \in 0 .. n |-> IF i = 0 THEN v ELSE q[i - 1] \div b]
  BY <1>4, Zenon
<1>6. Quotient(v, b, n) = q[n]
  BY DEF Quotient
<1> HIDE DEF q
<1> DEFINE P == {i \in 0 .. n : q[i] \in Nat}
<1>7. 0 \in P
  BY <1>5
<1>8. ASSUME NEW i \in 0 .. n - 1, i \in P
      PROVE  i + 1 \in P
  <2>1. i + 1 \in 1 .. n /\ (i + 1) - 1 = i /\ i + 1 \in 0 .. n
    OBVIOUS
  <2>2. q[i + 1] = q[i] \div b
    BY <1>5, <2>1
  <2>3. q[i + 1] \in Nat
    BY <1>8, <2>2, Divide, ZenonT(40)
  <2> QED  BY <2>1, <2>3
<1> HIDE DEF P
<1>9. \A i \in 0 .. n : i \in P
  BY <1>7, <1>8, Induction, Zenon
<1>10. q \in [0 .. n -> Nat]
  BY <1>5, <1>9 DEF P
<1>11. Divides(q, v, b, n)
  BY <1>5 DEF Divides
<1> QED  BY <1>6, <1>10, <1>11

\* One division more.
LEMMA QuotientStep ==
  ASSUME NEW v \in Nat, NEW b \in Nat \ {0, 1}, NEW n \in Nat
  PROVE  /\ Quotient(v, b, 0) = v
         /\ Quotient(v, b, n) \in Nat
         /\ Quotient(v, b, n + 1) = Quotient(v, b, n) \div b
<1>1. PICK q \in [0 .. n -> Nat] : Divides(q, v, b, n) /\ Quotient(v, b, n) = q[n]
  BY QuotientLoop, Zenon
<1>2. PICK r \in [0 .. n + 1 -> Nat] : Divides(r, v, b, n + 1) /\ Quotient(v, b, n + 1) = r[n + 1]
  <2>1. n + 1 \in Nat
    OBVIOUS
  <2> QED  BY <2>1, QuotientLoop, Zenon
<1> DEFINE P == {i \in 0 .. n : q[i] = r[i]}
<1>3. 0 \in P
  BY <1>1, <1>2 DEF Divides
<1>4. ASSUME NEW i \in 0 .. n - 1, i \in P
      PROVE  i + 1 \in P
  <2>1. i + 1 \in 1 .. n /\ (i + 1) - 1 = i /\ i + 1 \in 0 .. n /\ i + 1 \in 1 .. n + 1
    OBVIOUS
  <2>2. q[i + 1] = q[i] \div b /\ r[i + 1] = r[i] \div b
    BY <1>1, <1>2, <2>1 DEF Divides
  <2> QED  BY <1>4, <2>1, <2>2
<1> HIDE DEF P
<1>5. n \in P
  <2>1. \A i \in 0 .. n : i \in P
    BY <1>3, <1>4, Induction, Zenon
  <2> QED  BY <2>1
<1>6. q[n] = r[n]
  BY <1>5 DEF P
<1>7. r[n + 1] = r[n] \div b
  <2>1. n + 1 \in 1 .. n + 1 /\ (n + 1) - 1 = n
    OBVIOUS
  <2> QED  BY <1>2, <2>1 DEF Divides
<1>8. Quotient(v, b, 0) = v
  <2>1. PICK z \in [0 .. 0 -> Nat] : Divides(z, v, b, 0) /\ Quotient(v, b, 0) = z[0]
    BY QuotientLoop, Zenon
  <2> QED  BY <2>1 DEF Divides
<1> QED  BY <1>1, <1>2, <1>6, <1>7, <1>8

\* A smaller number is used up no later.
LEMMA QuotientMonotone ==
  ASSUME NEW v \in Nat, NEW w \in Nat, v <= w, NEW b \in Nat \ {0, 1}, NEW n \in Nat
  PROVE  Quotient(v, b, n) <= Quotient(w, b, n)
<1> DEFINE P == {i \in 0 .. n : Quotient(v, b, i) <= Quotient(w, b, i)}
<1>1. 0 \in P
  BY QuotientStep
<1>2. ASSUME NEW i \in 0 .. n - 1, i \in P
      PROVE  i + 1 \in P
  <2>1. i \in Nat /\ i + 1 \in 0 .. n
    OBVIOUS
  <2>2. /\ Quotient(v, b, i) \in Nat /\ Quotient(v, b, i + 1) = Quotient(v, b, i) \div b
        /\ Quotient(w, b, i) \in Nat /\ Quotient(w, b, i + 1) = Quotient(w, b, i) \div b
    BY <2>1, QuotientStep, Zenon
  <2>3. Quotient(v, b, i) <= Quotient(w, b, i)
    BY <1>2
  <2>4. Quotient(v, b, i) \div b <= Quotient(w, b, i) \div b
    BY <2>2, <2>3, DivideMonotone
  <2> QED  BY <2>1, <2>2, <2>4
<1> HIDE DEF P
<1>3. \A i \in 0 .. n : i \in P
  BY <1>1, <1>2, Induction
<1> QED  BY <1>3 DEF P

\* What is used up stays so.
LEMMA QuotientUsedUp ==
  ASSUME NEW v \in Nat, NEW b \in Nat \ {0, 1}, NEW m \in Nat, NEW n \in Nat, m <= n,
         Quotient(v, b, m) = 0
  PROVE  Quotient(v, b, n) = 0
<1> DEFINE P == {i \in 0 .. n - m : Quotient(v, b, m + i) = 0}
<1>1. 0 \in P
  OBVIOUS
<1>2. ASSUME NEW i \in 0 .. (n - m) - 1, i \in P
      PROVE  i + 1 \in P
  <2>1. m + i \in Nat /\ m + (i + 1) = (m + i) + 1 /\ i + 1 \in 0 .. n - m
    OBVIOUS
  <2>2. Quotient(v, b, (m + i) + 1) = Quotient(v, b, m + i) \div b
    BY <2>1, QuotientStep
  <2>3. 0 \div b = 0
    OBVIOUS
  <2> QED  BY <1>2, <2>1, <2>2, <2>3
<1> HIDE DEF P
<1>3. \A i \in 0 .. n - m : i \in P
  <2>1. n - m \in Nat
    OBVIOUS
  <2> QED  BY <1>1, <1>2, <2>1, Induction
<1>4. n - m \in P /\ m + (n - m) = n
  BY <1>3
<1> QED  BY <1>4 DEF P

\* No two digits are written alike.
LEMMA DigitTable ==
  ASSUME NEW n \in 0 .. 15
  PROVE  /\ digit[n] = "0" => n = 0
         /\ \A k \in 0 .. 15 : digit[k] = digit[n] => k = n
         /\ digit[0] = "0"
<1>1. /\ digit[0] = "0" /\ digit[1] = "1" /\ digit[2] = "2" /\ digit[3] = "3"
      /\ digit[4] = "4" /\ digit[5] = "5" /\ digit[6] = "6" /\ digit[7] = "7"
      /\ digit[8] = "8" /\ digit[9] = "9" /\ digit[10] = "a" /\ digit[11] = "b"
      /\ digit[12] = "c" /\ digit[13] = "d" /\ digit[14] = "e" /\ digit[15] = "f"
  BY DEF digit
<1>2. 0 .. 15 = {0, 1, 2, 3, 4, 5, 6, 7, 8, 9, 10, 11, 12, 13, 14, 15}
  OBVIOUS
<1>4. digit[n] = "0" => n = 0
  BY <1>1, <1>2
<1>5. ASSUME NEW k \in 0 .. 15, digit[k] = digit[n]
      PROVE  k = n
  BY <1>1, <1>2, <1>5
<1> QED  BY <1>1, <1>4, <1>5

\* Reading a digit gives its number.
LEMMA DigitRead ==
  ASSUME NEW n \in 0 .. 15
  PROVE  (CHOOSE k \in 0 .. 15 : digit[k] = digit[n]) = n
BY DigitTable

\* n digits that use v up, the last division's remainder first.
Spells(text, n, v, b) ==
  /\ Len(text) = n
  /\ Quotient(v, b, n) = 0
  /\ \A i \in 1 .. n : text[i] = digit[Quotient(v, b, n - i) % b]

\* Horner's rule undoes the divisions, whatever zeros stand in front.
LEMMA ValueOf ==
  ASSUME NEW v \in Nat, NEW b \in Nat \ {0, 1}, b <= 16, NEW n \in Nat, NEW text,
         Spells(text, n, v, b)
  PROVE  Value(text, b) = v
<1>a. \A m \in Nat : Quotient(v, b, m) \in Nat /\ Quotient(v, b, m + 1) = Quotient(v, b, m) \div b
  BY QuotientStep, Zenon
<1> DEFINE Read(i) == CHOOSE k \in 0 .. 15 : digit[k] = text[i]
<1>1. ASSUME NEW i \in 1 .. n
      PROVE  /\ Quotient(v, b, n - i) \in Nat /\ Quotient(v, b, n - (i - 1)) \in Nat
             /\ Quotient(v, b, n - i) = Quotient(v, b, n - (i - 1)) * b + Read(i)
  <2> DEFINE m == n - i
             q == Quotient(v, b, m)
             d == q % b
  <2>1. m \in Nat /\ n - (i - 1) = m + 1
    OBVIOUS
  <2>a. text[i] = digit[d]
    BY DEF Spells
  <2>b. Quotient(v, b, n - i) = q
    OBVIOUS
  <2> HIDE DEF m
  <2>c. q \in Nat /\ Quotient(v, b, m + 1) = q \div b
    BY <1>a, <2>1
  <2>2. q \in Nat /\ Quotient(v, b, n - (i - 1)) = q \div b
    BY <2>1, <2>c, Zenon
  <2> HIDE DEF q
  <2>3. q \div b \in Nat /\ d \in 0 .. b - 1 /\ q = (q \div b) * b + d
    BY <2>2, Divide, Zenon
  <2> HIDE DEF d
  <2>4. d \in 0 .. 15
    BY <2>3
  <2>6. Read(i) = d
    BY <2>4, <2>a, DigitRead
  <2> HIDE DEF Read
  <2> QED  BY <2>2, <2>3, <2>6, <2>b
<1> HIDE DEF Read
<1> DEFINE f == [i \in 0 .. n |-> Quotient(v, b, n - i)]
<1>2. f = [i \in 0 .. n |-> IF i = 0 THEN 0 ELSE f[i - 1] * b + Read(i)]
  <2>1. ASSUME NEW i \in 0 .. n
        PROVE  f[i] = IF i = 0 THEN 0 ELSE f[i - 1] * b + Read(i)
    <3>1. CASE i = 0
      BY <3>1 DEF Spells
    <3>2. CASE i # 0
      <4>1. i \in 1 .. n /\ i - 1 \in 0 .. n
        BY <3>2
      <4>2. f[i - 1] = Quotient(v, b, n - (i - 1)) /\ f[i] = Quotient(v, b, n - i)
        BY <4>1
      <4> HIDE DEF f
      <4> QED  BY <1>1, <3>2, <4>1, <4>2
    <3> QED  BY <3>1, <3>2
  <2> QED  BY <2>1
<1>3. f[n] = v
  BY QuotientStep
<1>4. \A i \in 0 .. n : f[i] \in Nat
  <2>1. ASSUME NEW i \in 0 .. n PROVE f[i] \in Nat
    <3>1. n - i \in Nat
      OBVIOUS
    <3> QED  BY <3>1, QuotientStep, Zenon
  <2> QED  BY <2>1
<1> HIDE DEF f
<1> DEFINE u == CHOOSE g : g = [i \in 0 .. n |-> IF i = 0 THEN 0 ELSE g[i - 1] * b + Read(i)]
<1>5. u = [i \in 0 .. n |-> IF i = 0 THEN 0 ELSE u[i - 1] * b + Read(i)]
  BY <1>2, Zenon
<1>6. Value(text, b) = u[n]
  BY DEF Value, Read, Spells
<1> HIDE DEF u
<1> DEFINE P == {i \in 0 .. n : u[i] = f[i]}
<1>7. 0 \in P
  BY <1>2, <1>5
<1>8. ASSUME NEW i \in 0 .. n - 1, i \in P
      PROVE  i + 1 \in P
  <2>1. i + 1 \in 0 .. n /\ i + 1 # 0 /\ (i + 1) - 1 = i
    OBVIOUS
  <2>2. u[i + 1] = u[i] * b + Read(i + 1) /\ f[i + 1] = f[i] * b + Read(i + 1)
    BY <1>2, <1>5, <2>1
  <2> QED  BY <1>8, <2>1, <2>2
<1> HIDE DEF P
<1>9. n \in P
  <2>1. \A i \in 0 .. n : i \in P
    BY <1>7, <1>8, Induction
  <2> QED  BY <2>1
<1> QED  BY <1>3, <1>6, <1>9 DEF P

-----------------------------------------------------------------------------
\* The first number of a set.
LEMMA Least ==
  ASSUME NEW n \in Nat, NEW P, n \in P
  PROVE  \E k \in 0 .. n : k \in P /\ \A j \in 0 .. k - 1 : j \notin P
<1> SUFFICES ASSUME \A k \in 0 .. n : k \in P => \E j \in 0 .. k - 1 : j \in P
             PROVE  FALSE
  OBVIOUS
<1> DEFINE T == {k \in 0 .. n : \A j \in 0 .. k : j \notin P}
<1>1. 0 \in T
  OBVIOUS
<1>2. ASSUME NEW k \in 0 .. n - 1, k \in T
      PROVE  k + 1 \in T
  <2>1. k + 1 \in 0 .. n /\ (k + 1) - 1 = k
    OBVIOUS
  <2>2. k + 1 \notin P
    BY <1>2, <2>1
  <2>3. \A j \in 0 .. k + 1 : j = k + 1 \/ j \in 0 .. k
    OBVIOUS
  <2> QED  BY <1>2, <2>1, <2>2, <2>3
<1> HIDE DEF T
<1>3. \A k \in 0 .. n : k \in T
  BY <1>1, <1>2, Induction
<1> QED  BY <1>3 DEF T

\* The two bases, and that the arrays hold every unsigned int.
LEMMA Bases ==
  /\ UINT \in Nat /\ UINT >= 2
  /\ RADIX \in Nat \ {0, 1} /\ RADIX <= 16 /\ DEC_DIGITS \in Nat
  /\ NIBBLE \in Nat \ {0, 1} /\ NIBBLE <= 16 /\ NIBBLES \in Nat /\ NIBBLES >= 1
  /\ ULIB_LINE_MAX \in Nat
<1>1. UINT \in Nat \ {0} /\ UINT % 2 = 0
  BY FormatAssumption
<1>2. UINT # 1
  BY <1>1
<1>3. UINT \in Nat /\ UINT >= 2
  BY <1>1, <1>2
<1> QED  BY <1>3, FormatAssumption

\* One digit, or one nibble, more.
LEMMA BaseStep ==
  ASSUME NEW v \in Nat, NEW k \in Nat
  PROVE  /\ Quotient(v, RADIX, k) \in Nat
         /\ Quotient(v, RADIX, k + 1) = Quotient(v, RADIX, k) \div RADIX
         /\ Quotient(v, NIBBLE, k) \in Nat
         /\ Quotient(v, NIBBLE, k + 1) = Quotient(v, NIBBLE, k) \div NIBBLE
<1>1. RADIX \in Nat \ {0, 1} /\ NIBBLE \in Nat \ {0, 1}
  BY Bases
<1>2. /\ Quotient(v, RADIX, k) \in Nat
      /\ Quotient(v, RADIX, k + 1) = Quotient(v, RADIX, k) \div RADIX
  BY <1>1, QuotientStep
<1>3. /\ Quotient(v, NIBBLE, k) \in Nat
      /\ Quotient(v, NIBBLE, k + 1) = Quotient(v, NIBBLE, k) \div NIBBLE
  BY <1>1, QuotientStep
<1> QED  BY <1>2, <1>3

\* Every unsigned int is used up by as many divisions as there is room for.
LEMMA UsedUp ==
  ASSUME NEW v \in UInts
  PROVE  v \in Nat /\ Quotient(v, RADIX, DEC_DIGITS) = 0 /\ Quotient(v, NIBBLE, NIBBLES) = 0
<1>1. v \in Nat /\ UINT - 1 \in Nat /\ v <= UINT - 1
  BY Bases DEF UInts
<1>2. Quotient(v, RADIX, DEC_DIGITS) <= Quotient(UINT - 1, RADIX, DEC_DIGITS)
  BY <1>1, Bases, QuotientMonotone
<1>3. Quotient(v, NIBBLE, NIBBLES) <= Quotient(UINT - 1, NIBBLE, NIBBLES)
  BY <1>1, Bases, QuotientMonotone
<1>4. Quotient(UINT - 1, RADIX, DEC_DIGITS) = 0 /\ Quotient(UINT - 1, NIBBLE, NIBBLES) = 0
  BY FormatAssumption
<1>5. Quotient(v, RADIX, DEC_DIGITS) \in Nat /\ Quotient(v, NIBBLE, NIBBLES) \in Nat
  BY <1>1, Bases, QuotientStep, Zenon
<1> QED  BY <1>1, <1>2, <1>3, <1>4, <1>5

\* Dividing takes at most as many steps as the number counts.
LEMMA QuotientEnds ==
  ASSUME NEW v \in Nat, NEW b \in Nat \ {0, 1}
  PROVE  Quotient(v, b, v) = 0
<1> DEFINE P == {i \in 0 .. v : Quotient(v, b, i) <= v - i}
<1>1. 0 \in P
  BY QuotientStep
<1>2. ASSUME NEW i \in 0 .. v - 1, i \in P
      PROVE  i + 1 \in P
  <2>1. i \in Nat /\ i + 1 \in 0 .. v
    OBVIOUS
  <2> DEFINE q == Quotient(v, b, i)
  <2>2. q \in Nat /\ Quotient(v, b, i + 1) = q \div b
    BY <2>1, QuotientStep
  <2>3. q <= v - i
    BY <1>2
  <2> HIDE DEF q
  <2>4. q = 0 => q \div b = 0
    OBVIOUS
  <2>5. q # 0 => q \div b < q /\ q \div b \in Nat
    BY <2>2, Divide, Zenon
  <2>6. q \div b <= v - (i + 1)
    BY <2>1, <2>2, <2>3, <2>4, <2>5
  <2> QED  BY <2>1, <2>2, <2>6
<1> HIDE DEF P
<1>3. v \in P
  <2>1. \A i \in 0 .. v : i \in P
    BY <1>1, <1>2, Induction
  <2> QED  BY <2>1
<1>4. Quotient(v, b, v) \in Nat
  BY QuotientStep
<1> QED  BY <1>3, <1>4 DEF P

\* put_dec writes as many digits as it takes to use v up.
LEMMA DecShape ==
  ASSUME NEW v \in Nat, v # 0
  PROVE  \E n \in Nat \ {0} : /\ Dec(v) = [j \in 1 .. n |-> digit[Quotient(v, RADIX, n - j) % RADIX]]
                             /\ Quotient(v, RADIX, n) = 0
                             /\ \A j \in 0 .. n - 1 : Quotient(v, RADIX, j) # 0
<1> DEFINE First(i) == /\ Quotient(v, RADIX, i) = 0
                       /\ \A j \in 0 .. i - 1 : Quotient(v, RADIX, j) # 0
           n == CHOOSE i \in 0 .. v : First(i)
<1>1. \E i \in 0 .. v : First(i)
  <2> DEFINE P == {i \in 0 .. v : Quotient(v, RADIX, i) = 0}
  <2>1. v \in P
    BY Bases, QuotientEnds
  <2> HIDE DEF P
  <2>2. PICK k \in 0 .. v : k \in P /\ \A j \in 0 .. k - 1 : j \notin P
    BY <2>1, Least
  <2>3. First(k)
    BY <2>2 DEF P
  <2> HIDE DEF First
  <2> QED  BY <2>3
<1>2. n \in 0 .. v /\ First(n)
  <2> HIDE DEF First
  <2> QED  BY <1>1
<1>3. Quotient(v, RADIX, 0) = v
  BY Bases, QuotientStep
<1> DEFINE tmp == [j \in 0 .. n - 1 |-> digit[Quotient(v, RADIX, j) % RADIX]]
<1>4. Dec(v) = [j \in 1 .. n |-> tmp[n - j]]
  BY DEF Dec
<1> HIDE DEF n
<1>5. n \in Nat \ {0}
  BY <1>2, <1>3
<1>6. [j \in 1 .. n |-> tmp[n - j]] = [j \in 1 .. n |-> digit[Quotient(v, RADIX, n - j) % RADIX]]
  <2>1. ASSUME NEW j \in 1 .. n
        PROVE  tmp[n - j] = digit[Quotient(v, RADIX, n - j) % RADIX]
    <3>1. n - j \in 0 .. n - 1
      BY <1>5
    <3> QED  BY <3>1
  <2> HIDE DEF tmp
  <2> QED  BY <2>1
<1> HIDE DEF tmp
<1> QED  BY <1>2, <1>4, <1>5, <1>6

\* A decimal numeral denotes its number, fits the array and has no leading zero.
LEMMA DecExact ==
  ASSUME NEW v \in UInts
  PROVE  /\ Value(Dec(v), RADIX) = v
         /\ Len(Dec(v)) <= DEC_DIGITS
         /\ v # 0 => Dec(v)[1] # "0"
<1>0. v \in Nat /\ Quotient(v, RADIX, DEC_DIGITS) = 0
  BY UsedUp
<1>1. CASE v = 0
  <2>1. Dec(v) = <<"0">>
    BY <1>1 DEF Dec
  <2>2. Spells(<<"0">>, 1, 0, RADIX)
    <3>1. 0 \in Nat /\ 1 \in Nat /\ Quotient(0, RADIX, 0) = 0 /\ Quotient(0, RADIX, 0 + 1) = 0 \div RADIX
      BY Bases, QuotientStep
    <3>2. 0 \div RADIX = 0 /\ 0 % RADIX = 0
      BY Bases
    <3>3. Quotient(0, RADIX, 1) = 0
      BY <3>1, <3>2
    <3>4. digit[0] = "0"
      BY DigitTable
    <3>5. \A i \in 1 .. 1 : <<"0">>[i] = digit[Quotient(0, RADIX, 1 - i) % RADIX]
      BY <3>1, <3>2, <3>4
    <3> QED  BY <3>3, <3>5 DEF Spells
  <2>3. Value(<<"0">>, RADIX) = 0
    BY <2>2, Bases, ValueOf
  <2>4. DEC_DIGITS # 0
    <3>1. UINT - 1 \in Nat /\ UINT - 1 # 0
      BY Bases
    <3>2. Quotient(UINT - 1, RADIX, 0) = UINT - 1
      BY <3>1, Bases, QuotientStep
    <3> QED  BY <3>1, <3>2, FormatAssumption
  <2>5. Len(<<"0">>) = 1
    OBVIOUS
  <2>6. 1 <= DEC_DIGITS
    BY <2>4, Bases
  <2> QED  BY <1>1, <2>1, <2>3, <2>5, <2>6, Zenon
<1>2. CASE v # 0
  <2>1. PICK n \in Nat \ {0} : /\ Dec(v) = [j \in 1 .. n |-> digit[Quotient(v, RADIX, n - j) % RADIX]]
                             /\ Quotient(v, RADIX, n) = 0
                             /\ \A j \in 0 .. n - 1 : Quotient(v, RADIX, j) # 0
    BY <1>0, <1>2, DecShape, Zenon
  <2>2. Len(Dec(v)) = n
    BY <2>1
  <2>3. Spells(Dec(v), n, v, RADIX)
    BY <2>1, <2>2 DEF Spells
  <2>4. Value(Dec(v), RADIX) = v
    BY <1>0, <2>3, Bases, ValueOf
  <2>5. n <= DEC_DIGITS
    BY <1>0, <2>1, Bases
  <2>6. Dec(v)[1] # "0"
    <3> DEFINE m == n - 1
               q == Quotient(v, RADIX, m)
    <3>1. m \in Nat /\ m + 1 = n /\ m \in 0 .. n - 1
      OBVIOUS
    <3>2. Dec(v)[1] = digit[q % RADIX]
      BY <2>1
    <3> HIDE DEF m
    <3>3. q \in Nat /\ Quotient(v, RADIX, m + 1) = q \div RADIX
      BY <1>0, <3>1, BaseStep, Zenon
    <3>4. q # 0
      BY <2>1, <3>1
    <3>5. q \div RADIX = 0
      BY <2>1, <3>1, <3>3
    <3> HIDE DEF q
    <3>6. q % RADIX = q /\ q % RADIX \in 0 .. RADIX - 1
      BY <3>3, <3>5, Bases, Divide
    <3>7. q \in 0 .. 15
      BY <3>3, <3>6, Bases
    <3> QED  BY <3>2, <3>4, <3>6, <3>7, DigitTable
  <2> QED  BY <2>2, <2>4, <2>5, <2>6
<1> QED  BY <1>1, <1>2

\* The detour of uart_print_int through val + 1 gives the magnitude of every int.
LEMMA Int32Exact ==
  ASSUME NEW v \in UInts
  PROVE  LET i == AsSigned(v) IN Int32(i) = IF i < 0 THEN <<"-">> \o Dec(-i) ELSE Dec(i)
<1> DEFINE i == AsSigned(v)
<1>0. v \in Nat /\ v < UINT /\ UINT \in Nat /\ UINT >= 2
  BY Bases DEF UInts
<1>1. i \in Int /\ (i < 0 => 2 * v >= UINT /\ i = v - UINT) /\ (~(i < 0) => i = v)
  BY <1>0 DEF AsSigned
<1> HIDE DEF i
<1>2. CASE i < 0
  <2>1. -(i + 1) \in 0 .. UINT - 1 /\ -i \in 0 .. UINT - 1 /\ -(i + 1) + 1 = -i
    BY <1>0, <1>1, <1>2
  <2>2. AsUnsigned(-(i + 1)) = -(i + 1) /\ AsUnsigned(-i) = -i
    BY <1>0, <2>1 DEF AsUnsigned
  <2>3. AsUnsigned(AsUnsigned(-(i + 1)) + 1) = -i
    BY <2>1, <2>2
  <2>4. Int32(i) = <<"-">> \o Dec(AsUnsigned(AsUnsigned(-(i + 1)) + 1))
    BY <1>2 DEF Int32
  <2>5. Int32(i) = <<"-">> \o Dec(-i)
    BY <2>3, <2>4, Zenon
  <2> QED  BY <1>2, <2>5 DEF i
<1>3. CASE ~(i < 0)
  <2>1. AsUnsigned(i) = i
    BY <1>0, <1>1, <1>3 DEF AsUnsigned
  <2>2. Int32(i) = Dec(AsUnsigned(i))
    BY <1>3 DEF Int32
  <2>3. Int32(i) = Dec(i)
    BY <2>1, <2>2, Zenon
  <2> QED  BY <1>3, <2>3 DEF i
<1> QED  BY <1>2, <1>3

-----------------------------------------------------------------------------
\* A nibble is one of the digits.
LEMMA NibbleRange ==
  ASSUME NEW v \in Nat, NEW k \in Nat
  PROVE  NibbleAt(v, k) \in 0 .. 15
<1> DEFINE q == Quotient(v, NIBBLE, k)
<1>1. q \in Nat
  BY Bases, QuotientStep
<1>2. NibbleAt(v, k) = q % NIBBLE
  BY DEF NibbleAt
<1> HIDE DEF q
<1>3. q % NIBBLE \in 0 .. NIBBLE - 1
  BY <1>1, Bases, Divide
<1> QED  BY <1>2, <1>3, Bases

\* Where only zeros are left, nothing is.
LEMMA ZerosAbove ==
  ASSUME NEW v \in UInts, NEW i \in 0 .. NIBBLES,
         \A j \in i .. NIBBLES - 1 : NibbleAt(v, j) = 0
  PROVE  Quotient(v, NIBBLE, i) = 0
<1>0. v \in Nat /\ Quotient(v, NIBBLE, NIBBLES) = 0
  BY UsedUp
<1> DEFINE P == {k \in 0 .. NIBBLES - i : Quotient(v, NIBBLE, NIBBLES - k) = 0}
<1>1. 0 \in P
  BY <1>0, Bases
<1>2. ASSUME NEW k \in 0 .. (NIBBLES - i) - 1, k \in P
      PROVE  k + 1 \in P
  <2> DEFINE m == NIBBLES - (k + 1)
             q == Quotient(v, NIBBLE, m)
  <2>1. m \in Nat /\ NIBBLES - k = m + 1 /\ m \in i .. NIBBLES - 1 /\ k + 1 \in 0 .. NIBBLES - i
    BY Bases
  <2>2. Quotient(v, NIBBLE, NIBBLES - k) = 0
    BY <1>2
  <2> HIDE DEF m
  <2>3. q \in Nat /\ Quotient(v, NIBBLE, m + 1) = q \div NIBBLE
    BY <1>0, <2>1, BaseStep
  <2>4. q % NIBBLE = 0
    BY <2>1 DEF NibbleAt
  <2> HIDE DEF q
  <2>5. q \div NIBBLE = 0
    BY <2>1, <2>2, <2>3
  <2>6. q = 0
    BY <2>3, <2>4, <2>5, Bases, Divide
  <2>7. Quotient(v, NIBBLE, NIBBLES - (k + 1)) = 0
    BY <2>6 DEF q, m
  <2> QED  BY <2>1, <2>7
<1> HIDE DEF P
<1>3. NIBBLES - i \in P
  <2>1. NIBBLES - i \in Nat
    BY Bases
  <2>2. \A k \in 0 .. NIBBLES - i : k \in P
    BY <1>1, <1>2, <2>1, Induction
  <2> QED  BY <2>1, <2>2
<1>4. NIBBLES - (NIBBLES - i) = i
  BY Bases
<1> QED  BY <1>3, <1>4 DEF P

\* The nibbles as a text, most significant first.
Digits16 == {digit[n] : n \in 0 .. 15}

\* Hex8 has as many digits as there are nibbles.
LEMMA Hex8Text ==
  ASSUME NEW v \in Nat
  PROVE  /\ Hex8(v) \in Seq(Digits16) /\ Len(Hex8(v)) = NIBBLES
         /\ \A k \in 1 .. NIBBLES : Hex8(v)[k] = digit[NibbleAt(v, NIBBLES - k)]
<1>1. ASSUME NEW k \in 1 .. NIBBLES
      PROVE  digit[NibbleAt(v, NIBBLES - k)] \in Digits16
  <2>1. NIBBLES - k \in Nat
    BY Bases
  <2>2. NibbleAt(v, NIBBLES - k) \in 0 .. 15
    BY <2>1, NibbleRange
  <2> QED  BY <2>2 DEF Digits16
<1>2. Hex8(v) \in [1 .. NIBBLES -> Digits16]
  BY <1>1 DEF Hex8
<1>3. NIBBLES \in Nat
  BY Bases
<1> QED  BY <1>2, <1>3 DEF Hex8

\* The search of %x ends at the highest nibble that is not zero, or at the last.
LEMMA UartHexShape ==
  ASSUME NEW v \in UInts
  PROVE  \E i \in 0 .. NIBBLES - 1 :
           /\ UartHex(v) = SubSeq(Hex8(v), NIBBLES - i, NIBBLES)
           /\ NibbleAt(v, i) # 0 \/ i = 0
           /\ \A j \in i + 1 .. NIBBLES - 1 : NibbleAt(v, j) = 0
<1> DEFINE Top(i) == /\ NibbleAt(v, i) # 0 \/ i = 0
                     /\ \A j \in i + 1 .. NIBBLES - 1 : NibbleAt(v, j) = 0
           t == CHOOSE i \in 0 .. NIBBLES - 1 : Top(i)
<1>1. \E i \in 0 .. NIBBLES - 1 : Top(i)
  <2> DEFINE N == NIBBLES - 1
             P == {k \in 0 .. N : NibbleAt(v, N - k) # 0 \/ N - k = 0}
  <2>1. N \in Nat /\ N \in P
    BY Bases
  <2> HIDE DEF P
  <2>2. PICK k \in 0 .. N : k \in P /\ \A j \in 0 .. k - 1 : j \notin P
    <3> HIDE DEF N
    <3> QED  BY <2>1, Least
  <2>3. N - k \in 0 .. N /\ (NibbleAt(v, N - k) # 0 \/ N - k = 0)
    BY <2>1, <2>2 DEF P
  <2>4. ASSUME NEW j \in (N - k) + 1 .. N
        PROVE  NibbleAt(v, j) = 0
    <3>1. N - j \in 0 .. k - 1 /\ N - j \in 0 .. N /\ N - (N - j) = j
      BY <2>1
    <3> QED  BY <2>2, <3>1 DEF P
  <2> QED  BY <2>3, <2>4
<1>2. t \in 0 .. NIBBLES - 1 /\ Top(t)
  <2> HIDE DEF Top
  <2> QED  BY <1>1
<1>3. UartHex(v) = SubSeq(Hex8(v), NIBBLES - t, NIBBLES)
  BY DEF UartHex
<1> HIDE DEF t
<1> QED  BY <1>2, <1>3, Zenon

\* What %x writes is a text of digits.
LEMMA UartHexText ==
  ASSUME NEW v \in UInts
  PROVE  UartHex(v) \in Seq(Digits16)
<1>1. PICK i \in 0 .. NIBBLES - 1 : UartHex(v) = SubSeq(Hex8(v), NIBBLES - i, NIBBLES)
  BY UartHexShape
<1>2. v \in Nat
  BY UsedUp
<1>3. Hex8(v) \in Seq(Digits16) /\ Len(Hex8(v)) = NIBBLES /\ NIBBLES \in Nat /\ NIBBLES - i \in 1 .. NIBBLES
  BY <1>2, Hex8Text, Bases
<1>4. SubSeq(Hex8(v), NIBBLES - i, NIBBLES) \in Seq(Digits16)
  BY <1>3
<1> QED  BY <1>1, <1>4

\* A hexadecimal numeral denotes its number; %x writes no leading zero.
LEMMA HexExact ==
  ASSUME NEW v \in UInts
  PROVE  /\ Value(Hex8(v), NIBBLE) = v
         /\ Value(UartHex(v), NIBBLE) = v
         /\ v # 0 => UartHex(v)[1] # "0"
         /\ v = 0 => UartHex(v) = <<"0">>
<1>0. v \in Nat /\ Quotient(v, NIBBLE, NIBBLES) = 0
  BY UsedUp
<1>1. Value(Hex8(v), NIBBLE) = v
  <2>1. Spells(Hex8(v), NIBBLES, v, NIBBLE)
    BY <1>0, Hex8Text DEF Spells, NibbleAt
  <2> QED  BY <1>0, <2>1, Bases, ValueOf
<1>2. PICK i \in 0 .. NIBBLES - 1 :
        /\ UartHex(v) = SubSeq(Hex8(v), NIBBLES - i, NIBBLES)
        /\ NibbleAt(v, i) # 0 \/ i = 0
        /\ \A j \in i + 1 .. NIBBLES - 1 : NibbleAt(v, j) = 0
  BY UartHexShape
<1>3. Quotient(v, NIBBLE, i + 1) = 0
  <2>1. i + 1 \in 0 .. NIBBLES
    BY Bases
  <2> QED  BY <1>2, <2>1, ZerosAbove
<1>4. /\ UartHex(v) \in Seq(Digits16) /\ Len(UartHex(v)) = i + 1
      /\ \A k \in 1 .. i + 1 : UartHex(v)[k] = digit[NibbleAt(v, (i + 1) - k)]
  <2> DEFINE h == Hex8(v)
             a == NIBBLES - i
  <2>1. h \in Seq(Digits16) /\ Len(h) = NIBBLES /\ NIBBLES \in Nat /\ a \in 1 .. NIBBLES /\ (NIBBLES - a) + 1 = i + 1
    BY <1>0, Hex8Text, Bases
  <2>2. \A k \in 1 .. NIBBLES : h[k] = digit[NibbleAt(v, NIBBLES - k)]
    BY <1>0, Hex8Text
  <2>3. \A k \in 1 .. i + 1 : a + (k - 1) \in 1 .. NIBBLES /\ NIBBLES - (a + (k - 1)) = (i + 1) - k
    BY <2>1
  <2>4. UartHex(v) = SubSeq(h, a, NIBBLES)
    BY <1>2
  <2> HIDE DEF h, a
  <2>5. /\ SubSeq(h, a, NIBBLES) \in Seq(Digits16)
        /\ Len(SubSeq(h, a, NIBBLES)) = i + 1
        /\ \A k \in 1 .. i + 1 : SubSeq(h, a, NIBBLES)[k] = h[a + (k - 1)]
    BY <2>1, SMTT(30)
  <2> QED  BY <2>2, <2>3, <2>4, <2>5, Zenon
<1>5. Value(UartHex(v), NIBBLE) = v
  <2>1. Spells(UartHex(v), i + 1, v, NIBBLE)
    BY <1>3, <1>4 DEF Spells, NibbleAt
  <2>2. i + 1 \in Nat
    OBVIOUS
  <2> QED  BY <1>0, <2>1, <2>2, Bases, ValueOf
<1>6. UartHex(v)[1] = digit[NibbleAt(v, i)] /\ NibbleAt(v, i) \in 0 .. 15
  <2>1. (i + 1) - 1 = i /\ 1 \in 1 .. i + 1 /\ i \in Nat
    OBVIOUS
  <2> QED  BY <1>0, <1>4, <2>1, NibbleRange
<1>7. ASSUME v # 0
      PROVE  UartHex(v)[1] # "0"
  <2>1. NibbleAt(v, i) # 0
    <3> SUFFICES ASSUME NibbleAt(v, i) = 0, i = 0
                 PROVE  FALSE
      BY <1>2
    <3>1. \A j \in 0 .. NIBBLES - 1 : NibbleAt(v, j) = 0
      BY <1>2
    <3>2. 0 \in 0 .. NIBBLES
      BY Bases
    <3>3. Quotient(v, NIBBLE, 0) = 0
      BY <3>1, <3>2, ZerosAbove
    <3>4. Quotient(v, NIBBLE, 0) = v
      BY <1>0, Bases, QuotientStep
    <3> QED  BY <1>7, <3>3, <3>4
  <2> QED  BY <1>6, <2>1, DigitTable
<1>8. ASSUME v = 0
      PROVE  UartHex(v) = <<"0">>
  <2>1. Quotient(v, NIBBLE, 0) = 0
    BY <1>0, <1>8, Bases, QuotientStep
  <2>2. i \in Nat /\ 0 \in Nat /\ 0 <= i
    OBVIOUS
  <2>3. Quotient(v, NIBBLE, i) = 0
    BY <1>0, <2>1, <2>2, Bases, QuotientUsedUp
  <2>4. NibbleAt(v, i) = 0
    BY <2>3, Bases DEF NibbleAt
  <2>5. i = 0
    BY <1>2, <2>4
  <2>6. Len(UartHex(v)) = 1
    BY <1>4, <2>5
  <2>7. UartHex(v)[1] = digit[0]
    BY <1>6, <2>4
  <2>8. digit[0] = "0"
    BY DigitTable
  <2> QED  BY <1>4, <2>6, <2>7, <2>8
<1> QED  BY <1>1, <1>5, <1>7, <1>8

-----------------------------------------------------------------------------
\* Two loops that start alike and go on alike.
Alike(u, f, n) == u[0] = f[0] /\ \A i \in 1 .. n : u[i - 1] = f[i - 1] => u[i] = f[i]

\* They end alike.
LEMMA SameLoop ==
  ASSUME NEW n \in Nat, NEW f, NEW u, Alike(u, f, n)
  PROVE  u[n] = f[n]
<1> DEFINE P == {i \in 0 .. n : u[i] = f[i]}
<1>1. 0 \in P
  BY DEF Alike
<1>2. ASSUME NEW i \in 0 .. n - 1, i \in P
      PROVE  i + 1 \in P
  <2>1. i + 1 \in 1 .. n /\ (i + 1) - 1 = i /\ i + 1 \in 0 .. n
    OBVIOUS
  <2>2. u[i] = f[i]
    BY <1>2
  <2>3. u[i + 1] = f[i + 1]
    BY <2>1, <2>2 DEF Alike
  <2> QED  BY <2>1, <2>3
<1> HIDE DEF P
<1>3. \A i \in 0 .. n : i \in P
  BY <1>1, <1>2, Induction
<1>4. n \in P
  BY <1>3
<1> QED  BY <1>4 DEF P

\* Sequences of one length with the same elements are the same.
LEMMA SameElements ==
  ASSUME NEW S, NEW x \in Seq(S), NEW y \in Seq(S), Len(x) = Len(y), \A i \in 1 .. Len(x) : x[i] = y[i]
  PROVE  x = y
<1>1. x = [i \in 1 .. Len(x) |-> x[i]]
  OBVIOUS
<1>2. y = [i \in 1 .. Len(y) |-> y[i]]
  OBVIOUS
<1> QED  BY <1>1, <1>2

\* A slice and the element behind it.
LEMMA SliceGrows ==
  ASSUME NEW S, NEW h \in Seq(S), NEW a \in 1 .. Len(h), NEW k \in a .. Len(h)
  PROVE  SubSeq(h, a, k) = Append(SubSeq(h, a, k - 1), h[k])
<1> DEFINE x == SubSeq(h, a, k)
           y == SubSeq(h, a, k - 1)
           z == Append(y, h[k])
<1>0. a \in Nat /\ k \in Nat /\ Len(h) \in Nat /\ a >= 1 /\ k >= a /\ k <= Len(h)
  OBVIOUS
<1>1. x \in Seq(S) /\ Len(x) = (k - a) + 1 /\ \A i \in 1 .. (k - a) + 1 : x[i] = h[a + (i - 1)]
  BY <1>0
<1>2. y \in Seq(S) /\ Len(y) = k - a /\ \A i \in 1 .. k - a : y[i] = h[a + (i - 1)]
  BY <1>0
<1>3. h[k] \in S /\ a + (((k - a) + 1) - 1) = k
  BY <1>0
<1> HIDE DEF x, y
<1>4. z \in Seq(S) /\ Len(z) = (k - a) + 1 /\ (\A i \in 1 .. k - a : z[i] = y[i]) /\ z[(k - a) + 1] = h[k]
  BY <1>0, <1>2, <1>3, SMTT(30)
<1> HIDE DEF z
<1>5. ASSUME NEW i \in 1 .. (k - a) + 1
      PROVE  x[i] = z[i]
  <2>1. i \in 1 .. k - a \/ i = (k - a) + 1
    BY <1>0
  <2> QED  BY <1>1, <1>2, <1>3, <1>4, <2>1, Zenon
<1>6. x = z
  BY <1>0, <1>1, <1>4, <1>5, SameElements
<1> QED  BY <1>6 DEF x, y, z

\* Before its first element a slice is empty; from there on it is not.
LEMMA SliceEmpty ==
  ASSUME NEW S, NEW h \in Seq(S), NEW a \in 1 .. Len(h), NEW k \in 0 .. Len(h)
  PROVE  (SubSeq(h, a, k) = << >>) <=> (k < a)
<1>0. a \in Nat /\ k \in Nat /\ Len(h) \in Nat /\ a >= 1 /\ k <= Len(h)
  OBVIOUS
<1>1. CASE k < a
  BY <1>0, <1>1
<1>2. CASE ~(k < a)
  <2>1. Len(SubSeq(h, a, k)) = (k - a) + 1
    BY <1>0, <1>2
  <2>2. Len(SubSeq(h, a, k)) # 0
    BY <1>0, <1>2, <2>1
  <2> QED  BY <1>2, <2>2
<1> QED  BY <1>1, <1>2

\* put_hex puts the nibbles from the first one it has a reason to put.
LEMMA PutHexFrom ==
  ASSUME NEW v \in Nat, NEW pad8 \in BOOLEAN, NEW a \in 1 .. NIBBLES,
         pad8 \/ NibbleAt(v, NIBBLES - a) # 0 \/ a = NIBBLES,
         \A k \in 1 .. a - 1 : ~(pad8 \/ NibbleAt(v, NIBBLES - k) # 0 \/ k = NIBBLES)
  PROVE  put_hex(v, pad8) = SubSeq(Hex8(v), a, NIBBLES)
<1> DEFINE h == Hex8(v)
           Due(k) == pad8 \/ NibbleAt(v, NIBBLES - k) # 0
           Step(k, x) == IF pad8 \/ NibbleAt(v, NIBBLES - k) # 0 \/ x # << >> \/ k = NIBBLES
                         THEN Append(x, Hex8(v)[k])
                         ELSE x
           f == [k \in 0 .. NIBBLES |-> SubSeq(h, a, k)]
           u == CHOOSE g : g = [k \in 0 .. NIBBLES |-> IF k = 0 THEN << >> ELSE Step(k, g[k - 1])]
<1>1. h \in Seq(Digits16) /\ Len(h) = NIBBLES /\ NIBBLES \in Nat
  BY Hex8Text, Bases
<1>2. \A k \in 1 .. NIBBLES : /\ k = a => Due(k) \/ k = NIBBLES
                              /\ k < a => ~(Due(k) \/ k = NIBBLES)
  BY <1>1
<1>3. put_hex(v, pad8) = u[NIBBLES]
  BY DEF put_hex
<1>4. \A k, x : Step(k, x) = IF Due(k) \/ x # << >> \/ k = NIBBLES THEN Append(x, h[k]) ELSE x
  OBVIOUS
<1> HIDE DEF Due, h, Step
<1>5. ASSUME NEW k \in 1 .. NIBBLES
      PROVE  f[k] = Step(k, f[k - 1])
  <2>1. k - 1 \in 0 .. NIBBLES /\ k \in 0 .. NIBBLES /\ a \in Nat /\ k \in Nat
    BY <1>1
  <2>2. f[k] = SubSeq(h, a, k) /\ f[k - 1] = SubSeq(h, a, k - 1)
    BY <2>1
  <2> HIDE DEF f
  <2>3. (f[k - 1] = << >>) <=> (k - 1 < a)
    BY <1>1, <2>1, <2>2, SliceEmpty, Zenon
  <2>4. CASE k < a
    <3>1. f[k - 1] = << >> /\ f[k] = << >>
      <4>1. (f[k] = << >>) <=> (k < a)
        BY <1>1, <2>1, <2>2, SliceEmpty, Zenon
      <4> QED  BY <2>1, <2>3, <2>4, <4>1
    <3>2. ~(Due(k) \/ k = NIBBLES)
      BY <1>2, <2>4
    <3> QED  BY <1>4, <3>1, <3>2
  <2>5. CASE ~(k < a)
    <3>1. k \in a .. Len(h) /\ a \in 1 .. Len(h)
      BY <1>1, <2>1, <2>5
    <3>2. f[k] = Append(f[k - 1], h[k])
      BY <1>1, <2>2, <3>1, SliceGrows
    <3>3. Due(k) \/ f[k - 1] # << >> \/ k = NIBBLES
      <4>1. k = a \/ ~(k - 1 < a)
        BY <2>1, <2>5
      <4> QED  BY <1>2, <2>3, <4>1
    <3> QED  BY <1>4, <3>2, <3>3
  <2> QED  BY <2>4, <2>5
<1>6. f[0] = << >>
  <2>1. f[0] = SubSeq(h, a, 0) /\ a \in Nat /\ a >= 1
    BY <1>1
  <2> QED  BY <1>1, <2>1, SliceEmpty
<1>7. f = [k \in 0 .. NIBBLES |-> IF k = 0 THEN << >> ELSE Step(k, f[k - 1])]
  <2>1. ASSUME NEW k \in 0 .. NIBBLES
        PROVE  f[k] = IF k = 0 THEN << >> ELSE Step(k, f[k - 1])
    <3>1. k = 0 \/ k \in 1 .. NIBBLES
      BY <1>1
    <3> HIDE DEF f
    <3> QED  BY <1>5, <1>6, <3>1
  <2>2. f = [k \in 0 .. NIBBLES |-> f[k]]
    OBVIOUS
  <2> HIDE DEF f
  <2> QED  BY <2>1, <2>2, Zenon
<1>8. f[NIBBLES] = SubSeq(h, a, NIBBLES)
  BY <1>1
<1> HIDE DEF f
<1>9. u = [k \in 0 .. NIBBLES |-> IF k = 0 THEN << >> ELSE Step(k, u[k - 1])]
  BY <1>7, Zenon
<1> HIDE DEF u
<1>10. Alike(u, f, NIBBLES)
  BY <1>1, <1>5, <1>6, <1>9 DEF Alike
<1> QED  BY <1>1, <1>3, <1>8, <1>10, SameLoop DEF h

\* The two formatters write the same hexadecimal numerals.
LEMMA HexAgree ==
  ASSUME NEW v \in UInts
  PROVE  put_hex(v, FALSE) = UartHex(v) /\ put_hex(v, TRUE) = Hex8(v)
<1>0. v \in Nat /\ NIBBLES \in Nat /\ NIBBLES >= 1
  BY UsedUp, Bases
<1>1. PICK i \in 0 .. NIBBLES - 1 :
        /\ UartHex(v) = SubSeq(Hex8(v), NIBBLES - i, NIBBLES)
        /\ NibbleAt(v, i) # 0 \/ i = 0
        /\ \A j \in i + 1 .. NIBBLES - 1 : NibbleAt(v, j) = 0
  BY UartHexShape
<1>2. put_hex(v, FALSE) = UartHex(v)
  <2> DEFINE a == NIBBLES - i
  <2>1. a \in 1 .. NIBBLES /\ NIBBLES - a = i /\ (i = 0 => a = NIBBLES)
    BY <1>0
  <2>2. \A k \in 1 .. a - 1 : NIBBLES - k \in i + 1 .. NIBBLES - 1 /\ k # NIBBLES
    BY <1>0
  <2>3. UartHex(v) = SubSeq(Hex8(v), a, NIBBLES)
    BY <1>1
  <2> HIDE DEF a
  <2>4. FALSE \/ NibbleAt(v, NIBBLES - a) # 0 \/ a = NIBBLES
    BY <1>1, <2>1
  <2>5. \A k \in 1 .. a - 1 : ~(FALSE \/ NibbleAt(v, NIBBLES - k) # 0 \/ k = NIBBLES)
    BY <1>1, <2>2
  <2>6. put_hex(v, FALSE) = SubSeq(Hex8(v), a, NIBBLES)
    BY <1>0, <2>1, <2>4, <2>5, PutHexFrom, Zenon
  <2> QED  BY <2>3, <2>6, Zenon
<1>3. put_hex(v, TRUE) = Hex8(v)
  <2>1. 1 \in 1 .. NIBBLES /\ 1 .. 1 - 1 = {}
    BY <1>0
  <2>2. put_hex(v, TRUE) = SubSeq(Hex8(v), 1, NIBBLES)
    BY <1>0, <2>1, PutHexFrom, Zenon
  <2>3. Hex8(v) \in Seq(Digits16) /\ Len(Hex8(v)) = NIBBLES
    BY <1>0, Hex8Text
  <2>4. SubSeq(Hex8(v), 1, NIBBLES) = Hex8(v)
    BY <1>0, <2>3
  <2> QED  BY <2>2, <2>4, Zenon
<1> QED  BY <1>2, <1>3, Zenon

-----------------------------------------------------------------------------
\* The buffer holds the beginning of what is put into it.
LEMMA PutStrCuts ==
  ASSUME NEW S, NEW s \in Seq(S)
  PROVE  put_str(<< >>, s) = SubSeq(s, 1, IF Len(s) < ULIB_LINE_MAX THEN Len(s) ELSE ULIB_LINE_MAX)
<1> DEFINE n == Len(s)
           Shown(i) == IF i < ULIB_LINE_MAX THEN i ELSE ULIB_LINE_MAX
           Step(i, x) == put_ch(x, s[i])
           f == [i \in 0 .. n |-> SubSeq(s, 1, Shown(i))]
           u == CHOOSE g : g = [i \in 0 .. n |-> IF i = 0 THEN << >> ELSE Step(i, g[i - 1])]
<1>1. n \in Nat /\ ULIB_LINE_MAX \in Nat
  BY Bases
<1>2. put_str(<< >>, s) = u[n]
  BY DEF put_str
<1>3. ASSUME NEW i \in 1 .. n
      PROVE  f[i] = Step(i, f[i - 1])
  <2>1. i - 1 \in 0 .. n /\ i \in 0 .. n /\ i \in Nat /\ i >= 1
    BY <1>1
  <2>2. f[i] = SubSeq(s, 1, Shown(i)) /\ f[i - 1] = SubSeq(s, 1, Shown(i - 1))
    BY <2>1, Zenon
  <2> HIDE DEF f
  <2>3. CASE i <= ULIB_LINE_MAX
    <3>1. Shown(i) = i /\ Shown(i - 1) = i - 1 /\ i - 1 < ULIB_LINE_MAX
      BY <1>1, <2>1, <2>3
    <3>2. 1 \in 1 .. Len(s) /\ i \in 1 .. Len(s)
      BY <1>1, <2>1
    <3>3. SubSeq(s, 1, i) = Append(SubSeq(s, 1, i - 1), s[i])
      BY <3>2, SliceGrows
    <3>4. Len(SubSeq(s, 1, i - 1)) = i - 1
      BY <1>1, <2>1, <3>2
    <3> HIDE DEF Shown
    <3> QED  BY <2>2, <3>1, <3>3, <3>4 DEF put_ch
  <2>4. CASE ~(i <= ULIB_LINE_MAX)
    <3>1. Shown(i) = ULIB_LINE_MAX /\ Shown(i - 1) = ULIB_LINE_MAX /\ ULIB_LINE_MAX <= n
      BY <1>1, <2>1, <2>4
    <3>2. Len(SubSeq(s, 1, ULIB_LINE_MAX)) = ULIB_LINE_MAX
      BY <1>1, <3>1
    <3> HIDE DEF Shown
    <3> QED  BY <1>1, <2>2, <3>1, <3>2 DEF put_ch
  <2> QED  BY <2>3, <2>4
<1>4. f[0] = << >>
  <2>1. f[0] = SubSeq(s, 1, 0)
    BY <1>1
  <2>2. SubSeq(s, 1, 0) = << >>
    <3>1. Len(SubSeq(s, 1, 0)) = 0 /\ SubSeq(s, 1, 0) \in Seq(S)
      OBVIOUS
    <3> QED  BY <3>1
  <2> HIDE DEF f
  <2> QED  BY <2>1, <2>2
<1>5. f[n] = SubSeq(s, 1, Shown(n))
  BY <1>1
<1> HIDE DEF Step, Shown
<1>6. f = [i \in 0 .. n |-> IF i = 0 THEN << >> ELSE Step(i, f[i - 1])]
  <2>1. ASSUME NEW i \in 0 .. n
        PROVE  f[i] = IF i = 0 THEN << >> ELSE Step(i, f[i - 1])
    <3>1. i = 0 \/ i \in 1 .. n
      BY <1>1
    <3> HIDE DEF f
    <3> QED  BY <1>3, <1>4, <3>1
  <2>2. f = [i \in 0 .. n |-> f[i]]
    BY Zenon
  <2> HIDE DEF f
  <2> QED  BY <2>1, <2>2
<1> HIDE DEF f
<1>7. u = [i \in 0 .. n |-> IF i = 0 THEN << >> ELSE Step(i, u[i - 1])]
  BY <1>6, Zenon
<1> HIDE DEF u
<1>8. Alike(u, f, n)
  BY <1>1, <1>3, <1>4, <1>7 DEF Alike
<1>9. u[n] = f[n]
  BY <1>1, <1>8, SameLoop
<1> QED  BY <1>2, <1>5, <1>9 DEF Shown

-----------------------------------------------------------------------------
\* r walks a format of L characters: at p it puts A[p] and goes on J[p] further.
Scans(r, L, e, A, J) ==
  /\ \A p \in 1 .. L : J[p] \in 1 .. e
  /\ \A p \in 1 .. L + e : r[p] = IF p > L THEN << >> ELSE A[p] \o r[p + J[p]]

\* Such a walk exists.
LEMMA Scan ==
  ASSUME NEW L \in Nat, NEW e \in Nat, NEW S, NEW A \in [1 .. L -> Seq(S)], NEW J \in [1 .. L -> 1 .. e]
  PROVE  \E r \in [1 .. L + e -> Seq(S)] : Scans(r, L, e, A, J)
<1> DEFINE N == L + e
           T == Seq(S)
           H == [k \in 0 .. N |-> [g \in [0 .. k - 1 -> T] |->
                  IF k < e \/ k = N THEN << >> ELSE A[N - k] \o g[k - J[N - k]]]]
<1>0. N \in Nat /\ << >> \in T
  OBVIOUS
<1>1. ASSUME NEW k \in 0 .. N, NEW g \in [0 .. k - 1 -> T]
      PROVE  H[k][g] = IF k < e \/ k = N THEN << >> ELSE A[N - k] \o g[k - J[N - k]]
  OBVIOUS
<1>2. ASSUME NEW k \in 0 .. N, ~(k < e \/ k = N)
      PROVE  N - k \in 1 .. L /\ A[N - k] \in T /\ J[N - k] \in 1 .. e /\ k - J[N - k] \in 0 .. k - 1
  <2>1. N - k \in 1 .. L
    BY <1>2
  <2>2. A[N - k] \in T /\ J[N - k] \in 1 .. e
    BY <2>1
  <2>3. k - J[N - k] \in 0 .. k - 1
    BY <1>2, <2>2
  <2> QED  BY <2>1, <2>2, <2>3
<1> HIDE DEF H
<1>3. Makes(H, N, T)
  <2>1. ASSUME NEW k \in 0 .. N, NEW g \in [0 .. k - 1 -> T]
        PROVE  H[k][g] \in T
    <3>1. CASE k < e \/ k = N
      BY <1>0, <1>1, <3>1, Zenon
    <3>2. CASE ~(k < e \/ k = N)
      <4>1. A[N - k] \in T /\ g[k - J[N - k]] \in T
        BY <1>2, <3>2
      <4>2. A[N - k] \o g[k - J[N - k]] \in T
        BY <4>1
      <4> QED  BY <1>1, <3>2, <4>2, Zenon
    <3> QED  BY <3>1, <3>2
  <2> QED  BY <2>1 DEF Makes
<1> HIDE DEF T
<1>4. PICK f \in [0 .. N -> T] : IsMade(f, H, N, T)
  <2> HIDE DEF N
  <2> QED  BY <1>0, <1>3, Recursion
<1>5. ASSUME NEW k \in 0 .. N
      PROVE  f[k] = IF k < e \/ k = N THEN << >> ELSE A[N - k] \o f[k - J[N - k]]
  <2> DEFINE g == [i \in 0 .. k - 1 |-> f[i]]
  <2>1. g \in [0 .. k - 1 -> T] /\ (\A i \in 0 .. k - 1 : g[i] = f[i])
    OBVIOUS
  <2> HIDE DEF g
  <2>2. f[k] = H[k][g]
    BY <1>4, <2>1 DEF IsMade
  <2>3. H[k][g] = IF k < e \/ k = N THEN << >> ELSE A[N - k] \o g[k - J[N - k]]
    BY <1>1, <2>1, Zenon
  <2>4. CASE k < e \/ k = N
    BY <2>2, <2>3, <2>4
  <2>5. CASE ~(k < e \/ k = N)
    <3>1. g[k - J[N - k]] = f[k - J[N - k]]
      BY <1>2, <2>1, <2>5
    <3> QED  BY <2>2, <2>3, <2>5, <3>1
  <2> QED  BY <2>4, <2>5
<1> DEFINE r == [p \in 1 .. N |-> f[N - p]]
<1>6. r \in [1 .. N -> T]
  BY <1>0
<1>7. ASSUME NEW p \in 1 .. N
      PROVE  r[p] = IF p > L THEN << >> ELSE A[p] \o r[p + J[p]]
  <2>1. N - p \in 0 .. N /\ N - p # N /\ ((N - p < e) <=> (p > L)) /\ N - (N - p) = p
    OBVIOUS
  <2>2. r[p] = f[N - p]
    OBVIOUS
  <2>3. CASE p > L
    <3> HIDE DEF r, N
    <3> QED  BY <1>5, <2>1, <2>2, <2>3, Zenon
  <2>4. CASE ~(p > L)
    <3>1. J[p] \in 1 .. e
      BY <2>4
    <3>2. p + J[p] \in 1 .. N /\ (N - p) - J[p] = N - (p + J[p])
      BY <2>4, <3>1, SMTT(30)
    <3>3. r[p + J[p]] = f[N - (p + J[p])]
      BY <3>2
    <3>4. f[N - p] = A[p] \o f[(N - p) - J[p]]
      <4> HIDE DEF r, N
      <4> QED  BY <1>5, <2>1, <2>4, Zenon
    <3> HIDE DEF r, N
    <3> QED  BY <2>2, <2>4, <3>2, <3>3, <3>4, Zenon
  <2> QED  BY <2>3, <2>4
<1>8. Scans(r, L, e, A, J)
  <2> HIDE DEF r
  <2> QED  BY <1>7 DEF Scans
<1> HIDE DEF r
<1> QED  BY <1>6, <1>8 DEF T

\* The characters a message can be made of.
Glyphs == Characters \cup Digits16 \cup {"%", "0", "x", BEYOND}

\* A text over some characters is one over more.
LEMMA MoreGlyphs ==
  ASSUME NEW S, NEW T, S \subseteq T, NEW s \in Seq(S)
  PROVE  s \in Seq(T)
<1>1. s \in [1 .. Len(s) -> S] /\ Len(s) \in Nat
  OBVIOUS
<1>2. s \in [1 .. Len(s) -> T]
  BY <1>1
<1> QED  BY <1>1, <1>2

\* A decimal numeral is a text of digits.
LEMMA DecText ==
  ASSUME NEW v \in Nat
  PROVE  Dec(v) \in Seq(Digits16)
<1>1. CASE v = 0
  <2>1. Dec(v) = <<"0">>
    BY <1>1 DEF Dec
  <2>2. digit[0] = "0"
    BY DigitTable
  <2>3. digit[0] \in Digits16
    BY DEF Digits16
  <2> QED  BY <2>1, <2>2, <2>3
<1>2. CASE v # 0
  <2>1. PICK n \in Nat \ {0} : Dec(v) = [j \in 1 .. n |-> digit[Quotient(v, RADIX, n - j) % RADIX]]
    BY <1>2, DecShape, Zenon
  <2>2. ASSUME NEW j \in 1 .. n
        PROVE  digit[Quotient(v, RADIX, n - j) % RADIX] \in Digits16
    <3> DEFINE m == n - j
               q == Quotient(v, RADIX, m)
    <3>1. m \in Nat
      OBVIOUS
    <3> HIDE DEF m
    <3>2. q \in Nat
      BY <3>1, BaseStep
    <3> HIDE DEF q
    <3>3. q % RADIX \in 0 .. RADIX - 1
      BY <3>2, Bases, Divide
    <3>4. q % RADIX \in 0 .. 15
      BY <3>3, Bases
    <3>5. digit[q % RADIX] \in Digits16
      BY <3>4 DEF Digits16
    <3> QED  BY <3>5 DEF q, m
  <2>3. Dec(v) \in [1 .. n -> Digits16]
    BY <2>1, <2>2
  <2> QED  BY <2>3
<1> QED  BY <1>1, <1>2

\* Every conversion but %d puts the same text in both, and a text at that.
LEMMA ConversionsAgree ==
  ASSUME NEW v \in UInts, NEW s \in Seq(Characters), NEW c \in Characters, NEW conv \in Glyphs, conv # "d"
  PROVE  /\ UlibConversion(conv, v, s, c) = UartConversion(conv, v, s, c)
         /\ UartConversion(conv, v, s, c) \in Seq(Glyphs)
<1>0. v \in Nat
  BY UsedUp
<1>1. Characters \subseteq Glyphs /\ Digits16 \subseteq Glyphs /\ "%" \in Glyphs /\ "0" \in Glyphs /\ "x" \in Glyphs
  BY DEF Glyphs
<1>2. Dec(v) \in Seq(Glyphs) /\ s \in Seq(Glyphs) /\ c \in Glyphs
  BY <1>0, <1>1, DecText, MoreGlyphs
<1>3. Hex8(v) \in Seq(Glyphs)
  BY <1>0, <1>1, Hex8Text, MoreGlyphs
<1>4. UartHex(v) \in Seq(Glyphs)
  BY <1>1, UartHexText, MoreGlyphs
<1>5. put_hex(v, FALSE) = UartHex(v) /\ put_hex(v, TRUE) = Hex8(v)
  BY HexAgree, Zenon
<1>6. CASE conv = "u"
  BY <1>2, <1>6 DEF UlibConversion, UartConversion
<1>7. CASE conv = "x"
  BY <1>4, <1>5, <1>7, Zenon DEF UlibConversion, UartConversion
<1>8. CASE conv = "p"
  <2>1. <<"0", "x">> \in Seq(Glyphs)
    BY <1>1
  <2>2. <<"0", "x">> \o Hex8(v) \in Seq(Glyphs)
    BY <1>3, <2>1
  <2> QED  BY <1>5, <1>8, <2>2, Zenon DEF UlibConversion, UartConversion
<1>9. CASE conv = "s"
  BY <1>2, <1>9 DEF UlibConversion, UartConversion
<1>10. CASE conv = "c"
  BY <1>2, <1>10 DEF UlibConversion, UartConversion
<1>11. CASE conv = "%"
  BY <1>1, <1>11 DEF UlibConversion, UartConversion
<1>12. CASE conv \notin {"u", "x", "p", "s", "c", "%"}
  <2>1. <<"%", conv>> \in Seq(Glyphs)
    BY <1>1
  <2>2. UlibConversion(conv, v, s, c) = <<"%", conv>>
    BY <1>12, Zenon DEF UlibConversion
  <2>3. UartConversion(conv, v, s, c) = <<"%", conv>>
    BY <1>12 DEF UartConversion
  <2> QED  BY <2>1, <2>2, <2>3
<1> QED  BY <1>6, <1>7, <1>8, <1>9, <1>10, <1>11, <1>12

-----------------------------------------------------------------------------
\* What holds at a place when it holds behind it holds everywhere.
LEMMA Backwards ==
  ASSUME NEW N \in Nat, NEW Q, \A p \in 1 .. N : (\A i \in p + 1 .. N : i \in Q) => p \in Q
  PROVE  \A p \in 1 .. N : p \in Q
<1> DEFINE P == {k \in 0 .. N : \A i \in (N - k) + 1 .. N : i \in Q}
<1>1. 0 \in P
  OBVIOUS
<1>2. ASSUME NEW k \in 0 .. N - 1, k \in P
      PROVE  k + 1 \in P
  <2>1. N - k \in 1 .. N /\ k + 1 \in 0 .. N /\ (N - (k + 1)) + 1 = N - k
    OBVIOUS
  <2>2. N - k \in Q
    BY <1>2, <2>1
  <2>3. \A i \in N - k .. N : i = N - k \/ i \in (N - k) + 1 .. N
    BY <2>1
  <2>4. \A i \in N - k .. N : i \in Q
    BY <1>2, <2>2, <2>3
  <2> QED  BY <2>1, <2>4
<1> HIDE DEF P
<1>3. N \in P
  <2>1. \A k \in 0 .. N : k \in P
    BY <1>1, <1>2, Induction
  <2> QED  BY <2>1
<1>4. (N - N) + 1 = 1
  OBVIOUS
<1> QED  BY <1>3, <1>4 DEF P

\* There is one walk.
LEMMA ScanUnique ==
  ASSUME NEW L \in Nat, NEW e \in Nat, NEW A, NEW J,
         NEW r, NEW q, Scans(r, L, e, A, J), Scans(q, L, e, A, J)
  PROVE  \A p \in 1 .. L + e : r[p] = q[p]
<1> DEFINE N == L + e
           Q == {p \in 1 .. N : r[p] = q[p]}
<1>0. N \in Nat
  OBVIOUS
<1>1. ASSUME NEW p \in 1 .. N, \A i \in p + 1 .. N : i \in Q
      PROVE  p \in Q
  <2>1. CASE p > L
    BY <2>1 DEF Scans
  <2>2. CASE ~(p > L)
    <3>1. J[p] \in 1 .. e
      BY <2>2 DEF Scans
    <3>2. p + J[p] \in p + 1 .. N
      BY <2>2, <3>1
    <3>3. r[p + J[p]] = q[p + J[p]]
      BY <1>1, <3>2
    <3>4. r[p] = A[p] \o r[p + J[p]] /\ q[p] = A[p] \o q[p + J[p]]
      BY <2>2, Zenon DEF Scans
    <3> QED  BY <3>3, <3>4, Zenon
  <2> QED  BY <2>1, <2>2
<1> HIDE DEF Q, N
<1>2. \A p \in 1 .. N : p \in Q
  BY <1>0, <1>1, Backwards
<1> QED  BY <1>2 DEF Q, N

\* What the two loops put at a place of the format, and how far they go on.
UlibPiece(fmt, v, s, c) ==
  [p \in 1 .. Len(fmt) |-> IF fmt[p] # "%" THEN <<fmt[p]>>
                           ELSE IF p = Len(fmt) THEN << >>
                           ELSE UlibConversion(fmt[p + 1], v, s, c)]

UlibSkip(fmt) == [p \in 1 .. Len(fmt) |-> IF fmt[p] # "%" \/ p = Len(fmt) THEN 1 ELSE 2]

UartPiece(fmt, v, s, c) ==
  [p \in 1 .. Len(fmt) |-> IF fmt[p] # "%" THEN <<fmt[p]>>
                           ELSE UartConversion(IF p + 1 <= Len(fmt) THEN fmt[p + 1] ELSE BEYOND, v, s, c)]

UartSkip(fmt) == [p \in 1 .. Len(fmt) |-> IF fmt[p] # "%" THEN 1 ELSE 2]

\* No conversion only the kernel has.
Plain(fmt) == \A p \in 1 .. Len(fmt) - 1 : fmt[p] = "%" => fmt[p + 1] \notin {"d", "-", "0"}

\* They are texts.
LEMMA Pieces ==
  ASSUME NEW v \in UInts, NEW s \in Seq(Characters), NEW c \in Characters, NEW fmt \in Seq(Characters), Plain(fmt)
  PROVE  /\ UlibPiece(fmt, v, s, c) \in [1 .. Len(fmt) -> Seq(Glyphs)]
         /\ UartPiece(fmt, v, s, c) \in [1 .. Len(fmt) -> Seq(Glyphs)]
         /\ UlibSkip(fmt) \in [1 .. Len(fmt) -> 1 .. 2]
         /\ UartSkip(fmt) \in [1 .. Len(fmt) -> 1 .. 4]
<1>0. Characters \subseteq Glyphs /\ BEYOND \in Glyphs
  BY DEF Glyphs
<1>1. BEYOND # "d"
  BY DEF BEYOND
<1>2. ASSUME NEW p \in 1 .. Len(fmt)
      PROVE  /\ <<fmt[p]>> \in Seq(Glyphs)
             /\ p + 1 <= Len(fmt) /\ fmt[p] = "%" => fmt[p + 1] \in Glyphs /\ fmt[p + 1] # "d"
             /\ p # Len(fmt) => p + 1 <= Len(fmt)
  <2>1. fmt[p] \in Characters
    OBVIOUS
  <2>2. ASSUME p + 1 <= Len(fmt), fmt[p] = "%"
        PROVE  fmt[p + 1] \in Glyphs /\ fmt[p + 1] # "d"
    <3>1. p + 1 \in 1 .. Len(fmt) /\ p \in 1 .. Len(fmt) - 1
      BY <2>2
    <3>2. fmt[p + 1] \in Characters
      BY <3>1
    <3>3. fmt[p + 1] # "d"
      BY <2>2, <3>1 DEF Plain
    <3> QED  BY <1>0, <3>2, <3>3
  <2>3. p # Len(fmt) => p + 1 <= Len(fmt)
    OBVIOUS
  <2>4. <<fmt[p]>> \in Seq(Glyphs)
    <3> DEFINE x == fmt[p]
    <3>1. x \in Glyphs
      BY <1>0, <2>1
    <3> HIDE DEF x
    <3>2. <<x>> \in Seq(Glyphs)
      BY <3>1
    <3> QED  BY <3>2 DEF x
  <2> QED  BY <2>2, <2>3, <2>4
<1>3. UlibPiece(fmt, v, s, c) \in [1 .. Len(fmt) -> Seq(Glyphs)]
  <2>1. ASSUME NEW p \in 1 .. Len(fmt)
        PROVE  UlibPiece(fmt, v, s, c)[p] \in Seq(Glyphs)
    <3>1. UlibPiece(fmt, v, s, c)[p] = IF fmt[p] # "%" THEN <<fmt[p]>>
                                       ELSE IF p = Len(fmt) THEN << >>
                                       ELSE UlibConversion(fmt[p + 1], v, s, c)
      BY DEF UlibPiece
    <3>2. << >> \in Seq(Glyphs)
      OBVIOUS
    <3>3. fmt[p] = "%" /\ p # Len(fmt) => UlibConversion(fmt[p + 1], v, s, c) \in Seq(Glyphs)
      BY <1>2, ConversionsAgree
    <3> QED  BY <1>2, <3>1, <3>2, <3>3
  <2> QED  BY <2>1 DEF UlibPiece
<1>4. UartPiece(fmt, v, s, c) \in [1 .. Len(fmt) -> Seq(Glyphs)]
  <2>1. ASSUME NEW p \in 1 .. Len(fmt)
        PROVE  UartPiece(fmt, v, s, c)[p] \in Seq(Glyphs)
    <3> DEFINE x == IF p + 1 <= Len(fmt) THEN fmt[p + 1] ELSE BEYOND
    <3>1. UartPiece(fmt, v, s, c)[p] = IF fmt[p] # "%" THEN <<fmt[p]>> ELSE UartConversion(x, v, s, c)
      BY DEF UartPiece
    <3>2. fmt[p] = "%" => x \in Glyphs /\ x # "d"
      BY <1>0, <1>1, <1>2
    <3> HIDE DEF x
    <3>3. fmt[p] = "%" => UartConversion(x, v, s, c) \in Seq(Glyphs)
      BY <3>2, ConversionsAgree
    <3> QED  BY <1>2, <3>1, <3>3
  <2> QED  BY <2>1 DEF UartPiece
<1>5. UlibSkip(fmt) \in [1 .. Len(fmt) -> 1 .. 2]
  BY DEF UlibSkip
<1>6. UartSkip(fmt) \in [1 .. Len(fmt) -> 1 .. 4]
  BY DEF UartSkip
<1> QED  BY <1>3, <1>4, <1>5, <1>6

\* The walks of the two loops over a format.
UlibWalk(mine, fmt, v, s, c) ==
  /\ mine \in [1 .. Len(fmt) + 2 -> Seq(Glyphs)]
  /\ Scans(mine, Len(fmt), 2, UlibPiece(fmt, v, s, c), UlibSkip(fmt))

UartWalk(its, fmt, v, s, c) ==
  /\ its \in [1 .. Len(fmt) + 4 -> Seq(Glyphs)]
  /\ Scans(its, Len(fmt), 4, UartPiece(fmt, v, s, c), UartSkip(fmt))

\* ulib_printf walks its format.
LEMMA UlibScans ==
  ASSUME NEW v \in UInts, NEW s \in Seq(Characters), NEW c \in Characters, NEW fmt \in Seq(Characters), Plain(fmt)
  PROVE  \E r : /\ UlibWalk(r, fmt, v, s, c)
                 /\ ulib_printf(fmt, v, s, c) = put_str(<< >>, r[1])
<1> DEFINE L == Len(fmt)
           A == UlibPiece(fmt, v, s, c)
           J == UlibSkip(fmt)
           Body(p, g) == IF p > L THEN << >>
                         ELSE IF fmt[p] # "%" THEN <<fmt[p]>> \o g[p + 1]
                         ELSE IF p = L THEN << >>
                         ELSE UlibConversion(fmt[p + 1], v, s, c) \o g[p + 2]
           rest == CHOOSE g : g = [p \in 1 .. L + 2 |-> Body(p, g)]
<1>0. L \in Nat /\ 2 \in Nat /\ A \in [1 .. L -> Seq(Glyphs)] /\ J \in [1 .. L -> 1 .. 2]
  <2>1. A \in [1 .. L -> Seq(Glyphs)] /\ J \in [1 .. L -> 1 .. 2]
    BY Pieces, Zenon
  <2>2. L \in Nat /\ 2 \in Nat
    OBVIOUS
  <2> HIDE DEF A, J, L
  <2> QED  BY <2>1, <2>2
<1>1. ulib_printf(fmt, v, s, c) = put_str(<< >>, rest[1])
  BY DEF ulib_printf
<1>2. PICK r \in [1 .. L + 2 -> Seq(Glyphs)] : Scans(r, L, 2, A, J)
  <2> HIDE DEF A, J, L
  <2> QED  BY <1>0, Scan, Zenon
<1>3. ASSUME NEW q, NEW p \in 1 .. L + 2, q[L + 1] = << >>
      PROVE  (IF p > L THEN << >> ELSE A[p] \o q[p + J[p]]) = Body(p, q)
  <2>1. CASE p > L
    BY <2>1
  <2>2. CASE ~(p > L) /\ fmt[p] # "%"
    <3>1. A[p] = <<fmt[p]>> /\ J[p] = 1
      BY <1>0, <2>2 DEF UlibPiece, UlibSkip
    <3> HIDE DEF A, J
    <3> QED  BY <2>2, <3>1
  <2>3. CASE ~(p > L) /\ fmt[p] = "%" /\ p = L
    <3>1. A[p] = << >> /\ J[p] = 1
      BY <1>0, <2>3 DEF UlibPiece, UlibSkip
    <3>2. A[p] \o q[p + J[p]] = << >>
      <4> HIDE DEF A, J
      <4>1. << >> \o << >> = << >>
        OBVIOUS
      <4> QED  BY <1>3, <2>3, <3>1, <4>1
    <3> HIDE DEF A, J
    <3> QED  BY <2>3, <3>2
  <2>4. CASE ~(p > L) /\ fmt[p] = "%" /\ p # L
    <3>1. A[p] = UlibConversion(fmt[p + 1], v, s, c) /\ J[p] = 2
      BY <1>0, <2>4 DEF UlibPiece, UlibSkip
    <3> HIDE DEF A, J
    <3> QED  BY <2>4, <3>1, Zenon
  <2> HIDE DEF Body
  <2> QED  BY <2>1, <2>2, <2>3, <2>4, Zenon
<1>4. L + 1 \in 1 .. L + 2 /\ L + 1 > L /\ 1 \in 1 .. L + 2
  BY <1>0
<1>5. Body(L + 1, r) = << >> /\ \A g : Body(L + 1, g) = << >>
  BY <1>4
<1> HIDE DEF Body, A, J, L
<1>6. r[L + 1] = << >>
  BY <1>2, <1>4, Zenon DEF Scans
<1>7. r = [p \in 1 .. L + 2 |-> Body(p, r)]
  <2>1. \A p \in 1 .. L + 2 : r[p] = Body(p, r)
    BY <1>2, <1>3, <1>6, Zenon DEF Scans
  <2> QED  BY <2>1
<1>8. rest = [p \in 1 .. L + 2 |-> Body(p, rest)]
  BY <1>7, Zenon
<1> HIDE DEF rest
<1>9. \A p \in 1 .. L + 2 : rest[p] = Body(p, rest)
  BY <1>8, Zenon
<1>10. rest[L + 1] = << >>
  BY <1>4, <1>5, <1>9
<1>11. Scans(rest, L, 2, A, J)
  BY <1>0, <1>3, <1>9, <1>10, Zenon DEF Scans
<1>12. rest[1] = r[1]
  BY <1>0, <1>2, <1>4, <1>11, ScanUnique
<1>13. ulib_printf(fmt, v, s, c) = put_str(<< >>, r[1])
  BY <1>1, <1>12
<1>14. UlibWalk(r, fmt, v, s, c)
  BY <1>2 DEF UlibWalk, A, J, L
<1> QED  BY <1>13, <1>14, Zenon

\* uart_printf walks its format.
LEMMA UartScans ==
  ASSUME NEW v \in UInts, NEW s \in Seq(Characters), NEW c \in Characters, NEW fmt \in Seq(Characters), Plain(fmt)
  PROVE  \E r : /\ UartWalk(r, fmt, v, s, c)
                 /\ uart_printf(fmt, v, s, c) = r[1]
<1> DEFINE L == Len(fmt)
           A == UartPiece(fmt, v, s, c)
           J == UartSkip(fmt)
           At(p) == IF p <= L THEN fmt[p] ELSE BEYOND
           Body(p, g) == IF p > L THEN << >>
                         ELSE IF fmt[p] # "%" THEN <<fmt[p]>> \o g[p + 1]
                         ELSE IF At(p + 1) = "-" /\ (\E w \in 1 .. 9 : At(p + 2) = digit[w]) /\ At(p + 3) = "s"
                         THEN PadRight(s, CHOOSE w \in 1 .. 9 : At(p + 2) = digit[w]) \o g[p + 4]
                         ELSE IF At(p + 1) = "0" /\ At(p + 2) = "8" /\ At(p + 3) = "x"
                         THEN Hex8(v) \o g[p + 4]
                         ELSE UartConversion(At(p + 1), v, s, c) \o g[p + 2]
           rest == CHOOSE g : g = [p \in 1 .. L + 4 |-> Body(p, g)]
<1>0. L \in Nat /\ 4 \in Nat /\ A \in [1 .. L -> Seq(Glyphs)] /\ J \in [1 .. L -> 1 .. 4]
  <2>1. A \in [1 .. L -> Seq(Glyphs)] /\ J \in [1 .. L -> 1 .. 4]
    BY Pieces, Zenon
  <2>2. L \in Nat /\ 4 \in Nat
    OBVIOUS
  <2> HIDE DEF A, J, L
  <2> QED  BY <2>1, <2>2
<1>1. uart_printf(fmt, v, s, c) = rest[1]
  BY DEF uart_printf
<1>2. PICK r \in [1 .. L + 4 -> Seq(Glyphs)] : Scans(r, L, 4, A, J)
  <2> HIDE DEF A, J, L
  <2> QED  BY <1>0, Scan, Zenon
<1>3. ASSUME NEW q, NEW p \in 1 .. L + 4
      PROVE  (IF p > L THEN << >> ELSE A[p] \o q[p + J[p]]) = Body(p, q)
  <2>1. CASE p > L
    BY <2>1
  <2>2. CASE ~(p > L) /\ fmt[p] # "%"
    <3>1. A[p] = <<fmt[p]>> /\ J[p] = 1
      BY <1>0, <2>2 DEF UartPiece, UartSkip
    <3> HIDE DEF A, J
    <3> QED  BY <2>2, <3>1
  <2>3. CASE ~(p > L) /\ fmt[p] = "%"
    <3> DEFINE x == At(p + 1)
    <3>1. A[p] = UartConversion(x, v, s, c) /\ J[p] = 2
      BY <1>0, <2>3 DEF UartPiece, UartSkip
    <3>2. x # "-" /\ x # "0"
      <4>1. CASE p + 1 <= L
        <5>1. p \in 1 .. L - 1 /\ x = fmt[p + 1]
          BY <1>0, <4>1
        <5> HIDE DEF x
        <5> QED  BY <2>3, <5>1 DEF Plain
      <4>2. CASE ~(p + 1 <= L)
        <5>1. x = BEYOND
          BY <4>2
        <5> HIDE DEF x
        <5> QED  BY <5>1, Zenon DEF BEYOND
      <4> QED  BY <4>1, <4>2
    <3>3. Body(p, q) = UartConversion(x, v, s, c) \o q[p + 2]
      <4> DEFINE y == At(p + 2)
                 z == At(p + 3)
      <4>1. Body(p, q) = IF p > L THEN << >>
                         ELSE IF fmt[p] # "%" THEN <<fmt[p]>> \o q[p + 1]
                         ELSE IF x = "-" /\ (\E w \in 1 .. 9 : y = digit[w]) /\ z = "s"
                         THEN PadRight(s, CHOOSE w \in 1 .. 9 : y = digit[w]) \o q[p + 4]
                         ELSE IF x = "0" /\ y = "8" /\ z = "x"
                         THEN Hex8(v) \o q[p + 4]
                         ELSE UartConversion(x, v, s, c) \o q[p + 2]
        BY Zenon
      <4> HIDE DEF Body, x, y, z
      <4> QED  BY <2>3, <3>2, <4>1, Zenon
    <3> HIDE DEF A, J, Body, x
    <3> QED  BY <2>3, <3>1, <3>3
  <2> HIDE DEF Body
  <2> QED  BY <2>1, <2>2, <2>3, Zenon
<1>4. 1 \in 1 .. L + 4
  BY <1>0
<1> HIDE DEF Body, A, J, L
<1>5. r = [p \in 1 .. L + 4 |-> Body(p, r)]
  <2>1. \A p \in 1 .. L + 4 : r[p] = Body(p, r)
    BY <1>2, <1>3, Zenon DEF Scans
  <2> QED  BY <2>1
<1>6. rest = [p \in 1 .. L + 4 |-> Body(p, rest)]
  BY <1>5, Zenon
<1> HIDE DEF rest
<1>7. \A p \in 1 .. L + 4 : rest[p] = Body(p, rest)
  BY <1>6, Zenon
<1>8. Scans(rest, L, 4, A, J)
  BY <1>0, <1>3, <1>7, Zenon DEF Scans
<1>9. rest[1] = r[1]
  BY <1>0, <1>2, <1>4, <1>8, ScanUnique
<1>10. uart_printf(fmt, v, s, c) = r[1]
  BY <1>1, <1>9
<1>11. UartWalk(r, fmt, v, s, c)
  BY <1>2 DEF UartWalk, A, J, L
<1> QED  BY <1>10, <1>11, Zenon

\* A text with nothing from beyond the format in it.
Within(text) == \A i \in 1 .. Len(text) : text[i] # BEYOND

\* Nor is there anything in its parts.
LEMMA WithinParts ==
  ASSUME NEW S, NEW x \in Seq(S), NEW y \in Seq(S), Within(x \o y)
  PROVE  Within(x) /\ Within(y)
<1> DEFINE z == x \o y
<1>1. /\ Len(z) = Len(x) + Len(y) /\ Len(x) \in Nat /\ Len(y) \in Nat
      /\ \A i \in 1 .. Len(x) : z[i] = x[i]
      /\ \A i \in 1 .. Len(y) : z[Len(x) + i] = y[i]
  OBVIOUS
<1>2. \A i \in 1 .. Len(z) : z[i] # BEYOND
  BY DEF Within
<1> HIDE DEF z
<1>3. \A i \in 1 .. Len(x) : i \in 1 .. Len(z)
  BY <1>1
<1>4. \A i \in 1 .. Len(y) : Len(x) + i \in 1 .. Len(z)
  BY <1>1
<1>5. Within(x)
  BY <1>1, <1>2, <1>3 DEF Within
<1>6. Within(y)
  BY <1>1, <1>2, <1>4 DEF Within
<1> QED  BY <1>5, <1>6

\* The program's walk puts what the kernel's does, if that keeps to the format.
SameText(mine, its) == Within(its[1]) => mine[1] = its[1]

\* Two walks of one format do so.
LEMMA WalksAgree ==
  ASSUME NEW v \in UInts, NEW s \in Seq(Characters), NEW c \in Characters, NEW fmt \in Seq(Characters), Plain(fmt),
         NEW mine, UlibWalk(mine, fmt, v, s, c), NEW its, UartWalk(its, fmt, v, s, c)
  PROVE  SameText(mine, its)
<1> DEFINE L == Len(fmt)
           N == L + 1
           Q == {p \in 1 .. N : Within(its[p]) => mine[p] = its[p]}
<1>0. L \in Nat /\ N \in Nat
  OBVIOUS
<1>1. ASSUME NEW p \in 1 .. N, \A i \in p + 1 .. N : i \in Q
      PROVE  p \in Q
  <2>1. CASE p > L
    <3>1. p \in 1 .. L + 2 /\ p \in 1 .. L + 4
      BY <1>0
    <3>2. mine[p] = << >> /\ its[p] = << >>
      BY <2>1, <3>1, Zenon DEF UlibWalk, UartWalk, Scans
    <3> QED  BY <3>2
  <2>2. CASE ~(p > L)
    <3> DEFINE A == UlibPiece(fmt, v, s, c)[p]
               B == UartPiece(fmt, v, s, c)[p]
               j == UlibSkip(fmt)[p]
               k == UartSkip(fmt)[p]
    <3>0. p \in 1 .. L /\ p \in 1 .. L + 2 /\ p \in 1 .. L + 4
      BY <1>0, <2>2
    <3>1. mine[p] = A \o mine[p + j] /\ its[p] = B \o its[p + k] /\ k \in 1 .. 4
      BY <2>2, <3>0, Zenon DEF UlibWalk, UartWalk, Scans
    <3>2. B \in Seq(Glyphs)
      <4>1. UartPiece(fmt, v, s, c) \in [1 .. L -> Seq(Glyphs)]
        BY Pieces, Zenon
      <4> QED  BY <3>0, <4>1
    <3>3. its[p + k] \in Seq(Glyphs)
      <4>1. p + k \in 1 .. L + 4
        BY <1>0, <3>0, <3>1
      <4> QED  BY <4>1 DEF UartWalk
    <3>4. Within(its[p]) => Within(B) /\ Within(its[p + k])
      <4> HIDE DEF B, k
      <4> QED  BY <3>1, <3>2, <3>3, WithinParts
    <3>5. CASE fmt[p] # "%"
      <4>1. A = <<fmt[p]>> /\ B = <<fmt[p]>> /\ j = 1 /\ k = 1
        BY <3>0, <3>5 DEF UlibPiece, UartPiece, UlibSkip, UartSkip
      <4>2. p + 1 \in p + 1 .. N
        BY <1>0, <3>0
      <4>3. Within(its[p + 1]) => mine[p + 1] = its[p + 1]
        BY <1>1, <4>2
      <4> HIDE DEF A, B, j, k
      <4> QED  BY <3>1, <3>4, <4>1, <4>3, Zenon
    <3>6. CASE fmt[p] = "%" /\ p = L
      <4>1. B = UartConversion(BEYOND, v, s, c)
        BY <3>0, <3>6 DEF UartPiece
      <4>2. UartConversion(BEYOND, v, s, c) = <<"%", BEYOND>>
        BY Zenon DEF UartConversion, BEYOND
      <4>3. ~Within(<<"%", BEYOND>>)
        <5>1. Len(<<"%", BEYOND>>) = 2 /\ <<"%", BEYOND>>[2] = BEYOND
          OBVIOUS
        <5>2. 2 \in 1 .. 2
          OBVIOUS
        <5> QED  BY <5>1, <5>2 DEF Within
      <4> HIDE DEF A, B, j, k
      <4>4. ~Within(its[p])
        BY <3>4, <4>1, <4>2, <4>3
      <4> QED  BY <4>4
    <3>7. CASE fmt[p] = "%" /\ p # L
      <4>1. p \in 1 .. L - 1 /\ p + 1 \in 1 .. L /\ p + 2 \in p + 1 .. N
        BY <1>0, <3>0, <3>7
      <4>2. A = UlibConversion(fmt[p + 1], v, s, c) /\ B = UartConversion(fmt[p + 1], v, s, c) /\ j = 2 /\ k = 2
        BY <3>0, <3>7, <4>1 DEF UlibPiece, UartPiece, UlibSkip, UartSkip
      <4>3. fmt[p + 1] \in Glyphs /\ fmt[p + 1] # "d"
        <5>1. fmt[p + 1] \in Characters
          BY <4>1
        <5>2. fmt[p + 1] # "d"
          BY <3>7, <4>1 DEF Plain
        <5> QED  BY <5>1, <5>2 DEF Glyphs
      <4> HIDE DEF A, B, j, k
      <4>4. A = B
        BY <4>2, <4>3, ConversionsAgree
      <4>5. Within(its[p + 2]) => mine[p + 2] = its[p + 2]
        BY <1>1, <4>1
      <4> QED  BY <3>1, <3>4, <4>2, <4>4, <4>5, Zenon
    <3> QED  BY <3>5, <3>6, <3>7
  <2> QED  BY <2>1, <2>2
<1>2. 1 \in 1 .. N
  BY <1>0
<1> HIDE DEF Q, N
<1>3. \A p \in 1 .. N : p \in Q
  BY <1>0, <1>1, Backwards, Zenon
<1>4. 1 \in Q
  BY <1>2, <1>3, Zenon
<1>5. Within(its[1]) => mine[1] = its[1]
  BY <1>4 DEF Q
<1> QED  BY <1>5, Zenon DEF SameText

\* Every walk of the program agrees with every walk of the kernel that keeps
\* to the format.
Agree(fmt, v, s, c) ==
  \A mine, its : UlibWalk(mine, fmt, v, s, c) /\ UartWalk(its, fmt, v, s, c) => SameText(mine, its)

\* They do, in a format without %d.
LEMMA AllWalksAgree ==
  ASSUME NEW v \in UInts, NEW s \in Seq(Characters), NEW c \in Characters, NEW fmt \in Seq(Characters), Plain(fmt)
  PROVE  Agree(fmt, v, s, c)
<1>1. ASSUME NEW mine, NEW its, UlibWalk(mine, fmt, v, s, c), UartWalk(its, fmt, v, s, c)
      PROVE  SameText(mine, its)
  BY <1>1, WalksAgree, Zenon
<1> QED  BY <1>1, Zenon DEF Agree

\* The program's message is the beginning of the kernel's.
LEMMA PrintfExact ==
  ASSUME NEW v \in UInts, NEW s \in Seq(Characters), NEW c \in Characters, NEW fmt \in Seq(Characters),
         Common(fmt, uart_printf(fmt, v, s, c))
  PROVE  LET text == uart_printf(fmt, v, s, c)
         IN ulib_printf(fmt, v, s, c)
              = SubSeq(text, 1, IF Len(text) < ULIB_LINE_MAX THEN Len(text) ELSE ULIB_LINE_MAX)
<1> DEFINE text == uart_printf(fmt, v, s, c)
<1>0. Plain(fmt)
  BY DEF Common, Plain
<1>1. PICK mine : UlibWalk(mine, fmt, v, s, c) /\ ulib_printf(fmt, v, s, c) = put_str(<< >>, mine[1])
  BY <1>0, UlibScans
<1>2. PICK its : UartWalk(its, fmt, v, s, c) /\ text = its[1]
  BY <1>0, UartScans
<1>3. text \in Seq(Glyphs)
  <2>1. 1 \in 1 .. Len(fmt) + 4
    OBVIOUS
  <2> HIDE DEF text
  <2> QED  BY <1>2, <2>1 DEF UartWalk
<1>4. Within(text)
  <2>1. \A i \in DOMAIN text : text[i] # BEYOND
    BY DEF Common
  <2> HIDE DEF text
  <2>2. DOMAIN text = 1 .. Len(text)
    BY <1>3
  <2> QED  BY <2>1, <2>2 DEF Within
<1> HIDE DEF text
<1>a. mine[1] = its[1]
  <2>1. Within(its[1])
    BY <1>2, <1>4, Zenon
  <2>2. Agree(fmt, v, s, c)
    BY <1>0, AllWalksAgree
  <2>3. UlibWalk(mine, fmt, v, s, c) /\ UartWalk(its, fmt, v, s, c)
    BY <1>1, <1>2, Zenon
  <2>4. SameText(mine, its)
    BY <2>2, <2>3, Zenon DEF Agree
  <2> QED  BY <2>1, <2>4, Zenon DEF SameText
<1>5. ulib_printf(fmt, v, s, c) = put_str(<< >>, text)
  BY <1>1, <1>2, <1>a
<1>6. put_str(<< >>, text) = SubSeq(text, 1, IF Len(text) < ULIB_LINE_MAX THEN Len(text) ELSE ULIB_LINE_MAX)
  BY <1>3, PutStrCuts
<1> QED  BY <1>5, <1>6 DEF text

-----------------------------------------------------------------------------
(* What a program prints.                                                  *)

\* Every numeral denotes its number, for every width of an unsigned int that
\* the digits and the nibbles cover.
THEOREM NumeralsCorrect == Spec => []NumeralsExact
<1>1. ASSUME PrintInv
      PROVE  NumeralsExact
  <2> SUFFICES ASSUME call.op = "printf"
               PROVE  NumeralsExact
    BY DEF NumeralsExact
  <2> DEFINE v == call.v
             i == AsSigned(v)
  <2>1. v \in UInts
    BY <1>1, MessageArguments
  <2>2. Value(Dec(v), RADIX) = v /\ Len(Dec(v)) <= DEC_DIGITS /\ (v # 0 => Dec(v)[1] # "0")
    BY <2>1, DecExact
  <2>3. Int32(i) = IF i < 0 THEN <<"-">> \o Dec(-i) ELSE Dec(i)
    BY <2>1, Int32Exact, Zenon
  <2>4. /\ Value(Hex8(v), NIBBLE) = v /\ Value(UartHex(v), NIBBLE) = v
        /\ v # 0 => UartHex(v)[1] # "0"
        /\ v = 0 => UartHex(v) = <<"0">>
    BY <2>1, HexExact
  <2> QED  BY <2>2, <2>3, <2>4, Zenon DEF NumeralsExact
<1> QED  BY <1>1, MessageInvariance, PTL

\* A program's message is the beginning of what the kernel's printf would
\* print, for every format, every string and every size of the buffer.
THEOREM PrintfsCorrect == Spec => []PrintfsAgree
<1>1. ASSUME PrintInv
      PROVE  PrintfsAgree
  <2> SUFFICES ASSUME call.op = "printf"
               PROVE  PrintfsAgree
    BY DEF PrintfsAgree
  <2> DEFINE fmt == call.fmt
             v == call.v
             s == call.s
  <2>1. /\ fmt \in Seq(Characters) /\ v \in UInts /\ s \in Seq(Characters) /\ Char \in Characters
        /\ call.text = ulib_printf(fmt, v, s, Char)
    BY <1>1, MessageArguments
  <2> DEFINE text == uart_printf(fmt, v, s, Char)
  <2>2. Common(fmt, text) =>
          ulib_printf(fmt, v, s, Char)
            = SubSeq(text, 1, IF Len(text) < ULIB_LINE_MAX THEN Len(text) ELSE ULIB_LINE_MAX)
    BY <2>1, PrintfExact
  <2> QED  BY <2>1, <2>2, Zenon DEF PrintfsAgree
<1> QED  BY <1>1, MessageInvariance, PTL

=============================================================================
