---------------------------- MODULE DeathProofs ----------------------------
(***************************************************************************)
(* A process ends whole, and only when the line typed says so, for any     *)
(* line length, keys, digits, width of an int, command table and pids.     *)
(*                                                                         *)
(* ulib_atoi reads digit by digit and wraps; LeadingNumber sums the digits *)
(* by weight.  That the one is the other modulo the width of an int is an  *)
(* induction over the digits (ReadsSum).  Induction and Loop, the lemmas   *)
(* on recursive functions it needs, are those of FormatProofs.             *)
(***************************************************************************)
EXTENDS ShellProofs

-----------------------------------------------------------------------------
(* Numbers typed.                                                          *)

\* A set of naturals that holds 0 and, below top, with every number the next one
\* holds 0 to top.
LEMMA Induction ==
  ASSUME NEW top \in Nat, NEW P, 0 \in P, \A k \in 0 .. top - 1 : k \in P => k + 1 \in P
  PROVE  \A k \in 0 .. top : k \in P
<1> DEFINE T == {k \in 0 .. top : k \notin P}
<1> SUFFICES ASSUME T # {} PROVE FALSE
  OBVIOUS
<1>1. T \subseteq Nat
  OBVIOUS
<1>2. \E x \in T : \A y \in T : ~(<<y, x>> \in OpToRel(<, Nat))
  <2> HIDE DEF T
  <2> QED  BY <1>1, WFMin, NatLessThanWellFounded, Zenon
<1>3. PICK x \in T : \A y \in T : ~(<<y, x>> \in OpToRel(<, Nat))
  BY <1>2, Zenon
<1>4. x \in 0 .. top /\ x \notin P /\ x # 0
  OBVIOUS
<1>5. x - 1 \in 0 .. top - 1 /\ (x - 1) + 1 = x /\ x - 1 \in 0 .. top /\ x - 1 < x /\ x - 1 \in Nat /\ x \in Nat
  BY <1>4
<1>6. x - 1 \notin P
  BY <1>4, <1>5
<1>7. x - 1 \in T
  BY <1>5, <1>6
<1>8. <<x - 1, x>> \in OpToRel(<, Nat)
  BY <1>5 DEF OpToRel
<1> QED  BY <1>3, <1>7, <1>8, Zenon

\* H[k] makes the k-th value of the earlier ones, and f is what it makes.
Makes(H, top, S) == \A k \in 0 .. top : \A g \in [0 .. k - 1 -> S] : H[k][g] \in S

IsMade(f, H, top, S) ==
  \A k \in 0 .. top : \A g \in [0 .. k - 1 -> S] :
    (\A i \in 0 .. k - 1 : g[i] = f[i]) => f[k] = H[k][g]

\* A function can be defined by saying what each value is made of the earlier ones.
LEMMA Recursion ==
  ASSUME NEW top \in Nat, NEW S, NEW H, Makes(H, top, S)
  PROVE  \E f \in [0 .. top -> S] : IsMade(f, H, top, S)
<1> USE DEF Makes, IsMade
<1> DEFINE Made(k, f) == /\ f \in [0 .. k - 1 -> S]
                         /\ \A j \in 0 .. k - 1 : f[j] = H[j][[i \in 0 .. j - 1 |-> f[i]]]
<1> DEFINE P == {k \in 0 .. top + 1 : \E f : Made(k, f)}
<1>1. 0 \in P
  <2>1. Made(0, [i \in 0 .. 0 - 1 |-> i])
    OBVIOUS
  <2> HIDE DEF Made
  <2> QED  BY <2>1
<1>2. ASSUME NEW k \in 0 .. (top + 1) - 1, k \in P
      PROVE  k + 1 \in P
  <2>1. PICK f : Made(k, f)
    BY <1>2
  <2> DEFINE g == [i \in 0 .. (k + 1) - 1 |-> IF i < k THEN f[i] ELSE H[k][f]]
  <2>2. k \in 0 .. top /\ k \in Nat /\ f \in [0 .. k - 1 -> S]
    BY <2>1
  <2>3. H[k][f] \in S
    BY <2>2
  <2>4. ASSUME NEW i \in 0 .. (k + 1) - 1 PROVE  g[i] \in S
    BY <2>2, <2>3, <2>4
  <2>5. g \in [0 .. (k + 1) - 1 -> S]
    BY <2>4
  <2>6. ASSUME NEW j \in 0 .. (k + 1) - 1
        PROVE  g[j] = H[j][[i \in 0 .. j - 1 |-> g[i]]]
    <3>1. CASE j < k
      <4>1. g[j] = f[j] /\ j \in 0 .. k - 1
        BY <2>2, <3>1
      <4>2. [i \in 0 .. j - 1 |-> g[i]] = [i \in 0 .. j - 1 |-> f[i]]
        BY <2>2, <3>1
      <4>3. f[j] = H[j][[i \in 0 .. j - 1 |-> f[i]]]
        BY <2>1, <4>1
      <4> HIDE DEF g
      <4> QED  BY <4>1, <4>2, <4>3, Zenon
    <3>2. CASE ~(j < k)
      <4>1. j = k /\ g[j] = H[k][f]
        BY <2>2, <3>2
      <4>2. [i \in 0 .. k - 1 |-> g[i]] = f
        BY <2>2
      <4> HIDE DEF g
      <4> QED  BY <4>1, <4>2
    <3> QED  BY <3>1, <3>2
  <2>7. Made(k + 1, g)
    <3> HIDE DEF g
    <3> QED  BY <2>5, <2>6
  <2>8. k + 1 \in 0 .. top + 1
    OBVIOUS
  <2> HIDE DEF Made
  <2> QED  BY <2>7, <2>8
<1> HIDE DEF P
<1>3. \A k \in 0 .. top + 1 : k \in P
  <2>1. top + 1 \in Nat
    OBVIOUS
  <2> QED  BY <1>1, <1>2, <2>1, Induction, Zenon
<1>4. top + 1 \in P
  BY <1>3
<1>5. PICK f : Made(top + 1, f)
  BY <1>4 DEF P
<1>6. (top + 1) - 1 = top
  OBVIOUS
<1>7. ASSUME NEW k \in 0 .. top, NEW g \in [0 .. k - 1 -> S], \A i \in 0 .. k - 1 : g[i] = f[i]
      PROVE  f[k] = H[k][g]
  <2>1. g = [i \in 0 .. k - 1 |-> f[i]]
    BY <1>7
  <2> QED  BY <1>5, <1>6, <2>1
<1>8. f \in [0 .. top -> S]
  BY <1>5, <1>6
<1> QED  BY <1>7, <1>8

\* f starts with c and goes on with G.
StaysIn(G, top, S) == \A k \in 1 .. top : \A x \in S : G[k][x] \in S

Iterates(f, top, c, G) == f[0] = c /\ \A k \in 1 .. top : f[k] = G[k][f[k - 1]]

\* The same when each value depends on the one before it only.
LEMMA Loop ==
  ASSUME NEW top \in Nat, NEW S, NEW c \in S, NEW G,
         StaysIn(G, top, S)
  PROVE  \E f \in [0 .. top -> S] : Iterates(f, top, c, G)
<1> DEFINE H == [k \in 0 .. top |-> [g \in [0 .. k - 1 -> S] |-> IF k = 0 THEN c ELSE G[k][g[k - 1]]]]
<1>1. ASSUME NEW k \in 0 .. top, NEW g \in [0 .. k - 1 -> S]
      PROVE  H[k][g] = (IF k = 0 THEN c ELSE G[k][g[k - 1]]) /\ H[k][g] \in S
  <2>1. H[k][g] = (IF k = 0 THEN c ELSE G[k][g[k - 1]])
    OBVIOUS
  <2>2. k # 0 => k \in 1 .. top /\ g[k - 1] \in S
    OBVIOUS
  <2> HIDE DEF H
  <2> QED  BY <2>1, <2>2 DEF StaysIn
<1> HIDE DEF H
<1>2. Makes(H, top, S)
  BY <1>1 DEF Makes
<1>3. PICK f \in [0 .. top -> S] : IsMade(f, H, top, S)
  BY <1>2, Recursion
<1>4. ASSUME NEW k \in 0 .. top
      PROVE  f[k] = IF k = 0 THEN c ELSE G[k][f[k - 1]]
  <2> DEFINE g == [i \in 0 .. k - 1 |-> f[i]]
  <2>1. g \in [0 .. k - 1 -> S] /\ (\A i \in 0 .. k - 1 : g[i] = f[i]) /\ (k # 0 => g[k - 1] = f[k - 1])
    OBVIOUS
  <2> HIDE DEF g
  <2>2. f[k] = H[k][g]
    BY <1>3, <2>1 DEF IsMade
  <2> QED  BY <1>1, <2>1, <2>2
<1>5. Iterates(f, top, c, G)
  BY <1>4 DEF Iterates
<1> QED  BY <1>5

\* Division with remainder has one result.
LEMMA RemainderIs ==
  ASSUME NEW m \in Nat \ {0}, NEW q \in Nat, NEW r \in 0 .. m - 1
  PROVE  (q * m + r) % m = r
<1> DEFINE x == q * m + r
           p == x \div m
           t == x % m
<1>1. x \in Nat
  OBVIOUS
<1>2. x = q * m + r
  OBVIOUS
<1> HIDE DEF x
<1>3. p \in Nat /\ t \in 0 .. m - 1 /\ x = p * m + t
  BY <1>1
<1> HIDE DEF p, t
<1>4. p * m + t = q * m + r
  BY <1>2, <1>3
<1>5. p * m < (q + 1) * m /\ q * m < (p + 1) * m
  BY <1>3, <1>4
<1>6. p < q + 1 /\ q < p + 1
  BY <1>3, <1>5
<1>7. p = q
  BY <1>3, <1>6
<1>8. t = r
  BY <1>3, <1>4, <1>7
<1> QED  BY <1>8 DEF x, t

\* A digit more gives the same remainder whether or not the number so far was
\* reduced.
LEMMA DigitWraps ==
  ASSUME NEW m \in Nat \ {0}, NEW u \in Nat, NEW d \in Nat
  PROVE  ((u % m) * 10 + d) % m = (u * 10 + d) % m
<1> DEFINE q == u \div m
           s == u % m
           x == s * 10 + d
           p == x \div m
           r == x % m
<1>1. q \in Nat /\ s \in 0 .. m - 1 /\ u = q * m + s
  OBVIOUS
<1> HIDE DEF q, s
<1>2. x \in Nat
  BY <1>1
<1>3. x = s * 10 + d
  OBVIOUS
<1> HIDE DEF x
<1>4. p \in Nat /\ r \in 0 .. m - 1 /\ x = p * m + r
  BY <1>2
<1> HIDE DEF p, r
<1>5. u * 10 + d = (q * 10 + p) * m + r
  BY <1>1, <1>3, <1>4
<1>6. q * 10 + p \in Nat
  BY <1>1, <1>4
<1>7. (u * 10 + d) % m = r
  <2> DEFINE a == q * 10 + p
  <2>1. a \in Nat /\ u * 10 + d = a * m + r
    BY <1>5, <1>6
  <2> HIDE DEF a
  <2>2. (a * m + r) % m = r
    BY <1>4, <2>1, RemainderIs, Zenon
  <2> QED  BY <2>1, <2>2
<1> QED  BY <1>7 DEF r, x, s

\* The weight of a digit and of the digits before it.
LEMMA NextWeight ==
  ASSUME NEW a \in Nat, NEW w \in Nat, NEW d \in Nat
  PROVE  a * (w * 10) + d * w = (a * 10 + d) * w
OBVIOUS

\* How many digits s begins with.
Leading(s) ==
  LET stops == {i \in DOMAIN s : s[i] \notin DOMAIN Digits}
  IN IF stops = {} THEN Len(s) ELSE Min(stops) - 1

IsLeading(s, k) ==
  /\ \A i \in 1 .. k : s[i] \in DOMAIN Digits
  /\ k < Len(s) => s[k + 1] \notin DOMAIN Digits

\* The two descriptions of where the digits end agree.
LEMMA LeadingIs ==
  ASSUME NEW S, NEW s \in Seq(S)
  PROVE  /\ Leading(s) \in 0 .. Len(s)
         /\ \A i \in 1 .. Leading(s) : s[i] \in DOMAIN Digits
         /\ Leading(s) = CHOOSE k \in 0 .. Len(s) : IsLeading(s, k)
<1> DEFINE stops == {i \in DOMAIN s : s[i] \notin DOMAIN Digits}
           k == Leading(s)
<1>1. Len(s) \in Nat /\ DOMAIN s = 1 .. Len(s)
  OBVIOUS
<1>2. k \in 0 .. Len(s) /\ IsLeading(s, k)
  <2>1. CASE stops = {}
    BY <1>1, <2>1 DEF Leading, IsLeading
  <2>2. CASE stops # {}
    <3>1. stops \in SUBSET Nat
      BY <1>1
    <3>2. Min(stops) \in stops /\ \A y \in stops : Min(stops) <= y
      <4> HIDE DEF stops
      <4> QED  BY <2>2, <3>1, Least
    <3> DEFINE j == Min(stops)
    <3>3. k = j - 1
      BY <2>2 DEF Leading
    <3>4. j \in 1 .. Len(s) /\ s[j] \notin DOMAIN Digits
      BY <1>1, <3>2
    <3>5. \A i \in 1 .. j - 1 : s[i] \in DOMAIN Digits
      <4> TAKE i \in 1 .. j - 1
      <4>1. i \in 1 .. Len(s) /\ i < j
        BY <1>1, <3>4
      <4> QED  BY <1>1, <3>2, <3>4, <4>1
    <3> HIDE DEF j, k
    <3>6. k \in 0 .. Len(s) /\ k + 1 = j /\ 1 .. k = 1 .. j - 1
      BY <1>1, <3>3, <3>4
    <3> QED  BY <3>4, <3>5, <3>6 DEF IsLeading
  <2> QED  BY <2>1, <2>2
<1> HIDE DEF k
<1>3. ASSUME NEW l \in 0 .. Len(s), IsLeading(s, l)
      PROVE  l = k
  <2>1. ~(l < k)
    <3> SUFFICES ASSUME l < k PROVE FALSE
      OBVIOUS
    <3>1. l + 1 \in 1 .. k /\ l < Len(s)
      BY <1>1, <1>2
    <3> QED  BY <1>2, <1>3, <3>1 DEF IsLeading
  <2>2. ~(k < l)
    <3> SUFFICES ASSUME k < l PROVE FALSE
      OBVIOUS
    <3>1. k + 1 \in 1 .. l /\ k < Len(s)
      BY <1>1, <1>2
    <3> QED  BY <1>2, <1>3, <3>1 DEF IsLeading
  <2> QED  BY <1>1, <1>2, <2>1, <2>2
<1>4. k = CHOOSE l \in 0 .. Len(s) : IsLeading(s, l)
  BY <1>2, <1>3, Zenon
<1>5. \A i \in 1 .. k : s[i] \in DOMAIN Digits
  BY <1>2 DEF IsLeading
<1> QED  BY <1>2, <1>4, <1>5 DEF k

\* Powers of ten, the digits summed by weight, and the digits read one by one
\* with and without wrapping, are the loops their definitions say.
Power(w, top) == w[0] = 1 /\ \A i \in 1 .. top : w[i] = w[i - 1] * 10

Weighs(t, w, s, top) == t[0] = 0 /\ \A i \in 1 .. top : t[i] = t[i - 1] + Digits[s[i]] * w[top - i]

Reads(v, s, top) == v[0] = 0 /\ \A i \in 1 .. top : v[i] = (v[i - 1] * 10 + Digits[s[i]]) % INT_RANGE

\* Reading the digits one by one and summing them by weight give the same
\* number, as far as it goes.
LEMMA ReadsSum ==
  ASSUME NEW s, NEW top \in Nat, \A i \in 1 .. top : s[i] \in DOMAIN Digits,
         NEW v, NEW t, NEW w, Reads(v, s, top), Power(w, top), Weighs(t, w, s, top)
  PROVE  v[top] = t[top] % INT_RANGE
<1>1. INT_RANGE \in Nat \ {0} /\ \A i \in 1 .. top : Digits[s[i]] \in Nat
  BY ShellAssumption
<1> DEFINE G == [i \in 1 .. top |-> [x \in Nat |-> x * 10 + Digits[s[i]]]]
<1>2. StaysIn(G, top, Nat)
  BY <1>1 DEF StaysIn
<1>3. PICK u \in [0 .. top -> Nat] : Iterates(u, top, 0, G)
  <2> HIDE DEF G
  <2> QED  BY <1>2, Loop, Zenon
<1>4. /\ u[0] = 0
      /\ \A i \in 1 .. top : u[i - 1] \in Nat /\ u[i] = u[i - 1] * 10 + Digits[s[i]]
  <2>1. ASSUME NEW i \in 1 .. top
        PROVE  u[i - 1] \in Nat /\ u[i] = u[i - 1] * 10 + Digits[s[i]]
    <3>1. i - 1 \in 0 .. top
      OBVIOUS
    <3>2. u[i - 1] \in Nat
      BY <1>3, <3>1
    <3>3. u[i] = G[i][u[i - 1]]
      BY <1>3 DEF Iterates
    <3> QED  BY <3>2, <3>3
  <2>2. u[0] = 0
    BY <1>3 DEF Iterates
  <2> QED  BY <2>1, <2>2
<1> HIDE DEF G
<1> DEFINE W == {i \in 0 .. top : w[i] \in Nat}
<1>5. \A i \in 0 .. top : i \in W
  <2>1. 0 \in W
    BY DEF Power
  <2>2. ASSUME NEW i \in 0 .. top - 1, i \in W
        PROVE  i + 1 \in W
    <3>1. i + 1 \in 1 .. top /\ (i + 1) - 1 = i
      OBVIOUS
    <3>2. w[i + 1] = w[i] * 10
      BY <3>1 DEF Power
    <3>3. w[i] \in Nat /\ i + 1 \in 0 .. top
      BY <2>2
    <3>4. w[i] * 10 \in Nat
      BY <3>3
    <3> QED  BY <3>2, <3>3, <3>4
  <2> HIDE DEF W
  <2> QED  BY <2>1, <2>2, Induction, Zenon
<1> DEFINE P == {i \in 0 .. top : v[i] = u[i] % INT_RANGE /\ t[i] = u[i] * w[top - i]}
<1>6. 0 \in P
  <2>1. top - 0 \in 0 .. top /\ w[top - 0] \in Nat
    BY <1>5
  <2>2. 0 % INT_RANGE = 0
    BY <1>1
  <2> QED  BY <1>4, <2>1, <2>2 DEF Reads, Weighs
<1>7. ASSUME NEW i \in 0 .. top - 1, i \in P
      PROVE  i + 1 \in P
  <2> DEFINE d == Digits[s[i + 1]]
             k == top - (i + 1)
  <2>1. i + 1 \in 1 .. top /\ (i + 1) - 1 = i /\ k \in 0 .. top /\ k + 1 \in 1 .. top /\ (k + 1) - 1 = k /\ top - i = k + 1
    OBVIOUS
  <2> HIDE DEF k
  <2>2. d \in Nat /\ u[i] \in Nat /\ w[k] \in Nat /\ w[k + 1] = w[k] * 10 /\ u[i + 1] = u[i] * 10 + d
    <3>1. d \in Nat /\ u[i] \in Nat /\ u[i + 1] = u[i] * 10 + d
      BY <1>1, <1>4, <2>1, Zenon
    <3>2. w[k] \in Nat
      BY <1>5, <2>1
    <3>3. w[k + 1] = w[k] * 10
      BY <2>1 DEF Power
    <3> QED  BY <3>1, <3>2, <3>3
  <2>3. v[i + 1] = (v[i] * 10 + d) % INT_RANGE /\ v[i] = u[i] % INT_RANGE
    BY <1>7, <2>1 DEF Reads
  <2>4. t[i + 1] = t[i] + d * w[k] /\ t[i] = u[i] * w[k + 1]
    BY <1>7, <2>1 DEF Weighs, k
  <2> HIDE DEF d
  <2>5. v[i + 1] = u[i + 1] % INT_RANGE
    <3>1. ((u[i] % INT_RANGE) * 10 + d) % INT_RANGE = (u[i] * 10 + d) % INT_RANGE
      BY <1>1, <2>2, DigitWraps, Zenon
    <3> QED  BY <2>2, <2>3, <3>1
  <2>6. u[i] * (w[k] * 10) + d * w[k] = (u[i] * 10 + d) * w[k]
    BY <2>2, NextWeight, ZenonT(40)
  <2>7. t[i + 1] = u[i + 1] * w[k]
    BY <2>2, <2>4, <2>6
  <2> QED  BY <2>1, <2>5, <2>7 DEF k
<1>8. top \in P
  <2> HIDE DEF P
  <2>1. \A i \in 0 .. top : i \in P
    BY <1>6, <1>7, Induction, Zenon
  <2> QED  BY <2>1
<1>9. top - top = 0 /\ w[0] = 1 /\ u[top] \in Nat
  BY <1>3 DEF Power
<1>10. v[top] = u[top] % INT_RANGE /\ t[top] = u[top] * w[top - top]
  BY <1>8
<1>11. t[top] = u[top]
  BY <1>9, <1>10
<1> QED  BY <1>10, <1>11

\* ulib_atoi returns the number its digits denote, modulo the values of an int.
THEOREM AtoiExact ==
  ASSUME NEW S, NEW s \in Seq(S)
  PROVE  ulib_atoi(s) = LeadingNumber(s) % INT_RANGE
<1> DEFINE Times(i, x) == x * 10
           Read(i, x) == (x * 10 + Digits[s[i]]) % INT_RANGE
           V(l) == CHOOSE g : g = [i \in 0 .. l |-> IF i = 0 THEN 0 ELSE Read(i, g[i - 1])]
           W(l) == CHOOSE g : g = [i \in 0 .. l |-> IF i = 0 THEN 1 ELSE Times(i, g[i - 1])]
           Weigh(l, i, x) == x + Digits[s[i]] * W(l)[l - i]
           T(l) == CHOOSE g : g = [i \in 0 .. l |-> IF i = 0 THEN 0 ELSE Weigh(l, i, g[i - 1])]
           first == CHOOSE l \in 0 .. Len(s) : IsLeading(s, l)
           k == Leading(s)
<1>1. ulib_atoi(s) = V(k)[k]
  BY Zenon DEF ulib_atoi, Leading
<1>2. LeadingNumber(s) = T(first)[first]
  BY Zenon DEF LeadingNumber, IsLeading
<1>3. k = first /\ k \in Nat /\ \A i \in 1 .. k : s[i] \in DOMAIN Digits
  <2>1. Len(s) \in Nat
    OBVIOUS
  <2> QED  BY <2>1, LeadingIs
<1> HIDE DEF k, first
<1> DEFINE v == V(k)
           w == W(k)
           t == T(k)
<1>4. ulib_atoi(s) = v[k] /\ LeadingNumber(s) = t[k]
  BY <1>1, <1>2, <1>3
<1>5. INT_RANGE \in Nat \ {0} /\ \A i \in 1 .. k : Digits[s[i]] \in Nat
  BY <1>3, ShellAssumption, SMTT(30)
<1>6. ASSUME NEW i \in 1 .. k, NEW x \in Nat
      PROVE  Read(i, x) \in Nat /\ Times(i, x) \in Nat
  BY <1>5, SMTT(30)
<1>7. Reads(v, s, k)
  <2> DEFINE G == [i \in 1 .. k |-> [x \in Nat |-> Read(i, x)]]
  <2>1. StaysIn(G, k, Nat)
    BY <1>6 DEF StaysIn
  <2>2. PICK f \in [0 .. k -> Nat] : Iterates(f, k, 0, G)
    <3> HIDE DEF G
    <3> QED  BY <1>3, <2>1, Loop, Zenon
  <2>3. ASSUME NEW i \in 0 .. k
        PROVE  f[i] = IF i = 0 THEN 0 ELSE Read(i, f[i - 1])
    <3>1. i # 0 => i \in 1 .. k /\ f[i - 1] \in Nat
      <4>1. i # 0 => i \in 1 .. k /\ i - 1 \in 0 .. k
        BY <1>3
      <4>2. f \in [0 .. k -> Nat]
        OBVIOUS
      <4> QED  BY <4>1, <4>2
    <3> QED  BY <2>2, <3>1, Zenon DEF Iterates
  <2>4. f = [i \in 0 .. k |-> IF i = 0 THEN 0 ELSE Read(i, f[i - 1])]
    <3> HIDE DEF Read
    <3> QED  BY <2>2, <2>3
  <2>5. v = [i \in 0 .. k |-> IF i = 0 THEN 0 ELSE Read(i, v[i - 1])]
    <3> HIDE DEF Read
    <3> QED  BY <2>4, Zenon
  <2> HIDE DEF v
  <2> QED  BY <1>3, <2>5 DEF Reads
<1>8. w \in [0 .. k -> Nat] /\ Power(w, k)
  <2> DEFINE G == [i \in 1 .. k |-> [x \in Nat |-> Times(i, x)]]
  <2>1. StaysIn(G, k, Nat)
    BY <1>6 DEF StaysIn
  <2>2. PICK f \in [0 .. k -> Nat] : Iterates(f, k, 1, G)
    <3> HIDE DEF G
    <3> QED  BY <1>3, <2>1, Loop, Zenon
  <2>3. ASSUME NEW i \in 0 .. k
        PROVE  f[i] = IF i = 0 THEN 1 ELSE Times(i, f[i - 1])
    <3>1. i # 0 => i \in 1 .. k /\ f[i - 1] \in Nat
      <4>1. i # 0 => i \in 1 .. k /\ i - 1 \in 0 .. k
        BY <1>3
      <4>2. f \in [0 .. k -> Nat]
        OBVIOUS
      <4> QED  BY <4>1, <4>2
    <3> QED  BY <2>2, <3>1, Zenon DEF Iterates
  <2>4. f = [i \in 0 .. k |-> IF i = 0 THEN 1 ELSE Times(i, f[i - 1])]
    <3> HIDE DEF Times
    <3> QED  BY <2>2, <2>3
  <2>5. w = [i \in 0 .. k |-> IF i = 0 THEN 1 ELSE Times(i, w[i - 1])]
    <3> HIDE DEF Times
    <3> QED  BY <2>4, Zenon
  <2> HIDE DEF w
  <2>6. Power(w, k)
    BY <1>3, <2>5 DEF Power
  <2>7. \A i \in 0 .. k : w[i] \in Nat
    <3> DEFINE P == {i \in 0 .. k : w[i] \in Nat}
    <3>1. 0 \in P
      BY <1>3, <2>6 DEF Power
    <3>2. ASSUME NEW i \in 0 .. k - 1, i \in P
          PROVE  i + 1 \in P
      <4>1. i + 1 \in 1 .. k /\ (i + 1) - 1 = i
        BY <1>3
      <4>2. w[i + 1] = w[i] * 10
        BY <2>6, <4>1 DEF Power
      <4> QED  BY <1>3, <3>2, <4>1, <4>2
    <3> HIDE DEF P
    <3>3. \A i \in 0 .. k : i \in P
      BY <1>3, <3>1, <3>2, Induction, Zenon
    <3> QED  BY <3>3 DEF P
  <2> QED  BY <2>5, <2>6, <2>7
<1>9. Weighs(t, w, s, k)
  <2> DEFINE Add(i, x) == Weigh(k, i, x)
  <2>1. \A i, x : Add(i, x) = x + Digits[s[i]] * w[k - i]
    OBVIOUS
  <2>2. t = CHOOSE g : g = [i \in 0 .. k |-> IF i = 0 THEN 0 ELSE Add(i, g[i - 1])]
    BY Zenon
  <2> HIDE DEF w, t, Add
  <2> DEFINE G == [i \in 1 .. k |-> [x \in Nat |-> Add(i, x)]]
  <2>3. StaysIn(G, k, Nat)
    <3>1. ASSUME NEW i \in 1 .. k, NEW x \in Nat
          PROVE  Add(i, x) \in Nat
      <4>1. k - i \in 0 .. k
        BY <1>3
      <4>2. w[k - i] \in Nat /\ Digits[s[i]] \in Nat
        BY <1>5, <1>8, <4>1
      <4> QED  BY <2>1, <4>2, SMTT(30)
    <3> QED  BY <3>1 DEF StaysIn
  <2>4. PICK f \in [0 .. k -> Nat] : Iterates(f, k, 0, G)
    <3> HIDE DEF G
    <3> QED  BY <1>3, <2>3, Loop, Zenon
  <2>5. ASSUME NEW i \in 0 .. k
        PROVE  f[i] = IF i = 0 THEN 0 ELSE Add(i, f[i - 1])
    <3>1. i # 0 => i \in 1 .. k /\ f[i - 1] \in Nat
      BY <1>3, <2>4
    <3> QED  BY <2>4, <3>1, Zenon DEF Iterates
  <2>6. f = [i \in 0 .. k |-> IF i = 0 THEN 0 ELSE Add(i, f[i - 1])]
    BY <2>4, <2>5
  <2>7. t = [i \in 0 .. k |-> IF i = 0 THEN 0 ELSE Add(i, t[i - 1])]
    BY <2>2, <2>6, Zenon
  <2> QED  BY <1>3, <2>1, <2>7, SMTT(30) DEF Weighs
<1> HIDE DEF v, w, t
<1>10. v[k] = t[k] % INT_RANGE
  BY <1>3, <1>7, <1>8, <1>9, ReadsSum
<1> QED  BY <1>4, <1>10

-----------------------------------------------------------------------------
(* Deaths.                                                                 *)

\* A step that ends a process is one the command c asks for.
Ordered(c, s) ==
  /\ s.kind = "kill" => /\ c.cmd = "kill" /\ c.arg # << >>
                        /\ c.arg \in Seq(Visible \cup {NUL, JUNK})
                        /\ s.pid = ulib_atoi(c.arg)
  /\ s.kind = "crash" => c.cmd = "crash"

\* The reader is going to end a process only for the command it runs.
DeathInv == \A i \in 1 .. Len(todo["reader"]) : Ordered(ran, todo["reader"][i])

\* A message ends nothing.
LEMMA MessageOrdered ==
  ASSUME NEW c, NEW s, s.kind = "message"
  PROVE  Ordered(c, s)
BY DEF Ordered

\* What a command does is what it asks for.
LEMMA ScriptOrdered ==
  ASSUME NEW a \in Arrays
  PROVE  \A i \in 1 .. Len(Script(dispatch(a))) : Ordered(dispatch(a), Script(dispatch(a))[i])
<1> DEFINE c == dispatch(a)
           All(q) == \A i \in 1 .. Len(q) : Ordered(c, q[i])
<1>1. c.arg \in Seq(Visible \cup {NUL, JUNK})
  BY ArgType
<1> HIDE DEF c
<1>2. \A b : Ordered(c, Puts(b))
  <2> TAKE b
  <2>1. Puts(b).kind = "message"
    BY DEF Puts
  <2> QED  BY <2>1, MessageOrdered
<1>3. /\ All(<< >>)
      /\ \A b : All(<<Puts(b)>>)
      /\ \A b, d : All(<<Puts(b), Puts(d)>>)
  BY <1>2
<1>4. c.cmd = "kill" => All(cmd_kill(c.arg))
  <2> SUFFICES ASSUME c.cmd = "kill"
               PROVE  All(cmd_kill(c.arg))
    OBVIOUS
  <2> DEFINE k == [kind |-> "kill", pid |-> ulib_atoi(c.arg)]
  <2>1. CASE c.arg = << >>
    BY <1>3, <2>1 DEF cmd_kill
  <2>2. CASE c.arg # << >>
    <3>1. Ordered(c, k)
      BY <1>1, <2>2 DEF Ordered
    <3>2. cmd_kill(c.arg) = <<k>>
      BY <2>2 DEF cmd_kill
    <3> HIDE DEF k
    <3> QED  BY <3>1, <3>2
  <2> QED  BY <2>1, <2>2
<1>5. \A b : c.cmd = "crash" => All(<<Puts(b), [kind |-> "crash"]>>)
  <2> TAKE b
  <2> DEFINE k == [kind |-> "crash"]
  <2>1. c.cmd = "crash" => Ordered(c, k)
    BY DEF Ordered
  <2> HIDE DEF k
  <2>2. c.cmd = "crash" => All(<<Puts(b), k>>)
    BY <1>2, <2>1
  <2> QED  BY <2>2 DEF k
<1> HIDE DEF All
<1>6. All(Script(c))
  BY <1>3, <1>4, <1>5 DEF Script
<1> QED  BY <1>6 DEF All, c

\* Nothing that ends a process is planned at the start.
LEMMA DeathInit == Init => DeathInv
<1> SUFFICES ASSUME Init  PROVE DeathInv
  OBVIOUS
<1>1. todo["reader"] = <<Puts(<<"\n", "?", "\n">>), prompt>>
  BY DEF Init, Threads
<1>2. Puts(<<"\n", "?", "\n">>).kind = "message" /\ prompt.kind = "message"
  BY DEF prompt, Puts
<1>3. Ordered(ran, Puts(<<"\n", "?", "\n">>)) /\ Ordered(ran, prompt)
  BY <1>2, MessageOrdered
<1> QED  BY <1>1, <1>3 DEF DeathInv

\* Every step keeps the invariant.
LEMMA DeathStep == MInv /\ DeathInv /\ [Next]_shellVars => DeathInv'
<1> SUFFICES ASSUME MInv, DeathInv, [Next]_shellVars  PROVE DeathInv'
  OBVIOUS
<1> DEFINE plan == todo["reader"]
<1>0. /\ line \in Arrays /\ n \in Indices
      /\ "reader" \in Threads /\ todo \in [Threads -> Seq(Steps)] /\ plan \in Seq(Steps)
  BY DEF MInv, Threads
<1>1. ASSUME ran' = ran, plan' = plan
      PROVE  DeathInv'
  BY <1>1 DEF DeathInv
<1>2. ASSUME NEW b, plan' = <<Puts(b)>>
      PROVE  DeathInv'
  <2>1. Puts(b).kind = "message"
    BY DEF Puts
  <2>2. Ordered(ran', Puts(b))
    BY <2>1, MessageOrdered
  <2> HIDE DEF plan
  <2>3. plan'[1] = Puts(b) /\ Len(plan') = 1
    BY <1>2
  <2>4. \A i \in 1 .. Len(plan') : Ordered(ran', plan'[i])
    BY <2>2, <2>3
  <2> QED  BY <2>4 DEF DeathInv, plan
<1>3. ASSUME plan # << >>
      PROVE  /\ Tail(plan) \in Seq(Steps)
             /\ \A i \in 1 .. Len(Tail(plan)) : Ordered(ran, Tail(plan)[i])
  <2>1. \A i \in 1 .. Len(plan) : Ordered(ran, plan[i])
    BY DEF DeathInv
  <2> HIDE DEF plan
  <2>2. /\ Tail(plan) \in Seq(Steps) /\ Len(Tail(plan)) = Len(plan) - 1 /\ Len(plan) \in Nat
        /\ \A i \in 1 .. Len(plan) - 1 : Tail(plan)[i] = plan[i + 1]
    BY <1>0, <1>3, TailEnd
  <2>3. ASSUME NEW i \in 1 .. Len(plan) - 1
        PROVE  Ordered(ran, Tail(plan)[i])
    <3>1. i + 1 \in 1 .. Len(plan)
      BY <2>2
    <3> QED  BY <2>1, <2>2, <3>1
  <2> QED  BY <2>2, <2>3
<1>4. CASE PressEnter
  <2> DEFINE answer == Script(ran')
             m == Puts(<<"\r", "\n">>)
  <2>1. line' \in Arrays /\ plan' = <<m>> \o answer \o <<prompt>> /\ ran' = dispatch(line')
    BY <1>0, <1>4 DEF PressEnter, ReaderPuts, Arrays
  <2>2. answer \in Seq(Steps) /\ m \in Steps /\ prompt \in Steps
    <3>1. m \in Fresh /\ prompt \in Fresh
      BY PutsFresh, Zenon DEF Texts, prompt
    <3> QED  BY <2>1, <3>1, ScriptFresh, FreshSequence, Zenon DEF Fresh
  <2>3. \A i \in 1 .. Len(answer) : Ordered(ran', answer[i])
    BY <2>1, ScriptOrdered
  <2>4. Ordered(ran', m) /\ Ordered(ran', prompt)
    <3>1. m.kind = "message" /\ prompt.kind = "message"
      BY DEF prompt, Puts
    <3> HIDE DEF m
    <3> QED  BY <3>1, MessageOrdered
  <2> HIDE DEF plan, answer, m
  <2>5. \A i \in 1 .. Len(plan') : Ordered(ran', plan'[i])
    <3> TAKE i \in 1 .. Len(plan')
    <3>1. /\ Len(answer) \in Nat /\ Len(plan') = Len(answer) + 2
          /\ plan'[i] = IF i = 1 THEN m ELSE IF i = Len(answer) + 2 THEN prompt ELSE answer[i - 1]
      BY <2>1, <2>2
    <3>2. i # 1 /\ i # Len(answer) + 2 => i - 1 \in 1 .. Len(answer)
      BY <3>1
    <3> QED  BY <2>3, <2>4, <3>1, <3>2
  <2> QED  BY <2>5 DEF DeathInv, plan
<1>5. CASE PressErase
  <2>1. CASE n > 0
    <3>1. plan' = <<Puts(<<"bs", " ", "bs">>)>>
      BY <1>0, <1>5, <2>1, Zenon DEF PressErase, ReaderPuts
    <3> HIDE DEF plan
    <3> QED  BY <1>2, <3>1, Zenon
  <2>2. CASE ~(n > 0)
    BY <1>1, <1>5, <2>2 DEF PressErase
  <2> QED  BY <2>1, <2>2
<1>6. ASSUME NEW c \in Visible, PressVisible(c)  PROVE DeathInv'
  <2>1. CASE n + 1 < LINE_MAX
    <3>1. plan' = <<Puts(<<c>>)>>
      BY <1>0, <1>6, <2>1 DEF PressVisible, ReaderPuts
    <3> HIDE DEF plan
    <3> QED  BY <1>2, <3>1
  <2>2. CASE ~(n + 1 < LINE_MAX)
    BY <1>1, <1>6, <2>2 DEF PressVisible
  <2> QED  BY <2>1, <2>2
<1>7. ASSUME NEW t \in Threads, WriteStarts(t)  PROVE DeathInv'
  BY <1>1, <1>7 DEF WriteStarts
<1>8. ASSUME NEW t \in Threads, WriteByte(t)  PROVE DeathInv'
  <2>1. CASE t = "reader"
    <3>1. /\ ran' = ran /\ Len(plan') = Len(plan) /\ plan'[1].kind = "message"
          /\ \A i \in 2 .. Len(plan) : plan'[i] = plan[i]
      BY <1>8, <2>1, ByteSent
    <3>2. Ordered(ran', plan'[1])
      BY <3>1, MessageOrdered
    <3>3. \A i \in 1 .. Len(plan) : Ordered(ran, plan[i])
      BY DEF DeathInv
    <3>4. ASSUME NEW i \in 1 .. Len(plan')
          PROVE  Ordered(ran', plan'[i])
      <4> HIDE DEF plan
      <4>1. i = 1 \/ i \in 2 .. Len(plan)
        BY <1>0, <3>1
      <4>2. i \in 1 .. Len(plan)
        BY <3>1
      <4> QED  BY <3>1, <3>2, <3>3, <4>1, <4>2
    <3> QED  BY <3>4 DEF DeathInv
  <2>2. CASE t # "reader"
    <3>1. ran' = ran /\ plan' = plan
      BY <1>0, <1>8, <2>2, ByteSent
    <3> QED  BY <1>1, <3>1
  <2> QED  BY <2>1, <2>2
<1>9. ASSUME NEW t \in Threads, WriteReturns(t)  PROVE DeathInv'
  <2>1. GoesOn(t, Tail(todo[t])) /\ todo[t] # << >>
    BY <1>9, Returned
  <2>2. CASE t = "reader"
    <3>1. plan' = Tail(plan) /\ plan # << >> /\ (ran' = ran \/ plan' = << >>)
      BY <1>0, <2>1, <2>2 DEF GoesOn
    <3>2. \A i \in 1 .. Len(plan') : Ordered(ran', plan'[i])
      <4> HIDE DEF plan
      <4>1. CASE plan' = << >>
        BY <4>1
      <4>2. CASE ran' = ran
        BY <1>3, <3>1, <4>2
      <4> QED  BY <3>1, <4>1, <4>2
    <3> QED  BY <3>2 DEF DeathInv
  <2>3. CASE t # "reader"
    BY <1>0, <1>1, <2>1, <2>3 DEF GoesOn
  <2> QED  BY <2>2, <2>3
<1>10. ASSUME NEW pid, Retire(pid), plan # << >>
       PROVE  DeathInv'
  <2>1. plan' = << >> \/ (plan' = Tail(plan) /\ ran' = ran)
    BY <1>0, <1>10 DEF Retire
  <2>2. \A i \in 1 .. Len(plan') : Ordered(ran', plan'[i])
    <3> HIDE DEF plan
    <3> QED  BY <1>3, <1>10, <2>1
  <2> QED  BY <2>2 DEF DeathInv
<1>11. CASE Kill \/ Crash
  <2>1. plan # << >>
    BY <1>0, <1>11 DEF Kill, Crash, Starting
  <2>2. CASE \E pid : Retire(pid)
    BY <1>10, <2>1, <2>2
  <2>3. CASE ReaderPuts(Tail(plan)) /\ ran' = ran
    <3>1. plan' = Tail(plan)
      BY <1>0, <2>3 DEF ReaderPuts
    <3>2. \A i \in 1 .. Len(plan') : Ordered(ran', plan'[i])
      <4> HIDE DEF plan
      <4> QED  BY <1>3, <2>1, <2>3, <3>1
    <3> QED  BY <3>2 DEF DeathInv
  <2>4. CASE ReaderPuts(<<Puts(<<"?", "\n">>)>> \o Tail(plan)) /\ ran' = ran
    <3> DEFINE m == Puts(<<"?", "\n">>)
    <3>1. m \in Steps /\ m.kind = "message"
      BY PutsFresh, Zenon DEF Texts, Fresh, Puts
    <3>2. plan' = <<m>> \o Tail(plan)
      BY <1>0, <2>4 DEF ReaderPuts
    <3> HIDE DEF m
    <3>3. Ordered(ran', m)
      BY <3>1, MessageOrdered
    <3>4. \A i \in 1 .. Len(plan') : Ordered(ran', plan'[i])
      <4> HIDE DEF plan
      <4> DEFINE r == Tail(plan)
      <4>1. r \in Seq(Steps) /\ \A i \in 1 .. Len(r) : Ordered(ran', r[i])
        BY <1>3, <2>1, <2>4
      <4> HIDE DEF r
      <4> TAKE i \in 1 .. Len(plan')
      <4>2. plan' = <<m>> \o r
        BY <3>2 DEF r
      <4>3. plan'[i] = (IF i = 1 THEN m ELSE r[i - 1]) /\ (i # 1 => i - 1 \in 1 .. Len(r))
        BY <3>1, <4>1, <4>2
      <4> QED  BY <3>3, <4>1, <4>3
    <3> QED  BY <3>4 DEF DeathInv
  <2> QED  BY <1>11, <2>2, <2>3, <2>4 DEF Kill, Crash
<1>12. CASE HeartbeatDue \/ LineDue
  BY <1>0, <1>1, <1>12 DEF HeartbeatDue, LineDue
<1>13. CASE UNCHANGED shellVars
  BY <1>1, <1>13 DEF shellVars
<1> QED
  BY <1>4, <1>5, <1>6, <1>7, <1>8, <1>9, <1>11, <1>12, <1>13 DEF Next, Act, Over

\* Only sys_kill and the fault end threads, and then all of one process.
LEMMA OnlyRetired ==
  ASSUME MInv, [Next]_shellVars, alive' # alive
  PROVE  \/ Crash /\ Retire(SHELL_PID)
         \/ Kill /\ Retire(todo["reader"][1].pid)
<1>1. Kill \/ Crash
  BY Zenon DEF Next, Act, Over, PressEnter, PressErase, PressVisible, WriteStarts, WriteByte, WriteReturns,
         HeartbeatDue, LineDue, shellVars
<1>2. CASE Crash
  BY <1>2 DEF Crash
<1>3. CASE Kill
  <2>1. todo["reader"] # << >> /\ todo["reader"] \in Seq(Steps)
    BY <1>3 DEF Kill, Starting, MInv, Threads
  <2>2. Head(todo["reader"]) = todo["reader"][1]
    BY <2>1
  <2>3. Retire(Head(todo["reader"]).pid)
    BY <1>3 DEF Kill
  <2> QED  BY <1>3, <2>2, <2>3
<1> QED  BY <1>1, <1>2, <1>3

\* A process ends whole, and only when the line typed says so: for any digits,
\* any length of the number and any width of an int, the process that kill ends
\* is the one whose number was typed, modulo that width.
THEOREM DeathsCorrect == Spec => DeathsAreOrdered
<1> DEFINE Dies(pid) ==
      /\ alive \ alive' = {t \in alive : PidOf[t] = pid}
      /\ \/ ran.cmd = "crash" /\ pid = SHELL_PID
         \/ ran.cmd = "kill" /\ ran.arg # << >> /\ pid = LeadingNumber(ran.arg) % INT_RANGE
<1>1. ASSUME MInv, DeathInv, [Next]_shellVars, alive' # alive
      PROVE  \E pid \in {SHELL_PID, OTHER_PID} : Dies(pid)
  <2> DEFINE plan == todo["reader"]
  <2>1. /\ alive \subseteq Threads /\ plan \in Seq(Steps)
    BY <1>1 DEF MInv, Threads
  <2>2. ASSUME NEW pid, Retire(pid)
        PROVE  /\ alive \ alive' = {t \in alive : PidOf[t] = pid}
               /\ pid \in {SHELL_PID, OTHER_PID}
    <3>1. alive' = alive \ {t \in alive : PidOf[t] = pid}
      BY <2>2 DEF Retire
    <3>2. alive \ alive' = {t \in alive : PidOf[t] = pid}
      BY <3>1
    <3>3. PICK t \in alive : PidOf[t] = pid
      BY <1>1, <3>1
    <3>4. PidOf[t] \in {SHELL_PID, OTHER_PID}
      BY <2>1 DEF PidOf
    <3> QED  BY <3>2, <3>3, <3>4
  <2>3. CASE Crash /\ Retire(SHELL_PID)
    <3>1. plan # << >> /\ plan[1].kind = "crash"
      BY <2>1, <2>3 DEF Crash, Starting
    <3>2. Ordered(ran, plan[1])
      <4>1. 1 \in 1 .. Len(plan)
        BY <2>1, <3>1
      <4> QED  BY <1>1, <4>1 DEF DeathInv
    <3>3. ran.cmd = "crash"
      BY <3>1, <3>2 DEF Ordered
    <3> QED  BY <2>2, <2>3, <3>3
  <2>4. CASE Kill /\ Retire(plan[1].pid)
    <3>1. plan # << >> /\ plan[1].kind = "kill"
      BY <2>1, <2>4 DEF Kill, Starting
    <3>2. Ordered(ran, plan[1])
      <4>1. 1 \in 1 .. Len(plan)
        BY <2>1, <3>1
      <4> QED  BY <1>1, <4>1 DEF DeathInv
    <3>3. /\ ran.cmd = "kill" /\ ran.arg # << >> /\ plan[1].pid = ulib_atoi(ran.arg)
          /\ ran.arg \in Seq(Visible \cup {NUL, JUNK})
      BY <3>1, <3>2 DEF Ordered
    <3>4. plan[1].pid = LeadingNumber(ran.arg) % INT_RANGE
      BY <3>3, AtoiExact
    <3> HIDE DEF plan
    <3> QED  BY <2>2, <2>4, <3>3, <3>4
  <2> QED  BY <1>1, <2>3, <2>4, OnlyRetired
<1>2. MInv /\ DeathInv /\ [Next]_shellVars
        => [alive' # alive => \E pid \in {SHELL_PID, OTHER_PID} : Dies(pid)]_shellVars
  BY <1>1
<1>3. Init => MInv /\ DeathInv
  BY MInit, DeathInit
<1>4. MInv /\ DeathInv /\ [Next]_shellVars => (MInv /\ DeathInv)'
  BY MStep, DeathStep
<1> QED  BY <1>2, <1>3, <1>4, PTL DEF Spec, DeathsAreOrdered

=============================================================================
