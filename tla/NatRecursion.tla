---------------------------- MODULE NatRecursion ----------------------------
(***************************************************************************)
(* Induction and recursion over the natural numbers, for the provers, and  *)
(* what they show of selections from a sequence.                           *)
(* The library states both with an operator as a parameter, which the      *)
(* backends cannot instantiate; here the predicate is a set and the step   *)
(* of a recursion is a function.  The argument is that finite sets are     *)
(* well founded under strict inclusion, applied to the sets 0 .. n-1.      *)
(***************************************************************************)
EXTENDS Selection, Integers, FiniteSetTheorems, SequenceTheorems, WellFoundedInduction, TLAPS

\* A set of natural numbers that is not empty has a least element.
LEMMA Least ==
  ASSUME NEW T \in SUBSET Nat, T # {}
  PROVE  \E n \in T : \A m \in T : n <= m
<1> DEFINE Below(n) == 0 .. n - 1
<1> DEFINE Belows == {Below(n) : n \in T}
<1>1. Belows \subseteq FiniteSubsetsOf(Nat)
  <2>1. ASSUME NEW n \in T PROVE Below(n) \in SUBSET Nat /\ IsFiniteSet(Below(n))
    <3>1. IsFiniteSet(0 .. n - 1)  BY FS_Interval
    <3>2. QED BY <3>1
  <2>2. QED BY <2>1 DEF FiniteSubsetsOf
<1>2. Belows # {}  OBVIOUS
<1>3. PICK x \in Belows : \A y \in Belows : ~ (<<y, x>> \in StrictSubsetOrdering(Nat))
  <2> HIDE DEF Belows
  <2>1. QED BY <1>1, <1>2, WFMin, FS_StrictSubsetOrderingWellFounded, Zenon
<1>4. PICK n \in T : x = Below(n)  BY <1>3
<1>5. ASSUME NEW m \in T, m < n PROVE FALSE
  <2>1. Below(m) \subseteq Below(n) /\ Below(m) # Below(n)
    <3>1. m \in Below(n) /\ m \notin Below(m)  BY <1>5
    <3>2. QED BY <3>1, <1>5
  <2>2. Below(m) \in Belows  OBVIOUS
  <2>3. Below(m) \in SUBSET Nat /\ Below(n) \in SUBSET Nat  OBVIOUS
  <2> HIDE DEF Below
  <2>4. QED BY <2>1, <2>2, <2>3, <1>3, <1>4 DEF StrictSubsetOrdering
<1>6. QED BY <1>5

\* Induction: a set that has 0, and with each number the next, has them all.
LEMMA Induction ==
  ASSUME NEW S, 0 \in S, \A n \in Nat : n \in S => n + 1 \in S
  PROVE  \A n \in Nat : n \in S
<1> SUFFICES ASSUME NEW k \in Nat, k \notin S PROVE FALSE
  OBVIOUS
<1> DEFINE T == {n \in Nat : n \notin S}
<1>1. PICK n \in T : \A m \in T : n <= m
  <2>1. T \in SUBSET Nat /\ T # {}  OBVIOUS
  <2> HIDE DEF T
  <2>2. QED BY <2>1, Least
<1>2. n # 0 /\ n - 1 \in Nat /\ n - 1 \notin T  BY <1>1
<1>3. QED BY <1>2, <1>1

\* The first n values of the sequence that starts with a and goes on with h.
Prefix(f, n, X, a, h) ==
  /\ f \in [0 .. n -> X]
  /\ f[0] = a
  /\ \A i \in 0 .. n - 1 : f[i + 1] = h[<<i, f[i]>>]

LEMMA PrefixExists ==
  ASSUME NEW X, NEW a \in X, NEW h \in [Nat \X X -> X], NEW n \in Nat
  PROVE  \E f : Prefix(f, n, X, a, h)
<1> DEFINE G == {m \in Nat : \E f : Prefix(f, m, X, a, h)}
<1>1. 0 \in G
  <2>1. Prefix([i \in 0 .. 0 |-> a], 0, X, a, h)  BY DEF Prefix
  <2>2. QED BY <2>1
<1>2. ASSUME NEW m \in Nat, m \in G PROVE m + 1 \in G
  <2>1. PICK f : Prefix(f, m, X, a, h)  BY <1>2
  <2> DEFINE g == [i \in 0 .. m + 1 |-> IF i <= m THEN f[i] ELSE h[<<m, f[m]>>]]
  <2>2. f[m] \in X /\ h[<<m, f[m]>>] \in X  BY <2>1 DEF Prefix
  <2>3. g \in [0 .. m + 1 -> X]  BY <2>1, <2>2 DEF Prefix
  <2>4. g[0] = a  BY <2>1 DEF Prefix
  <2>5. ASSUME NEW i \in 0 .. (m + 1) - 1 PROVE g[i + 1] = h[<<i, g[i]>>]
    <3>1. CASE i = m  BY <3>1
    <3>2. CASE i # m
      <4>1. i \in 0 .. m - 1 /\ i + 1 <= m /\ i + 1 \in 0 .. m + 1 /\ i \in 0 .. m + 1  BY <3>2
      <4>2. g[i + 1] = f[i + 1] /\ g[i] = f[i]  BY <4>1
      <4>3. QED BY <4>1, <4>2, <2>1 DEF Prefix
    <3>3. QED BY <3>1, <3>2
  <2> HIDE DEF g
  <2>6. QED BY <2>3, <2>4, <2>5 DEF Prefix
<1> HIDE DEF G
<1>3. n \in G  BY <1>1, <1>2, Induction
<1>4. QED BY <1>3 DEF G

LEMMA PrefixesAgree ==
  ASSUME NEW X, NEW a, NEW h, NEW n \in Nat, NEW m \in Nat, n <= m,
         NEW f, NEW g, Prefix(f, n, X, a, h), Prefix(g, m, X, a, h)
  PROVE  \A i \in 0 .. n : f[i] = g[i]
<1> DEFINE S == {i \in Nat : i <= n => f[i] = g[i]}
<1>1. 0 \in S  BY DEF Prefix
<1>2. ASSUME NEW i \in Nat, i \in S PROVE i + 1 \in S
  <2> SUFFICES ASSUME i + 1 <= n PROVE f[i + 1] = g[i + 1]  OBVIOUS
  <2>1. f[i] = g[i] /\ i \in 0 .. n - 1 /\ i \in 0 .. m - 1  BY <1>2
  <2>2. QED BY <2>1 DEF Prefix
<1> HIDE DEF S
<1>3. \A i \in Nat : i \in S  BY <1>1, <1>2, Induction
<1>4. QED BY <1>3 DEF S

\* What a recursion is given and what it defines; closed definitions, so that
\* the theorem below can be cited.
StepFunctions(X) == [Nat \X X -> X]

Recursive(f, X, a, h) ==
  /\ f \in [Nat -> X]
  /\ f[0] = a
  /\ \A n \in Nat : f[n + 1] = h[<<n, f[n]>>]

\* Recursion: there is a function on the numbers that starts with a and goes on
\* with h.
THEOREM Recursion ==
  ASSUME NEW X, NEW a, a \in X, NEW h, h \in StepFunctions(X)
  PROVE  \E f : Recursive(f, X, a, h)
<1> h \in [Nat \X X -> X]  BY DEF StepFunctions
<1> DEFINE P(n) == CHOOSE f : Prefix(f, n, X, a, h)
<1> DEFINE F == [n \in Nat |-> P(n)[n]]
<1>1. ASSUME NEW n \in Nat PROVE Prefix(P(n), n, X, a, h)
  <2>1. \E f : Prefix(f, n, X, a, h)  BY PrefixExists
  <2>2. QED BY <2>1
<1> HIDE DEF P
<1>2. F \in [Nat -> X]
  <2>1. ASSUME NEW n \in Nat PROVE P(n)[n] \in X  BY <1>1 DEF Prefix
  <2>2. QED BY <2>1
<1>3. F[0] = a  BY <1>1 DEF Prefix
<1>4. ASSUME NEW n \in Nat PROVE F[n + 1] = h[<<n, F[n]>>]
  <2>1. Prefix(P(n), n, X, a, h) /\ Prefix(P(n + 1), n + 1, X, a, h)  BY <1>1
  <2>2. P(n)[n] = P(n + 1)[n]
    <3>1. n <= n + 1 /\ n + 1 \in Nat /\ n \in 0 .. n  OBVIOUS
    <3>2. \A i \in 0 .. n : P(n)[i] = P(n + 1)[i]  BY ONLY <3>1, <2>1, PrefixesAgree, n \in Nat
    <3>3. QED BY <3>1, <3>2
  <2>3. P(n + 1)[n + 1] = h[<<n, P(n + 1)[n]>>]
    <3>1. n \in 0 .. (n + 1) - 1  OBVIOUS
    <3>2. QED BY <3>1, <2>1 DEF Prefix
  <2>4. QED BY <2>2, <2>3
<1> HIDE DEF F
<1>5. Recursive(F, X, a, h)  BY <1>2, <1>3, <1>4 DEF Recursive
<1>6. QED BY <1>5

\* The same up to a number, in the form of a definition f[i \in 0 .. n] == ...
RecursiveUpTo(g, n, X, a, h) ==
  /\ g \in [0 .. n -> X]
  /\ g[0] = a
  /\ \A i \in 1 .. n : g[i] = h[<<i - 1, g[i - 1]>>]

LEMMA RecursionUpTo ==
  ASSUME NEW X, NEW a, a \in X, NEW h, h \in StepFunctions(X), NEW n, n \in Nat
  PROVE  \E g : RecursiveUpTo(g, n, X, a, h)
<1>1. PICK f : Recursive(f, X, a, h)  BY Recursion
<1>2. f \in [Nat -> X] /\ f[0] = a /\ \A m \in Nat : f[m + 1] = h[<<m, f[m]>>]
  BY <1>1 DEF Recursive
<1> DEFINE g == [i \in 0 .. n |-> f[i]]
<1>3. g \in [0 .. n -> X] /\ g[0] = a  BY <1>2
<1>4. ASSUME NEW i \in 1 .. n PROVE g[i] = h[<<i - 1, g[i - 1]>>]
  <2>1. i - 1 \in Nat /\ (i - 1) + 1 = i /\ i \in 0 .. n /\ i - 1 \in 0 .. n  OBVIOUS
  <2>2. f[(i - 1) + 1] = h[<<i - 1, f[i - 1]>>]  BY <1>2, <2>1
  <2>3. g[i] = f[i] /\ g[i - 1] = f[i - 1]  BY <2>1
  <2> HIDE DEF g
  <2>4. QED BY <2>1, <2>2, <2>3
<1> HIDE DEF g
<1>5. RecursiveUpTo(g, n, X, a, h)  BY <1>3, <1>4 DEF RecursiveUpTo
<1>6. QED BY <1>5

-----------------------------------------------------------------------------
(* Selections from a sequence. *)

\* The function that a selection is made of.
Selecting(s, W) ==
  CHOOSE F : F = [i \in 0 .. Len(s) |->
                    IF i = 0 THEN <<>>
                    ELSE IF s[i] \in W THEN Append(F[i - 1], s[i])
                    ELSE F[i - 1]]

\* It exists, and its values are sequences of what s is a sequence of.
LEMMA SelectingExists ==
  ASSUME NEW R, NEW s \in Seq(R), NEW W
  PROVE  /\ Selecting(s, W) \in [0 .. Len(s) -> Seq(R)]
         /\ Selecting(s, W)[0] = <<>>
         /\ \A i \in 1 .. Len(s) :
              Selecting(s, W)[i] =
                IF s[i] \in W THEN Append(Selecting(s, W)[i - 1], s[i])
                ELSE Selecting(s, W)[i - 1]
<1> DEFINE Body(F) == [i \in 0 .. Len(s) |->
                     IF i = 0 THEN <<>>
                     ELSE IF s[i] \in W THEN Append(F[i - 1], s[i])
                     ELSE F[i - 1]]
<1> DEFINE h == [p \in Nat \X Seq(R) |->
                   IF p[1] < Len(s) /\ s[p[1] + 1] \in W
                   THEN Append(p[2], s[p[1] + 1]) ELSE p[2]]
<1>1. h \in [Nat \X Seq(R) -> Seq(R)]
  <2>1. ASSUME NEW p \in Nat \X Seq(R)
        PROVE (IF p[1] < Len(s) /\ s[p[1] + 1] \in W
                   THEN Append(p[2], s[p[1] + 1]) ELSE p[2]) \in Seq(R)
    <3>1. CASE p[1] < Len(s)
      <4>1. p[1] + 1 \in 1 .. Len(s)  BY <3>1
      <4>2. s[p[1] + 1] \in R  BY <4>1
      <4>3. QED BY <4>2
    <3>2. QED BY <3>1
  <2>2. QED BY <2>1
<1> DEFINE X == Seq(R)
<1>2. PICK f \in [Nat -> X] : f[0] = <<>> /\ \A n \in Nat : f[n + 1] = h[<<n, f[n]>>]
  <2>1. <<>> \in X /\ h \in StepFunctions(X)  BY <1>1 DEF StepFunctions
  <2> HIDE DEF h, X
  <2>2. \E f : Recursive(f, X, <<>>, h)  BY <2>1, Recursion
  <2>3. QED BY <2>2 DEF Recursive
<1> DEFINE g == [i \in 0 .. Len(s) |-> f[i]]
<1>3. ASSUME NEW i \in 1 .. Len(s)
      PROVE g[i] = IF s[i] \in W THEN Append(g[i - 1], s[i]) ELSE g[i - 1]
  <2>1. i - 1 \in Nat /\ (i - 1) + 1 = i /\ i - 1 < Len(s) /\ i - 1 \in 0 .. Len(s)
    OBVIOUS
  <2>2. f[i] = h[<<i - 1, f[i - 1]>>]
    <3> HIDE DEF h
    <3>1. f[(i - 1) + 1] = h[<<i - 1, f[i - 1]>>]  BY <1>2, <2>1
    <3>2. QED BY <3>1, <2>1
  <2>3. <<i - 1, f[i - 1]>> \in Nat \X Seq(R)  BY <2>1, <1>2
  <2>4. h[<<i - 1, f[i - 1]>>] =
          IF s[i] \in W THEN Append(f[i - 1], s[i]) ELSE f[i - 1]
    <3> DEFINE p == <<i - 1, f[i - 1]>>
    <3>1. p[1] = i - 1 /\ p[2] = f[i - 1]  OBVIOUS
    <3>2. h[p] = IF p[1] < Len(s) /\ s[p[1] + 1] \in W
                 THEN Append(p[2], s[p[1] + 1]) ELSE p[2]
      BY <2>3
    <3> HIDE DEF p, h
    <3>3. h[p] = IF s[i] \in W THEN Append(f[i - 1], s[i]) ELSE f[i - 1]
      BY <2>1, <3>1, <3>2
    <3>4. QED BY <3>3 DEF p
  <2>5. g[i] = f[i] /\ g[i - 1] = f[i - 1]  BY <2>1
  <2> HIDE DEF g, h
  <2>6. QED BY <2>2, <2>4, <2>5
<1>4. g = Body(g)
  <2>1. g[0] = <<>>  BY <1>2
  <2>2. g = [i \in 0 .. Len(s) |-> g[i]]  OBVIOUS
  <2> HIDE DEF g
  <2>3. ASSUME NEW i \in 0 .. Len(s)
        PROVE g[i] = IF i = 0 THEN <<>>
                     ELSE IF s[i] \in W THEN Append(g[i - 1], s[i])
                     ELSE g[i - 1]
    BY <2>1, <1>3
  <2>4. QED BY <2>2, <2>3
<1> DEFINE F == CHOOSE F : F = Body(F)
<1>5. F = Body(F)
  <2> HIDE DEF g, Body
  <2>1. QED BY <1>4
<1> HIDE DEF F
<1>6. ASSUME NEW i \in 1 .. Len(s)
      PROVE F[i] = IF s[i] \in W THEN Append(F[i - 1], s[i]) ELSE F[i - 1]
  <2>1. i \in 0 .. Len(s) /\ i # 0  OBVIOUS
  <2>2. Body(F)[i] = IF s[i] \in W THEN Append(F[i - 1], s[i]) ELSE F[i - 1]
    BY <2>1
  <2> HIDE DEF Body
  <2>3. QED BY <1>5, <2>2
<1>7. F[0] = <<>>
  <2>1. Body(F)[0] = <<>>  OBVIOUS
  <2> HIDE DEF Body
  <2>2. QED BY <1>5, <2>1
<1>8. DOMAIN F = 0 .. Len(s) /\ F = [i \in 0 .. Len(s) |-> F[i]]
  <2>1. DOMAIN Body(F) = 0 .. Len(s) /\ Body(F) = [i \in 0 .. Len(s) |-> Body(F)[i]]
    OBVIOUS
  <2> HIDE DEF Body
  <2>2. QED BY <1>5, <2>1
<1>9. \A n \in Nat : n \in {i \in Nat : i <= Len(s) => F[i] \in Seq(R)}
  <2> DEFINE S == {i \in Nat : i <= Len(s) => F[i] \in Seq(R)}
  <2>1. 0 \in S
    <3>1. F[0] \in Seq(R)  BY <1>7
    <3>2. QED BY <3>1
  <2>2. ASSUME NEW n \in Nat, n \in S PROVE n + 1 \in S
    <3> SUFFICES ASSUME n + 1 <= Len(s) PROVE F[n + 1] \in Seq(R)  OBVIOUS
    <3>1. n + 1 \in 1 .. Len(s) /\ (n + 1) - 1 = n /\ F[n] \in Seq(R)  BY <2>2
    <3>2. s[n + 1] \in R  BY <3>1
    <3>3. F[n + 1] = IF s[n + 1] \in W THEN Append(F[n], s[n + 1]) ELSE F[n]
      <4>1. F[n + 1] = IF s[n + 1] \in W THEN Append(F[(n + 1) - 1], s[n + 1])
                       ELSE F[(n + 1) - 1]
        BY <3>1, <1>6
      <4>2. QED BY <4>1, <3>1
    <3>4. QED BY <3>1, <3>2, <3>3
  <2> HIDE DEF S
  <2>3. \A n \in Nat : n \in S  BY <2>1, <2>2, Induction
  <2>4. QED BY <2>3 DEF S
<1>10. F \in [0 .. Len(s) -> Seq(R)]
  <2>1. \A i \in 0 .. Len(s) : F[i] \in Seq(R)  BY <1>9
  <2>2. QED BY <1>8, <2>1
<1>11. F = Selecting(s, W)  BY DEF F, Selecting
<1>12. QED BY <1>6, <1>7, <1>10, <1>11

LEMMA SelectIsLast ==
  ASSUME NEW s, NEW W
  PROVE  SelectIn(s, W) = Selecting(s, W)[Len(s)]
BY DEF SelectIn, Selecting

\* What is selected from a sequence is of the same kind.
LEMMA SelectKeeps ==
  ASSUME NEW R, NEW s \in Seq(R), NEW W
  PROVE  SelectIn(s, W) \in Seq(R)
<1>1. Len(s) \in 0 .. Len(s)  BY LenProperties
<1>2. QED BY <1>1, SelectIsLast, SelectingExists

\* Where each element is in one of two sets, none is lost and none comes twice.
LEMMA SelectSplits ==
  ASSUME NEW R, NEW s \in Seq(R), NEW V, NEW W, \A x \in R : x \in V <=> x \notin W
  PROVE  Len(SelectIn(s, V)) + Len(SelectIn(s, W)) = Len(s)
<1> DEFINE F == Selecting(s, V)
<1> DEFINE G == Selecting(s, W)
<1> DEFINE N == Len(s)
<1>1. N \in Nat  BY LenProperties
<1>2. /\ F \in [0 .. N -> Seq(R)]
      /\ G \in [0 .. N -> Seq(R)]
      /\ F[0] = <<>> /\ G[0] = <<>>
  BY SelectingExists
<1>3. ASSUME NEW i \in 1 .. N
      PROVE /\ F[i] = IF s[i] \in V THEN Append(F[i - 1], s[i]) ELSE F[i - 1]
            /\ G[i] = IF s[i] \in W THEN Append(G[i - 1], s[i]) ELSE G[i - 1]
  BY SelectingExists
<1>4. ASSUME NEW i \in 1 .. N PROVE s[i] \in R
  BY ElementOfSeq
<1> HIDE DEF F, G, N
<1> DEFINE Split(n) == Len(F[n]) + Len(G[n]) = n
<1>5. Split(0)  BY <1>2
<1>6. ASSUME NEW n \in Nat, n + 1 <= N, Split(n) PROVE Split(n + 1)
  <2>1. n + 1 \in 1 .. N /\ (n + 1) - 1 = n /\ n \in 0 .. N
    BY <1>1, <1>6
  <2>2. F[n] \in Seq(R) /\ G[n] \in Seq(R)  BY <2>1, <1>2
  <2>3. s[n + 1] \in R  BY <2>1, <1>4
  <2>4. /\ Len(Append(F[n], s[n + 1])) = Len(F[n]) + 1
        /\ Len(Append(G[n], s[n + 1])) = Len(G[n]) + 1
        /\ Len(F[n]) \in Nat /\ Len(G[n]) \in Nat
    BY <2>2, <2>3
  <2>5. /\ F[n + 1] = IF s[n + 1] \in V THEN Append(F[n], s[n + 1]) ELSE F[n]
        /\ G[n + 1] = IF s[n + 1] \in W THEN Append(G[n], s[n + 1])
                      ELSE G[n]
    <3>1. /\ F[n + 1] = IF s[n + 1] \in V
                        THEN Append(F[(n + 1) - 1], s[n + 1]) ELSE F[(n + 1) - 1]
          /\ G[n + 1] = IF s[n + 1] \in W
                        THEN Append(G[(n + 1) - 1], s[n + 1]) ELSE G[(n + 1) - 1]
      BY <2>1, <1>3
    <3>2. QED BY <3>1, <2>1
  <2> DEFINE f == Len(F[n])
  <2> DEFINE g == Len(G[n])
  <2> DEFINE u == Len(F[n + 1])
  <2> DEFINE v == Len(G[n + 1])
  <2>6. f + g = n /\ f \in Nat /\ g \in Nat  BY <1>6, <2>4
  <2>7. CASE s[n + 1] \in V
    <3> SUFFICES u + v = n + 1  OBVIOUS
    <3>1. u = f + 1 /\ v = g  BY <2>3, <2>4, <2>5, <2>7
    <3> HIDE DEF f, g, u, v
    <3>2. QED BY <3>1, <2>6
  <2>8. CASE s[n + 1] \notin V
    <3> SUFFICES u + v = n + 1  OBVIOUS
    <3>1. u = f /\ v = g + 1
      BY <2>3, <2>4, <2>5, <2>8
    <3> HIDE DEF f, g, u, v
    <3>2. QED BY <3>1, <2>6
  <2>9. QED BY <2>7, <2>8
<1> HIDE DEF Split
<1> DEFINE S == {n \in Nat : n <= N => Split(n)}
<1>7. 0 \in S  BY <1>5
<1>8. ASSUME NEW n \in Nat, n \in S PROVE n + 1 \in S
  <2>1. n + 1 <= N => n <= N  BY <1>1
  <2>2. QED BY <2>1, <1>6, <1>8
<1> HIDE DEF S
<1>9. N \in S  BY <1>1, <1>7, <1>8, Induction
<1>10. Split(N)  BY <1>1, <1>9 DEF S
<1>11. QED BY <1>10, SelectIsLast DEF F, G, N, Split

\* What is selected are the elements that are in the set.
LEMMA SelectElements ==
  ASSUME NEW R, NEW s \in Seq(R), NEW W, NEW x
  PROVE  (\E j \in 1 .. Len(SelectIn(s, W)) : SelectIn(s, W)[j] = x) <=>
           x \in W /\ \E i \in 1 .. Len(s) : s[i] = x
<1> DEFINE F == Selecting(s, W)
<1> DEFINE N == Len(s)
<1> DEFINE In(q) == \E j \in 1 .. Len(q) : q[j] = x
<1> DEFINE Here(n) == x \in W /\ \E i \in 1 .. n : s[i] = x
<1> DEFINE S == {n \in Nat : n <= N => (In(F[n]) <=> Here(n))}
<1>1. N \in Nat  BY LenProperties
<1>2. F \in [0 .. N -> Seq(R)] /\ F[0] = <<>>  BY SelectingExists
<1>3. ASSUME NEW i \in 1 .. N
      PROVE F[i] = IF s[i] \in W THEN Append(F[i - 1], s[i]) ELSE F[i - 1]
  BY SelectingExists
<1>4. ASSUME NEW q \in Seq(R), NEW e \in R PROVE In(Append(q, e)) <=> In(q) \/ e = x
  <2>1. /\ Len(q) \in Nat /\ Len(Append(q, e)) = Len(q) + 1
        /\ Append(q, e)[Len(q) + 1] = e
        /\ \A j \in 1 .. Len(q) : Append(q, e)[j] = q[j]
    OBVIOUS
  <2>2. QED BY <2>1
<1>5. ~In(<<>>)  BY EmptySeq
<1> HIDE DEF F, N, In
<1>6. 0 \in S  BY <1>2, <1>5
<1>7. ASSUME NEW n \in Nat, n \in S PROVE n + 1 \in S
  <2> SUFFICES ASSUME n + 1 <= N PROVE In(F[n + 1]) <=> Here(n + 1)  OBVIOUS
  <2>1. n + 1 \in 1 .. N /\ (n + 1) - 1 = n /\ n \in 0 .. N /\ n <= N  BY <1>1
  <2>2. In(F[n]) <=> Here(n)  BY <1>7, <2>1
  <2>3. F[n] \in Seq(R)  BY <1>2, <2>1
  <2>4. s[n + 1] \in R  BY <2>1, ElementOfSeq DEF N
  <2>5. F[n + 1] = IF s[n + 1] \in W THEN Append(F[n], s[n + 1]) ELSE F[n]
    <3>1. F[n + 1] = IF s[n + 1] \in W THEN Append(F[(n + 1) - 1], s[n + 1]) ELSE F[(n + 1) - 1]
      BY <2>1, <1>3
    <3>2. QED BY <3>1, <2>1
  <2>6. In(F[n + 1]) <=> In(F[n]) \/ (s[n + 1] \in W /\ s[n + 1] = x)
    BY <1>4, <2>3, <2>4, <2>5
  <2>7. Here(n + 1) <=> Here(n) \/ (x \in W /\ s[n + 1] = x)
    <3>1. \A i : i \in 1 .. n + 1 <=> i \in 1 .. n \/ i = n + 1  OBVIOUS
    <3>2. QED BY <3>1
  <2>8. QED BY <2>2, <2>6, <2>7
<1> HIDE DEF S
<1>8. N \in S  BY <1>1, <1>6, <1>7, Induction
<1>9. In(F[N]) <=> Here(N)  BY <1>1, <1>8 DEF S
<1>10. QED BY <1>9, SelectIsLast DEF F, N, In

\* What is selected is in the order it was in: P has the pairs in that order.
LEMMA SelectOrdered ==
  ASSUME NEW R, NEW s \in Seq(R), NEW W, NEW P,
         \A i, j \in 1 .. Len(s) : i < j => <<s[i], s[j]>> \in P
  PROVE  \A i, j \in 1 .. Len(SelectIn(s, W)) :
           i < j => <<SelectIn(s, W)[i], SelectIn(s, W)[j]>> \in P
<1> DEFINE F == Selecting(s, W)
<1> DEFINE N == Len(s)
<1> DEFINE Early(q, n) == \A i \in 1 .. Len(q) : \E k \in 1 .. n : q[i] = s[k]
<1> DEFINE Ordered(q) == \A i, j \in 1 .. Len(q) : i < j => <<q[i], q[j]>> \in P
<1> DEFINE S == {n \in Nat : n <= N => Early(F[n], n) /\ Ordered(F[n])}
<1>1. N \in Nat  BY LenProperties
<1>2. F \in [0 .. N -> Seq(R)] /\ F[0] = <<>>  BY SelectingExists
<1>3. ASSUME NEW i \in 1 .. N
      PROVE F[i] = IF s[i] \in W THEN Append(F[i - 1], s[i]) ELSE F[i - 1]
  BY SelectingExists
<1>4. \A i, j \in 1 .. N : i < j => <<s[i], s[j]>> \in P  OBVIOUS
<1>5. ASSUME NEW q \in Seq(R), NEW n \in Nat, n + 1 <= N, s[n + 1] \in R, Early(q, n), Ordered(q)
      PROVE  /\ Early(q, n + 1)
             /\ Early(Append(q, s[n + 1]), n + 1) /\ Ordered(Append(q, s[n + 1]))
  <2> DEFINE r == Append(q, s[n + 1])
  <2>1. /\ Len(q) \in Nat /\ Len(r) = Len(q) + 1
        /\ r[Len(q) + 1] = s[n + 1]
        /\ \A j \in 1 .. Len(q) : r[j] = q[j]
    BY <1>5
  <2>0. \A j \in 1 .. Len(r) : j \in 1 .. Len(q) \/ j = Len(q) + 1  BY <2>1
  <2> HIDE DEF r
  <2>2. \A k \in 1 .. n : k \in 1 .. n + 1 /\ k \in 1 .. N /\ k < n + 1
    BY <1>1, <1>5
  <2>3. n + 1 \in 1 .. n + 1 /\ n + 1 \in 1 .. N  BY <1>1, <1>5
  <2>4. Early(q, n + 1)  BY <1>5, <2>2
  <2>5. Early(r, n + 1)
    <3> SUFFICES ASSUME NEW i \in 1 .. Len(r) PROVE \E k \in 1 .. n + 1 : r[i] = s[k]
      OBVIOUS
    <3>1. CASE i \in 1 .. Len(q)  BY <2>1, <2>4, <3>1
    <3>2. CASE i = Len(q) + 1  BY <2>1, <2>3, <3>2
    <3>3. QED BY <2>0, <3>1, <3>2
  <2>6. Ordered(r)
    <3> SUFFICES ASSUME NEW i \in 1 .. Len(r), NEW j \in 1 .. Len(r), i < j
                 PROVE  <<r[i], r[j]>> \in P
      OBVIOUS
    <3>1. CASE j \in 1 .. Len(q)
      <4>1. i \in 1 .. Len(q)  BY <2>1, <3>1
      <4>2. QED BY <1>5, <2>1, <3>1, <4>1
    <3>2. CASE j = Len(q) + 1
      <4>1. i \in 1 .. Len(q)  BY <2>1, <3>2
      <4>2. PICK k \in 1 .. n : q[i] = s[k]  BY <1>5, <4>1
      <4>3. <<s[k], s[n + 1]>> \in P  BY <1>4, <2>2, <2>3
      <4>4. QED BY <2>1, <3>2, <4>1, <4>2, <4>3
    <3>3. QED BY <2>0, <3>1, <3>2
  <2>7. QED BY <2>4, <2>5, <2>6 DEF r
<1>6. Early(<<>>, 0) /\ Ordered(<<>>)  BY EmptySeq
<1> HIDE DEF F, N, Early, Ordered
<1>7. 0 \in S  BY <1>2, <1>6
<1>8. ASSUME NEW n \in Nat, n \in S PROVE n + 1 \in S
  <2> SUFFICES ASSUME n + 1 <= N PROVE Early(F[n + 1], n + 1) /\ Ordered(F[n + 1])  OBVIOUS
  <2>1. n + 1 \in 1 .. N /\ (n + 1) - 1 = n /\ n \in 0 .. N /\ n <= N  BY <1>1
  <2>2. Early(F[n], n) /\ Ordered(F[n])  BY <1>8, <2>1
  <2>3. F[n] \in Seq(R)  BY <1>2, <2>1
  <2>4. s[n + 1] \in R  BY <2>1, ElementOfSeq DEF N
  <2>5. F[n + 1] = IF s[n + 1] \in W THEN Append(F[n], s[n + 1]) ELSE F[n]
    <3>1. F[n + 1] = IF s[n + 1] \in W THEN Append(F[(n + 1) - 1], s[n + 1]) ELSE F[(n + 1) - 1]
      BY <2>1, <1>3
    <3>2. QED BY <3>1, <2>1
  <2>6. QED BY <1>5, <2>2, <2>3, <2>4, <2>5
<1> HIDE DEF S
<1>9. N \in S  BY <1>1, <1>7, <1>8, Induction
<1>10. Ordered(F[N])  BY <1>1, <1>9 DEF S
<1>11. QED BY <1>10, SelectIsLast DEF F, N, Ordered

\* Where all is to be kept, the selection is the whole.
LEMMA SelectAll ==
  ASSUME NEW R, NEW s \in Seq(R), NEW W, \A i \in 1 .. Len(s) : s[i] \in W
  PROVE  SelectIn(s, W) = s
<1> DEFINE F == Selecting(s, W)
<1> DEFINE N == Len(s)
<1> DEFINE S == {n \in Nat : n <= N => Len(F[n]) = n /\ \A i \in 1 .. n : F[n][i] = s[i]}
<1>1. N \in Nat  BY LenProperties
<1>2. F \in [0 .. N -> Seq(R)] /\ F[0] = <<>>  BY SelectingExists
<1>3. ASSUME NEW i \in 1 .. N
      PROVE F[i] = IF s[i] \in W THEN Append(F[i - 1], s[i]) ELSE F[i - 1]
  BY SelectingExists
<1>4. \A i \in 1 .. N : s[i] \in W /\ s[i] \in R  BY ElementOfSeq
<1> HIDE DEF F, N
<1>5. 0 \in S  BY <1>2, EmptySeq
<1>6. ASSUME NEW n \in Nat, n \in S PROVE n + 1 \in S
  <2> SUFFICES ASSUME n + 1 <= N
               PROVE  Len(F[n + 1]) = n + 1 /\ \A i \in 1 .. n + 1 : F[n + 1][i] = s[i]
    OBVIOUS
  <2>1. n + 1 \in 1 .. N /\ (n + 1) - 1 = n /\ n \in 0 .. N /\ n <= N  BY <1>1
  <2>2. Len(F[n]) = n /\ \A i \in 1 .. n : F[n][i] = s[i]  BY <1>6, <2>1
  <2>3. F[n] \in Seq(R) /\ s[n + 1] \in R /\ s[n + 1] \in W  BY <1>2, <1>4, <2>1
  <2>4. F[n + 1] = Append(F[n], s[n + 1])
    <3>1. F[n + 1] = IF s[n + 1] \in W THEN Append(F[(n + 1) - 1], s[n + 1]) ELSE F[(n + 1) - 1]
      BY <2>1, <1>3
    <3>2. QED BY <2>1, <2>3, <3>1
  <2> DEFINE q == F[n]
  <2> DEFINE x == s[n + 1]
  <2>5. /\ Len(Append(q, x)) = Len(q) + 1
        /\ Append(q, x)[Len(q) + 1] = x
        /\ \A i \in 1 .. Len(q) : Append(q, x)[i] = q[i]
    <3> HIDE DEF q, x
    <3>1. q \in Seq(R) /\ x \in R  BY <2>3 DEF q, x
    <3>2. QED BY <3>1
  <2>6. \A i \in 1 .. n + 1 : i \in 1 .. n \/ i = n + 1  OBVIOUS
  <2>7. QED BY <2>2, <2>4, <2>5, <2>6
<1> HIDE DEF S
<1>7. N \in S  BY <1>1, <1>5, <1>6, Induction
<1>8. Len(F[N]) = N /\ \A i \in 1 .. N : F[N][i] = s[i]  BY <1>1, <1>7 DEF S
<1>9. F[N] \in Seq(R)  BY <1>1, <1>2
<1>10. F[N] = s
  <2> DEFINE q == F[N]
  <2>1. q \in Seq(R) /\ Len(q) = Len(s) /\ \A i \in 1 .. Len(s) : q[i] = s[i]
    BY <1>8, <1>9 DEF N
  <2> HIDE DEF q
  <2>2. q = s  BY <2>1, SeqEqual
  <2>3. QED BY <2>2 DEF q
<1>11. QED BY <1>10, SelectIsLast DEF F, N
=============================================================================
