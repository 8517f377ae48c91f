--------------------------- MODULE SeqFilterProofs ---------------------------
(***************************************************************************)
(* What Keep and AppendMissing return, for every sequence.                 *)
(*                                                                         *)
(* The induction theorems of the library take the property as an operator, *)
(* so the inductions here are by minimal counterexample: the set of the    *)
(* lengths at which the property fails is a set of naturals, which would   *)
(* have a least element if it were not empty (NatMinimum).                 *)
(***************************************************************************)
EXTENDS SeqFilter, SequenceTheorems, WellFoundedInduction, TLAPS

\* Every nonempty set of natural numbers has a least element.
LEMMA NatMinimum ==
    ASSUME NEW T \in SUBSET Nat, T # {}
    PROVE  \E m \in T : \A k \in T : m <= k
  <1>1. \E x \in T : \A y \in T : ~(<<y, x>> \in OpToRel(<, Nat))
    BY NatLessThanWellFounded, WFMin, Zenon
  <1>2. PICK x \in T : \A y \in T : ~(<<y, x>> \in OpToRel(<, Nat))
    BY <1>1
  <1>3. \A y \in T : ~(y < x)
    BY <1>2 DEF OpToRel
  <1> QED BY <1>3

\* Appending adds one element to the range, and repeats none if it is new.
LEMMA AppendRange ==
    ASSUME NEW S, NEW s \in Seq(S), NEW e \in S
    PROVE  /\ Append(s, e) \in Seq(S)
           /\ Range(Append(s, e)) = Range(s) \cup {e}
           /\ IsInjective(s) /\ e \notin Range(s) => IsInjective(Append(s, e))
  <1> DEFINE t == Append(s, e)
  <1>1. /\ t \in Seq(S)
        /\ DOMAIN s = 1..Len(s) /\ DOMAIN t = 1..(Len(s) + 1) /\ Len(s) \in Nat
        /\ t[Len(s) + 1] = e
        /\ \A i \in 1..Len(s) : t[i] = s[i]
    OBVIOUS
  <1> HIDE DEF t
  <1>2. Range(t) = Range(s) \cup {e}
    <2>1. \A i \in 1..(Len(s) + 1) : i \in 1..Len(s) \/ i = Len(s) + 1
      BY <1>1
    <2>2. \A i \in 1..Len(s) : i \in 1..(Len(s) + 1)
      BY <1>1
    <2>3. Len(s) + 1 \in 1..(Len(s) + 1)
      BY <1>1
    <2> QED BY <1>1, <2>1, <2>2, <2>3 DEF Range
  <1>3. ASSUME IsInjective(s), e \notin Range(s)
        PROVE  IsInjective(t)
    <2>1. \A i \in 1..Len(s) : s[i] # e
      BY <1>1, <1>3 DEF Range
    <2> QED BY <1>1, <1>3, <2>1 DEF IsInjective
  <1> QED BY <1>1, <1>2, <1>3 DEF t

\* Only the empty sequence has an empty range.
LEMMA EmptyRange ==
    ASSUME NEW S, NEW s \in Seq(S), Range(s) = {}
    PROVE  s = << >>
  <1>1. Len(s) \in Nat /\ DOMAIN s = 1..Len(s)
    OBVIOUS
  <1>2. ASSUME Len(s) # 0 PROVE FALSE
    <2>1. 1 \in 1..Len(s)
      BY <1>1, <1>2
    <2> QED BY <1>1, <2>1 DEF Range
  <1> QED BY <1>2

\* Taking the head off a sequence that repeats nothing.
LEMMA HeadTailRange ==
    ASSUME NEW S, NEW s \in Seq(S), s # << >>
    PROVE  /\ Head(s) \in S /\ Tail(s) \in Seq(S)
           /\ Range(s) = {Head(s)} \cup Range(Tail(s))
           /\ IsInjective(s) => IsInjective(Tail(s)) /\ Head(s) \notin Range(Tail(s))
  <1> DEFINE t == Tail(s)
  <1>1. /\ Len(s) \in Nat \ {0} /\ DOMAIN s = 1..Len(s)
        /\ DOMAIN t = 1..(Len(s) - 1)
        /\ \A i \in 1..(Len(s) - 1) : t[i] = s[i + 1]
        /\ Head(s) = s[1]
        /\ Head(s) \in S /\ t \in Seq(S)
    OBVIOUS
  <1> HIDE DEF t
  <1>2. Range(s) = {Head(s)} \cup Range(t)
    <2>1. \A i \in 1..Len(s) : i = 1 \/ (i - 1 \in 1..(Len(s) - 1) /\ t[i - 1] = s[i])
      BY <1>1
    <2>2. \A i \in 1..(Len(s) - 1) : i + 1 \in 1..Len(s)
      BY <1>1
    <2>3. 1 \in 1..Len(s)
      BY <1>1
    <2>4. ASSUME NEW i \in 1..Len(s) PROVE s[i] \in {Head(s)} \cup Range(t)
      BY <1>1, <2>1 DEF Range
    <2>5. ASSUME NEW i \in 1..(Len(s) - 1) PROVE t[i] \in Range(s)
      BY <1>1, <2>2 DEF Range
    <2>6. Head(s) \in Range(s)
      BY <1>1, <2>3 DEF Range
    <2>7. Range(s) \subseteq {Head(s)} \cup Range(t)
      BY <1>1, <2>4 DEF Range
    <2>8. Range(t) \subseteq Range(s)
      BY <1>1, <2>5 DEF Range
    <2> QED BY <2>6, <2>7, <2>8
  <1>3. ASSUME IsInjective(s)
        PROVE  IsInjective(t) /\ Head(s) \notin Range(t)
    <2>1. \A i, j \in 1..Len(s) : s[i] = s[j] => i = j
      BY <1>1, <1>3 DEF IsInjective
    <2>2. \A i \in 1..(Len(s) - 1) : i + 1 \in 1..Len(s) /\ i + 1 # 1
      BY <1>1
    <2>3. IsInjective(t)
      <3> SUFFICES ASSUME NEW i \in 1..(Len(s) - 1), NEW j \in 1..(Len(s) - 1), t[i] = t[j]
                   PROVE  i = j
        BY <1>1 DEF IsInjective
      <3>1. i + 1 = j + 1
        BY <1>1, <2>1, <2>2
      <3> QED BY <3>1
    <2>4. \A i \in 1..(Len(s) - 1) : t[i] # s[1]
      BY <1>1, <2>1, <2>2
    <2> QED BY <1>1, <2>3, <2>4 DEF Range
  <1> QED BY <1>1, <1>2, <1>3 DEF t

\* A concatenation repeats nothing when its parts do not and are disjoint.
LEMMA ConcatRange ==
    ASSUME NEW S, NEW s \in Seq(S), NEW t \in Seq(S)
    PROVE  /\ s \o t \in Seq(S)
           /\ Range(s \o t) = Range(s) \cup Range(t)
           /\ IsInjective(s) /\ IsInjective(t) /\ Range(s) \cap Range(t) = {}
                => IsInjective(s \o t)
  <1>1. s \o t \in Seq(S)
    OBVIOUS
  <1>2. Range(s \o t) = Range(s) \cup Range(t)
    BY RangeConcatenation
  <1>3. ASSUME IsInjective(s), IsInjective(t), Range(s) \cap Range(t) = {}
        PROVE  IsInjective(s \o t)
    <2> DEFINE u == s \o t
    <2>1. /\ DOMAIN s = 1..Len(s) /\ DOMAIN t = 1..Len(t)
          /\ DOMAIN u = 1..(Len(s) + Len(t))
          /\ Len(s) \in Nat /\ Len(t) \in Nat
          /\ \A i \in 1..(Len(s) + Len(t)) :
                u[i] = IF i <= Len(s) THEN s[i] ELSE t[i - Len(s)]
      OBVIOUS
    <2>2. \A a \in 1..Len(s), b \in 1..Len(t) : s[a] # t[b]
      BY <1>3, <2>1 DEF Range
    <2> HIDE DEF u
    <2> SUFFICES ASSUME NEW i \in DOMAIN u, NEW j \in DOMAIN u, u[i] = u[j]
                 PROVE  i = j
      BY DEF IsInjective, u
    <2>3. CASE i <= Len(s) /\ j <= Len(s)
      BY <1>3, <2>1, <2>3 DEF IsInjective
    <2>4. CASE i <= Len(s) /\ ~(j <= Len(s))
      <3>1. i \in 1..Len(s) /\ j - Len(s) \in 1..Len(t)
        BY <2>1, <2>4
      <3> QED BY <2>1, <2>2, <2>4, <3>1
    <2>5. CASE ~(i <= Len(s)) /\ j <= Len(s)
      <3>1. j \in 1..Len(s) /\ i - Len(s) \in 1..Len(t)
        BY <2>1, <2>5
      <3> QED BY <2>1, <2>2, <2>5, <3>1
    <2>6. CASE ~(i <= Len(s)) /\ ~(j <= Len(s))
      <3>1. i - Len(s) \in 1..Len(t) /\ j - Len(s) \in 1..Len(t)
        BY <2>1, <2>6
      <3>2. i - Len(s) = j - Len(s)
        BY <1>3, <2>1, <2>6, <3>1 DEF IsInjective
      <3> QED BY <2>1, <3>2
    <2> QED BY <2>3, <2>4, <2>5, <2>6
  <1> QED BY <1>1, <1>2, <1>3

\* The right-hand side of the recursive definition inside Keep.
Step(s, A, F, i) == IF i = 0 THEN << >>
                    ELSE IF s[i] \in A THEN Append(F[i - 1], s[i])
                    ELSE F[i - 1]

\* A function that satisfies the recursive definition of Keep up to n exists.
LEMMA KeptExists ==
    ASSUME NEW S, NEW s \in Seq(S), NEW A, NEW n \in 0..Len(s)
    PROVE  \E F : F = [i \in 0..n |-> Step(s, A, F, i)]
  <1> DEFINE Bad == {k \in 0..Len(s) : ~ \E F : F = [i \in 0..k |-> Step(s, A, F, i)]}
  <1> SUFFICES ASSUME Bad # {} PROVE FALSE
    OBVIOUS
  <1>1. PICK m \in Bad : \A k \in Bad : m <= k
    <2>1. Bad \in SUBSET Nat
      OBVIOUS
    <2> HIDE DEF Bad
    <2> QED BY <2>1, NatMinimum
  <1>2. m # 0
    <2> DEFINE F0 == [i \in 0..0 |-> << >>]
    <2>1. F0 = [i \in 0..0 |-> Step(s, A, F0, i)]
      BY DEF Step
    <2>2. SUFFICES ASSUME m = 0 PROVE FALSE
      OBVIOUS
    <2> HIDE DEF F0
    <2>3. \E F : F = [i \in 0..0 |-> Step(s, A, F, i)]
      BY <2>1
    <2> QED BY <2>2, <2>3, <1>1
  <1>3. m \in Nat /\ m - 1 \in 0..Len(s) /\ m - 1 \notin Bad
    BY <1>1, <1>2
  <1>4. PICK F : F = [i \in 0..(m - 1) |-> Step(s, A, F, i)]
    BY <1>3
  <1> DEFINE G == [i \in 0..m |-> IF i < m THEN F[i] ELSE Step(s, A, F, m)]
  <1>5. ASSUME NEW i \in 0..m PROVE G[i] = Step(s, A, G, i)
    <2>1. m \in Nat /\ i \in Nat
      BY <1>3
    <2>2. CASE i = 0
      <3>1. F[0] = Step(s, A, F, 0)
        <4>1. 0 \in 0..(m - 1)
          BY <1>2, <1>3
        <4> QED BY <1>4, <4>1
      <3>2. G[0] = F[0]
        BY <1>2, <1>3
      <3> QED BY <2>2, <3>1, <3>2 DEF Step
    <2>3. CASE i # 0
      <3>1. i - 1 \in 0..m /\ i - 1 < m
        BY <2>1, <2>3
      <3>2. G[i - 1] = F[i - 1]
        BY <3>1
      <3>3. G[i] = Step(s, A, F, i)
        <4>1. CASE i < m
          <5>1. i \in 0..(m - 1)
            BY <2>1, <4>1
          <5>2. F[i] = Step(s, A, F, i)
            BY <1>4, <5>1
          <5> QED BY <4>1, <5>2
        <4>2. CASE ~(i < m)
          BY <2>1, <4>2
        <4> QED BY <4>1, <4>2
      <3> QED BY <3>2, <3>3, <2>3 DEF Step
    <2> QED BY <2>2, <2>3
  <1>6. G = [i \in 0..m |-> Step(s, A, G, i)]
    <2> DEFINE H == [i \in 0..m |-> Step(s, A, G, i)]
    <2>1. \A i \in 0..m : G[i] = H[i]
      BY <1>5
    <2> QED BY <2>1
  <1> QED BY <1>6, <1>1

\* Keep computes its recursive definition.
LEMMA KeepUnfold ==
    ASSUME NEW S, NEW s \in Seq(S), NEW A
    PROVE  \E F : /\ Keep(s, A) = F[Len(s)]
                  /\ F = [i \in 0..Len(s) |-> Step(s, A, F, i)]
  <1>1. \E F : F = [i \in 0..Len(s) |-> Step(s, A, F, i)]
    <2>1. Len(s) \in 0..Len(s)
      OBVIOUS
    <2> QED BY <2>1, KeptExists, Zenon
  <1> QED BY <1>1 DEF Keep, Step

\* Keep(s, A) holds exactly the elements of s that are in A, and repeats none
\* of them when s repeats none.
THEOREM KeepProperties ==
    ASSUME NEW S, NEW s \in Seq(S), NEW A
    PROVE  /\ Keep(s, A) \in Seq(S)
           /\ Range(Keep(s, A)) = Range(s) \cap A
           /\ IsInjective(s) => IsInjective(Keep(s, A))
  <1>1. PICK F : /\ Keep(s, A) = F[Len(s)]
                 /\ F = [i \in 0..Len(s) |-> Step(s, A, F, i)]
    BY KeepUnfold
  <1>2. \A i \in 0..Len(s) : F[i] = Step(s, A, F, i)
    BY <1>1
  <1> DEFINE Good(i) == /\ F[i] \in Seq(S)
                        /\ \A x : x \in Range(F[i]) <=> \E j \in 1..i : s[j] = x /\ x \in A
                        /\ IsInjective(s) => IsInjective(F[i])
             Bad == {k \in 0..Len(s) : ~ Good(k)}
  <1>3. SUFFICES ASSUME Bad # {} PROVE FALSE
    <2>1. Good(Len(s))
      <3>1. Len(s) \in 0..Len(s)
        OBVIOUS
      <3>2. Len(s) \notin Bad
        BY <1>3
      <3> HIDE DEF Good
      <3> QED BY <3>1, <3>2
    <2>2. Range(s) = {s[j] : j \in 1..Len(s)}
      BY DEF Range
    <2>3. /\ Keep(s, A) \in Seq(S)
          /\ \A x : x \in Range(Keep(s, A)) <=> \E j \in 1..Len(s) : s[j] = x /\ x \in A
          /\ IsInjective(s) => IsInjective(Keep(s, A))
      BY <2>1, <1>1
    <2> QED BY <2>2, <2>3
  <1>4. PICK m \in Bad : \A k \in Bad : m <= k
    <2>1. Bad \in SUBSET Nat
      OBVIOUS
    <2> HIDE DEF Bad
    <2> QED BY <2>1, <1>3, NatMinimum
  <1>5. m # 0
    <2>1. F[0] = << >>
      BY <1>2 DEF Step
    <2>2. Good(0)
      BY <2>1 DEF Range, IsInjective
    <2> QED BY <2>2, <1>4
  <1>6. m \in 1..Len(s) /\ m - 1 \in 0..Len(s) /\ Good(m - 1)
    <2>1. m \in 0..Len(s) /\ Len(s) \in Nat
      BY <1>4
    <2>2. m \in 1..Len(s) /\ m - 1 \in 0..Len(s) /\ ~(m <= m - 1)
      BY <2>1, <1>5
    <2>3. m - 1 \notin Bad
      BY <2>2, <1>4
    <2> HIDE DEF Good
    <2> QED BY <2>2, <2>3
  <1>7. s[m] \in S
    BY <1>6
  <1>8. F[m] = IF s[m] \in A THEN Append(F[m - 1], s[m]) ELSE F[m - 1]
    BY <1>2, <1>6 DEF Step
  <1>9. F[m] \in Seq(S)
    BY <1>6, <1>7, <1>8
  <1>10. \A x : x \in Range(F[m]) <=> \E j \in 1..m : s[j] = x /\ x \in A
    <2>1. CASE s[m] \notin A
      <3>1. F[m] = F[m - 1]
        BY <1>8, <2>1
      <3> QED BY <3>1, <2>1, <1>6
    <2>2. CASE s[m] \in A
      <3>1. Range(F[m]) = Range(F[m - 1]) \cup {s[m]}
        BY <1>6, <1>7, <1>8, <2>2, AppendRange
      <3>2. \A j \in 1..m : j = m \/ j \in 1..(m - 1)
        BY <1>6
      <3> QED BY <3>1, <3>2, <2>2, <1>6
    <2> QED BY <2>1, <2>2
  <1>11. ASSUME IsInjective(s) PROVE IsInjective(F[m])
    <2>1. IsInjective(F[m - 1])
      BY <1>6, <1>11
    <2>2. CASE s[m] \notin A
      BY <1>8, <2>1, <2>2
    <2>3. CASE s[m] \in A
      <3>1. s[m] \notin Range(F[m - 1])
        <4>1. \A j \in 1..(m - 1) : s[j] # s[m]
          BY <1>6, <1>11 DEF IsInjective
        <4> QED BY <1>6, <4>1
      <3>2. F[m] = Append(F[m - 1], s[m]) /\ F[m - 1] \in Seq(S)
        BY <1>6, <1>8, <2>3
      <3> QED BY <2>1, <3>1, <3>2, <1>7, AppendRange
    <2> QED BY <2>2, <2>3
  <1> QED BY <1>4, <1>9, <1>10, <1>11

\* Pushing what is missing yields both contents, without repetition when
\* neither part has any.
THEOREM AppendMissingProperties ==
    ASSUME NEW S, NEW s \in Seq(S), NEW more \in Seq(S)
    PROVE  /\ AppendMissing(s, more) \in Seq(S)
           /\ Range(AppendMissing(s, more)) = Range(s) \cup Range(more)
           /\ IsInjective(s) /\ IsInjective(more) => IsInjective(AppendMissing(s, more))
  <1> DEFINE k == Keep(more, Range(more) \ Range(s))
  <1>1. /\ k \in Seq(S)
        /\ Range(k) = Range(more) \ Range(s)
        /\ IsInjective(more) => IsInjective(k)
    BY KeepProperties
  <1>2. AppendMissing(s, more) = s \o k
    BY DEF AppendMissing
  <1> HIDE DEF k
  <1> QED BY <1>1, <1>2, ConcatRange

\* Keep goes through a sequence from its beginning to its end.
LEMMA KeepAppend ==
    ASSUME NEW S, NEW s \in Seq(S), NEW e \in S, NEW A
    PROVE  Keep(Append(s, e), A) = IF e \in A THEN Append(Keep(s, A), e) ELSE Keep(s, A)
  <1> DEFINE t == Append(s, e)
             n == Len(s)
  <1>1. /\ n \in Nat /\ t \in Seq(S) /\ Len(t) = n + 1 /\ t[n + 1] = e
        /\ \A i \in 1..n : t[i] = s[i]
    OBVIOUS
  <1> HIDE DEF t, n
  <1>2. PICK F : Keep(s, A) = F[n] /\ F = [i \in 0..n |-> Step(s, A, F, i)]
    BY KeepUnfold DEF n
  <1>3. PICK G : Keep(t, A) = G[n + 1] /\ G = [i \in 0..(n + 1) |-> Step(t, A, G, i)]
    <2>1. PICK G : Keep(t, A) = G[Len(t)] /\ G = [i \in 0..Len(t) |-> Step(t, A, G, i)]
      BY <1>1, KeepUnfold
    <2> QED BY <1>1, <2>1
  <1>4. /\ \A i \in 0..n : F[i] = Step(s, A, F, i)
        /\ \A i \in 0..(n + 1) : G[i] = Step(t, A, G, i)
    BY <1>2, <1>3
  <1>5. F[n] = G[n]
    <2> DEFINE Bad == {k \in 0..n : F[k] # G[k]}
    <2>1. SUFFICES ASSUME Bad # {} PROVE FALSE
      BY <1>1
    <2>2. PICK m \in Bad : \A k \in Bad : m <= k
      <3>1. Bad \in SUBSET Nat
        BY <1>1
      <3> HIDE DEF Bad
      <3> QED BY <2>1, <3>1, NatMinimum
    <2>3. m # 0
      BY <1>1, <1>4, <2>2 DEF Step
    <2>4. m \in 1..n /\ m \in 0..n /\ m \in 0..(n + 1) /\ m - 1 \in 0..n /\ ~(m <= m - 1)
      BY <1>1, <2>2, <2>3
    <2>5. F[m - 1] = G[m - 1]
      BY <2>2, <2>4
    <2>6. F[m] = IF s[m] \in A THEN Append(F[m - 1], s[m]) ELSE F[m - 1]
      BY <1>4, <2>3, <2>4 DEF Step
    <2>7. G[m] = IF t[m] \in A THEN Append(G[m - 1], t[m]) ELSE G[m - 1]
      BY <1>4, <2>3, <2>4 DEF Step
    <2> QED BY <1>1, <2>2, <2>4, <2>5, <2>6, <2>7
  <1>6. G[n + 1] = IF e \in A THEN Append(G[n], e) ELSE G[n]
    <2> DEFINE q == n + 1
    <2>1. q \in 0..(n + 1) /\ q # 0 /\ q - 1 = n /\ t[q] = e
      BY <1>1
    <2> HIDE DEF q
    <2>2. G[q] = IF t[q] \in A THEN Append(G[q - 1], t[q]) ELSE G[q - 1]
      BY <1>4, <2>1 DEF Step
    <2> QED BY <2>1, <2>2 DEF q
  <1> QED BY <1>2, <1>3, <1>5, <1>6 DEF t

\* Nothing is kept of nothing.
LEMMA KeepEmpty == ASSUME NEW A PROVE Keep(<< >>, A) = << >>
  <1>1. << >> \in Seq({1}) /\ Range(<< >>) = {}
    BY DEF Range
  <1>2. /\ Keep(<< >>, A) \in Seq({1})
        /\ Range(Keep(<< >>, A)) = Range(<< >>) \cap A
    BY <1>1, KeepProperties
  <1>3. Range(Keep(<< >>, A)) = {}
    BY <1>1, <1>2
  <1> QED BY <1>2, <1>3, EmptyRange

\* A sequence of which everything is kept.
LEMMA KeepAll ==
    ASSUME NEW S, NEW s \in Seq(S), NEW A, Range(s) \subseteq A
    PROVE  Keep(s, A) = s
  <1> DEFINE Bad == {k \in 0..Len(s) : Keep(SubSeq(s, 1, k), A) # SubSeq(s, 1, k)}
  <1>1. SUFFICES ASSUME Bad # {} PROVE FALSE
    <2>1. Len(s) \in 0..Len(s) /\ SubSeq(s, 1, Len(s)) = s
      BY SubSeqFull
    <2> QED BY <2>1
  <1>2. PICK m \in Bad : \A k \in Bad : m <= k
    <2>1. Bad \in SUBSET Nat
      OBVIOUS
    <2> HIDE DEF Bad
    <2> QED BY <1>1, <2>1, NatMinimum
  <1>3. m # 0
    <2>1. SubSeq(s, 1, 0) = << >>
      BY SubSeqEmpty
    <2> QED BY <1>2, <2>1, KeepEmpty
  <1>4. m \in 1..Len(s) /\ m - 1 \in 0..Len(s) /\ ~(m <= m - 1)
    BY <1>2, <1>3
  <1> DEFINE t == SubSeq(s, 1, m - 1)
  <1>5. Keep(t, A) = t
    BY <1>2, <1>4
  <1>6. /\ t \in Seq(S) /\ s[m] \in S /\ s[m] \in A
        /\ SubSeq(s, 1, m) = Append(t, s[m])
    <2>1. s[m] \in S /\ s[m] \in A
      BY <1>4 DEF Range
    <2>2. t \in Seq(S)
      BY <1>4, SubSeqProperties
    <2>3. SubSeq(s, 1, m) = t \o <<s[m]>>
      BY <1>4, SubSeqRecursiveSecond
    <2> HIDE DEF t
    <2> QED BY <2>1, <2>2, <2>3, AppendIsConcat
  <1> HIDE DEF t
  <1>7. Keep(SubSeq(s, 1, m), A) = SubSeq(s, 1, m)
    BY <1>5, <1>6, KeepAppend
  <1> QED BY <1>2, <1>7

\* Keep goes through the parts of a concatenation one after the other.
LEMMA KeepConcat ==
    ASSUME NEW S, NEW s \in Seq(S), NEW t \in Seq(S), NEW A
    PROVE  Keep(s \o t, A) = Keep(s, A) \o Keep(t, A)
  <1> DEFINE Holds(u) == Keep(s \o u, A) = Keep(s, A) \o Keep(u, A)
             Bad == {k \in 0..Len(t) : ~ Holds(SubSeq(t, 1, k))}
  <1>1. SUFFICES ASSUME Bad # {} PROVE FALSE
    <2>1. Len(t) \in 0..Len(t) /\ SubSeq(t, 1, Len(t)) = t
      BY SubSeqFull
    <2> QED BY <2>1
  <1>2. PICK m \in Bad : \A k \in Bad : m <= k
    <2>1. Bad \in SUBSET Nat
      OBVIOUS
    <2> HIDE DEF Bad
    <2> QED BY <1>1, <2>1, NatMinimum
  <1>3. m # 0
    <2>1. SubSeq(t, 1, 0) = << >>
      BY SubSeqEmpty
    <2>2. s \o << >> = s /\ Keep(s, A) \in Seq(S)
      BY KeepProperties, ConcatEmptySeq
    <2>3. Keep(s, A) \o << >> = Keep(s, A)
      BY <2>2, ConcatEmptySeq
    <2>4. Holds(<< >>)
      BY <2>2, <2>3, KeepEmpty
    <2> QED BY <1>2, <2>1, <2>4
  <1>4. m \in 1..Len(t) /\ m - 1 \in 0..Len(t) /\ ~(m <= m - 1)
    BY <1>2, <1>3
  <1> DEFINE u == SubSeq(t, 1, m - 1)
             e == t[m]
  <1>5. Holds(u)
    BY <1>2, <1>4
  <1>6. u \in Seq(S) /\ e \in S /\ SubSeq(t, 1, m) = Append(u, e)
    <2>1. e \in S
      BY <1>4
    <2>2. u \in Seq(S)
      BY <1>4, SubSeqProperties
    <2>3. SubSeq(t, 1, m) = u \o <<e>>
      BY <1>4, SubSeqRecursiveSecond
    <2> HIDE DEF u, e
    <2> QED BY <2>1, <2>2, <2>3, AppendIsConcat
  <1> HIDE DEF u, e
  <1>7. s \o Append(u, e) = Append(s \o u, e) /\ s \o u \in Seq(S)
    BY <1>6
  <1>8. Keep(s, A) \in Seq(S) /\ Keep(u, A) \in Seq(S)
    BY <1>6, KeepProperties
  <1>9. Keep(s, A) \o Append(Keep(u, A), e) = Append(Keep(s, A) \o Keep(u, A), e)
    BY <1>6, <1>8
  <1>10. Holds(Append(u, e))
    <2>1. Keep(Append(s \o u, e), A) =
             IF e \in A THEN Append(Keep(s \o u, A), e) ELSE Keep(s \o u, A)
      <3> DEFINE v == s \o u
      <3>1. v \in Seq(S)
        BY <1>7
      <3> HIDE DEF v
      <3>2. Keep(Append(v, e), A) = IF e \in A THEN Append(Keep(v, A), e) ELSE Keep(v, A)
        BY <1>6, <3>1, KeepAppend
      <3> QED BY <3>2 DEF v
    <2>2. Keep(Append(u, e), A) = IF e \in A THEN Append(Keep(u, A), e) ELSE Keep(u, A)
      BY <1>6, KeepAppend
    <2> QED BY <1>5, <1>7, <1>9, <2>1, <2>2
  <1> QED BY <1>2, <1>6, <1>10

\* What is kept stays in order: a relation between the earlier and the later
\* elements of a sequence is one between those of the rest.
LEMMA KeepOrder ==
    ASSUME NEW S, NEW s \in Seq(S), NEW A, NEW R,
           \A i, j \in 1..Len(s) : i < j => <<s[i], s[j]>> \in R
    PROVE  \A i, j \in 1..Len(Keep(s, A)) : i < j => <<Keep(s, A)[i], Keep(s, A)[j]>> \in R
  <1> DEFINE Ordered(u) == \A i, j \in 1..Len(u) : i < j => <<u[i], u[j]>> \in R
             Bad == {k \in 0..Len(s) : ~ Ordered(Keep(SubSeq(s, 1, k), A))}
  <1>1. SUFFICES ASSUME Bad # {} PROVE FALSE
    <2>1. Len(s) \in 0..Len(s) /\ SubSeq(s, 1, Len(s)) = s
      BY SubSeqFull
    <2>2. Ordered(Keep(s, A))
      BY <1>1, <2>1
    <2> QED BY <2>2
  <1>2. PICK m \in Bad : \A k \in Bad : m <= k
    <2>1. Bad \in SUBSET Nat
      OBVIOUS
    <2> HIDE DEF Bad
    <2> QED BY <1>1, <2>1, NatMinimum
  <1>3. m # 0
    <2>1. SubSeq(s, 1, 0) = << >>
      BY SubSeqEmpty
    <2>2. Ordered(Keep(<< >>, A))
      BY KeepEmpty
    <2> QED BY <1>2, <2>1, <2>2
  <1>4. m \in 1..Len(s) /\ m - 1 \in 0..Len(s) /\ ~(m <= m - 1) /\ m - 1 \in Int
    BY <1>2, <1>3
  <1> DEFINE t == SubSeq(s, 1, m - 1)
             e == s[m]
             k == Keep(t, A)
  <1>5. Ordered(k)
    BY <1>2, <1>4
  <1>6. /\ t \in Seq(S) /\ e \in S
        /\ SubSeq(s, 1, m) = Append(t, e)
        /\ Len(t) = m - 1 /\ \A i \in 1..(m - 1) : t[i] = s[i]
    <2>1. e \in S
      BY <1>4
    <2>2. t \in Seq(S) /\ Len(t) = m - 1 /\ \A i \in 1..(m - 1) : t[i] = s[i]
      BY <1>4
    <2>3. SubSeq(s, 1, m) = t \o <<e>>
      BY <1>4, SubSeqRecursiveSecond
    <2> HIDE DEF t, e
    <2> QED BY <2>1, <2>2, <2>3, AppendIsConcat
  <1>7. \A i \in 1..(m - 1) : <<s[i], e>> \in R
    <2>1. \A i \in 1..(m - 1) : i \in 1..Len(s) /\ i < m
      BY <1>4
    <2> QED BY <1>4, <2>1
  <1> HIDE DEF t, e
  <1>8. k \in Seq(S) /\ Range(k) \subseteq Range(t)
    BY <1>6, KeepProperties
  <1>9. Keep(SubSeq(s, 1, m), A) = IF e \in A THEN Append(k, e) ELSE k
    BY <1>6, KeepAppend
  <1> HIDE DEF k
  <1>10. \A i \in 1..Len(k) : <<k[i], e>> \in R
    <2> TAKE i \in 1..Len(k)
    <2>1. k[i] \in Range(t)
      <3>1. k[i] \in Range(k)
        BY <1>8 DEF Range
      <3> QED BY <1>8, <3>1
    <2>2. PICK j \in 1..Len(t) : t[j] = k[i]
      BY <1>6, <2>1 DEF Range
    <2> QED BY <1>4, <1>6, <1>7, <2>2
  <1>11. Ordered(Append(k, e))
    <2> DEFINE u == Append(k, e)
    <2>1. /\ Len(u) = Len(k) + 1 /\ Len(k) \in Nat /\ u[Len(k) + 1] = e
          /\ \A i \in 1..Len(k) : u[i] = k[i]
      BY <1>6, <1>8
    <2> HIDE DEF u
    <2> SUFFICES ASSUME NEW i \in 1..Len(u), NEW j \in 1..Len(u), i < j
                 PROVE  <<u[i], u[j]>> \in R
      BY DEF u
    <2>2. i \in 1..Len(k)
      BY <2>1
    <2>3. CASE j = Len(k) + 1
      <3>1. u[i] = k[i] /\ u[j] = e
        BY <2>1, <2>2, <2>3
      <3>2. <<k[i], e>> \in R
        BY <1>10, <2>2, Zenon
      <3> QED BY <3>1, <3>2
    <2>4. CASE j \in 1..Len(k)
      <3>1. <<k[i], k[j]>> \in R
        BY <1>5, <2>2, <2>4
      <3> QED BY <2>1, <2>2, <2>4, <3>1
    <2>5. j = Len(k) + 1 \/ j \in 1..Len(k)
      <3>1. Len(u) = Len(k) + 1 /\ Len(k) \in Nat
        BY <2>1
      <3> QED BY <3>1
    <2> QED BY <2>3, <2>4, <2>5
  <1> HIDE DEF Ordered
  <1>12. Ordered(Keep(SubSeq(s, 1, m), A))
    BY <1>5, <1>9, <1>11
  <1> QED BY <1>2, <1>12
=============================================================================
