------------------------------ MODULE FoldLemmas ------------------------------
(***************************************************************************)
(* Induction over the natural numbers for sets, and what FoldLeft of a     *)
(* sequence is, step by step.  The facts are stated without operator       *)
(* parameters: a property is the set of numbers that have it, and an       *)
(* operation is a function.                                                *)
(***************************************************************************)
EXTENDS Naturals, Sequences, SequencesExt, Lists, WellFoundedInduction, TLAPS

\* Every set of natural numbers that is not empty has a least element.
LEMMA LeastNumber ==
    ASSUME NEW T, T \subseteq Nat, T # {}
    PROVE  \E x \in T : \A y \in T : ~(y < x)
  <1>1. IsWellFoundedOn(OpToRel(<, Nat), Nat)
    BY NatLessThanWellFounded
  <1>2. \E x \in T : \A y \in T : ~(<<y, x>> \in OpToRel(<, Nat))
    BY <1>1, WFMin
  <1> QED
    BY <1>2 DEF OpToRel

\* Induction: a set that holds 0 and the successor of each of its numbers holds them all.
LEMMA InductionOnNat ==
    ASSUME NEW S, 0 \in S, \A n \in Nat : n \in S => n + 1 \in S
    PROVE  Nat \subseteq S
  <1> SUFFICES ASSUME Nat \ S # {} PROVE FALSE
    OBVIOUS
  <1>1. PICK x \in Nat \ S : \A y \in Nat \ S : ~(y < x)
    BY LeastNumber
  <1>2. x # 0 /\ x - 1 \in Nat
    OBVIOUS
  <1>3. x - 1 \in S
    BY <1>1, <1>2
  <1> QED
    BY <1>2, <1>3

\* Induction up to a bound.
LEMMA InductionUpTo ==
    ASSUME NEW n \in Nat, NEW S, 0 \in S, \A i \in 0..n : i < n /\ i \in S => i + 1 \in S
    PROVE  0..n \subseteq S
  <1> DEFINE T == S \cup {i \in Nat : n < i}
  <1>1. 0 \in T /\ \A i \in Nat : i \in T => i + 1 \in T
    OBVIOUS
  <1> HIDE DEF T
  <1>2. Nat \subseteq T
    BY <1>1, InductionOnNat
  <1> QED
    BY <1>2 DEF T

-----------------------------------------------------------------------------

\* g is the function FoldLeft is defined by: it folds the sets of indices up to n, the
\* largest index last.
Folds(g, n, base, F) ==
    \A s \in SUBSET (1..n) :
        /\ s # {} => Max(s) \in s
        /\ g[s] = IF s = {} THEN base ELSE F[<<g[s \ {Max(s)}], Max(s)>>]

\* The function FoldLeft is defined by exists: over the sets of indices up to n, taking the
\* largest index last.
LEMMA FoldExists ==
    ASSUME NEW n \in Nat, NEW A, NEW base \in A, NEW F \in [A \X (1..n) -> A]
    PROVE  \E g \in [SUBSET (1..n) -> A] : Folds(g, n, base, F)
  <1> DEFINE S == {k \in 0..n : \E g \in [SUBSET (1..k) -> A] : Folds(g, k, base, F)}
  <1>1. 0 \in S
    <2> DEFINE g == [s \in SUBSET (1..0) |-> base]
    <2>1. g \in [SUBSET (1..0) -> A] /\ Folds(g, 0, base, F)
      <3>1. 1..0 = {}
        OBVIOUS
      <3> QED
        BY <3>1 DEF Folds
    <2>2. 0 \in 0..n
      OBVIOUS
    <2> HIDE DEF g
    <2> QED
      BY <2>1, <2>2
  <1>2. ASSUME NEW k \in 0..n, k < n, k \in S
        PROVE  k + 1 \in S
    <2>1. PICK g \in [SUBSET (1..k) -> A] : Folds(g, k, base, F)
      BY <1>2
    <2> DEFINE m == k + 1
               h == [s \in SUBSET (1..m) |->
                        IF m \in s THEN F[<<g[s \ {m}], m>>] ELSE g[s]]
    <2>2. \A s \in SUBSET (1..m) : s \ {m} \in SUBSET (1..k) /\ (m \notin s => s \in SUBSET (1..k))
      OBVIOUS
    <2>3. m \in 1..n
      BY <1>2
    <2>4. h \in [SUBSET (1..m) -> A]
      BY <2>2, <2>3
    <2>5. ASSUME NEW s \in SUBSET (1..m), s # {}
          PROVE  Max(s) \in s /\ h[s] = F[<<h[s \ {Max(s)}], Max(s)>>]
      <3>1. CASE m \in s
        <4>1. Max(s) = m
          <5>1. \A y \in s : m >= y
            OBVIOUS
          <5>2. \A x \in s : (\A y \in s : x >= y) => x = m
            BY <3>1
          <5> QED
            BY <3>1, <5>1, <5>2 DEF Max
        <4>2. h[s] = F[<<g[s \ {m}], m>>] /\ h[s \ {m}] = g[s \ {m}]
          BY <3>1
        <4> QED
          BY <3>1, <4>1, <4>2
      <3>2. CASE m \notin s
        <4>1. s \in SUBSET (1..k)
          BY <2>2, <3>2
        <4>2. h[s] = g[s] /\ h[s \ {Max(s)}] = g[s \ {Max(s)}]
          BY <3>2
        <4> HIDE DEF h
        <4> QED
          BY <2>1, <2>5, <4>1, <4>2 DEF Folds
      <3> QED
        BY <3>1, <3>2
    <2>6. h[{}] = base
      <3>1. {} \in SUBSET (1..k) /\ g[{}] = base
        BY <2>1 DEF Folds
      <3> QED
        BY <3>1
    <2>7. Folds(h, m, base, F)
      BY <2>5, <2>6 DEF Folds
    <2>8. m \in 0..n
      BY <2>3
    <2> HIDE DEF h, m
    <2>9. m \in S
      BY <2>4, <2>7, <2>8
    <2> QED
      BY <2>9 DEF m
  <1> HIDE DEF S
  <1>3. n \in S
    BY <1>1, <1>2, InductionUpTo
  <1> QED
    BY <1>3 DEF S

\* The indices up to i end in i.
LEMMA LastIndex ==
    ASSUME NEW i \in Nat \ {0}
    PROVE  1..i # {} /\ Max(1..i) = i /\ (1..i) \ {i} = 1..(i-1)
  <1>1. i \in 1..i /\ \A y \in 1..i : i >= y
    OBVIOUS
  <1>2. \A x \in 1..i : (\A y \in 1..i : x >= y) => x = i
    BY <1>1
  <1> QED
    BY <1>1, <1>2 DEF Max

\* iter folds values of A as F does, whatever it does outside A.
FoldsWithin(iter, n, A, base, F) ==
    /\ iter[{}] = base
    /\ \A s \in SUBSET (1..n) :
           s # {} /\ iter[s \ {Max(s)}] \in A => iter[s] = F[<<iter[s \ {Max(s)}], Max(s)>>]

\* r holds the values folded so far, step by step, up to what iter folds n indices to.
Runs(r, n, base, F, iter) ==
    /\ r[0] = base
    /\ r[n] = iter[1..n]
    /\ \A i \in 1..n : r[i] = F[<<r[i - 1], i>>]

\* What folds values of A as F does, folds one element after the other and stays in A.
LEMMA FoldRuns ==
    ASSUME NEW n \in Nat, NEW A, NEW base \in A, NEW F \in [A \X (1..n) -> A], NEW iter,
           FoldsWithin(iter, n, A, base, F)
    PROVE  \E r \in [0..n -> A] : Runs(r, n, base, F, iter)
  <1> DEFINE S == {i \in 0..n : iter[1..i] \in A}
             r == [i \in 0..n |-> iter[1..i]]
  <1>1. iter[1..0] = base
    <2>1. 1..0 = {}
      OBVIOUS
    <2> QED
      BY <2>1 DEF FoldsWithin
  <1>2. ASSUME NEW i \in 1..n, iter[1..(i-1)] \in A
        PROVE  iter[1..i] = F[<<iter[1..(i-1)], i>>] /\ iter[1..i] \in A
    <2>1. 1..i \in SUBSET (1..n)
      OBVIOUS
    <2>2. 1..i # {} /\ Max(1..i) = i /\ (1..i) \ {i} = 1..(i-1)
      <3>1. i \in Nat \ {0}
        OBVIOUS
      <3> QED
        BY <3>1, LastIndex
    <2>3. iter[1..i] = F[<<iter[1..(i-1)], i>>]
      BY <1>2, <2>1, <2>2 DEF FoldsWithin
    <2> QED
      BY <1>2, <2>3
  <1>3. 0..n \subseteq S
    <2>1. 0 \in S
      BY <1>1
    <2>2. ASSUME NEW i \in 0..n, i < n, i \in S
          PROVE  i + 1 \in S
      <3>1. i + 1 \in 1..n /\ i + 1 \in 0..n /\ (i + 1) - 1 = i
        BY <2>2
      <3> QED
        BY <1>2, <2>2, <3>1
    <2> HIDE DEF S
    <2> QED
      BY <2>1, <2>2, InductionUpTo
  <1>4. r \in [0..n -> A]
    BY <1>3
  <1>5. ASSUME NEW i \in 1..n PROVE r[i] = F[<<r[i - 1], i>>]
    <2>1. i - 1 \in 0..n /\ i \in 0..n
      OBVIOUS
    <2> QED
      BY <1>2, <1>3, <2>1
  <1>6. r[0] = base /\ r[n] = iter[1..n]
    BY <1>1
  <1> HIDE DEF r
  <1> QED
    BY <1>4, <1>5, <1>6 DEF Runs

-----------------------------------------------------------------------------

\* Appending adds one element.
LEMMA AppendElements ==
    ASSUME NEW T, NEW s \in Seq(T), NEW x \in T
    PROVE  /\ Append(s, x) \in Seq(T)
           /\ ToSet(Append(s, x)) = ToSet(s) \cup {x}
  <1>1. /\ DOMAIN s = 1..Len(s) /\ DOMAIN Append(s, x) = 1..(Len(s) + 1)
        /\ Len(s) \in Nat
    OBVIOUS
  <1>2. /\ \A i \in 1..Len(s) : Append(s, x)[i] = s[i]
        /\ Append(s, x)[Len(s) + 1] = x
    OBVIOUS
  <1>3. 1..(Len(s) + 1) = (1..Len(s)) \cup {Len(s) + 1}
    BY <1>1
  <1>4. {Append(s, x)[i] : i \in 1..(Len(s) + 1)} = {s[i] : i \in 1..Len(s)} \cup {x}
    BY <1>2, <1>3
  <1>5. Append(s, x) \in Seq(T)
    OBVIOUS
  <1> QED
    BY <1>1, <1>4, <1>5 DEF ToSet

\* r holds what Without(q, e) has kept so far, step by step.
Drops(r, q, e) ==
    /\ r[0] = <<>>
    /\ \A i \in 1..Len(q) : r[i] = IF q[i] = e THEN r[i - 1] ELSE Append(r[i - 1], q[i])
    /\ Without(q, e) = r[Len(q)]

\* Leaving out an element goes through the sequence once.
LEMMA WithoutSteps ==
    ASSUME NEW T, NEW q \in Seq(T), NEW e
    PROVE  \E r \in [0..Len(q) -> Seq(T)] : Drops(r, q, e)
  <1> DEFINE n == Len(q)
             A == Seq(T)
             Step(kept, x) == IF x = e THEN kept ELSE Append(kept, x)
             F == [x \in A \X (1..n) |-> Step(x[1], q[x[2]])]
             iter == CHOOSE iter : iter = [s \in SUBSET DOMAIN q |->
                        IF s = {} THEN <<>> ELSE Step(iter[s \ {Max(s)}], q[Max(s)])]
  <1>1. n \in Nat /\ DOMAIN q = 1..n /\ \A i \in 1..n : q[i] \in T
    OBVIOUS
  <1>2. F \in [A \X (1..n) -> A] /\ <<>> \in A
    BY <1>1
  <1>3. PICK g \in [SUBSET (1..n) -> A] : Folds(g, n, <<>>, F)
    <2> HIDE DEF F, n, A, iter
    <2> QED
      BY <1>1, <1>2, FoldExists
  <1>4. \A s \in SUBSET (1..n) : s # {} =>
            F[<<g[s \ {Max(s)}], Max(s)>>] = Step(g[s \ {Max(s)}], q[Max(s)])
    <2> SUFFICES ASSUME NEW s \in SUBSET (1..n), s # {}
                 PROVE  F[<<g[s \ {Max(s)}], Max(s)>>] = Step(g[s \ {Max(s)}], q[Max(s)])
      OBVIOUS
    <2>1. Max(s) \in 1..n
      BY <1>3 DEF Folds
    <2>2. g[s \ {Max(s)}] \in A
      OBVIOUS
    <2> QED
      BY <2>1, <2>2
  <1>5. g = [s \in SUBSET DOMAIN q |->
                IF s = {} THEN <<>> ELSE Step(g[s \ {Max(s)}], q[Max(s)])]
    BY <1>1, <1>3, <1>4 DEF Folds
  <1>6. iter = [s \in SUBSET DOMAIN q |->
                IF s = {} THEN <<>> ELSE Step(iter[s \ {Max(s)}], q[Max(s)])]
    BY <1>5
  <1>7. Without(q, e) = iter[1..n]
    BY <1>1 DEF Without, FoldLeft, MapThenFoldSet
  <1> HIDE DEF iter
  <1>8. FoldsWithin(iter, n, A, <<>>, F)
    <2>1. iter[{}] = <<>>
      BY <1>1, <1>6
    <2>2. ASSUME NEW s \in SUBSET (1..n), s # {}, iter[s \ {Max(s)}] \in A
          PROVE  iter[s] = F[<<iter[s \ {Max(s)}], Max(s)>>]
      <3>1. Max(s) \in 1..n
        BY <1>3, <2>2 DEF Folds
      <3> QED
        BY <1>1, <1>6, <2>2, <3>1
    <2> QED
      BY <2>1, <2>2 DEF FoldsWithin
  <1>9. PICK r \in [0..n -> A] : Runs(r, n, <<>>, F, iter)
    <2> HIDE DEF F, n, A
    <2> QED
      BY <1>1, <1>2, <1>8, FoldRuns
  <1>10. \A i \in 1..n : r[i] = Step(r[i - 1], q[i])
    <2> SUFFICES ASSUME NEW i \in 1..n PROVE r[i] = Step(r[i - 1], q[i])
      OBVIOUS
    <2>1. r[i - 1] \in A
      BY <1>1
    <2> QED
      BY <1>9, <2>1 DEF Runs
  <1>11. r[0] = <<>> /\ r[n] = iter[1..n]
    BY <1>9 DEF Runs
  <1> HIDE DEF F
  <1> QED
    BY <1>7, <1>9, <1>10, <1>11 DEF Drops

\* What is left holds the other elements.
LEMMA WithoutElement ==
    ASSUME NEW T, NEW q \in Seq(T), NEW e
    PROVE  /\ Without(q, e) \in Seq(T)
           /\ ToSet(Without(q, e)) = ToSet(q) \ {e}
  <1> DEFINE n == Len(q)
  <1>0. PICK r \in [0..n -> Seq(T)] : Drops(r, q, e)
    BY WithoutSteps
  <1>1. /\ r[0] = <<>>
        /\ \A i \in 1..n : r[i] = IF q[i] = e THEN r[i - 1] ELSE Append(r[i - 1], q[i])
        /\ Without(q, e) = r[n]
    BY <1>0 DEF Drops
  <1>2. n \in Nat /\ DOMAIN q = 1..n /\ \A i \in 1..n : q[i] \in T
    OBVIOUS
  <1> DEFINE Upto(k) == {q[i] : i \in 1..k} \ {e}
             S == {k \in 0..n : ToSet(r[k]) = Upto(k)}
  <1>3. 0 \in S
    <2>1. 1..0 = {} /\ 0 \in 0..n
      BY <1>2
    <2> QED
      BY <1>1, <2>1 DEF ToSet
  <1>4. ASSUME NEW k \in 0..n, k < n, k \in S
        PROVE  k + 1 \in S
    <2>1. k + 1 \in 1..n /\ k + 1 \in 0..n /\ (k + 1) - 1 = k /\ 1..(k+1) = (1..k) \cup {k + 1}
      BY <1>2, <1>4
    <2>2. ToSet(r[k + 1]) = ToSet(r[k]) \cup ({q[k + 1]} \ {e})
      <3>1. CASE q[k + 1] = e
        BY <1>1, <2>1, <3>1
      <3>2. CASE q[k + 1] # e
        <4>1. r[k] \in Seq(T) /\ r[k + 1] = Append(r[k], q[k + 1])
          BY <1>1, <2>1, <3>2
        <4> HIDE DEF n, S
        <4>2. ToSet(Append(r[k], q[k + 1])) = ToSet(r[k]) \cup {q[k + 1]}
          BY <1>2, <2>1, <4>1, AppendElements
        <4> QED
          BY <3>2, <4>1, <4>2
      <3> QED
        BY <3>1, <3>2
    <2>3. Upto(k + 1) = Upto(k) \cup ({q[k + 1]} \ {e})
      BY <2>1
    <2> QED
      BY <1>4, <2>1, <2>2, <2>3
  <1>5. 0..n \subseteq S
    <2> HIDE DEF S, n
    <2> QED
      BY <1>2, <1>3, <1>4, InductionUpTo
  <1>6. ToSet(r[n]) = Upto(n)
    BY <1>2, <1>5
  <1>7. ToSet(q) = {q[i] : i \in 1..n}
    BY <1>2 DEF ToSet
  <1>8. Without(q, e) \in Seq(T)
    BY <1>1, <1>2
  <1> QED
    BY <1>1, <1>6, <1>7, <1>8

-----------------------------------------------------------------------------

\* f is the function that begins with base and goes on as F says.
Recurs(f, base, F) == f[0] = base /\ \A k \in Nat : f[k + 1] = F[f[k]]

\* A function on the natural numbers defined from its value before.
LEMMA RecursionOnNat ==
    ASSUME NEW A, NEW base \in A, NEW F \in [A -> A]
    PROVE  \E f \in [Nat -> A] : Recurs(f, base, F)
  <1> DEFINE H(k) == {g \in [0..k -> A] : g[0] = base /\ \A i \in 0..k : i < k => g[i + 1] = F[g[i]]}
             S == {k \in Nat : H(k) # {}}
             Some(k) == CHOOSE g : g \in H(k)
             f == [k \in Nat |-> Some(k)[k]]
  <1>1. Nat \subseteq S
    <2>1. 0 \in S
      <3>1. [i \in 0..0 |-> base] \in H(0)
        OBVIOUS
      <3> QED
        BY <3>1
    <2>2. ASSUME NEW k \in Nat, k \in S PROVE k + 1 \in S
      <3>1. PICK g : g \in H(k)
        BY <2>2
      <3> DEFINE h == [i \in 0..(k + 1) |-> IF i = k + 1 THEN F[g[k]] ELSE g[i]]
      <3>2. \A i \in 0..(k + 1) : i # k + 1 => i \in 0..k
        OBVIOUS
      <3>3. h \in [0..(k + 1) -> A]
        BY <3>1, <3>2
      <3>4. \A i \in 0..(k + 1) : i < k + 1 => h[i + 1] = F[h[i]]
        <4> SUFFICES ASSUME NEW i \in 0..(k + 1), i < k + 1 PROVE h[i + 1] = F[h[i]]
          OBVIOUS
        <4>1. i + 1 \in 0..(k + 1) /\ i \in 0..k /\ h[i] = g[i]
          OBVIOUS
        <4>2. CASE i = k
          BY <4>1, <4>2
        <4>3. CASE i # k
          <5>1. i < k /\ i + 1 \in 0..k /\ h[i + 1] = g[i + 1]
            BY <4>1, <4>3
          <5> QED
            BY <3>1, <4>1, <5>1
        <4> QED
          BY <4>2, <4>3
      <3>5. h[0] = base
        BY <3>1
      <3>6. h \in H(k + 1)
        BY <3>3, <3>4, <3>5
      <3> QED
        BY <3>6
    <2> HIDE DEF S
    <2> QED
      BY <2>1, <2>2, InductionOnNat
  <1>2. \A k \in Nat : Some(k) \in H(k)
    BY <1>1
  <1> HIDE DEF Some
  <1>3. f \in [Nat -> A]
    BY <1>2
  <1>4. f[0] = base
    BY <1>2
  <1>5. ASSUME NEW k \in Nat PROVE f[k + 1] = F[f[k]]
    <2> DEFINE g == Some(k)
               h == Some(k + 1)
               Q == {i \in 0..k : g[i] = h[i]}
    <2>1. g \in H(k) /\ h \in H(k + 1)
      BY <1>2
    <2> HIDE DEF g, h
    <2>2. 0 \in Q
      BY <2>1
    <2>3. ASSUME NEW i \in 0..k, i < k, i \in Q PROVE i + 1 \in Q
      <3>1. i + 1 \in 0..k /\ i \in 0..(k + 1) /\ i < k + 1
        BY <2>3
      <3>2. g[i + 1] = F[g[i]] /\ h[i + 1] = F[h[i]]
        BY <2>1, <2>3, <3>1
      <3> QED
        BY <2>3, <3>1, <3>2
    <2>4. 0..k \subseteq Q
      <3> HIDE DEF Q
      <3> QED
        BY <2>2, <2>3, InductionUpTo
    <2>5. g[k] = h[k]
      BY <2>4
    <2>6. h[k + 1] = F[h[k]]
      <3>1. k \in 0..(k + 1) /\ k < k + 1
        OBVIOUS
      <3> QED
        BY <2>1, <3>1
    <2>7. f[k] = g[k] /\ f[k + 1] = h[k + 1]
      BY DEF g, h
    <2> QED
      BY <2>5, <2>6, <2>7
  <1> HIDE DEF f
  <1> QED
    BY <1>3, <1>4, <1>5 DEF Recurs
=============================================================================
