---------------------------- MODULE Fifo_proofs ----------------------------
(***************************************************************************)
(* Which elements the queue operators keep, for queues of any length.      *)
(* Filter is recursive: its lemma is by induction on the length, from the  *)
(* fact that the order of the naturals is well founded.                    *)
(***************************************************************************)
EXTENDS Fifo, FiniteSetTheorems, WellFoundedInduction, TLAPS

\* A set of naturals that is not empty has a least element.
LEMMA LeastNatural ==
    ASSUME NEW T, T \subseteq Nat, T # {}
    PROVE  \E m \in T : \A k \in T : m <= k
<1>1. \A m, k \in Nat : k < m => <<k, m>> \in OpToRel(<, Nat)
  BY DEF OpToRel
<1>2. \E R : IsWellFoundedOn(R, Nat) /\ \A m, k \in Nat : k < m => <<k, m>> \in R
  BY <1>1, NatLessThanWellFounded, Zenon
<1>3. PICK R : IsWellFoundedOn(R, Nat) /\ \A m, k \in Nat : k < m => <<k, m>> \in R
  BY <1>2
<1>4. PICK m \in T : \A k \in T : <<k, m>> \notin R
  BY <1>3, WFMin, Zenon
<1>5. \A i, j \in Nat : j < i => <<j, i>> \in R
  BY <1>3, Zenon
<1>6. ASSUME NEW k \in T PROVE m <= k
  <2>1. ~(k < m)
    BY <1>4, <1>5
  <2> QED
    BY <2>1
<1> QED
  BY <1>6

\* Induction, for a set of naturals: the theorems of NaturalsInduction are about an
\* operator, which cannot be instantiated here.
LEMMA SetInduction ==
    ASSUME NEW T, 0 \in T, \A n \in Nat : n \in T => n + 1 \in T
    PROVE  \A n \in Nat : n \in T
<1> SUFFICES ASSUME NEW x \in Nat, x \notin T PROVE FALSE
  OBVIOUS
<1> DEFINE U == {n \in Nat : n \notin T}
<1>1. PICK m \in U : \A k \in U : m <= k
  BY LeastNatural
<1>2. m # 0 /\ m - 1 \in Nat /\ m - 1 \in T
  BY <1>1
<1> QED
  BY <1>1, <1>2

\* The recursion of Filter.
FilterStep(s, T, at, n) ==
    IF n = 0 THEN <<>>
    ELSE IF s[n] \in T THEN Append(at[n - 1], s[n]) ELSE at[n - 1]

\* There is a function that satisfies it, so Filter is the last value of one.
LEMMA FilterDefined ==
    ASSUME NEW S, NEW s \in Seq(S), NEW T
    PROVE  \E at : at = [n \in 0..Len(s) |-> FilterStep(s, T, at, n)]
<1> DEFINE Good(at, m) == \A n \in 0..m : at[n] = FilterStep(s, T, at, n)
           I == {m \in Nat : m <= Len(s) => \E at \in [0..m -> Seq(S)] : Good(at, m)}
<1>1. 0 \in I
  <2> DEFINE at == [n \in 0..0 |-> <<>>]
  <2>1. at \in [0..0 -> Seq(S)] /\ Good(at, 0)
    BY DEF FilterStep
  <2> QED BY <2>1
<1>2. ASSUME NEW m \in Nat, m \in I PROVE m + 1 \in I
  <2>1. CASE m + 1 <= Len(s)
    <3>1. PICK f \in [0..m -> Seq(S)] : Good(f, m)
      BY <1>2, <2>1
    <3> DEFINE at == [n \in 0..(m + 1) |-> IF n <= m THEN f[n] ELSE FilterStep(s, T, f, m + 1)]
    <3>2. FilterStep(s, T, f, m + 1) \in Seq(S)
      BY <2>1 DEF FilterStep
    <3>3. at \in [0..(m + 1) -> Seq(S)]
      BY <3>2
    <3>4. \A n \in 0..(m + 1) : n > 0 => at[n - 1] = f[n - 1]
      OBVIOUS
    <3>5. \A n \in 0..(m + 1) : FilterStep(s, T, at, n) = FilterStep(s, T, f, n)
      BY <3>4 DEF FilterStep
    <3>6. \A n \in 0..m : at[n] = f[n]
      OBVIOUS
    <3>7. at[m + 1] = FilterStep(s, T, f, m + 1)
      OBVIOUS
    <3> HIDE DEF at
    <3>8. Good(at, m + 1)
      BY <3>1, <3>5, <3>6, <3>7
    <3>9. \E g \in [0..(m + 1) -> Seq(S)] : Good(g, m + 1)
      BY <3>3, <3>8
    <3> HIDE DEF Good
    <3> QED
      BY <3>9
  <2>2. CASE ~(m + 1 <= Len(s))
    BY <2>2
  <2> QED
    BY <2>1, <2>2
<1>3. PICK at \in [0..Len(s) -> Seq(S)] : Good(at, Len(s))
  <2> HIDE DEF I
  <2>1. Len(s) \in I
    BY <1>1, <1>2, SetInduction
  <2> QED
    BY <2>1 DEF I
<1> QED
  BY <1>3

\* Filter is computed element by element.
LEMMA FilterComputes ==
    ASSUME NEW S, NEW s \in Seq(S), NEW T
    PROVE  \E F : /\ Filter(s, T) = F[Len(s)] /\ F[0] = <<>>
                  /\ \A n \in 1..Len(s) :
                        F[n] = IF s[n] \in T THEN Append(F[n - 1], s[n]) ELSE F[n - 1]
<1> DEFINE F == CHOOSE at : at = [n \in 0..Len(s) |-> FilterStep(s, T, at, n)]
<1>1. F = [n \in 0..Len(s) |-> FilterStep(s, T, F, n)]
  BY FilterDefined
<1>2. Filter(s, T) = F[Len(s)]
  BY DEF Filter, FilterStep
<1> HIDE DEF F
<1>3. \A n \in 0..Len(s) : F[n] = FilterStep(s, T, F, n)
  <2> DEFINE G == [n \in 0..Len(s) |-> FilterStep(s, T, F, n)]
  <2>1. \A n \in 0..Len(s) : G[n] = FilterStep(s, T, F, n)
    OBVIOUS
  <2>2. F = G
    BY <1>1
  <2> HIDE DEF G
  <2> QED
    BY <2>1, <2>2
<1>4. /\ F[0] = <<>>
      /\ \A n \in 1..Len(s) :
            F[n] = IF s[n] \in T THEN Append(F[n - 1], s[n]) ELSE F[n - 1]
  BY <1>3 DEF FilterStep
<1> QED
  BY <1>2, <1>4

\* Filter keeps the elements that are in T and no other.
LEMMA FilterSet ==
    ASSUME NEW S, NEW s \in Seq(S), NEW T
    PROVE  Filter(s, T) \in Seq(S) /\ ToSet(Filter(s, T)) = ToSet(s) \cap T
<1>1. PICK F : /\ Filter(s, T) = F[Len(s)] /\ F[0] = <<>>
               /\ \A n \in 1..Len(s) :
                     F[n] = IF s[n] \in T THEN Append(F[n - 1], s[n]) ELSE F[n - 1]
  BY FilterComputes
<1>2. Filter(s, T) = F[Len(s)]
  BY <1>1
<1>3. /\ F[0] = <<>>
      /\ \A n \in 1..Len(s) :
            F[n] = IF s[n] \in T THEN Append(F[n - 1], s[n]) ELSE F[n - 1]
  BY <1>1
<1> DEFINE In(q, x) == \E i \in 1..Len(q) : q[i] = x
           I == {n \in Nat : n <= Len(s) =>
                   /\ F[n] \in Seq(S \cap T)
                   /\ \A x : In(F[n], x) <=> x \in T /\ \E i \in 1..n : s[i] = x}
<1>4. 0 \in I
  <2>1. F[0] \in Seq(S \cap T) /\ Len(F[0]) = 0
    BY <1>3
  <2>2. \A x : ~In(F[0], x)
    BY <2>1
  <2> QED
    BY <2>1, <2>2
<1>5. ASSUME NEW n \in Nat, n \in I PROVE n + 1 \in I
  <2>1. CASE n + 1 <= Len(s)
    <3>1. /\ F[n] \in Seq(S \cap T)
          /\ \A x : In(F[n], x) <=> x \in T /\ \E i \in 1..n : s[i] = x
      BY <1>5, <2>1
    <3>2. s[n + 1] \in S
      BY <2>1
    <3>3. F[n + 1] = IF s[n + 1] \in T THEN Append(F[n], s[n + 1]) ELSE F[n]
      BY <1>3, <2>1
    <3>4. \A x : (\E i \in 1..(n + 1) : s[i] = x) <=> s[n + 1] = x \/ \E i \in 1..n : s[i] = x
      OBVIOUS
    <3>5. F[n + 1] \in Seq(S \cap T)
      BY <3>1, <3>2, <3>3
    <3>6. CASE s[n + 1] \in T
      <4>1. F[n + 1] = Append(F[n], s[n + 1])
        BY <3>3, <3>6
      <4>2. \A x : In(F[n + 1], x) <=> In(F[n], x) \/ x = s[n + 1]
        <5>1. Len(F[n + 1]) = Len(F[n]) + 1 /\ F[n + 1][Len(F[n]) + 1] = s[n + 1]
               /\ \A i \in 1..Len(F[n]) : F[n + 1][i] = F[n][i]
          BY <3>1, <3>2, <3>6, <4>1
        <5>2. Len(F[n]) \in Nat
          BY <3>1
        <5>3. ASSUME NEW x, In(F[n + 1], x) PROVE In(F[n], x) \/ x = s[n + 1]
          <6>1. PICK i \in 1..Len(F[n + 1]) : F[n + 1][i] = x
            BY <5>3
          <6>2. i \in 1..Len(F[n]) \/ i = Len(F[n]) + 1
            BY <5>1, <5>2
          <6> QED
            BY <5>1, <5>2, <6>1, <6>2
        <5>4. ASSUME NEW x, In(F[n], x) PROVE In(F[n + 1], x)
          BY <5>1, <5>2, <5>4
        <5>5. In(F[n + 1], s[n + 1])
          BY <5>1, <5>2
        <5> HIDE DEF In
        <5> QED
          BY <5>3, <5>4, <5>5
      <4>3. \A x : In(F[n + 1], x) <=> x \in T /\ \E i \in 1..(n + 1) : s[i] = x
        <5> HIDE DEF In
        <5> QED
          BY <3>1, <3>4, <3>6, <4>2
      <4> QED
        BY <3>5, <4>3
    <3>7. CASE s[n + 1] \notin T
      <4>1. F[n + 1] = F[n]
        BY <3>3, <3>7
      <4>2. \A x : In(F[n + 1], x) <=> x \in T /\ \E i \in 1..(n + 1) : s[i] = x
        BY <3>1, <3>4, <3>7, <4>1
      <4> QED
        BY <3>5, <4>2
    <3> QED
      BY <3>6, <3>7
  <2>2. CASE ~(n + 1 <= Len(s))
    BY <2>2
  <2> QED
    BY <2>1, <2>2
<1>6. Len(s) \in I
  <2> HIDE DEF I
  <2> QED
    BY <1>4, <1>5, SetInduction
<1>7. /\ F[Len(s)] \in Seq(S \cap T)
      /\ \A x : In(F[Len(s)], x) <=> x \in T /\ \E i \in 1..Len(s) : s[i] = x
  BY <1>6
<1>8. F[Len(s)] \in Seq(S)
  BY <1>7
<1>9. \A q \in Seq(S) : ToSet(q) = {x \in S : \E i \in 1..Len(q) : q[i] = x}
  BY DEF ToSet
<1> QED
  BY <1>2, <1>7, <1>8, <1>9

\* Filter keeps the order: two elements of the result come from two places of the
\* queue, the earlier one from the earlier place.
LEMMA FilterOrder ==
    ASSUME NEW S, NEW s \in Seq(S), NEW T
    PROVE  \A i, j \in 1..Len(Filter(s, T)) : i < j =>
              \E k, l \in 1..Len(s) : k < l /\ Filter(s, T)[i] = s[k] /\ Filter(s, T)[j] = s[l]
<1>1. PICK F : /\ Filter(s, T) = F[Len(s)] /\ F[0] = <<>>
               /\ \A n \in 1..Len(s) :
                     F[n] = IF s[n] \in T THEN Append(F[n - 1], s[n]) ELSE F[n - 1]
  BY FilterComputes
<1> DEFINE From(q, n) == \A i \in 1..Len(q) : \E k \in 1..n : q[i] = s[k]
           Ordered(q, n) == \A i, j \in 1..Len(q) : i < j =>
                               \E k, l \in 1..n : k < l /\ q[i] = s[k] /\ q[j] = s[l]
           I == {n \in Nat : n <= Len(s) => F[n] \in Seq(S) /\ From(F[n], n) /\ Ordered(F[n], n)}
<1>2. 0 \in I
  <2>1. F[0] \in Seq(S) /\ Len(F[0]) = 0
    BY <1>1
  <2>2. From(F[0], 0) /\ Ordered(F[0], 0)
    BY <2>1
  <2> HIDE DEF From, Ordered
  <2> QED
    BY <2>1, <2>2
<1>3. ASSUME NEW n \in Nat, n \in I PROVE n + 1 \in I
  <2>1. CASE n + 1 <= Len(s)
    <3> DEFINE old == F[n]
               x == s[n + 1]
               new == F[n + 1]
    <3>1. old \in Seq(S) /\ From(old, n) /\ Ordered(old, n) /\ x \in S /\ Len(old) \in Nat
      <4>1. n <= Len(s) /\ x \in S
        BY <2>1
      <4> HIDE DEF From, Ordered
      <4>2. old \in Seq(S) /\ From(old, n) /\ Ordered(old, n)
        BY <1>3, <4>1
      <4> HIDE DEF old
      <4> QED
        BY <4>1, <4>2
    <3>2. new = IF x \in T THEN Append(old, x) ELSE old
      BY <1>1, <2>1
    <3>3. From(old, n + 1) /\ Ordered(old, n + 1)
      <4> HIDE DEF old
      <4>1. \A k \in 1..n : k \in 1..(n + 1)
        OBVIOUS
      <4>2. From(old, n + 1)
        BY <3>1, <4>1
      <4>3. Ordered(old, n + 1)
        BY <3>1, <4>1
      <4> QED
        BY <4>2, <4>3
    <3>4. CASE x \in T
      <4>1. /\ new \in Seq(S) /\ Len(new) = Len(old) + 1 /\ new[Len(old) + 1] = s[n + 1]
            /\ \A i \in 1..Len(old) : new[i] = old[i]
        BY <3>1, <3>2, <3>4
      <4> HIDE DEF old, new
      <4>2. From(new, n + 1)
        <5> SUFFICES ASSUME NEW i \in 1..Len(new) PROVE \E k \in 1..(n + 1) : new[i] = s[k]
          OBVIOUS
        <5>1. i \in 1..Len(old) \/ i = Len(old) + 1
          BY <3>1, <4>1
        <5> QED
          BY <3>3, <4>1, <5>1
      <4>3. Ordered(new, n + 1)
        <5> SUFFICES ASSUME NEW i \in 1..Len(new), NEW j \in 1..Len(new), i < j
                     PROVE  \E k, l \in 1..(n + 1) : k < l /\ new[i] = s[k] /\ new[j] = s[l]
          OBVIOUS
        <5>1. i \in 1..Len(old) /\ (j \in 1..Len(old) \/ j = Len(old) + 1)
          BY <3>1, <4>1
        <5>2. CASE j \in 1..Len(old)
          <6>1. \E k, l \in 1..(n + 1) : k < l /\ old[i] = s[k] /\ old[j] = s[l]
            BY <3>3, <5>1, <5>2
          <6> QED
            BY <4>1, <5>1, <5>2, <6>1
        <5>3. CASE j = Len(old) + 1
          <6>1. PICK k \in 1..n : old[i] = s[k]
            BY <3>1, <5>1
          <6> QED
            BY <4>1, <5>1, <5>3, <6>1
        <5> QED
          BY <5>1, <5>2, <5>3
      <4> QED
        BY <4>1, <4>2, <4>3 DEF new
    <3>5. CASE x \notin T
      <4>1. new = old
        BY <3>2, <3>5
      <4> HIDE DEF old, new, From, Ordered
      <4>2. new \in Seq(S) /\ From(new, n + 1) /\ Ordered(new, n + 1)
        BY <3>1, <3>3, <4>1
      <4> QED
        BY <4>2 DEF new
    <3> HIDE DEF From, Ordered, old, new
    <3> QED
      BY <3>4, <3>5
  <2>2. CASE ~(n + 1 <= Len(s))
    BY <2>2
  <2> QED
    BY <2>1, <2>2
<1>4. Len(s) \in I
  <2> HIDE DEF I
  <2> QED
    BY <1>2, <1>3, SetInduction
<1>5. F[Len(s)] \in Seq(S) /\ Ordered(F[Len(s)], Len(s))
  <2> HIDE DEF From, Ordered
  <2> QED
    BY <1>4
<1> DEFINE q == Filter(s, T)
<1>6. q \in Seq(S) /\ Ordered(q, Len(s))
  BY <1>1, <1>5
<1> HIDE DEF q
<1> QED
  BY <1>6 DEF q

\* Some element of L is among the first n, and no element of K is before it.
Leads(s, n, L, K) == \E i \in 1..n : s[i] \in L /\ \A j \in 1..(i - 1) : s[j] \notin K

\* Filter keeps an element that it does not delete ahead of those behind it.
LEMMA FilterLeads ==
    ASSUME NEW S, NEW s \in Seq(S), NEW T, NEW L, NEW K, L \subseteq T,
           Leads(s, Len(s), L, K), NEW r, r = Filter(s, T)
    PROVE  Leads(r, Len(r), L, K)
<1>1. PICK F : /\ Filter(s, T) = F[Len(s)] /\ F[0] = <<>>
               /\ \A n \in 1..Len(s) :
                     F[n] = IF s[n] \in T THEN Append(F[n - 1], s[n]) ELSE F[n - 1]
  BY FilterComputes
<1> DEFINE From(q, n) == \A i \in 1..Len(q) : \E k \in 1..n : q[i] = s[k]
           Led(q, n) == Leads(s, n, L, K) => Leads(q, Len(q), L, K)
           I == {n \in Nat : n <= Len(s) => F[n] \in Seq(S) /\ From(F[n], n) /\ Led(F[n], n)}
<1>2. 0 \in I
  <2>1. F[0] \in Seq(S) /\ Len(F[0]) = 0
    BY <1>1
  <2>2. From(F[0], 0) /\ Led(F[0], 0)
    BY <2>1 DEF Leads
  <2> HIDE DEF From, Led
  <2> QED
    BY <2>1, <2>2
<1>3. ASSUME NEW n \in Nat, n \in I PROVE n + 1 \in I
  <2>1. CASE n + 1 <= Len(s)
    <3> DEFINE old == F[n]
               x == s[n + 1]
               new == F[n + 1]
    <3>1. old \in Seq(S) /\ From(old, n) /\ Led(old, n) /\ x \in S /\ Len(old) \in Nat
      <4>1. n <= Len(s) /\ x \in S
        BY <2>1
      <4> HIDE DEF From, Led
      <4>2. old \in Seq(S) /\ From(old, n) /\ Led(old, n)
        BY <1>3, <4>1
      <4> HIDE DEF old
      <4> QED
        BY <4>1, <4>2
    <3>2. new = IF x \in T THEN Append(old, x) ELSE old
      BY <1>1, <2>1
    <3>3. Leads(s, n + 1, L, K) =>
             Leads(s, n, L, K) \/ (x \in L /\ \A j \in 1..n : s[j] \notin K)
      <4> SUFFICES ASSUME NEW i \in 1..(n + 1), s[i] \in L, \A j \in 1..(i - 1) : s[j] \notin K
                   PROVE  Leads(s, n, L, K) \/ (x \in L /\ \A j \in 1..n : s[j] \notin K)
        BY DEF Leads
      <4>1. i \in 1..n \/ i = n + 1
        OBVIOUS
      <4>2. CASE i \in 1..n
        BY <4>2 DEF Leads
      <4>3. CASE i = n + 1
        BY <4>3
      <4> QED
        BY <4>1, <4>2, <4>3
    <3>4. CASE x \in T
      <4>1. /\ new \in Seq(S) /\ Len(new) = Len(old) + 1 /\ new[Len(old) + 1] = s[n + 1]
            /\ \A i \in 1..Len(old) : new[i] = old[i]
        BY <3>1, <3>2, <3>4
      <4> HIDE DEF old, new
      <4>2. From(new, n + 1)
        <5> SUFFICES ASSUME NEW i \in 1..Len(new) PROVE \E k \in 1..(n + 1) : new[i] = s[k]
          OBVIOUS
        <5>1. i \in 1..Len(old) \/ i = Len(old) + 1
          BY <3>1, <4>1
        <5>2. CASE i \in 1..Len(old)
          <6>1. PICK k \in 1..n : old[i] = s[k]
            BY <3>1, <5>2
          <6> QED
            BY <4>1, <5>2, <6>1
        <5>3. CASE i = Len(old) + 1
          BY <4>1, <5>3
        <5> QED
          BY <5>1, <5>2, <5>3
      <4>3. ASSUME Leads(old, Len(old), L, K) PROVE Leads(new, Len(new), L, K)
        <5>1. PICK i \in 1..Len(old) : old[i] \in L /\ \A j \in 1..(i - 1) : old[j] \notin K
          BY <4>3 DEF Leads
        <5>2. i \in 1..Len(new) /\ new[i] \in L
          BY <3>1, <4>1, <5>1
        <5>3. \A j \in 1..(i - 1) : new[j] \notin K
          <6>1. \A j \in 1..(i - 1) : j \in 1..Len(old)
            BY <3>1
          <6> QED
            BY <4>1, <5>1, <6>1
        <5> QED
          BY <5>2, <5>3 DEF Leads
      <4>4. ASSUME x \in L, \A j \in 1..n : s[j] \notin K PROVE Leads(new, Len(new), L, K)
        <5>1. \A i \in 1..Len(old) : new[i] \notin K
          BY <3>1, <4>1, <4>4
        <5>2. Len(old) + 1 \in 1..Len(new) /\ (Len(old) + 1) - 1 = Len(old)
          BY <3>1, <4>1
        <5>3. \A j \in 1..((Len(old) + 1) - 1) : new[j] \notin K
          BY <5>1, <5>2
        <5>4. new[Len(old) + 1] \in L
          BY <4>1, <4>4
        <5> QED
          BY <5>2, <5>3, <5>4 DEF Leads
      <4>5. Led(new, n + 1)
        BY <3>1, <3>3, <4>3, <4>4
      <4> HIDE DEF From, Led
      <4> QED
        BY <4>1, <4>2, <4>5 DEF new
    <3>5. CASE x \notin T
      <4>1. new = old
        BY <3>2, <3>5
      <4> HIDE DEF old, new
      <4>2. \A k \in 1..n : k \in 1..(n + 1)
        OBVIOUS
      <4>3. From(new, n + 1)
        BY <3>1, <4>1, <4>2
      <4>4. Led(new, n + 1)
        BY <3>1, <3>3, <3>5, <4>1
      <4> HIDE DEF From, Led
      <4> QED
        BY <3>1, <4>1, <4>3, <4>4 DEF new
    <3> QED
      BY <3>4, <3>5
  <2>2. CASE ~(n + 1 <= Len(s))
    BY <2>2
  <2> QED
    BY <2>1, <2>2
<1>4. Len(s) \in I
  <2> HIDE DEF I
  <2> QED
    BY <1>2, <1>3, SetInduction
<1>5. Led(F[Len(s)], Len(s))
  <2> HIDE DEF From, Led
  <2> QED
    BY <1>4
<1>6. Led(r, Len(s))
  BY <1>1, <1>5
<1> QED
  BY <1>6

\* Without deletes the elements of T and no other.
LEMMA WithoutSet ==
    ASSUME NEW S, NEW s \in Seq(S), NEW T
    PROVE  Without(s, T) \in Seq(S) /\ ToSet(Without(s, T)) = ToSet(s) \ T
BY FilterSet DEF Without

\* A queue without elements is empty, and only that one.
LEMMA EmptySet ==
    ASSUME NEW S, NEW s \in Seq(S)
    PROVE  ToSet(s) = {} <=> s = <<>>
BY DEF ToSet

\* An empty FIFO holds nothing.
LEMMA NoElements == ToSet(<<>>) = {}
BY DEF ToSet

\* What a FIFO holds is what its positions hold.
LEMMA ElementsOf ==
    ASSUME NEW S, NEW s \in Seq(S)
    PROVE  ToSet(s) \subseteq S /\ (s # <<>> => Head(s) \in ToSet(s))
BY DEF ToSet

\* FIFO_ADD adds the element it is given and nothing else.
LEMMA AppendSet ==
    ASSUME NEW S, NEW s \in Seq(S), NEW x \in S
    PROVE  Append(s, x) \in Seq(S) /\ ToSet(Append(s, x)) = ToSet(s) \cup {x}
<1> DEFINE q == Append(s, x)
<1>1. /\ q \in Seq(S) /\ Len(s) \in Nat /\ Len(q) = Len(s) + 1
      /\ DOMAIN s = 1..Len(s) /\ DOMAIN q = 1..(Len(s) + 1)
      /\ q[Len(s) + 1] = x /\ \A i \in 1..Len(s) : q[i] = s[i]
  OBVIOUS
<1> HIDE DEF q
<1>2. ASSUME NEW y \in ToSet(q) PROVE y \in ToSet(s) \cup {x}
  <2>1. PICK i \in 1..(Len(s) + 1) : q[i] = y
    BY <1>1 DEF ToSet
  <2>2. i \in 1..Len(s) \/ i = Len(s) + 1
    BY <1>1
  <2> QED
    BY <1>1, <2>1, <2>2 DEF ToSet
<1>3. x \in ToSet(q)
  BY <1>1 DEF ToSet
<1>4. ASSUME NEW y \in ToSet(s) PROVE y \in ToSet(q)
  BY <1>1 DEF ToSet
<1>5. q \in Seq(S) /\ ToSet(q) = ToSet(s) \cup {x}
  BY <1>1, <1>2, <1>3, <1>4
<1> QED
  BY <1>5 DEF q

\* Without its head a FIFO holds nothing new.
LEMMA TailSet ==
    ASSUME NEW S, NEW s \in Seq(S), s # <<>>
    PROVE  Tail(s) \in Seq(S) /\ ToSet(Tail(s)) \subseteq ToSet(s)
BY DEF ToSet

\* What a FIFO holds is its head and what its tail holds.
LEMMA HeadTailSet ==
    ASSUME NEW S, NEW s \in Seq(S), s # <<>>
    PROVE  ToSet(s) = {Head(s)} \cup ToSet(Tail(s))
<1>1. /\ Len(s) \in Nat /\ Len(s) > 0 /\ DOMAIN s = 1..Len(s) /\ Head(s) = s[1]
      /\ DOMAIN Tail(s) = 1..(Len(s) - 1) /\ \A i \in 1..(Len(s) - 1) : Tail(s)[i] = s[i + 1]
  OBVIOUS
<1>2. ASSUME NEW x \in ToSet(s) PROVE x \in {Head(s)} \cup ToSet(Tail(s))
  <2>1. PICK i \in 1..Len(s) : s[i] = x
    BY <1>1, <1>2 DEF ToSet
  <2>2. CASE i = 1
    BY <1>1, <2>1, <2>2
  <2>3. CASE i # 1
    <3>1. i - 1 \in 1..(Len(s) - 1) /\ Tail(s)[i - 1] = x
      BY <1>1, <2>1, <2>3
    <3> QED
      BY <1>1, <3>1 DEF ToSet
  <2> QED
    BY <2>2, <2>3
<1> QED
  BY <1>2, ElementsOf, TailSet

\* A FIFO with one element.
LEMMA OneElement ==
    ASSUME NEW S, NEW s \in Seq(S), Len(s) = 1
    PROVE  s # <<>> /\ ToSet(s) = {s[1]} /\ ToSet(Tail(s)) = {}
<1>1. s # <<>>
  OBVIOUS
<1>2. DOMAIN s = {1}
  OBVIOUS
<1> DEFINE t == Tail(s)
<1>3. t \in Seq(S) /\ Len(t) = 0
  BY <1>1, TailSet
<1> HIDE DEF t
<1>4. ToSet(t) = {}
  BY <1>3 DEF ToSet
<1> QED
  BY <1>1, <1>2, <1>4 DEF ToSet, t

\* The first elements of a FIFO are some of its elements.
LEMMA FirstSet ==
    ASSUME NEW S, NEW s \in Seq(S), NEW n \in Nat
    PROVE  First(s, n) \in Seq(S) /\ ToSet(First(s, n)) \subseteq ToSet(s)
BY DEF First, ToSet

\* The order does not matter to what a FIFO holds.
LEMMA ReverseSet ==
    ASSUME NEW S, NEW s \in Seq(S)
    PROVE  Reverse(s) \in Seq(S) /\ ToSet(Reverse(s)) = ToSet(s)
<1>1. /\ Reverse(s) \in Seq(S) /\ DOMAIN Reverse(s) = 1..Len(s) /\ DOMAIN s = 1..Len(s)
      /\ Len(s) \in Nat /\ \A i \in 1..Len(s) : Reverse(s)[i] = s[Len(s) - i + 1]
  BY DEF Reverse
<1>2. ASSUME NEW y \in ToSet(s) PROVE y \in ToSet(Reverse(s))
  <2>1. PICK i \in 1..Len(s) : s[i] = y
    BY <1>1 DEF ToSet
  <2>2. Len(s) - i + 1 \in 1..Len(s) /\ Len(s) - (Len(s) - i + 1) + 1 = i
    BY <1>1
  <2>3. Reverse(s)[Len(s) - i + 1] = y
    BY <1>1, <2>1, <2>2
  <2> QED
    BY <1>1, <2>2, <2>3 DEF ToSet
<1>3. ASSUME NEW y \in ToSet(Reverse(s)) PROVE y \in ToSet(s)
  <2>1. PICK i \in 1..Len(s) : Reverse(s)[i] = y
    BY <1>1 DEF ToSet
  <2>2. Len(s) - i + 1 \in 1..Len(s)
    BY <1>1
  <2> QED
    BY <1>1, <2>1, <2>2 DEF ToSet
<1> QED
  BY <1>1, <1>2, <1>3

\* Two FIFOs one after the other hold what each of them holds.
LEMMA ConcatSet ==
    ASSUME NEW S, NEW s \in Seq(S), NEW t \in Seq(S)
    PROVE  s \o t \in Seq(S) /\ ToSet(s \o t) = ToSet(s) \cup ToSet(t)
<1> DEFINE q == s \o t
<1>1. /\ q \in Seq(S) /\ Len(s) \in Nat /\ Len(t) \in Nat
      /\ DOMAIN s = 1..Len(s) /\ DOMAIN t = 1..Len(t) /\ DOMAIN q = 1..(Len(s) + Len(t))
      /\ \A i \in 1..(Len(s) + Len(t)) : q[i] = IF i <= Len(s) THEN s[i] ELSE t[i - Len(s)]
  OBVIOUS
<1> HIDE DEF q
<1>2. ASSUME NEW y \in ToSet(q) PROVE y \in ToSet(s) \cup ToSet(t)
  <2>1. PICK i \in 1..(Len(s) + Len(t)) : q[i] = y
    BY <1>1 DEF ToSet
  <2>2. i \in 1..Len(s) \/ i - Len(s) \in 1..Len(t)
    BY <1>1
  <2>4. CASE i \in 1..Len(s)
    <3>1. y = s[i]
      BY <1>1, <2>1, <2>4
    <3> QED
      BY <1>1, <2>4, <3>1 DEF ToSet
  <2>5. CASE i - Len(s) \in 1..Len(t)
    <3>1. y = t[i - Len(s)]
      BY <1>1, <2>1, <2>5
    <3> QED
      BY <1>1, <2>5, <3>1 DEF ToSet
  <2> QED
    BY <2>2, <2>4, <2>5
<1>3. ASSUME NEW y \in ToSet(s) PROVE y \in ToSet(q)
  <2>1. PICK i \in 1..Len(s) : s[i] = y
    BY <1>1 DEF ToSet
  <2> QED
    BY <1>1, <2>1 DEF ToSet
<1>4. ASSUME NEW y \in ToSet(t) PROVE y \in ToSet(q)
  <2>1. PICK i \in 1..Len(t) : t[i] = y
    BY <1>1 DEF ToSet
  <2>2. Len(s) + i \in 1..(Len(s) + Len(t)) /\ ~(Len(s) + i <= Len(s)) /\ Len(s) + i - Len(s) = i
    BY <1>1
  <2>3. q[Len(s) + i] = y
    BY <1>1, <2>1, <2>2
  <2> QED
    BY <1>1, <2>2, <2>3 DEF ToSet
<1>5. q \in Seq(S) /\ ToSet(q) = ToSet(s) \cup ToSet(t)
  BY <1>1, <1>2, <1>3, <1>4
<1> QED
  BY <1>5 DEF q

\* Behind the head of a FIFO to which another one was added.
LEMMA TailConcatSet ==
    ASSUME NEW S, NEW s \in Seq(S), NEW t \in Seq(S), s # <<>>
    PROVE  ToSet(Tail(s \o t)) \subseteq ToSet(Tail(s)) \cup ToSet(t)
<1> DEFINE q == s \o t
<1>1. /\ q \in Seq(S) /\ Len(s) \in Nat /\ Len(t) \in Nat /\ Len(s) > 0 /\ q # <<>>
      /\ DOMAIN t = 1..Len(t) /\ Len(q) = Len(s) + Len(t)
      /\ \A i \in 1..(Len(s) + Len(t)) : q[i] = IF i <= Len(s) THEN s[i] ELSE t[i - Len(s)]
  OBVIOUS
<1> HIDE DEF q
<1>2. /\ DOMAIN Tail(q) = 1..(Len(s) + Len(t) - 1)
      /\ \A i \in 1..(Len(s) + Len(t) - 1) : Tail(q)[i] = q[i + 1]
  BY <1>1
<1>3. /\ DOMAIN Tail(s) = 1..(Len(s) - 1)
      /\ \A i \in 1..(Len(s) - 1) : Tail(s)[i] = s[i + 1]
  BY <1>1
<1>4. ASSUME NEW x \in ToSet(Tail(q)) PROVE x \in ToSet(Tail(s)) \cup ToSet(t)
  <2>1. PICK i \in 1..(Len(s) + Len(t) - 1) : q[i + 1] = x
    BY <1>2, <1>4 DEF ToSet
  <2>2. CASE i + 1 <= Len(s)
    <3>1. i \in 1..(Len(s) - 1) /\ Tail(s)[i] = x
      BY <1>1, <1>3, <2>1, <2>2
    <3> QED
      BY <1>3, <3>1 DEF ToSet
  <2>3. CASE i + 1 > Len(s)
    <3>1. i + 1 - Len(s) \in 1..Len(t) /\ t[i + 1 - Len(s)] = x
      BY <1>1, <2>1, <2>3
    <3> QED
      BY <1>1, <3>1 DEF ToSet
  <2> QED
    BY <1>1, <2>2, <2>3
<1> QED
  BY <1>4 DEF q

\* SetToSeq lists a finite set.
LEMMA SetToSeqSet ==
    ASSUME NEW S, IsFiniteSet(S)
    PROVE  SetToSeq(S) \in Seq(S) /\ ToSet(SetToSeq(S)) = S
<1>1. Cardinality(S) \in Nat /\ ExistsBijection(1..Cardinality(S), S)
  BY FS_CardinalityType
<1>2. \E f \in [1..Cardinality(S) -> S] : IsInjective(f)
  BY <1>1 DEF ExistsBijection, Bijection, Injection, IsInjective
<1>3. SetToSeq(S) \in [1..Cardinality(S) -> S] /\ IsInjective(SetToSeq(S))
  BY <1>2 DEF SetToSeq
<1>4. SetToSeq(S) \in Injection(1..Cardinality(S), S)
  BY <1>3 DEF Injection, IsInjective
<1>5. Cardinality(1..Cardinality(S)) = Cardinality(S)
  BY <1>1, FS_Interval
<1>6. SetToSeq(S) \in Surjection(1..Cardinality(S), S)
  BY <1>4, <1>5, FS_Injection
<1> QED
  BY <1>1, <1>3, <1>6 DEF Surjection, ToSet

-----------------------------------------------------------------------------
(***************************************************************************)
(* Recursion along a sequence: from a first value, each place makes the    *)
(* next value of the one before.                                           *)
(***************************************************************************)
Steps(N, S) == [(1..N) \X S -> S]

Follows(f, N, S, first, step) ==
    f \in [0..N -> S] /\ f[0] = first /\ \A n \in 1..N : f[n] = step[<<n, f[n - 1]>>]

\* There is a function that such a recursion defines.
LEMMA Recursion ==
    ASSUME NEW S, NEW N \in Nat, NEW first \in S, NEW step \in Steps(N, S)
    PROVE  \E f : Follows(f, N, S, first, step)
<1> DEFINE Good(f, m) == f[0] = first /\ \A n \in 1..m : f[n] = step[<<n, f[n - 1]>>]
           I == {m \in Nat : m <= N => \E f \in [0..m -> S] : Good(f, m)}
<1>1. 0 \in I
  <2> DEFINE f == [n \in 0..0 |-> first]
  <2>1. f \in [0..0 -> S] /\ Good(f, 0)
    OBVIOUS
  <2> QED
    BY <2>1
<1>2. ASSUME NEW m \in Nat, m \in I PROVE m + 1 \in I
  <2>1. CASE m + 1 <= N
    <3>1. PICK f \in [0..m -> S] : Good(f, m)
      BY <1>2, <2>1
    <3> DEFINE last == step[<<m + 1, f[m]>>]
               g == [n \in 0..(m + 1) |-> IF n <= m THEN f[n] ELSE last]
    <3>2. last \in S
      BY <2>1 DEF Steps
    <3>3. g \in [0..(m + 1) -> S]
      BY <3>2
    <3>4. (\A n \in 0..m : g[n] = f[n]) /\ g[m + 1] = last
      OBVIOUS
    <3> HIDE DEF g
    <3>5. g[0] = first
      BY <3>1, <3>4
    <3>6. ASSUME NEW n \in 1..(m + 1) PROVE g[n] = step[<<n, g[n - 1]>>]
      <4>1. CASE n = m + 1
        BY <3>4, <4>1
      <4>2. CASE n \in 1..m
        BY <3>1, <3>4, <4>2
      <4> QED
        BY <4>1, <4>2
    <3>7. Good(g, m + 1)
      BY <3>5, <3>6
    <3>8. \E h \in [0..(m + 1) -> S] : Good(h, m + 1)
      BY <3>3, <3>7
    <3> HIDE DEF Good
    <3> QED
      BY <3>8
  <2>2. CASE ~(m + 1 <= N)
    BY <2>2
  <2> QED
    BY <2>1, <2>2
<1>3. N \in I
  <2> HIDE DEF I
  <2> QED
    BY <1>1, <1>2, SetInduction
<1> QED
  BY <1>3 DEF Follows
=============================================================================
