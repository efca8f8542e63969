------------------------------ MODULE Strk20Proofs ------------------------------
(***************************************************************************)
(* Theorems about Strk20 and its planner, for any requests, intents, pools *)
(* and heights.  The planner's folds are data of any length: the lemmas    *)
(* that run through them are proved by least counterexamples.              *)
(***************************************************************************)
EXTENDS Strk20, FiniteSetTheorems, SequenceTheorems, TLAPS

--------------------------------------------------------------------------------
(* Induction.                                                              *)

NatLess == {ss \in Nat \X Nat : ss[1] < ss[2]}
LEMMA NatLessWellFounded == IsWellFoundedOn(NatLess, Nat)
BY NatLessThanWellFounded DEF OpToRel, NatLess

\* A set of naturals has a least member.
LEMMA LeastNat ==
  ASSUME NEW T, T \subseteq Nat, T # {}
  PROVE  \E n \in T : \A m \in T : n <= m
<1>1. PICK n \in T : \A m \in T : ~ (<<m, n>> \in NatLess) BY NatLessWellFounded, WFMin
<1>2. ASSUME NEW m \in T, m < n PROVE FALSE
  <2>1. <<m, n>> \in Nat \X Nat /\ <<m, n>>[1] < <<m, n>>[2] BY <1>2
  <2> QED BY <1>1, <2>1 DEF NatLess
<1> QED BY <1>2

\* Induction over the naturals, and over the subsets of a finite set.
LEMMA NatSetInduction ==
  ASSUME NEW T, 0 \in T, \A n \in Nat : n \in T => n + 1 \in T
  PROVE  \A n \in Nat : n \in T
<1> SUFFICES ASSUME NEW n \in Nat, n \notin T PROVE FALSE OBVIOUS
<1> DEFINE Bad == {k \in Nat : k \notin T}
<1>1. PICK k \in Bad : \A m \in Bad : k <= m BY LeastNat
<1>2. k # 0 /\ k - 1 \in Nat /\ k - 1 \in T BY <1>1
<1> QED BY <1>1, <1>2

\* Of some subsets of a finite set, one contains no other.
LEMMA LeastSet ==
  ASSUME NEW S, IsFiniteSet(S), NEW Bad, Bad \subseteq SUBSET S, Bad # {}
  PROVE  \E T \in Bad : \A U \in SUBSET T : U # T => U \notin Bad
<1>1. Bad \subseteq FiniteSubsetsOf(S) BY FS_FiniteSubsetsOfFinite
<1>2. PICK T \in Bad : \A U \in Bad : ~ (<<U, T>> \in StrictSubsetOrdering(S))
  <2>1. IsWellFoundedOn(StrictSubsetOrdering(S), FiniteSubsetsOf(S)) BY FS_StrictSubsetOrderingWellFounded
  <2> QED BY <1>1, <2>1, WFMin
<1>3. ASSUME NEW U \in SUBSET T, U # T PROVE <<U, T>> \in StrictSubsetOrdering(S)
  <2>1. <<U, T>> \in (SUBSET S) \X (SUBSET S) OBVIOUS
  <2>2. <<U, T>>[1] \subseteq <<U, T>>[2] /\ <<U, T>>[1] # <<U, T>>[2] BY <1>3
  <2> QED BY <2>1, <2>2 DEF StrictSubsetOrdering
<1>4. \A U \in SUBSET T : U # T => U \notin Bad BY <1>2, <1>3
<1> QED BY <1>4

LEMMA FiniteSetInduction ==
  ASSUME NEW S, IsFiniteSet(S), NEW F, {} \in F,
         \A T \in SUBSET S : \A x \in S \ T : T \in F => T \cup {x} \in F
  PROVE  S \in F
<1> SUFFICES ASSUME S \notin F PROVE FALSE OBVIOUS
<1> DEFINE Bad == {T \in SUBSET S : T \notin F}
<1>1. PICK T \in Bad : \A U \in SUBSET T : U # T => U \notin Bad
  <2>1. Bad \subseteq SUBSET S /\ Bad # {} OBVIOUS
  <2> HIDE DEF Bad
  <2> QED BY <2>1, LeastSet
<1>2. PICK x \in T : TRUE OBVIOUS
<1>3. T \ {x} \in F BY <1>1, <1>2
<1>4. T = (T \ {x}) \cup {x} BY <1>2
<1> QED BY <1>1, <1>2, <1>3, <1>4

--------------------------------------------------------------------------------
(* Folds: they exist, and a fold from the left runs through its prefixes.  *)

\* it is the fold of a set, for every subset of it.
IsFold(it, S, V, b, step, ch) ==
    /\ it \in [SUBSET S -> V]
    /\ \A T \in SUBSET S : it[T] = IF T = {} THEN b ELSE step[<<ch[T], it[T \ {ch[T]}]>>]

Closed(step, S, V) == \A x \in S, v \in V : step[<<x, v>>] \in V

Chooses(ch, S) == \A T \in SUBSET S : T # {} => ch[T] \in T

LEMMA FoldExists ==
  ASSUME NEW S, IsFiniteSet(S), NEW V, NEW b \in V, NEW step, NEW ch,
         Chooses(ch, S), Closed(step, S, V)
  PROVE  \E it : IsFold(it, S, V, b, step, ch)
<1> USE DEF Chooses, Closed
<1> DEFINE Of(n) == {T \in SUBSET S : Cardinality(T) <= n}
           Ok(n) == \E it \in [Of(n) -> V] :
                       \A T \in Of(n) : it[T] = IF T = {} THEN b ELSE step[<<ch[T], it[T \ {ch[T]}]>>]
           N == {n \in Nat : Ok(n)}
<1>0. \A T \in SUBSET S : IsFiniteSet(T) /\ Cardinality(T) \in Nat
  BY FS_Subset, FS_CardinalityType
<1>1. 0 \in N
  <2>1. \A T \in Of(0) : T = {} BY <1>0, FS_EmptySet
  <2>2. [T \in Of(0) |-> b] \in [Of(0) -> V] OBVIOUS
  <2>3. Ok(0) BY <2>1, <2>2
  <2> QED BY <2>3
<1>2. ASSUME NEW n \in Nat, n \in N PROVE n + 1 \in N
  <2>1. PICK it \in [Of(n) -> V] :
           \A T \in Of(n) : it[T] = IF T = {} THEN b ELSE step[<<ch[T], it[T \ {ch[T]}]>>]
    BY <1>2
  <2> DEFINE jt == [T \in Of(n + 1) |-> IF T \in Of(n) THEN it[T] ELSE step[<<ch[T], it[T \ {ch[T]}]>>]]
  <2>2. \A T \in Of(n + 1) : T # {} => ch[T] \in T /\ ch[T] \in S /\ T \ {ch[T]} \in Of(n)
    <3>1. SUFFICES ASSUME NEW T \in Of(n + 1), T # {} PROVE ch[T] \in T /\ ch[T] \in S /\ T \ {ch[T]} \in Of(n)
      OBVIOUS
    <3>2. ch[T] \in T BY <3>1
    <3>3. Cardinality(T \ {ch[T]}) = Cardinality(T) - 1 BY <1>0, <3>2, FS_RemoveElement
    <3>4. Cardinality(T) \in Nat BY <1>0
    <3> QED BY <3>2, <3>3, <3>4
  <2>3. Of(n) \subseteq Of(n + 1) BY <1>0
  <2>4. {} \in Of(n) BY FS_EmptySet
  <2>5. jt \in [Of(n + 1) -> V]
    <3>1. ASSUME NEW T \in Of(n + 1), T \notin Of(n) PROVE step[<<ch[T], it[T \ {ch[T]}]>>] \in V
      <4>1. it[T \ {ch[T]}] \in V /\ ch[T] \in S BY <2>1, <2>2, <2>4, <3>1
      <4> QED BY <4>1
    <3>2. \A T \in Of(n) : it[T] \in V BY <2>1
    <3> HIDE DEF Of
    <3> QED BY <3>1, <3>2
  <2>6. ASSUME NEW T \in Of(n + 1) PROVE jt[T] = IF T = {} THEN b ELSE step[<<ch[T], jt[T \ {ch[T]}]>>]
    <3>0. T # {} => T \ {ch[T]} \in Of(n) /\ T \ {ch[T]} \in Of(n + 1) /\ ch[T] \in T BY <2>2, <2>3, <2>6
    <3>1. CASE T \in Of(n)
      <4>1. jt[T] = it[T] BY <2>6, <3>1
      <4>2. T # {} => jt[T \ {ch[T]}] = it[T \ {ch[T]}] BY <3>0
      <4>3. it[T] = IF T = {} THEN b ELSE step[<<ch[T], it[T \ {ch[T]}]>>] BY <2>1, <3>1
      <4> HIDE DEF jt, Of
      <4> QED BY <4>1, <4>2, <4>3
    <3>2. CASE T \notin Of(n)
      <4>1. T # {} BY <2>4, <3>2
      <4>2. jt[T] = step[<<ch[T], it[T \ {ch[T]}]>>] BY <2>6, <3>2
      <4>3. jt[T \ {ch[T]}] = it[T \ {ch[T]}] BY <3>0, <4>1
      <4> HIDE DEF jt, Of
      <4> QED BY <4>1, <4>2, <4>3
    <3> QED BY <3>1, <3>2
  <2> HIDE DEF jt, Of
  <2>7. Ok(n + 1) BY <2>5, <2>6
  <2>8. n + 1 \in Nat OBVIOUS
  <2> HIDE DEF Ok
  <2> QED BY <2>7, <2>8
<1> HIDE DEF N
<1>3. Cardinality(S) \in N BY <1>0, <1>1, <1>2, NatSetInduction
<1>4. Of(Cardinality(S)) = SUBSET S BY <1>0, FS_Subset
<1>5. Ok(Cardinality(S)) BY <1>3 DEF N
<1> HIDE DEF Of
<1> QED BY <1>4, <1>5 DEF IsFold

LEMMA MaxOfInterval ==
  ASSUME NEW k \in Nat \ {0}
  PROVE  Max(1..k) = k
BY DEF Max

LEMMA MaxIsMember ==
  ASSUME NEW n \in Nat, NEW T \in SUBSET (1..n), T # {}
  PROVE  Max(T) \in T
<1>1. PICK m \in {n - x : x \in T} : \A y \in {n - x : x \in T} : m <= y
  <2>1. \A x \in T : x \in 1..n /\ n - x \in Nat OBVIOUS
  <2>2. {n - x : x \in T} \subseteq Nat BY <2>1
  <2>3. {n - x : x \in T} # {} OBVIOUS
  <2> QED BY <2>2, <2>3, LeastNat
<1>2. PICK x \in T : m = n - x OBVIOUS
<1>3. \A y \in T : x >= y
  <2> TAKE y \in T
  <2>1. m <= n - y BY <1>1
  <2>2. x \in 1..n /\ y \in 1..n OBVIOUS
  <2> QED BY <1>2, <2>1, <2>2
<1> QED BY <1>3 DEF Max

IsPrefixFold(it, n, V, b, step) ==
    /\ it \in [SUBSET (1..n) -> V]
    /\ \A T \in SUBSET (1..n) : it[T] = IF T = {} THEN b ELSE step[<<Max(T), it[T \ {Max(T)}]>>]

LEMMA FoldPrefixes ==
  ASSUME NEW n \in Nat, NEW V, NEW b \in V, NEW step, Closed(step, 1..n, V)
  PROVE  \E it : IsPrefixFold(it, n, V, b, step)
<1> DEFINE ch == [T \in SUBSET (1..n) |-> Max(T)]
<1>1. \A T \in SUBSET (1..n) : ch[T] = Max(T) OBVIOUS
<1>2. Chooses(ch, 1..n) BY MaxIsMember DEF Chooses
<1>3. IsFiniteSet(1..n) BY FS_Interval
<1> HIDE DEF ch
<1>4. PICK it : IsFold(it, 1..n, V, b, step, ch) BY <1>2, <1>3, FoldExists
<1>5. IsPrefixFold(it, n, V, b, step) BY <1>1, <1>4 DEF IsFold, IsPrefixFold
<1> QED BY <1>5

\* The values of a fold from the left over 1..n, prefix by prefix.
IsRun(acc, n, V, b, step, result) ==
    /\ acc \in [0..n -> V]
    /\ acc[0] = b /\ acc[n] = result
    /\ \A k \in 1..n : acc[k] = step[<<k, acc[k - 1]>>]

\* iter takes one step for the last index of a set, on its value for the rest.
Steps(iter, n, V, b, step) ==
    /\ iter[{}] = b
    /\ \A T \in SUBSET (1..n) :
          T # {} /\ iter[T \ {Max(T)}] \in V => iter[T] = step[<<Max(T), iter[T \ {Max(T)}]>>]

LEMMA FoldIsRun ==
  ASSUME NEW n \in Nat, NEW V, NEW b \in V, NEW step, Closed(step, 1..n, V), NEW iter, Steps(iter, n, V, b, step)
  PROVE  \E acc : IsRun(acc, n, V, b, step, iter[1..n])
<1> USE DEF Steps
<1> DEFINE acc == [k \in 0..n |-> iter[1..k]]
           T == {k \in Nat : k <= n => acc[k] \in V}
<1>1. acc[0] = b
  <2>1. 1..0 = {} OBVIOUS
  <2> QED BY <2>1
<1>2. ASSUME NEW k \in 1..n, acc[k - 1] \in V PROVE acc[k] = step[<<k, acc[k - 1]>>] /\ acc[k] \in V
  <2>1. Max(1..k) = k /\ (1..k) \ {k} = 1..(k - 1) BY MaxOfInterval
  <2>2. k \in 1..k /\ k - 1 \in 0..n /\ k \in 0..n OBVIOUS
  <2>3. 1..k \in SUBSET (1..n) OBVIOUS
  <2>4. acc[k - 1] = iter[1..(k - 1)] /\ acc[k] = iter[1..k] BY <2>2
  <2> HIDE DEF acc
  <2>5. iter[1..k] = step[<<k, iter[1..(k - 1)]>>] BY <1>2, <2>1, <2>2, <2>3, <2>4
  <2> QED BY <1>2, <2>4, <2>5 DEF Closed
<1>3. 0 \in T BY <1>1
<1>4. ASSUME NEW k \in Nat, k \in T PROVE k + 1 \in T
  <2> SUFFICES ASSUME k + 1 <= n PROVE acc[k + 1] \in V OBVIOUS
  <2>1. acc[k] \in V /\ k + 1 \in 1..n /\ (k + 1) - 1 = k BY <1>4
  <2> HIDE DEF acc
  <2> QED BY <1>2, <2>1
<1> HIDE DEF T
<1>5. \A k \in Nat : k \in T BY <1>3, <1>4, NatSetInduction
<1>6. \A k \in 0..n : acc[k] \in V
  <2> TAKE k \in 0..n
  <2>1. k \in Nat /\ k <= n OBVIOUS
  <2> HIDE DEF acc
  <2> QED BY <1>5, <2>1 DEF T
<1>7. \A k \in 1..n : k - 1 \in 0..n OBVIOUS
<1>8. IsRun(acc, n, V, b, step, iter[1..n])
  <2>1. \A k \in 1..n : acc[k] = step[<<k, acc[k - 1]>>] BY <1>2, <1>6, <1>7
  <2>2. acc \in [0..n -> V] BY <1>6
  <2>3. acc[n] = iter[1..n] OBVIOUS
  <2> HIDE DEF acc
  <2> QED BY <1>1, <2>1, <2>2, <2>3 DEF IsRun
<1> QED BY <1>8

--------------------------------------------------------------------------------
(* Sequences, and lists without gaps.                                      *)

LEMMA SeqFacts ==
  ASSUME NEW X, NEW list \in Seq(X)
  PROVE  /\ Len(list) \in Nat /\ DOMAIN list = 1..Len(list)
         /\ ToSet(list) = {list[i] : i \in 1..Len(list)}
         /\ \A i \in 1..Len(list) : list[i] \in X
BY DEF ToSet

LEMMA SeqByItems ==
  ASSUME NEW n \in Nat, NEW X, NEW list, list = [i \in 1..n |-> list[i]], \A i \in 1..n : list[i] \in X
  PROVE  list \in Seq(X) /\ Len(list) = n
OBVIOUS

\* The sequence of a set's members has each of them once.
LEMMA SetToSeqFacts ==
  ASSUME NEW S, IsFiniteSet(S), NEW list, list = SetToSeq(S)
  PROVE  /\ list \in Seq(S) /\ Len(list) = Cardinality(S)
         /\ \A i, j \in DOMAIN list : list[i] = list[j] => i = j
         /\ ToSet(list) = S
<1> DEFINE n == Cardinality(S)
<1>1. n \in Nat /\ ExistsBijection(1..n, S) BY FS_CardinalityType
<1>2. IsFiniteSet(1..n) /\ Cardinality(1..n) = n BY <1>1, FS_Interval
<1> HIDE DEF n
<1>3. \E f \in [1..n -> S] : IsInjective(f) BY <1>1 DEF ExistsBijection, Bijection, Injection
<1>4. list \in [1..n -> S] /\ IsInjective(list) BY <1>3 DEF SetToSeq, n
<1>5. list \in Injection(1..n, S) BY <1>4 DEF Injection
<1>6. list \in Surjection(1..n, S) BY <1>2, <1>5, FS_Injection DEF n
<1>7. \A x \in S : \E i \in 1..n : list[i] = x BY <1>6 DEF Surjection
<1>8. list \in Seq(S) /\ Len(list) = n BY <1>1, <1>4
<1>9. ToSet(list) = S BY <1>4, <1>7 DEF ToSet
<1>10. \A i, j \in DOMAIN list : list[i] = list[j] => i = j BY <1>4 DEF IsInjective
<1> QED BY <1>8, <1>9, <1>10 DEF n

LEMMA DistinctValues ==
  ASSUME NEW n \in Nat, NEW f, DOMAIN f = 1..n, \A i, j \in 1..n : f[i] = f[j] => i = j
  PROVE  Cardinality({f[i] : i \in 1..n}) = n
<1> DEFINE g == [i \in 1..n |-> f[i]]
           T == {f[i] : i \in 1..n}
<1>1. IsFiniteSet(1..n) /\ Cardinality(1..n) = n BY FS_Interval
<1>2. g \in Surjection(1..n, T) BY DEF Surjection
<1>3. g \in Injection(1..n, T) BY DEF Injection, IsInjective
<1> HIDE DEF g, T
<1>4. Cardinality(T) = Cardinality(1..n) BY <1>1, <1>2, <1>3, FS_Surjection
<1> QED BY <1>1, <1>4 DEF T

LEMMA SlotsFirstFree ==
  ASSUME NEW S, IsFiniteSet(S), Dense(S)
  PROVE  FirstFree(Slots(S)) = Cardinality(S)
<1> DEFINE n == Cardinality(S)
<1>1. n \in Nat BY FS_CardinalityType
<1>2. Slots(S) = 0..(n - 1) BY DEF Dense
<1>3. Cardinality(0..(n - 1)) = n BY <1>1, FS_Interval
<1> HIDE DEF n
<1>4. \A i \in 0..n : i \notin 0..(n - 1) /\ 0..(i - 1) \subseteq 0..(n - 1) <=> i = n BY <1>1
<1>5. FirstFree(Slots(S)) = CHOOSE i \in 0..n : i \notin 0..(n - 1) /\ 0..(i - 1) \subseteq 0..(n - 1)
  BY <1>2, <1>3 DEF FirstFree
<1>6. n \in 0..n BY <1>1
<1>7. FirstFree(Slots(S)) = n BY <1>4, <1>5, <1>6
<1> QED BY <1>7 DEF n

\* As many slots as things: no two things share one.
LEMMA DenseIsInjective ==
  ASSUME NEW S, IsFiniteSet(S), Dense(S)
  PROVE  \A x, y \in S : x.index = y.index => x = y
<1> DEFINE n == Cardinality(S)
           f == [x \in S |-> x.index]
<1>1. n \in Nat BY FS_CardinalityType
<1>2. IsFiniteSet(0..(n - 1)) /\ Cardinality(0..(n - 1)) = n BY <1>1, FS_Interval
<1>3. Slots(S) = 0..(n - 1) BY DEF Dense
<1>4. f \in Surjection(S, 0..(n - 1)) BY <1>3 DEF Surjection, Slots
<1>5. f \in Injection(S, 0..(n - 1)) BY <1>2, <1>4, FS_SurjSameCardinalityImpliesInj
<1> QED BY <1>5 DEF Injection, IsInjective

LEMMA DenseByIndex ==
  ASSUME NEW S, NEW n \in Nat, Slots(S) = 0..(n - 1), \A x, y \in S : x.index = y.index => x = y
  PROVE  IsFiniteSet(S) /\ Cardinality(S) = n /\ Dense(S)
<1> DEFINE f == [x \in S |-> x.index]
<1>1. IsFiniteSet(0..(n - 1)) /\ Cardinality(0..(n - 1)) = n BY FS_Interval
<1>2. f \in Injection(S, 0..(n - 1)) BY DEF Injection, IsInjective, Slots
<1>3. f \in Surjection(S, 0..(n - 1)) BY DEF Surjection, Slots
<1>4. IsFiniteSet(S) /\ Cardinality(S) = n BY <1>1, <1>2, <1>3, FS_Injection
<1> QED BY <1>4 DEF Dense

LEMMA DenseExtended ==
  ASSUME NEW S, IsFiniteSet(S), Dense(S), NEW T, NEW m \in Nat,
         Slots(T) = Cardinality(S)..(Cardinality(S) + m - 1), \A x, y \in T : x.index = y.index => x = y
  PROVE  IsFiniteSet(S \cup T) /\ Cardinality(S \cup T) = Cardinality(S) + m /\ Dense(S \cup T)
<1> DEFINE n == Cardinality(S)
<1>1. n \in Nat BY FS_CardinalityType
<1>2. Slots(S) = 0..(n - 1) BY DEF Dense
<1>3. \A x \in S : x.index \in 0..(n - 1) BY <1>2 DEF Slots
<1>4. \A x \in T : x.index \in n..(n + m - 1) BY DEF Slots
<1>5. Slots(S \cup T) = Slots(S) \cup Slots(T) BY DEF Slots
<1> HIDE DEF n
<1>6. Slots(S \cup T) = 0..((n + m) - 1)
  <2>1. Slots(T) = n..(n + m - 1) BY DEF n
  <2>2. 0..(n - 1) \cup n..(n + m - 1) = 0..((n + m) - 1) BY <1>1
  <2> QED BY <1>2, <1>5, <2>1, <2>2
<1>7. \A x, y \in S \cup T : x.index = y.index => x = y BY <1>1, <1>3, <1>4, DenseIsInjective
<1>8. n + m \in Nat BY <1>1
<1> QED BY <1>6, <1>7, <1>8, DenseByIndex DEF n

--------------------------------------------------------------------------------
(* Sums.                                                                   *)

\* The sum of w[1] to w[n].
SumOf(w, n) == (CHOOSE f \in [0..n -> Nat] : f[0] = 0 /\ \A k \in 1..n : f[k] = f[k - 1] + w[k])[n]

LEMMA SumExists ==
  ASSUME NEW n \in Nat, NEW w, \A k \in 1..n : w[k] \in Nat
  PROVE  \E f \in [0..n -> Nat] : f[0] = 0 /\ \A k \in 1..n : f[k] = f[k - 1] + w[k]
<1> DEFINE Ok(m) == \E f \in [0..m -> Nat] : f[0] = 0 /\ \A k \in 1..m : f[k] = f[k - 1] + w[k]
           T == {m \in Nat : m <= n => Ok(m)}
<1>1. 0 \in T
  <2> DEFINE f == [k \in 0..0 |-> 0]
  <2>1. f \in [0..0 -> Nat] /\ f[0] = 0 OBVIOUS
  <2>2. 1..0 = {} OBVIOUS
  <2> HIDE DEF f
  <2>3. Ok(0) BY <2>1, <2>2
  <2> QED BY <2>3
<1>2. ASSUME NEW m \in Nat, m \in T PROVE m + 1 \in T
  <2> SUFFICES ASSUME m + 1 <= n PROVE Ok(m + 1) OBVIOUS
  <2>1. PICK f \in [0..m -> Nat] : f[0] = 0 /\ \A k \in 1..m : f[k] = f[k - 1] + w[k] BY <1>2
  <2> DEFINE g == [k \in 0..(m + 1) |-> IF k = m + 1 THEN f[m] + w[m + 1] ELSE f[k]]
  <2>2. w[m + 1] \in Nat /\ f[m] \in Nat OBVIOUS
  <2>3. \A k \in 0..(m + 1) : g[k] \in Nat BY <2>2
  <2>4. g \in [0..(m + 1) -> Nat] BY <2>3
  <2>5. g[0] = 0 BY <2>1
  <2>6. ASSUME NEW k \in 1..(m + 1) PROVE g[k] = g[k - 1] + w[k]
    <3>1. k - 1 \in 0..m /\ g[k - 1] = f[k - 1] OBVIOUS
    <3>2. CASE k = m + 1
      <4>1. g[k] = f[m] + w[m + 1] /\ k - 1 = m BY <3>2
      <4> HIDE DEF g
      <4> QED BY <3>1, <3>2, <4>1
    <3>3. CASE k # m + 1
      <4>1. k \in 1..m /\ g[k] = f[k] BY <3>3
      <4> QED BY <2>1, <3>1, <4>1
    <3> QED BY <3>2, <3>3
  <2> HIDE DEF g
  <2> QED BY <2>4, <2>5, <2>6
<1> HIDE DEF T
<1>3. n \in T BY <1>1, <1>2, NatSetInduction
<1> HIDE DEF Ok
<1>4. Ok(n) BY <1>3 DEF T
<1> QED BY <1>4 DEF Ok

\* Whatever adds up like the sum is the sum.
Counts(w, n) == \A k \in 1..n : w[k] \in Nat
AddsUp(f, w, n) == f[0] = 0 /\ \A k \in 1..n : f[k] = f[k - 1] + w[k]

LEMMA SumIs ==
  ASSUME NEW n \in Nat, NEW w, Counts(w, n), NEW f, AddsUp(f, w, n)
  PROVE  SumOf(w, n) = f[n] /\ SumOf(w, n) \in Nat
<1> DEFINE Adds(g) == g[0] = 0 /\ \A k \in 1..n : g[k] = g[k - 1] + w[k]
           g == CHOOSE h \in [0..n -> Nat] : Adds(h)
           T == {m \in Nat : m <= n => g[m] = f[m]}
<1>0. \A k \in 1..n : w[k] \in Nat BY DEF Counts
<1>1. \E h \in [0..n -> Nat] : Adds(h) BY <1>0, SumExists
<1>2. g \in [0..n -> Nat] /\ Adds(g) BY <1>1
<1>3. SumOf(w, n) = g[n] BY DEF SumOf
<1> HIDE DEF g
<1>4. 0 \in T BY <1>2 DEF AddsUp
<1>5. ASSUME NEW m \in Nat, m \in T PROVE m + 1 \in T
  <2> SUFFICES ASSUME m + 1 <= n PROVE g[m + 1] = f[m + 1] OBVIOUS
  <2>1. m + 1 \in 1..n /\ (m + 1) - 1 = m /\ g[m] = f[m] BY <1>5
  <2> QED BY <1>2, <2>1 DEF AddsUp
<1> HIDE DEF T
<1>6. n \in T BY <1>4, <1>5, NatSetInduction
<1> QED BY <1>2, <1>3, <1>6 DEF T

LEMMA SumUnfolds ==
  ASSUME NEW n \in Nat, NEW w, \A k \in 1..n : w[k] \in Nat
  PROVE  /\ SumOf(w, 0) = 0
         /\ \A k \in 0..n : SumOf(w, k) \in Nat
         /\ \A k \in 1..n : SumOf(w, k) = SumOf(w, k - 1) + w[k]
<1>1. PICK f \in [0..n -> Nat] : f[0] = 0 /\ \A k \in 1..n : f[k] = f[k - 1] + w[k] BY SumExists
<1>2. ASSUME NEW k \in 0..n PROVE SumOf(w, k) = f[k] /\ SumOf(w, k) \in Nat
  <2>1. k \in Nat /\ \A j \in 1..k : j \in 1..n OBVIOUS
  <2>2. \A j \in 1..k : w[j] \in Nat /\ f[j] = f[j - 1] + w[j] BY <1>1, <2>1
  <2>3. Counts(w, k) BY <2>2 DEF Counts
  <2>4. AddsUp(f, w, k) BY <1>1, <2>2 DEF AddsUp
  <2> QED BY <2>1, <2>3, <2>4, SumIs
<1>3. \A k \in 1..n : k - 1 \in 0..n /\ k \in 0..n OBVIOUS
<1> QED BY <1>1, <1>2, <1>3

LEMMA SumSame ==
  ASSUME NEW n \in Nat, NEW w, \A k \in 1..n : w[k] \in Nat, NEW v, \A k \in 1..n : v[k] = w[k]
  PROVE  SumOf(v, n) = SumOf(w, n)
<1>1. PICK f \in [0..n -> Nat] : f[0] = 0 /\ \A k \in 1..n : f[k] = f[k - 1] + w[k]
  <2>1. \A k \in 1..n : w[k] \in Nat OBVIOUS
  <2> QED BY <2>1, SumExists
<1>2. SumOf(w, n) = f[n]
  <2>1. Counts(w, n) BY DEF Counts
  <2>2. AddsUp(f, w, n) BY <1>1 DEF AddsUp
  <2> QED BY <2>1, <2>2, SumIs
<1>3. SumOf(v, n) = f[n]
  <2>1. \A k \in 1..n : v[k] \in Nat /\ f[k] = f[k - 1] + v[k] BY <1>1
  <2>2. Counts(v, n) BY <2>1 DEF Counts
  <2>3. AddsUp(f, v, n) BY <1>1, <2>1 DEF AddsUp
  <2> QED BY <2>2, <2>3, SumIs
<1> QED BY <1>2, <1>3

\* A sum up to n, and on to n + m.
LEMMA SumConcat ==
  ASSUME NEW n \in Nat, NEW m \in Nat, NEW w, \A k \in 1..(n + m) : w[k] \in Nat,
         NEW v, \A k \in 1..m : v[k] = w[n + k]
  PROVE  SumOf(w, n + m) = SumOf(w, n) + SumOf(v, m)
<1>1. \A k \in 1..m : v[k] \in Nat
  <2> TAKE k \in 1..m
  <2>1. n + k \in 1..(n + m) OBVIOUS
  <2> QED BY <2>1
<1> DEFINE T == {k \in Nat : k <= m => SumOf(w, n + k) = SumOf(w, n) + SumOf(v, k)}
<1>2. /\ SumOf(v, 0) = 0 /\ \A k \in 0..m : SumOf(v, k) \in Nat
      /\ \A k \in 1..m : SumOf(v, k) = SumOf(v, k - 1) + v[k]
  BY <1>1, SumUnfolds
<1>3. n + m \in Nat OBVIOUS
<1>4. /\ \A k \in 0..(n + m) : SumOf(w, k) \in Nat
      /\ \A k \in 1..(n + m) : SumOf(w, k) = SumOf(w, k - 1) + w[k]
  BY <1>3, SumUnfolds
<1>5. SumOf(w, n) \in Nat BY <1>4
<1>6. 0 \in T BY <1>2, <1>5
<1>7. ASSUME NEW k \in Nat, k \in T PROVE k + 1 \in T
  <2> SUFFICES ASSUME k + 1 <= m PROVE SumOf(w, n + (k + 1)) = SumOf(w, n) + SumOf(v, k + 1) OBVIOUS
  <2>1. SumOf(w, n + k) = SumOf(w, n) + SumOf(v, k) BY <1>7
  <2>2. k + 1 \in 1..m /\ n + (k + 1) \in 1..(n + m) /\ (k + 1) - 1 = k /\ (n + (k + 1)) - 1 = n + k OBVIOUS
  <2>3. SumOf(w, n + (k + 1)) = SumOf(w, n + k) + w[n + (k + 1)] BY <1>4, <2>2
  <2>4. SumOf(v, k + 1) = SumOf(v, k) + w[n + (k + 1)] BY <1>2, <2>2
  <2>5. k \in 0..m /\ w[n + (k + 1)] \in Nat BY <2>2
  <2>6. SumOf(v, k) \in Nat BY <1>2, <2>5
  <2> QED BY <1>5, <2>1, <2>3, <2>4, <2>5, <2>6
<1> HIDE DEF T
<1>8. m \in T BY <1>6, <1>7, NatSetInduction
<1> QED BY <1>8 DEF T

LEMMA SumGrows ==
  ASSUME NEW n \in Nat, NEW w, \A k \in 1..n : w[k] \in Nat, NEW i \in 0..n, NEW j \in i..n
  PROVE  SumOf(w, i) <= SumOf(w, j)
<1> DEFINE v == [k \in 1..(j - i) |-> w[i + k]]
<1>1. i \in Nat /\ j - i \in Nat /\ i + (j - i) = j OBVIOUS
<1>2. \A k \in 1..j : w[k] \in Nat OBVIOUS
<1>3. \A k \in 1..(j - i) : v[k] = w[i + k] OBVIOUS
<1>4. \A k \in 1..(j - i) : v[k] \in Nat
  <2> TAKE k \in 1..(j - i)
  <2>1. i + k \in 1..n OBVIOUS
  <2> QED BY <2>1
<1> HIDE DEF v
<1>5. SumOf(w, i + (j - i)) = SumOf(w, i) + SumOf(v, j - i)
  <2>1. \A k \in 1..(i + (j - i)) : w[k] \in Nat BY <1>1, <1>2
  <2> QED BY <1>1, <1>3, <2>1, SumConcat
<1>6. SumOf(v, j - i) \in Nat
  <2>1. j - i \in 0..(j - i) BY <1>1
  <2> QED BY <1>1, <1>4, <2>1, SumUnfolds
<1>7. SumOf(w, i) \in Nat BY SumUnfolds
<1> QED BY <1>1, <1>5, <1>6, <1>7

\* The sum of a list's items of one token.
Weights(list, token) == [k \in 1..Len(list) |-> IF list[k].token = token THEN list[k].amount ELSE 0]

Money(list) == list \in Seq(ToSet(list)) /\ \A k \in 1..Len(list) : list[k].amount \in Nat

LEMMA MoneyWeights ==
  ASSUME NEW list, Money(list), NEW token
  PROVE  /\ Len(list) \in Nat /\ DOMAIN list = 1..Len(list)
         /\ \A k \in 1..Len(list) :
               /\ Weights(list, token)[k] = IF list[k].token = token THEN list[k].amount ELSE 0
               /\ Weights(list, token)[k] \in Nat
BY DEF Money, Weights

LEMMA TotalInIsSum ==
  ASSUME NEW list, Money(list), NEW token
  PROVE  TotalIn(list, token) = SumOf(Weights(list, token), Len(list)) /\ TotalIn(list, token) \in Nat
<1> DEFINE n == Len(list)
           w == Weights(list, token)
           Rec(f) == f = [s \in SUBSET DOMAIN list |->
                        IF s = {} THEN 0
                        ELSE IF list[Max(s)].token = token THEN f[s \ {Max(s)}] + list[Max(s)].amount
                             ELSE f[s \ {Max(s)}]]
           iter == CHOOSE f : Rec(f)
           step == [p \in (1..n) \X Nat |-> IF list[p[1]].token = token THEN p[2] + list[p[1]].amount ELSE p[2]]
<1>1. TotalIn(list, token) = iter[DOMAIN list] BY DEF TotalIn, FoldLeft, MapThenFoldSet
<1>2. n \in Nat /\ DOMAIN list = 1..n /\ \A k \in 1..n : list[k].amount \in Nat BY MoneyWeights DEF Money
<1>3. \A k \in 1..n : w[k] \in Nat /\ w[k] = IF list[k].token = token THEN list[k].amount ELSE 0 BY MoneyWeights
<1> HIDE DEF n, w
<1>4. \A x \in 1..n, v \in Nat : step[<<x, v>>] = (IF list[x].token = token THEN v + list[x].amount ELSE v)
  <2> TAKE x \in 1..n, v \in Nat
  <2>1. <<x, v>> \in (1..n) \X Nat /\ <<x, v>>[1] = x /\ <<x, v>>[2] = v OBVIOUS
  <2> QED BY <2>1
<1> HIDE DEF step
<1>5. \A x \in 1..n, v \in Nat : step[<<x, v>>] = v + w[x]
  <2> TAKE x \in 1..n, v \in Nat
  <2>1. list[x].amount \in Nat BY <1>2
  <2> QED BY <1>3, <1>4, <2>1
<1>6. Closed(step, 1..n, Nat)
  <2>1. \A x \in 1..n, v \in Nat : step[<<x, v>>] \in Nat
    <3> TAKE x \in 1..n, v \in Nat
    <3>1. w[x] \in Nat BY <1>3
    <3> QED BY <1>5, <3>1
  <2> QED BY <2>1 DEF Closed
<1>7. Rec(iter)
  <2>1. PICK it : IsPrefixFold(it, n, Nat, 0, step) BY <1>2, <1>6, FoldPrefixes
  <2>2. it = [T \in SUBSET (1..n) |-> IF T = {} THEN 0 ELSE step[<<Max(T), it[T \ {Max(T)}]>>]]
    BY <2>1 DEF IsPrefixFold
  <2>3. \A T \in SUBSET (1..n) : T # {} => Max(T) \in 1..n /\ it[T \ {Max(T)}] \in Nat
    BY <1>2, <2>1, MaxIsMember DEF IsPrefixFold
  <2>4. ASSUME NEW T \in SUBSET (1..n), T # {}
        PROVE  step[<<Max(T), it[T \ {Max(T)}]>>] =
                  IF list[Max(T)].token = token THEN it[T \ {Max(T)}] + list[Max(T)].amount ELSE it[T \ {Max(T)}]
    BY <1>4, <2>3, <2>4
  <2>5. Rec(it) BY <1>2, <2>2, <2>4
  <2> QED BY <2>5
<1>8. iter = [s \in SUBSET DOMAIN list |->
                 IF s = {} THEN 0
                 ELSE IF list[Max(s)].token = token THEN iter[s \ {Max(s)}] + list[Max(s)].amount
                      ELSE iter[s \ {Max(s)}]]
  BY <1>7
<1> HIDE DEF iter, Rec
<1>9. PICK acc : IsRun(acc, n, Nat, 0, step, iter[1..n])
  <2>1. iter[{}] = 0 BY <1>8
  <2>2. ASSUME NEW T \in SUBSET (1..n), T # {}, iter[T \ {Max(T)}] \in Nat
        PROVE  iter[T] = step[<<Max(T), iter[T \ {Max(T)}]>>]
    <3>1. Max(T) \in 1..n BY <1>2, <2>2, MaxIsMember
    <3>2. iter[T] = IF list[Max(T)].token = token THEN iter[T \ {Max(T)}] + list[Max(T)].amount
                    ELSE iter[T \ {Max(T)}]
      BY <1>2, <1>8, <2>2
    <3> QED BY <1>4, <2>2, <3>1, <3>2
  <2>3. \A T \in SUBSET (1..n) : T # {} /\ iter[T \ {Max(T)}] \in Nat =>
           iter[T] = step[<<Max(T), iter[T \ {Max(T)}]>>]
    BY <2>2
  <2>4. Steps(iter, n, Nat, 0, step) BY <2>1, <2>3 DEF Steps
  <2> QED BY <1>2, <1>6, <2>4, FoldIsRun
<1>10. acc[0] = 0 /\ \A k \in 1..n : acc[k] = acc[k - 1] + w[k]
  <2>1. acc[0] = 0 BY <1>9 DEF IsRun
  <2>2. ASSUME NEW k \in 1..n PROVE acc[k] = acc[k - 1] + w[k]
    <3>1. k - 1 \in 0..n BY <1>2
    <3>2. acc[k - 1] \in Nat /\ acc[k] = step[<<k, acc[k - 1]>>] BY <1>9, <3>1 DEF IsRun
    <3> QED BY <1>5, <3>2
  <2> QED BY <2>1, <2>2
<1>11. SumOf(w, n) = acc[n] /\ SumOf(w, n) \in Nat
  <2>1. Counts(w, n) BY <1>3 DEF Counts
  <2>2. AddsUp(acc, w, n) BY <1>10 DEF AddsUp
  <2> QED BY <1>2, <2>1, <2>2, SumIs
<1>12. acc[n] = iter[1..n] BY <1>9 DEF IsRun
<1> QED BY <1>1, <1>2, <1>11, <1>12 DEF n, w

LEMMA OwnItems == ASSUME NEW X, NEW s \in Seq(X) PROVE s \in Seq(ToSet(s))
<1>1. s \in [1..Len(s) -> X] /\ DOMAIN s = 1..Len(s) /\ Len(s) \in Nat OBVIOUS
<1>2. s \in [1..Len(s) -> ToSet(s)] BY <1>1 DEF ToSet
<1> QED BY <1>1, <1>2

LEMMA TotalInConcat ==
  ASSUME NEW s, Money(s), NEW t, Money(t), NEW token
  PROVE  Money(s \o t) /\ TotalIn(s \o t, token) = TotalIn(s, token) + TotalIn(t, token)
<1> DEFINE n == Len(s)
           m == Len(t)
           r == s \o t
<1>1. s \in Seq(ToSet(s) \cup ToSet(t)) /\ t \in Seq(ToSet(s) \cup ToSet(t)) BY DEF Money
<1>2. /\ n \in Nat /\ m \in Nat /\ r \in Seq(ToSet(s) \cup ToSet(t)) /\ Len(r) = n + m
      /\ \A k \in 1..(n + m) : r[k] = IF k <= n THEN s[k] ELSE t[k - n]
  BY <1>1
<1>3. DOMAIN r = 1..(n + m) BY <1>2
<1>4. r \in Seq(ToSet(r)) BY <1>2, OwnItems
<1> HIDE DEF r
<1>5. \A k \in 1..n : r[k] = s[k] BY <1>2
<1>6. \A k \in 1..m : r[n + k] = t[k]
  <2> TAKE k \in 1..m
  <2>1. n + k \in 1..(n + m) /\ ~(n + k <= n) /\ (n + k) - n = k BY <1>2
  <2> QED BY <1>2, <2>1
<1>7. \A k \in 1..(n + m) : k \in 1..n \/ (k - n \in 1..m /\ n + (k - n) = k) BY <1>2
<1>8. \A k \in 1..(n + m) : r[k].amount \in Nat
  <2> TAKE k \in 1..(n + m)
  <2>1. CASE k \in 1..n BY <1>5, <2>1 DEF Money
  <2>2. CASE k - n \in 1..m /\ n + (k - n) = k BY <1>6, <2>2 DEF Money
  <2> QED BY <1>7, <2>1, <2>2
<1>9. Money(r) BY <1>2, <1>4, <1>8 DEF Money
<1> DEFINE w == Weights(r, token)
           v == Weights(t, token)
           u == Weights(s, token)
<1>10. \A k \in 1..(n + m) : w[k] \in Nat BY <1>2, <1>9, MoneyWeights
<1>11. \A k \in 1..m : v[k] = w[n + k]
  <2> TAKE k \in 1..m
  <2>1. n + k \in 1..(n + m) BY <1>2
  <2>2. w[n + k] = IF r[n + k].token = token THEN r[n + k].amount ELSE 0 BY <1>2, <1>9, <2>1, MoneyWeights
  <2>3. v[k] = IF t[k].token = token THEN t[k].amount ELSE 0 BY MoneyWeights
  <2> QED BY <1>6, <2>2, <2>3
<1>12. \A k \in 1..n : u[k] \in Nat BY MoneyWeights
<1>13. \A k \in 1..n : w[k] = u[k]
  <2> TAKE k \in 1..n
  <2>1. k \in 1..(n + m) BY <1>2
  <2>2. w[k] = IF r[k].token = token THEN r[k].amount ELSE 0 BY <1>2, <1>9, <2>1, MoneyWeights
  <2>3. u[k] = IF s[k].token = token THEN s[k].amount ELSE 0 BY MoneyWeights
  <2> QED BY <1>5, <2>2, <2>3
<1> HIDE DEF u, v, w, n, m
<1>14. SumOf(w, n + m) = SumOf(w, n) + SumOf(v, m)
  <2>1. n \in Nat /\ m \in Nat BY <1>2
  <2> QED BY <1>10, <1>11, <2>1, SumConcat
<1>15. SumOf(w, n) = SumOf(u, n) BY <1>2, <1>12, <1>13, SumSame
<1>16. TotalIn(r, token) = SumOf(w, n + m) BY <1>2, <1>9, TotalInIsSum DEF w
<1>17. TotalIn(s, token) = SumOf(u, n) BY TotalInIsSum DEF u, n
<1>18. TotalIn(t, token) = SumOf(v, m) BY TotalInIsSum DEF v, m
<1>19. TotalIn(r, token) = TotalIn(s, token) + TotalIn(t, token) BY <1>14, <1>15, <1>16, <1>17, <1>18
<1> QED BY <1>9, <1>19 DEF r

LEMMA TotalInPrefix ==
  ASSUME NEW s, Money(s), NEW token, NEW k \in 0..Len(s)
  PROVE  /\ Money(SubSeq(s, 1, k)) /\ TotalIn(SubSeq(s, 1, k), token) = SumOf(Weights(s, token), k)
         /\ Len(SubSeq(s, 1, k)) = k /\ \A j \in 1..k : SubSeq(s, 1, k)[j] = s[j]
<1> DEFINE r == SubSeq(s, 1, k)
<1>1. s \in Seq(ToSet(s)) /\ Len(s) \in Nat BY DEF Money
<1>2. r \in Seq(ToSet(s)) /\ Len(r) = k /\ k \in Nat /\ \A j \in 1..k : r[j] = s[j] BY <1>1
<1>3. \A j \in 1..k : j \in 1..Len(s) BY <1>1
<1>4. r \in Seq(ToSet(r)) BY <1>2, OwnItems
<1> HIDE DEF r
<1>5. Money(r) BY <1>2, <1>3, <1>4 DEF Money
<1>6. \A j \in 1..k : Weights(r, token)[j] = Weights(s, token)[j]
  <2> TAKE j \in 1..k
  <2>1. Weights(r, token)[j] = IF r[j].token = token THEN r[j].amount ELSE 0 BY <1>2, <1>5, MoneyWeights
  <2>2. Weights(s, token)[j] = IF s[j].token = token THEN s[j].amount ELSE 0 BY <1>3, MoneyWeights
  <2> QED BY <1>2, <2>1, <2>2
<1>7. \A j \in 1..k : Weights(s, token)[j] \in Nat BY <1>3, MoneyWeights
<1>8. SumOf(Weights(r, token), k) = SumOf(Weights(s, token), k) BY <1>2, <1>6, <1>7, SumSame
<1>9. TotalIn(r, token) = SumOf(Weights(r, token), k) BY <1>2, <1>5, TotalInIsSum
<1> QED BY <1>2, <1>5, <1>8, <1>9 DEF r

LEMMA TotalInSame ==
  ASSUME NEW s, Money(s), NEW t, Money(t), Len(t) = Len(s), NEW token,
         \A k \in 1..Len(s) : t[k].token = s[k].token /\ t[k].amount = s[k].amount
  PROVE  TotalIn(t, token) = TotalIn(s, token)
<1>1. Len(s) \in Nat BY MoneyWeights
<1>2. \A k \in 1..Len(s) : Weights(s, token)[k] \in Nat BY MoneyWeights
<1>3. \A k \in 1..Len(s) : Weights(t, token)[k] = Weights(s, token)[k]
  <2> TAKE k \in 1..Len(s)
  <2>1. Weights(t, token)[k] = IF t[k].token = token THEN t[k].amount ELSE 0 BY MoneyWeights
  <2>2. Weights(s, token)[k] = IF s[k].token = token THEN s[k].amount ELSE 0 BY MoneyWeights
  <2> QED BY <2>1, <2>2
<1>4. SumOf(Weights(t, token), Len(s)) = SumOf(Weights(s, token), Len(s)) BY <1>1, <1>2, <1>3, SumSame
<1>5. TotalIn(s, token) = SumOf(Weights(s, token), Len(s)) BY TotalInIsSum
<1>6. TotalIn(t, token) = SumOf(Weights(t, token), Len(s)) BY TotalInIsSum
<1> QED BY <1>4, <1>5, <1>6

LEMMA TotalInNone ==
  ASSUME NEW s, Money(s), NEW token, \A k \in 1..Len(s) : s[k].token # token
  PROVE  TotalIn(s, token) = 0
<1>1. Len(s) \in Nat BY MoneyWeights
<1>2. \A k \in 1..Len(s) : Weights(s, token)[k] = 0 BY MoneyWeights
<1>3. SumOf(Weights(s, token), Len(s)) = 0
  <2> DEFINE f == [k \in 0..Len(s) |-> 0]
  <2>1. f[0] = 0 /\ f[Len(s)] = 0 BY <1>1
  <2>2. \A k \in 1..Len(s) : f[k] = f[k - 1] + Weights(s, token)[k] BY <1>1, <1>2
  <2>3. \A k \in 1..Len(s) : Weights(s, token)[k] \in Nat BY <1>2
  <2> HIDE DEF f
  <2> DEFINE w == Weights(s, token)
  <2>4. Counts(w, Len(s)) BY <2>3 DEF Counts
  <2>5. AddsUp(f, w, Len(s)) BY <2>1, <2>2 DEF AddsUp
  <2> HIDE DEF w
  <2>6. SumOf(w, Len(s)) = f[Len(s)] BY <1>1, <2>4, <2>5, SumIs
  <2> QED BY <2>1, <2>6 DEF w
<1> QED BY <1>3, TotalInIsSum

LEMMA EmptyList == Money(<< >>) /\ \A token : TotalIn(<< >>, token) = 0
<1>1. Money(<< >>) BY DEF Money
<1>2. ASSUME NEW token PROVE TotalIn(<< >>, token) = 0 BY <1>1, TotalInNone
<1> QED BY <1>1, <1>2

LEMMA Swap == \A a, b, c \in Nat : a + (b + c) = b + (a + c) /\ a + (b + c) = (b + c) + a
OBVIOUS

LEMMA Regroup == \A a, b, c \in Nat : (a + b) + c = a + (b + c) /\ a + b \in Nat /\ a + b = b + a
OBVIOUS

\* it is a sum of amounts for S and its subsets.
First(T) == CHOOSE x \in T : TRUE

IsTotal(it, S) ==
    \A T \in SUBSET S : it[T] = IF T = {} THEN 0 ELSE First(T).amount + it[T \ {First(T)}]

LEMMA OneTotal ==
  ASSUME NEW S, IsFiniteSet(S), NEW T \in SUBSET S, NEW it, IsTotal(it, S), NEW jt, IsTotal(jt, T)
  PROVE  \A U \in SUBSET T : it[U] = jt[U]
<1> DEFINE Bad == {U \in SUBSET T : it[U] # jt[U]}
<1> SUFFICES ASSUME Bad # {} PROVE FALSE OBVIOUS
<1>1. PICK U \in Bad : \A W \in SUBSET U : W # U => W \notin Bad
  <2>1. Bad \subseteq SUBSET S OBVIOUS
  <2> HIDE DEF Bad
  <2> QED BY <2>1, LeastSet
<1>2. U \in SUBSET T /\ U \in SUBSET S OBVIOUS
<1>3. CASE U = {} BY <1>2, <1>3 DEF IsTotal
<1>4. CASE U # {}
  <2>1. First(U) \in U BY <1>4 DEF First
  <2>2. it[U \ {First(U)}] = jt[U \ {First(U)}] BY <1>1, <1>2, <2>1
  <2>3. it[U] = First(U).amount + it[U \ {First(U)}] BY <1>2, <1>4 DEF IsTotal
  <2>4. jt[U] = First(U).amount + jt[U \ {First(U)}] BY <1>2, <1>4 DEF IsTotal
  <2>5. it[U] = jt[U] BY <2>2, <2>3, <2>4
  <2> QED BY <2>5
<1> QED BY <1>3, <1>4

LEMMA TotalOfIsTotal ==
  ASSUME NEW S, IsFiniteSet(S), \A x \in S : x.amount \in Nat
  PROVE  \E it \in [SUBSET S -> Nat] : IsTotal(it, S) /\ TotalOf(S) = it[S]
<1> DEFINE Rec(f) == f = [s \in SUBSET S |->
                             IF s = {} THEN 0 ELSE (CHOOSE x \in s : TRUE).amount + f[s \ {CHOOSE x \in s : TRUE}]]
           iter == CHOOSE f : Rec(f)
           ch == [T \in SUBSET S |-> First(T)]
           step == [p \in S \X Nat |-> p[1].amount + p[2]]
<1>1. TotalOf(S) = iter[S] BY DEF TotalOf, MapThenSumSet, MapThenFoldSet
<1>2. \A x \in S, v \in Nat : step[<<x, v>>] = x.amount + v
  <2> TAKE x \in S, v \in Nat
  <2>1. <<x, v>> \in S \X Nat /\ <<x, v>>[1] = x /\ <<x, v>>[2] = v OBVIOUS
  <2> QED BY <2>1
<1>3. Closed(step, S, Nat)
  <2> HIDE DEF step
  <2>1. \A x \in S, v \in Nat : step[<<x, v>>] \in Nat
    <3> TAKE x \in S, v \in Nat
    <3>1. x.amount \in Nat OBVIOUS
    <3> QED BY <1>2, <3>1
  <2> QED BY <2>1 DEF Closed
<1>4. \A T \in SUBSET S : ch[T] = First(T) OBVIOUS
<1>5. \A T \in SUBSET S : T # {} => First(T) \in T BY DEF First
<1>6. Chooses(ch, S) BY <1>4, <1>5 DEF Chooses
<1> HIDE DEF ch, step
<1>7. PICK it : IsFold(it, S, Nat, 0, step, ch)
  <2>1. 0 \in Nat OBVIOUS
  <2> QED BY <1>3, <1>6, <2>1, FoldExists
<1>8. it \in [SUBSET S -> Nat] BY <1>7 DEF IsFold
<1>9. it = [T \in SUBSET S |-> IF T = {} THEN 0 ELSE First(T).amount + it[T \ {First(T)}]]
  <2>1. it = [T \in SUBSET S |-> IF T = {} THEN 0 ELSE step[<<ch[T], it[T \ {ch[T]}]>>]] BY <1>7 DEF IsFold
  <2>2. ASSUME NEW T \in SUBSET S, T # {}
        PROVE  step[<<ch[T], it[T \ {ch[T]}]>>] = First(T).amount + it[T \ {First(T)}]
    <3>1. First(T) \in S /\ it[T \ {First(T)}] \in Nat BY <1>5, <1>8, <2>2
    <3> QED BY <1>2, <1>4, <3>1
  <2> QED BY <2>1, <2>2
<1>10. Rec(iter)
  <2>1. Rec(it) BY <1>9 DEF First
  <2> QED BY <2>1
<1>11. iter = [T \in SUBSET S |-> IF T = {} THEN 0 ELSE First(T).amount + iter[T \ {First(T)}]]
  BY <1>10 DEF First
<1> HIDE DEF iter, Rec
<1>12. IsTotal(iter, S) BY <1>11 DEF IsTotal
<1>13. IsTotal(it, S) BY <1>9 DEF IsTotal
<1>14. iter[S] = it[S] BY <1>12, <1>13, OneTotal
<1> QED BY <1>1, <1>8, <1>13, <1>14

LEMMA TotalOfEmpty == TotalOf({}) = 0
<1>1. IsFiniteSet({}) /\ \A x \in {} : x.amount \in Nat BY FS_EmptySet
<1>2. PICK it : IsTotal(it, {}) /\ TotalOf({}) = it[{}] BY <1>1, TotalOfIsTotal
<1> QED BY <1>2 DEF IsTotal

\* The order in which amounts are added does not matter.
LEMMA TotalOfRemove ==
  ASSUME NEW S, IsFiniteSet(S), \A x \in S : x.amount \in Nat, NEW y \in S
  PROVE  TotalOf(S) = y.amount + TotalOf(S \ {y})
<1>1. PICK it \in [SUBSET S -> Nat] : IsTotal(it, S) /\ TotalOf(S) = it[S] BY TotalOfIsTotal
<1> DEFINE Bad == {T \in SUBSET S : \E z \in T : it[T] # z.amount + it[T \ {z}]}
<1>2. Bad = {}
  <2> SUFFICES ASSUME Bad # {} PROVE FALSE OBVIOUS
  <2>1. PICK T \in Bad : \A U \in SUBSET T : U # T => U \notin Bad
    <3>1. Bad \subseteq SUBSET S OBVIOUS
    <3> HIDE DEF Bad
    <3> QED BY <3>1, LeastSet
  <2>2. PICK z \in T : it[T] # z.amount + it[T \ {z}] OBVIOUS
  <2>3. First(T) \in T BY <2>2 DEF First
  <2> DEFINE x == First(T)
  <2>4. it[T] = x.amount + it[T \ {x}] BY <1>1, <2>2 DEF IsTotal
  <2>5. x # z BY <2>2, <2>4
  <2> HIDE DEF x
  <2>6. x \in T BY <2>3 DEF x
  <2>7. it[T \ {x}] = z.amount + it[(T \ {x}) \ {z}] BY <2>1, <2>2, <2>5, <2>6
  <2>8. it[T \ {z}] = x.amount + it[(T \ {z}) \ {x}] BY <2>1, <2>2, <2>5, <2>6
  <2>9. (T \ {x}) \ {z} = (T \ {z}) \ {x} OBVIOUS
  <2>10. x.amount \in Nat /\ z.amount \in Nat /\ (T \ {z}) \ {x} \in SUBSET S BY <2>2, <2>6
  <2>11. it[(T \ {z}) \ {x}] \in Nat BY <1>1, <2>10
  <2>12. x.amount + (z.amount + it[(T \ {z}) \ {x}]) = z.amount + (x.amount + it[(T \ {z}) \ {x}])
    BY <2>10, <2>11, Swap
  <2>13. it[T] = z.amount + it[T \ {z}] BY <2>4, <2>7, <2>8, <2>9, <2>12
  <2> QED BY <2>2, <2>13
<1>3. it[S] = y.amount + it[S \ {y}]
  <2>1. S \notin Bad BY <1>2
  <2> QED BY <2>1
<1>4. IsFiniteSet(S \ {y}) /\ \A x \in S \ {y} : x.amount \in Nat BY FS_RemoveElement
<1>5. PICK jt : IsTotal(jt, S \ {y}) /\ TotalOf(S \ {y}) = jt[S \ {y}] BY <1>4, TotalOfIsTotal
<1>6. it[S \ {y}] = jt[S \ {y}] BY <1>1, <1>5, OneTotal
<1> QED BY <1>1, <1>3, <1>5, <1>6

LEMMA TotalOfType ==
  ASSUME NEW S, IsFiniteSet(S), \A x \in S : x.amount \in Nat
  PROVE  TotalOf(S) \in Nat
<1>1. PICK it \in [SUBSET S -> Nat] : TotalOf(S) = it[S] BY TotalOfIsTotal
<1>2. S \in SUBSET S OBVIOUS
<1>3. it[S] \in Nat BY <1>1, <1>2
<1> QED BY <1>1, <1>3

LEMMA TotalOfAdd ==
  ASSUME NEW S, IsFiniteSet(S), \A x \in S : x.amount \in Nat, NEW y, y \notin S, y.amount \in Nat
  PROVE  TotalOf(S \cup {y}) = TotalOf(S) + y.amount
<1>1. IsFiniteSet(S \cup {y}) /\ \A x \in S \cup {y} : x.amount \in Nat BY FS_AddElement
<1>2. (S \cup {y}) \ {y} = S OBVIOUS
<1>3. TotalOf(S \cup {y}) = y.amount + TotalOf((S \cup {y}) \ {y}) BY <1>1, TotalOfRemove
<1>4. TotalOf(S) \in Nat BY TotalOfType
<1>5. y.amount + TotalOf(S) = TotalOf(S) + y.amount BY <1>4, Regroup
<1> QED BY <1>2, <1>3, <1>5

LEMMA TotalOfUnion ==
  ASSUME NEW S, IsFiniteSet(S), NEW T, IsFiniteSet(T), S \cap T = {}, \A x \in S \cup T : x.amount \in Nat
  PROVE  TotalOf(S \cup T) = TotalOf(S) + TotalOf(T)
<1> DEFINE F == {U \in SUBSET T : TotalOf(S \cup U) = TotalOf(S) + TotalOf(U)}
<1>1. TotalOf(S) \in Nat BY TotalOfType
<1>2. {} \in F
  <2>1. S \cup {} = S OBVIOUS
  <2> QED BY <1>1, <2>1, TotalOfEmpty
<1>3. ASSUME NEW U \in SUBSET T, NEW x \in T \ U, U \in F PROVE U \cup {x} \in F
  <2>1. IsFiniteSet(U) BY FS_Subset
  <2>2. IsFiniteSet(S \cup U) BY <2>1, FS_Union
  <2>3. x \notin U /\ x \notin S \cup U /\ x.amount \in Nat OBVIOUS
  <2>4. TotalOf(U \cup {x}) = TotalOf(U) + x.amount BY <2>1, <2>3, TotalOfAdd
  <2>5. TotalOf((S \cup U) \cup {x}) = TotalOf(S \cup U) + x.amount BY <2>2, <2>3, TotalOfAdd
  <2>6. S \cup (U \cup {x}) = (S \cup U) \cup {x} OBVIOUS
  <2>7. TotalOf(U) \in Nat BY <2>1, TotalOfType
  <2>8. TotalOf(S \cup U) = TotalOf(S) + TotalOf(U) BY <1>3
  <2>9. TotalOf(S \cup (U \cup {x})) = TotalOf(S) + TotalOf(U \cup {x})
    <3>1. (TotalOf(S) + TotalOf(U)) + x.amount = TotalOf(S) + (TotalOf(U) + x.amount)
      BY <1>1, <2>3, <2>7, Regroup
    <3> QED BY <2>4, <2>5, <2>6, <2>8, <3>1
  <2> QED BY <2>9
<1> HIDE DEF F
<1>4. T \in F BY <1>2, <1>3, FiniteSetInduction
<1> QED BY <1>4 DEF F

--------------------------------------------------------------------------------
(* The notes a plan spends.                                                *)

Biggest(R) == CHOOSE x \in R : \A y \in R : x.amount >= y.amount

LEMMA BiggestExists ==
  ASSUME NEW S, IsFiniteSet(S), S # {}, \A x \in S : x.amount \in Nat
  PROVE  Biggest(S) \in S /\ \A y \in S : Biggest(S).amount >= y.amount
<1> DEFINE Has(T) == \E x \in T : \A y \in T : x.amount >= y.amount
           F == {T \in SUBSET S : T = {} \/ Has(T)}
<1>1. {} \in F OBVIOUS
<1>2. ASSUME NEW T \in SUBSET S, NEW z \in S \ T, T \in F PROVE T \cup {z} \in F
  <2>1. CASE T = {}
    <3>1. z.amount \in Nat OBVIOUS
    <3>2. Has(T \cup {z}) BY <2>1, <3>1
    <3> QED BY <3>2
  <2>2. CASE T # {}
    <3>1. PICK x \in T : \A y \in T : x.amount >= y.amount BY <1>2, <2>2
    <3>2. x.amount \in Nat /\ z.amount \in Nat /\ \A y \in T : y.amount \in Nat OBVIOUS
    <3>3. CASE x.amount >= z.amount
      <4>1. Has(T \cup {z}) BY <3>1, <3>3
      <4> QED BY <4>1
    <3>4. CASE z.amount > x.amount
      <4>1. \A y \in T \cup {z} : z.amount >= y.amount BY <3>1, <3>2, <3>4
      <4>2. Has(T \cup {z}) BY <4>1
      <4> QED BY <4>2
    <3> QED BY <3>2, <3>3, <3>4
  <2> QED BY <2>1, <2>2
<1> HIDE DEF F
<1>3. S \in F BY <1>1, <1>2, FiniteSetInduction
<1>4. Has(S) BY <1>3 DEF F
<1> QED BY <1>4 DEF Biggest

\* A list without repetitions.
OnceEach(s, S) == s \in Seq(S) /\ \A i, j \in 1..Len(s) : s[i] = s[j] => i = j

LEMMA OnceEachCount ==
  ASSUME NEW S, NEW s, OnceEach(s, S)
  PROVE  /\ Len(s) \in Nat /\ ToSet(s) \subseteq S /\ IsFiniteSet(ToSet(s)) /\ Cardinality(ToSet(s)) = Len(s)
         /\ DOMAIN s = 1..Len(s) /\ \A i \in 1..Len(s) : s[i] \in S
<1>1. s \in Seq(S) /\ Len(s) \in Nat /\ DOMAIN s = 1..Len(s) BY DEF OnceEach
<1>2. ToSet(s) = {s[i] : i \in 1..Len(s)} /\ \A i \in 1..Len(s) : s[i] \in S BY <1>1, SeqFacts
<1>3. \A i, j \in 1..Len(s) : s[i] = s[j] => i = j BY DEF OnceEach
<1>4. Cardinality(ToSet(s)) = Len(s) BY <1>1, <1>2, <1>3, DistinctValues
<1>5. IsFiniteSet(ToSet(s))
  <2>1. IsFiniteSet(1..Len(s)) BY <1>1, FS_Interval
  <2>2. [i \in 1..Len(s) |-> s[i]] \in Surjection(1..Len(s), ToSet(s)) BY <1>2 DEF Surjection
  <2> QED BY <2>1, <2>2, FS_Surjection
<1> QED BY <1>1, <1>2, <1>4, <1>5

LEMMA OnceEachAppend ==
  ASSUME NEW S, NEW s, OnceEach(s, S), NEW x \in S, x \notin ToSet(s)
  PROVE  OnceEach(Append(s, x), S) /\ Len(Append(s, x)) = Len(s) + 1
<1>1. s \in Seq(S) /\ Len(s) \in Nat /\ \A i, j \in 1..Len(s) : s[i] = s[j] => i = j BY DEF OnceEach
<1> DEFINE r == Append(s, x)
           n == Len(s)
<1>2. r \in Seq(S) /\ Len(r) = n + 1 /\ r[n + 1] = x /\ \A i \in 1..n : r[i] = s[i] BY <1>1
<1>3. \A i \in 1..n : s[i] # x BY <1>1, SeqFacts
<1> HIDE DEF r, n
<1>4. \A i \in 1..(n + 1) : i \in 1..n \/ i = n + 1 BY <1>1 DEF n
<1>5. \A i, j \in 1..(n + 1) : r[i] = r[j] => i = j BY <1>1, <1>2, <1>3, <1>4 DEF n
<1> QED BY <1>2, <1>5 DEF OnceEach, r, n

LEMMA LargestFirstFacts ==
  ASSUME NEW S, IsFiniteSet(S), \A x \in S : x.amount \in Nat
  PROVE  OnceEach(LargestFirst(S), S) /\ Len(LargestFirst(S)) = Cardinality(S) /\ ToSet(LargestFirst(S)) = S
<1> DEFINE n == Cardinality(S)
           Next1(s) == Append(s, Biggest(S \ ToSet(s)))
           V == {s \in Seq(S) : OnceEach(s, S)}
           Rec(f) == f = [k \in 0..n |-> IF k = 0 THEN << >> ELSE Next1(f[k - 1])]
           largest == CHOOSE f : Rec(f)
           step == [p \in (1..n) \X V |-> IF ToSet(p[2]) = S THEN p[2] ELSE Next1(p[2])]
<1>1. LargestFirst(S) = largest[n] BY DEF LargestFirst, Biggest
<1>2. n \in Nat BY FS_CardinalityType
<1>3. \A s : OnceEach(s, S) => s \in V BY DEF OnceEach
<1>4. \A s \in V : OnceEach(s, S) OBVIOUS
<1>5. ASSUME NEW s, OnceEach(s, S), ToSet(s) # S PROVE OnceEach(Next1(s), S) /\ Len(Next1(s)) = Len(s) + 1
  <2>1. S \ ToSet(s) # {} BY <1>5, OnceEachCount
  <2>2. IsFiniteSet(S \ ToSet(s)) /\ \A x \in S \ ToSet(s) : x.amount \in Nat BY FS_Subset
  <2>3. Biggest(S \ ToSet(s)) \in S \ ToSet(s) BY <2>1, <2>2, BiggestExists
  <2> QED BY <1>5, <2>3, OnceEachAppend
<1>6. OnceEach(<< >>, S) /\ Len(<< >>) = 0 BY DEF OnceEach
<1>7. \A x \in 1..n, v \in V : step[<<x, v>>] = IF ToSet(v) = S THEN v ELSE Next1(v)
  <2> HIDE DEF V, Next1
  <2> TAKE x \in 1..n, v \in V
  <2>1. <<x, v>> \in (1..n) \X V /\ <<x, v>>[1] = x /\ <<x, v>>[2] = v OBVIOUS
  <2> QED BY <2>1
<1> HIDE DEF n, V, Next1, step
<1>8. Closed(step, 1..n, V) BY <1>3, <1>4, <1>5, <1>7 DEF Closed
<1>9. PICK it : IsPrefixFold(it, n, V, << >>, step) BY <1>2, <1>3, <1>6, <1>8, FoldPrefixes
<1>10. Steps(it, n, V, << >>, step) BY <1>9 DEF IsPrefixFold, Steps
<1>11. PICK acc : IsRun(acc, n, V, << >>, step, it[1..n]) BY <1>2, <1>3, <1>6, <1>8, <1>10, FoldIsRun
<1> DEFINE T == {k \in Nat : k <= n => Len(acc[k]) = k}
<1>12. \A k \in 0..n : acc[k] \in V BY <1>11 DEF IsRun
<1>13. acc[0] = << >> BY <1>11 DEF IsRun
<1>14. ASSUME NEW k \in 1..n, Len(acc[k - 1]) = k - 1
       PROVE  acc[k] = Next1(acc[k - 1]) /\ Len(acc[k]) = k
  <2>1. k - 1 \in 0..n /\ k - 1 < n /\ k \in Nat BY <1>2
  <2>2. OnceEach(acc[k - 1], S) BY <1>4, <1>12, <2>1
  <2>3. Cardinality(ToSet(acc[k - 1])) = k - 1 BY <1>14, <2>2, OnceEachCount
  <2>4. ToSet(acc[k - 1]) # S BY <1>2, <2>1, <2>3 DEF n
  <2>5. acc[k] = step[<<k, acc[k - 1]>>] BY <1>11 DEF IsRun
  <2>6. acc[k] = Next1(acc[k - 1]) BY <1>7, <1>12, <2>1, <2>4, <2>5
  <2>7. Len(acc[k]) = (k - 1) + 1 BY <1>5, <1>14, <2>2, <2>4, <2>6
  <2> QED BY <2>1, <2>6, <2>7
<1>15. 0 \in T BY <1>6, <1>13
<1>16. ASSUME NEW k \in Nat, k \in T PROVE k + 1 \in T
  <2> SUFFICES ASSUME k + 1 <= n PROVE Len(acc[k + 1]) = k + 1 OBVIOUS
  <2>1. k + 1 \in 1..n /\ (k + 1) - 1 = k /\ Len(acc[k]) = k BY <1>2, <1>16
  <2> QED BY <1>14, <2>1
<1>17. \A k \in Nat : k \in T
  <2> HIDE DEF T
  <2> QED BY <1>15, <1>16, NatSetInduction
<1>18. \A k \in 1..n : acc[k] = Next1(acc[k - 1])
  <2> TAKE k \in 1..n
  <2>1. k - 1 \in Nat /\ k - 1 <= n BY <1>2
  <2>2. Len(acc[k - 1]) = k - 1 BY <1>17, <2>1
  <2> QED BY <1>14, <2>2
<1>19. Rec(largest)
  <2>1. acc = [k \in 0..n |-> acc[k]] BY <1>11 DEF IsRun
  <2>2. \A k \in 0..n : acc[k] = IF k = 0 THEN << >> ELSE Next1(acc[k - 1])
    <3> TAKE k \in 0..n
    <3>1. k # 0 => k \in 1..n BY <1>2
    <3> QED BY <1>13, <1>18, <3>1
  <2>3. Rec(acc) BY <2>1, <2>2
  <2> QED BY <2>3
<1>20. \A k \in 0..n : largest[k] = IF k = 0 THEN << >> ELSE Next1(largest[k - 1]) BY <1>19
<1> HIDE DEF largest, Rec
<1> DEFINE U == {k \in Nat : k <= n => largest[k] = acc[k]}
<1>21. 0 \in U BY <1>2, <1>13, <1>20
<1>22. ASSUME NEW k \in Nat, k \in U PROVE k + 1 \in U
  <2> SUFFICES ASSUME k + 1 <= n PROVE largest[k + 1] = acc[k + 1] OBVIOUS
  <2>1. k + 1 \in 1..n /\ k + 1 \in 0..n /\ (k + 1) - 1 = k /\ k + 1 # 0 /\ largest[k] = acc[k] BY <1>2, <1>22
  <2>2. acc[k + 1] = Next1(acc[k]) BY <1>18, <2>1
  <2> QED BY <1>20, <2>1, <2>2
<1>23. n \in U
  <2> HIDE DEF U
  <2> QED BY <1>2, <1>21, <1>22, NatSetInduction
<1>24. largest[n] = acc[n] /\ Len(acc[n]) = n BY <1>2, <1>17, <1>23
<1>25. n \in 0..n BY <1>2
<1>26. OnceEach(acc[n], S) BY <1>4, <1>12, <1>25
<1>27. ToSet(acc[n]) = S
  <2>1. ToSet(acc[n]) \subseteq S /\ Cardinality(ToSet(acc[n])) = n BY <1>24, <1>26, OnceEachCount
  <2> QED BY <2>1, FS_Subset DEF n
<1> QED BY <1>1, <1>24, <1>26, <1>27 DEF n

\* The notes of a list, added up one by one.
LEMMA TotalOfList ==
  ASSUME NEW s, Money(s), NEW token, \A i \in 1..Len(s) : s[i].token = token,
         \A i, j \in 1..Len(s) : s[i] = s[j] => i = j
  PROVE  TotalIn(s, token) = TotalOf(ToSet(s))
<1> DEFINE n == Len(s)
           w == Weights(s, token)
           Part(k) == {s[i] : i \in 1..k}
           T == {k \in Nat : k <= n => TotalOf(Part(k)) = SumOf(w, k)}
<1>1. n \in Nat /\ DOMAIN s = 1..n /\ \A k \in 1..n : w[k] \in Nat /\ w[k] = s[k].amount
  BY MoneyWeights
<1>2. \A k \in 1..n : s[k].amount \in Nat BY DEF Money
<1>3. \A i, j \in 1..n : s[i] = s[j] => i = j OBVIOUS
<1> HIDE DEF n, w
<1>4. SumOf(w, 0) = 0 /\ \A k \in 1..n : SumOf(w, k) = SumOf(w, k - 1) + w[k]
  <2>1. \A k \in 1..n : w[k] \in Nat BY <1>1
  <2> QED BY <1>1, <2>1, SumUnfolds
<1>5. 0 \in T
  <2>1. Part(0) = {} OBVIOUS
  <2> QED BY <1>4, <2>1, TotalOfEmpty
<1>6. ASSUME NEW k \in Nat, k \in T PROVE k + 1 \in T
  <2> SUFFICES ASSUME k + 1 <= n PROVE TotalOf(Part(k + 1)) = SumOf(w, k + 1) OBVIOUS
  <2>1. k + 1 \in 1..n /\ (k + 1) - 1 = k /\ \A i \in 1..k : i \in 1..n /\ i # k + 1 BY <1>1
  <2>2. TotalOf(Part(k)) = SumOf(w, k) BY <1>6, <1>1, <2>1
  <2>3. Part(k + 1) = Part(k) \cup {s[k + 1]}
    <3>1. \A i \in 1..(k + 1) : i \in 1..k \/ i = k + 1 OBVIOUS
    <3>2. \A i \in 1..k : i \in 1..(k + 1) OBVIOUS
    <3>3. k + 1 \in 1..(k + 1) OBVIOUS
    <3> QED BY <3>1, <3>2, <3>3
  <2>4. IsFiniteSet(Part(k)) /\ \A x \in Part(k) : x.amount \in Nat
    <3>1. IsFiniteSet(1..k) BY FS_Interval
    <3>2. [i \in 1..k |-> s[i]] \in Surjection(1..k, Part(k)) BY DEF Surjection
    <3>3. IsFiniteSet(Part(k)) BY <3>1, <3>2, FS_Surjection
    <3>4. \A x \in Part(k) : x.amount \in Nat BY <1>2, <2>1
    <3> QED BY <3>3, <3>4
  <2>5. s[k + 1] \notin Part(k) BY <1>3, <2>1
  <2>6. s[k + 1].amount \in Nat /\ w[k + 1] = s[k + 1].amount BY <1>1, <1>2, <2>1
  <2> HIDE DEF Part
  <2>7. TotalOf(Part(k + 1)) = TotalOf(Part(k)) + s[k + 1].amount BY <2>3, <2>4, <2>5, <2>6, TotalOfAdd
  <2>8. SumOf(w, k + 1) = SumOf(w, k) + w[k + 1] BY <1>4, <2>1
  <2> QED BY <2>2, <2>6, <2>7, <2>8
<1> HIDE DEF T
<1>7. n \in T BY <1>1, <1>5, <1>6, NatSetInduction
<1>8. TotalOf(Part(n)) = SumOf(w, n) BY <1>1, <1>7 DEF T
<1>9. Part(n) = ToSet(s) BY <1>1 DEF ToSet
<1>10. TotalIn(s, token) = SumOf(w, n) BY TotalInIsSum DEF w, n
<1> QED BY <1>8, <1>9, <1>10

\* An intent's lists and what they add up to.
LEMMA IntentLists ==
  ASSUME NEW i, NEW tokens, IsIntent(i, tokens)
  PROVE  /\ i.register \in BOOLEAN
         /\ Money(i.deposits) /\ Money(i.transfers) /\ Money(i.withdrawals)
         /\ \A list \in {i.deposits, i.transfers, i.withdrawals} :
               \A k \in 1..Len(list) : list[k].token \in tokens
         /\ \A t : Deficit(i, t) \in Int
<1>1. ASSUME NEW list, ItemsOf(list, tokens)
      PROVE  Money(list) /\ \A k \in 1..Len(list) : list[k].token \in tokens
  <2>1. list \in Seq(ToSet(list)) /\ \A x \in ToSet(list) : x.token \in tokens /\ x.amount \in Nat
    BY <1>1 DEF ItemsOf
  <2>2. \A k \in 1..Len(list) : list[k] \in ToSet(list) BY <2>1, SeqFacts
  <2> QED BY <2>1, <2>2 DEF Money
<1>2. ItemsOf(i.deposits, tokens) /\ ItemsOf(i.transfers, tokens) /\ ItemsOf(i.withdrawals, tokens) BY DEF IsIntent
<1>3. Money(i.deposits) /\ Money(i.transfers) /\ Money(i.withdrawals) BY <1>1, <1>2
<1>4. ASSUME NEW t PROVE Deficit(i, t) \in Int
  <2>1. TotalIn(i.deposits, t) \in Nat /\ TotalIn(i.transfers, t) \in Nat /\ TotalIn(i.withdrawals, t) \in Nat
    BY <1>3, TotalInIsSum
  <2> QED BY <2>1 DEF Deficit
<1>5. \A list \in {i.deposits, i.transfers, i.withdrawals} : \A k \in 1..Len(list) : list[k].token \in tokens
  BY <1>1, <1>2
<1> QED BY <1>3, <1>4, <1>5 DEF IsIntent

\* A covered token: some of its notes, each once, that make up for the deficit.
LEMMA SpendsFacts ==
  ASSUME NEW st, NEW i, NEW t, Deficit(i, t) \in Int,
         IsFiniteSet(st.notes), \A n \in st.notes : n.amount \in Nat,
         TotalOf(Spendable(st, t)) >= Deficit(i, t)
  PROVE  /\ OnceEach(Spends(st, i, t), Spendable(st, t)) /\ Money(Spends(st, i, t))
         /\ TotalIn(Spends(st, i, t), t) \in Nat /\ TotalIn(Spends(st, i, t), t) >= Deficit(i, t)
         /\ (Deficit(i, t) <= 0 => Spends(st, i, t) = << >>)
<1> DEFINE S == Spendable(st, t)
           notes == LargestFirst(S)
           Ok(k) == Enough(notes, k, i, t) /\ \A j \in 0..(k - 1) : ~Enough(notes, j, i, t)
           needed == CHOOSE k \in 0..Len(notes) : Ok(k)
<1>1. IsFiniteSet(S) /\ \A n \in S : n.amount \in Nat /\ n.token = t BY FS_Subset DEF Spendable
<1>2. TotalOf(S) >= Deficit(i, t) OBVIOUS
<1> HIDE DEF S
<1>3. OnceEach(notes, S) /\ ToSet(notes) = S BY <1>1, LargestFirstFacts
<1> HIDE DEF notes
<1>4. notes \in Seq(S) /\ Len(notes) \in Nat /\ \A k \in 1..Len(notes) : notes[k] \in S
  BY <1>3, OnceEachCount DEF OnceEach
<1>5. Money(notes) BY <1>1, <1>4, OwnItems DEF Money
<1>6. TotalIn(notes, t) = TotalOf(S)
  <2>1. \A k \in 1..Len(notes) : notes[k].token = t BY <1>1, <1>4
  <2>2. \A k, j \in 1..Len(notes) : notes[k] = notes[j] => k = j BY <1>3 DEF OnceEach
  <2> QED BY <1>3, <1>5, <2>1, <2>2, TotalOfList
<1>7. Enough(notes, Len(notes), i, t)
  <2>1. Len(notes) \in 0..Len(notes) BY <1>4
  <2>2. TotalIn(SubSeq(notes, 1, Len(notes)), t) = SumOf(Weights(notes, t), Len(notes))
    BY <1>5, <2>1, TotalInPrefix
  <2>3. TotalIn(notes, t) = SumOf(Weights(notes, t), Len(notes)) BY <1>5, TotalInIsSum
  <2> QED BY <1>2, <1>6, <2>2, <2>3 DEF Enough
<1>8. PICK k \in {j \in 0..Len(notes) : Enough(notes, j, i, t)} :
         \A j \in {m \in 0..Len(notes) : Enough(notes, m, i, t)} : k <= j
  <2> DEFINE E == {j \in 0..Len(notes) : Enough(notes, j, i, t)}
  <2>1. Len(notes) \in E BY <1>4, <1>7
  <2>2. E \subseteq Nat OBVIOUS
  <2> HIDE DEF E
  <2>3. \E n \in E : \A m \in E : n <= m BY <2>1, <2>2, LeastNat
  <2> QED BY <2>3 DEF E
<1>9. Ok(k)
  <2>1. \A j \in 0..(k - 1) : j \in 0..Len(notes) /\ ~(k <= j) BY <1>4
  <2> QED BY <1>8, <2>1
<1>10. needed \in 0..Len(notes) /\ Ok(needed)
  <2> HIDE DEF Ok
  <2> QED BY <1>8, <1>9
<1>11. Spends(st, i, t) = SubSeq(notes, 1, needed) BY DEF Spends, notes, S
<1> HIDE DEF needed
<1> DEFINE r == SubSeq(notes, 1, needed)
<1>12. Money(r) /\ Len(r) = needed /\ \A j \in 1..needed : r[j] = notes[j] BY <1>5, <1>10, TotalInPrefix
<1>13. OnceEach(r, S)
  <2>1. r \in Seq(S) BY <1>4, <1>10
  <2>2. \A j \in 1..needed : j \in 1..Len(notes) BY <1>4, <1>10
  <2> HIDE DEF r
  <2>3. \A j, m \in 1..needed : r[j] = r[m] => j = m BY <1>3, <1>12, <2>2 DEF OnceEach
  <2> QED BY <1>12, <2>1, <2>3 DEF OnceEach
<1>14. TotalIn(r, t) >= Deficit(i, t) BY <1>10 DEF Enough
<1>15. ASSUME Deficit(i, t) <= 0 PROVE r = << >>
  <2>1. Enough(notes, 0, i, t)
    <3>1. 0 \in 0..Len(notes) BY <1>4
    <3>2. Money(SubSeq(notes, 1, 0)) BY <1>5, <3>1, TotalInPrefix
    <3>3. TotalIn(SubSeq(notes, 1, 0), t) \in Nat BY <3>2, TotalInIsSum
    <3> QED BY <1>15, <3>3 DEF Enough
  <2>2. needed = 0
    <3>1. ASSUME needed # 0 PROVE 0 \in 0..(needed - 1) BY <1>4, <1>10, <3>1
    <3> QED BY <1>10, <2>1, <3>1
  <2> HIDE DEF r
  <2>3. r \in Seq(S) /\ Len(r) = 0 BY <1>12, <1>13, <2>2 DEF OnceEach
  <2> QED BY <2>3
<1> HIDE DEF r
<1>16. TotalIn(r, t) \in Nat BY <1>12, TotalInIsSum
<1> QED BY <1>11, <1>12, <1>13, <1>14, <1>15, <1>16 DEF r, S

Joins(r, s, X, t, Y) == s \in Seq(X) /\ t \in Seq(Y) /\ r = s \o t

Joined(r, s, X, t, Y) ==
    /\ ToSet(r) = ToSet(s) \cup ToSet(t)
    /\ r \in Seq(X \cup Y) /\ Len(r) = Len(s) + Len(t)
    /\ \A i \in 1..Len(s) : r[i] = s[i]
    /\ \A i \in 1..Len(t) : r[Len(s) + i] = t[i]

LEMMA ConcatItems ==
  ASSUME NEW r, NEW s, NEW X, NEW t, NEW Y, Joins(r, s, X, t, Y)
  PROVE  Joined(r, s, X, t, Y)
<1>0. s \in Seq(X) /\ t \in Seq(Y) /\ r = s \o t BY DEF Joins
<1> DEFINE n == Len(s)
           m == Len(t)
<1>1. s \in Seq(X \cup Y) /\ t \in Seq(X \cup Y) /\ n \in Nat /\ m \in Nat BY <1>0
<1>2. /\ r \in Seq(X \cup Y) /\ Len(r) = n + m /\ DOMAIN r = 1..(n + m)
      /\ \A k \in 1..(n + m) : r[k] = IF k <= n THEN s[k] ELSE t[k - n]
  BY <1>0, <1>1
<1>3. DOMAIN s = 1..n /\ DOMAIN t = 1..m BY <1>0
<1> HIDE DEF n, m
<1>4. \A i \in 1..n : r[i] = s[i] /\ i \in 1..(n + m) BY <1>1, <1>2
<1>5. \A i \in 1..m : r[n + i] = t[i] /\ n + i \in 1..(n + m)
  <2> TAKE i \in 1..m
  <2>1. n + i \in 1..(n + m) /\ ~(n + i <= n) /\ (n + i) - n = i BY <1>1
  <2> QED BY <1>2, <2>1
<1>6. \A k \in 1..(n + m) : k \in 1..n \/ (k - n \in 1..m /\ n + (k - n) = k) BY <1>1
<1>7. ToSet(r) = ToSet(s) \cup ToSet(t)
  <2>1. ToSet(r) \subseteq ToSet(s) \cup ToSet(t)
    <3> SUFFICES ASSUME NEW k \in 1..(n + m) PROVE r[k] \in ToSet(s) \cup ToSet(t) BY <1>2 DEF ToSet
    <3>1. CASE k \in 1..n BY <1>3, <1>4, <3>1 DEF ToSet
    <3>2. CASE k - n \in 1..m /\ n + (k - n) = k BY <1>3, <1>5, <3>2 DEF ToSet
    <3> QED BY <1>6, <3>1, <3>2
  <2>2. ToSet(s) \subseteq ToSet(r) BY <1>2, <1>3, <1>4 DEF ToSet
  <2>3. ToSet(t) \subseteq ToSet(r) BY <1>2, <1>3, <1>5 DEF ToSet
  <2> QED BY <2>1, <2>2, <2>3
<1> QED BY <1>2, <1>4, <1>5, <1>7 DEF n, m, Joined

LEMMA ToSetConcat ==
  ASSUME NEW X, NEW s \in Seq(X), NEW Y, NEW t \in Seq(Y)
  PROVE  /\ ToSet(s \o t) = ToSet(s) \cup ToSet(t)
         /\ s \o t \in Seq(X \cup Y) /\ Len(s \o t) = Len(s) + Len(t)
         /\ \A i \in 1..Len(s) : (s \o t)[i] = s[i]
         /\ \A i \in 1..Len(t) : (s \o t)[Len(s) + i] = t[i]
<1> DEFINE r == s \o t
<1>1. Joins(r, s, X, t, Y) BY DEF Joins
<1> HIDE DEF r
<1>2. Joined(r, s, X, t, Y) BY <1>1, ConcatItems
<1> QED BY <1>2 DEF r, Joined

IsList(s) == s \in Seq(ToSet(s))

LEMMA ConcatLists ==
  ASSUME NEW s, IsList(s), NEW t, IsList(t)
  PROVE  IsList(s \o t) /\ ToSet(s \o t) = ToSet(s) \cup ToSet(t)
<1>1. s \in Seq(ToSet(s)) /\ t \in Seq(ToSet(t)) BY DEF IsList
<1>2. ToSet(s \o t) = ToSet(s) \cup ToSet(t)
  <2> DEFINE X == ToSet(s)
             Y == ToSet(t)
  <2>1. s \in Seq(X) /\ t \in Seq(Y) BY <1>1
  <2> HIDE DEF X, Y
  <2> DEFINE r == s \o t
  <2>2. Joins(r, s, X, t, Y) BY <2>1 DEF Joins
  <2> HIDE DEF r
  <2>3. Joined(r, s, X, t, Y) BY <2>2, ConcatItems
  <2>4. ToSet(r) = ToSet(s) \cup ToSet(t) BY <2>3 DEF Joined
  <2> QED BY <2>4 DEF r
<1>3. s \o t \in Seq(ToSet(s) \cup ToSet(t))
  <2> DEFINE Z == ToSet(s) \cup ToSet(t)
  <2>1. s \in Seq(Z) /\ t \in Seq(Z) BY <1>1
  <2> HIDE DEF Z
  <2>2. s \o t \in Seq(Z) BY <2>1
  <2> QED BY <2>2 DEF Z
<1> QED BY <1>2, <1>3 DEF IsList

LEMMA ItemsFinite ==
  ASSUME NEW X, NEW s \in Seq(X)
  PROVE  IsFiniteSet(ToSet(s))
<1>1. Len(s) \in Nat /\ DOMAIN s = 1..Len(s) OBVIOUS
<1>2. IsFiniteSet(1..Len(s)) BY <1>1, FS_Interval
<1>3. [i \in 1..Len(s) |-> s[i]] \in Surjection(1..Len(s), ToSet(s)) BY <1>1 DEF Surjection, ToSet
<1> QED BY <1>2, <1>3, FS_Surjection

LEMMA ImageFinite ==
  ASSUME NEW S, IsFiniteSet(S), NEW f
  PROVE  IsFiniteSet({f[x] : x \in S})
<1>1. [x \in S |-> f[x]] \in Surjection(S, {f[x] : x \in S}) BY DEF Surjection
<1> QED BY <1>1, FS_Surjection

LEMMA MoneyItems ==
  ASSUME NEW s, Money(s)
  PROVE  s \in Seq(ToSet(s)) /\ \A x \in ToSet(s) : x.amount \in Nat
BY DEF Money, ToSet

LEMMA NamedFacts ==
  ASSUME NEW i, NEW tokens, IsIntent(i, tokens)
  PROVE  /\ IsFiniteSet(Named(i)) /\ Named(i) \subseteq tokens
         /\ Named(i) = {x.token : x \in ToSet(i.deposits) \cup ToSet(i.transfers) \cup ToSet(i.withdrawals)}
         /\ TokensOf(i) = {x.token : x \in ToSet(i.transfers) \cup ToSet(i.withdrawals)}
<1> DEFINE d == i.deposits
           r == i.transfers
           w == i.withdrawals
           X == ToSet(d) \cup ToSet(r) \cup ToSet(w)
<1>1. IsList(d) /\ IsList(r) /\ IsList(w) BY IntentLists, MoneyItems DEF IsList
<1>2. \A x \in X : x.token \in tokens BY DEF IsIntent, ItemsOf
<1>3. IsFiniteSet(X)
  <2>1. IsFiniteSet(ToSet(d)) /\ IsFiniteSet(ToSet(r)) /\ IsFiniteSet(ToSet(w)) BY <1>1, ItemsFinite DEF IsList
  <2> QED BY <2>1, FS_Union
<1> HIDE DEF d, r, w
<1>4. ToSet(r \o w) = ToSet(r) \cup ToSet(w) BY <1>1, ConcatLists
<1>5. TokensOf(i) = {x.token : x \in ToSet(r) \cup ToSet(w)}
  <2>1. TokensOf(i) = {x.token : x \in ToSet(r \o w)} BY DEF TokensOf, Field, ToSet, r, w
  <2> QED BY <1>4, <2>1
<1>6. Named(i) = {x.token : x \in X}
  <2>1. Field(i.deposits, LAMBDA x : x.token) = {x.token : x \in ToSet(d)} BY DEF Field, ToSet, d
  <2> QED BY <1>5, <2>1 DEF Named
<1> HIDE DEF X
<1>7. IsFiniteSet({x.token : x \in X})
  <2> DEFINE f == [x \in X |-> x.token]
  <2>1. {f[x] : x \in X} = {x.token : x \in X} OBVIOUS
  <2> HIDE DEF f
  <2>2. IsFiniteSet({f[x] : x \in X}) BY <1>3, ImageFinite
  <2> QED BY <2>1, <2>2
<1>8. {x.token : x \in X} \subseteq tokens BY <1>2
<1> QED BY <1>5, <1>6, <1>7, <1>8 DEF X, d, r, w

\* A state of which plan can make something: what its notes are.
Readable(st) == IsFiniteSet(st.notes) /\ \A n \in st.notes : n.amount \in Nat

LEMMA CoveredFacts ==
  ASSUME NEW st, NEW i, NEW tokens, IsIntent(i, tokens), Readable(st), Covered(st, i), NEW t \in Named(i)
  PROVE  /\ OnceEach(Spends(st, i, t), Spendable(st, t)) /\ Money(Spends(st, i, t))
         /\ TotalIn(Spends(st, i, t), t) \in Nat /\ Change(st, i, t) \in Nat
         /\ TotalIn(Spends(st, i, t), t) = Deficit(i, t) + Change(st, i, t)
<1>1. Deficit(i, t) \in Int BY IntentLists
<1>2. TotalOf(Spendable(st, t)) >= Deficit(i, t) BY DEF Covered
<1>3. /\ OnceEach(Spends(st, i, t), Spendable(st, t)) /\ Money(Spends(st, i, t))
      /\ TotalIn(Spends(st, i, t), t) \in Nat /\ TotalIn(Spends(st, i, t), t) >= Deficit(i, t)
  BY <1>1, <1>2, SpendsFacts DEF Readable
<1>4. Change(st, i, t) \in Nat /\ TotalIn(Spends(st, i, t), t) = Deficit(i, t) + Change(st, i, t)
  BY <1>1, <1>3 DEF Change
<1> QED BY <1>3, <1>4

\* A list with one item of a token.
LEMMA TotalInOne ==
  ASSUME NEW s, Money(s), NEW token, NEW i \in 1..Len(s), s[i].token = token,
         \A k \in 1..Len(s) : s[k].token = token => k = i
  PROVE  TotalIn(s, token) = s[i].amount
<1> DEFINE n == Len(s)
           w == Weights(s, token)
           a == s[i].amount
           f == [k \in 0..n |-> IF k >= i THEN a ELSE 0]
<1>1. n \in Nat /\ a \in Nat BY MoneyWeights DEF Money
<1>2. \A k \in 1..n : w[k] \in Nat /\ w[k] = IF k = i THEN a ELSE 0 BY MoneyWeights
<1>3. i \in 1..n OBVIOUS
<1> HIDE DEF n, w, a
<1>4. f[0] = 0 /\ f[n] = a BY <1>1, <1>3
<1>5. \A k \in 1..n : f[k] = f[k - 1] + w[k]
  <2> TAKE k \in 1..n
  <2>1. k - 1 \in 0..n /\ k \in 0..n BY <1>1
  <2>2. f[k] = (IF k >= i THEN a ELSE 0) /\ f[k - 1] = (IF k - 1 >= i THEN a ELSE 0) BY <2>1
  <2> HIDE DEF f
  <2> QED BY <1>1, <1>2, <1>3, <2>1, <2>2
<1> HIDE DEF f
<1>6. SumOf(w, n) = f[n]
  <2>1. Counts(w, n) BY <1>2 DEF Counts
  <2>2. AddsUp(f, w, n) BY <1>4, <1>5 DEF AddsUp
  <2> QED BY <1>1, <2>1, <2>2, SumIs
<1>7. TotalIn(s, token) = SumOf(w, n) BY TotalInIsSum DEF w, n
<1> QED BY <1>4, <1>6, <1>7 DEF a

\* The change of every named token goes back, in one note.
LEMMA ChangeNotesFacts ==
  ASSUME NEW st, NEW i, NEW tokens, IsIntent(i, tokens), Readable(st), Covered(st, i), NEW user
  PROVE  /\ Money(ChangeNotes(user, st, i))
         /\ \A k \in 1..Len(ChangeNotes(user, st, i)) :
               ChangeNotes(user, st, i)[k].to = user /\ ChangeNotes(user, st, i)[k].token \in Named(i)
         /\ \A t \in Named(i) : TotalIn(ChangeNotes(user, st, i), t) = Change(st, i, t)
<1> DEFINE U == {u \in Named(i) : Change(st, i, u) > 0}
           note == [t \in U |-> [to |-> user, token |-> t, amount |-> Change(st, i, t)]]
           S == {note[t] : t \in U}
           s == SetToSeq(S)
<1>1. ChangeNotes(user, st, i) = s
  <2>1. {[to |-> user, token |-> t, amount |-> Change(st, i, t)] : t \in U} = S OBVIOUS
  <2> HIDE DEF S, note
  <2> QED BY <2>1 DEF ChangeNotes
<1>2. \A t \in Named(i) : Change(st, i, t) \in Nat BY CoveredFacts
<1>3. IsFiniteSet(U) BY NamedFacts, FS_Subset
<1>4. \A t \in U : note[t].to = user /\ note[t].token = t /\ note[t].amount = Change(st, i, t) OBVIOUS
<1> HIDE DEF note
<1>5. IsFiniteSet(S)
  <2> HIDE DEF U
  <2> QED BY <1>3, ImageFinite
<1>6. \A x \in S : x.to = user /\ x.token \in U /\ x = note[x.token] /\ x.amount = Change(st, i, x.token)
  BY <1>4
<1>7. \A t \in U : note[t] \in S OBVIOUS
<1>8. \A t \in U : t \in Named(i) OBVIOUS
<1>9. \A t \in Named(i) : t \notin U => Change(st, i, t) = 0 BY <1>2
<1> HIDE DEF S, U, s
<1>10. s \in Seq(S) /\ (\A k, j \in DOMAIN s : s[k] = s[j] => k = j) /\ ToSet(s) = S
  BY <1>5, SetToSeqFacts DEF s
<1>11. Len(s) \in Nat /\ DOMAIN s = 1..Len(s) /\ \A k \in 1..Len(s) : s[k] \in S BY <1>10
<1>12. \A k \in 1..Len(s) : s[k].amount \in Nat BY <1>2, <1>6, <1>8, <1>11
<1>13. Money(s) BY <1>10, <1>12, OwnItems DEF Money
<1>14. ASSUME NEW t \in Named(i) PROVE TotalIn(s, t) = Change(st, i, t)
  <2>1. CASE t \in U
    <3>1. PICK k \in 1..Len(s) : s[k] = note[t] BY <1>7, <1>10, <1>11, <2>1 DEF ToSet
    <3>2. \A j \in 1..Len(s) : s[j].token = t => j = k BY <1>6, <1>10, <1>11, <3>1
    <3>3. s[k].token = t /\ s[k].amount = Change(st, i, t) BY <1>4, <2>1, <3>1
    <3> QED BY <1>13, <3>2, <3>3, TotalInOne
  <2>2. CASE t \notin U
    <3>1. \A j \in 1..Len(s) : s[j].token # t BY <1>6, <1>11, <2>2
    <3>2. TotalIn(s, t) = 0 BY <1>13, <3>1, TotalInNone
    <3> QED BY <1>9, <2>2, <3>2
  <2> QED BY <2>1, <2>2
<1>15. \A k \in 1..Len(s) : s[k].to = user /\ s[k].token \in Named(i) BY <1>6, <1>8, <1>11
<1> QED BY <1>1, <1>13, <1>14, <1>15

LEMMA NewNotesFacts ==
  ASSUME NEW st, NEW i, NEW tokens, IsIntent(i, tokens), Readable(st), Covered(st, i), NEW user
  PROVE  /\ Money(NewNotes(user, st, i))
         /\ \A k \in 1..Len(NewNotes(user, st, i)) : NewNotes(user, st, i)[k].token \in Named(i)
         /\ \A t \in Named(i) : TotalIn(NewNotes(user, st, i), t) = TotalIn(i.transfers, t) + Change(st, i, t)
<1> DEFINE c == ChangeNotes(user, st, i)
           r == i.transfers
<1>1. Money(c) /\ \A k \in 1..Len(c) : c[k].token \in Named(i) BY ChangeNotesFacts
<1>2. \A t \in Named(i) : TotalIn(c, t) = Change(st, i, t) BY ChangeNotesFacts
<1>3. Money(r) BY IntentLists
<1>4. \A x \in ToSet(r) : x.token \in Named(i) BY NamedFacts
<1> HIDE DEF c, r
<1>5. Money(r \o c) /\ \A t : TotalIn(r \o c, t) = TotalIn(r, t) + TotalIn(c, t) BY <1>1, <1>3, TotalInConcat
<1>6. \A x \in ToSet(c) : x.token \in Named(i) BY <1>1, MoneyItems, SeqFacts
<1>7. \A x \in ToSet(r \o c) : x.token \in Named(i)
  <2>1. IsList(r) /\ IsList(c) BY <1>1, <1>3, MoneyItems DEF IsList
  <2>2. ToSet(r \o c) = ToSet(r) \cup ToSet(c) BY <2>1, ConcatLists
  <2> QED BY <1>4, <1>6, <2>2
<1>8. \A k \in 1..Len(r \o c) : (r \o c)[k].token \in Named(i) BY <1>5, <1>7, MoneyItems, SeqFacts
<1>9. NewNotes(user, st, i) = r \o c BY DEF NewNotes, r, c
<1> QED BY <1>2, <1>5, <1>8, <1>9 DEF r

LEMMA OnceEachConcat ==
  ASSUME NEW S, NEW s, OnceEach(s, S), NEW t, OnceEach(t, S), ToSet(s) \cap ToSet(t) = {}
  PROVE  OnceEach(s \o t, S) /\ ToSet(s \o t) = ToSet(s) \cup ToSet(t)
<1> DEFINE n == Len(s)
           m == Len(t)
           r == s \o t
<1>1. s \in Seq(S) /\ t \in Seq(S) /\ n \in Nat /\ m \in Nat BY DEF OnceEach
<1>2. /\ r \in Seq(S) /\ Len(r) = n + m
      /\ \A k \in 1..n : r[k] = s[k]
      /\ \A k \in 1..m : r[n + k] = t[k]
  <2>1. s \o t \in Seq(S \cup S) BY <1>1, ToSetConcat
  <2>2. S \cup S = S OBVIOUS
  <2>3. Len(s \o t) = n + m /\ (\A k \in 1..n : (s \o t)[k] = s[k]) /\ \A k \in 1..m : (s \o t)[n + k] = t[k]
    BY <1>1, ToSetConcat
  <2> HIDE DEF n, m
  <2> QED BY <2>1, <2>2, <2>3
<1>3. ToSet(r) = ToSet(s) \cup ToSet(t) BY <1>1, ToSetConcat
<1>4. \A k \in 1..n : s[k] \in ToSet(s) BY <1>1, SeqFacts
<1>5. \A k \in 1..m : t[k] \in ToSet(t) BY <1>1, SeqFacts
<1>6. \A j, k \in 1..n : s[j] = s[k] => j = k BY DEF OnceEach
<1>7. \A j, k \in 1..m : t[j] = t[k] => j = k BY DEF OnceEach
<1> HIDE DEF r, n, m
<1>8. \A k \in 1..(n + m) : k \in 1..n \/ (k - n \in 1..m /\ n + (k - n) = k) BY <1>1
<1>9. ASSUME NEW j \in 1..(n + m), NEW k \in 1..(n + m), r[j] = r[k] PROVE j = k
  <2>1. CASE j \in 1..n /\ k \in 1..n BY <1>2, <1>6, <1>9, <2>1
  <2>2. CASE j \in 1..n /\ k \notin 1..n
    <3>1. r[j] \in ToSet(s) BY <1>2, <1>4, <2>2
    <3>2. r[k] \in ToSet(t) BY <1>2, <1>5, <1>8, <2>2
    <3> QED BY <1>9, <3>1, <3>2
  <2>3. CASE j \notin 1..n /\ k \in 1..n
    <3>1. r[k] \in ToSet(s) BY <1>2, <1>4, <2>3
    <3>2. r[j] \in ToSet(t) BY <1>2, <1>5, <1>8, <2>3
    <3> QED BY <1>9, <3>1, <3>2
  <2>4. CASE j \notin 1..n /\ k \notin 1..n
    <3>1. j - n \in 1..m /\ n + (j - n) = j /\ k - n \in 1..m /\ n + (k - n) = k BY <1>8, <2>4
    <3>2. t[j - n] = r[j] /\ t[k - n] = r[k] BY <1>2, <3>1
    <3>3. j - n = k - n BY <1>7, <1>9, <3>1, <3>2
    <3> QED BY <1>1, <3>1, <3>3
  <2> QED BY <2>1, <2>2, <2>3, <2>4
<1> QED BY <1>2, <1>3, <1>9 DEF OnceEach, r

LEMMA OnceEachMoney ==
  ASSUME NEW S, NEW s, OnceEach(s, S), \A x \in S : x.amount \in Nat
  PROVE  Money(s)
<1>1. s \in Seq(S) /\ \A k \in 1..Len(s) : s[k] \in S BY OnceEachCount DEF OnceEach
<1> QED BY <1>1, OwnItems DEF Money

LEMMA OnceEachMore ==
  ASSUME NEW S, NEW R, R \subseteq S, NEW s, OnceEach(s, R)
  PROVE  OnceEach(s, S)
<1>1. s \in Seq(R) BY DEF OnceEach
<1>2. s \in Seq(S) BY <1>1
<1> QED BY <1>2 DEF OnceEach

\* What the fold of Uses has after the tokens T.
UsesSoFar(all, T, st, i) ==
    /\ OnceEach(all, st.notes)
    /\ \A n \in ToSet(all) : n.token \in T
    /\ \A t \in Named(i) : TotalIn(all, t) = IF t \in T THEN TotalIn(Spends(st, i, t), t) ELSE 0

LEMMA UsesOneMore ==
  ASSUME NEW st, NEW i, NEW tokens, IsIntent(i, tokens), Readable(st), Covered(st, i),
         NEW T, NEW t \in Named(i), t \notin T, NEW all, UsesSoFar(all, T, st, i)
  PROVE  UsesSoFar(all \o Spends(st, i, t), T \cup {t}, st, i)
<1> DEFINE s == Spends(st, i, t)
<1>1. OnceEach(s, Spendable(st, t)) /\ Money(s) BY CoveredFacts
<1>2. \A n \in Spendable(st, t) : n \in st.notes /\ n.token = t BY DEF Spendable
<1>3. ToSet(s) \subseteq Spendable(st, t) /\ \A k \in 1..Len(s) : s[k] \in Spendable(st, t)
  BY <1>1, OnceEachCount
<1>4. OnceEach(s, st.notes)
  <2>1. Spendable(st, t) \subseteq st.notes BY <1>2
  <2> QED BY <1>1, <2>1, OnceEachMore
<1> HIDE DEF s
<1>5. OnceEach(all, st.notes) /\ Money(all) BY OnceEachMoney DEF UsesSoFar, Readable
<1>6. ToSet(all) \cap ToSet(s) = {} BY <1>2, <1>3 DEF UsesSoFar
<1>7. OnceEach(all \o s, st.notes) /\ ToSet(all \o s) = ToSet(all) \cup ToSet(s)
  BY <1>4, <1>5, <1>6, OnceEachConcat
<1>8. \A n \in ToSet(all \o s) : n.token \in T \cup {t} BY <1>2, <1>3, <1>7 DEF UsesSoFar
<1>9. ASSUME NEW u \in Named(i)
      PROVE  TotalIn(all \o s, u) = IF u \in T \cup {t} THEN TotalIn(Spends(st, i, u), u) ELSE 0
  <2>1. TotalIn(all \o s, u) = TotalIn(all, u) + TotalIn(s, u) BY <1>1, <1>5, TotalInConcat
  <2>2. TotalIn(all, u) = IF u \in T THEN TotalIn(Spends(st, i, u), u) ELSE 0 BY DEF UsesSoFar
  <2>3. TotalIn(Spends(st, i, u), u) \in Nat BY CoveredFacts
  <2>4. CASE u = t
    <3>1. TotalIn(all, u) = 0 BY <2>2, <2>4
    <3> QED BY <2>1, <2>3, <2>4, <3>1 DEF s
  <2>5. CASE u # t
    <3>1. \A k \in 1..Len(s) : s[k].token # u BY <1>2, <1>3, <2>5
    <3>2. TotalIn(s, u) = 0 BY <1>1, <3>1, TotalInNone
    <3> QED BY <2>1, <2>2, <2>3, <2>5, <3>2
  <2> QED BY <2>4, <2>5
<1> QED BY <1>7, <1>8, <1>9 DEF UsesSoFar, s

\* plan spends every note at most once, and of every named token what it has chosen.
LEMMA UsesFacts ==
  ASSUME NEW st, NEW i, NEW tokens, IsIntent(i, tokens), Readable(st), Covered(st, i)
  PROVE  UsesSoFar(Uses(st, i), Named(i), st, i)
<1> DEFINE names == SetToSeq(Named(i))
           n == Len(names)
           V == Seq(st.notes)
           Rec(f) == f = [s \in SUBSET DOMAIN names |->
                        IF s = {} THEN << >> ELSE f[s \ {Max(s)}] \o Spends(st, i, names[Max(s)])]
           iter == CHOOSE f : Rec(f)
           step == [p \in (1..n) \X V |-> p[2] \o Spends(st, i, names[p[1]])]
<1>1. Uses(st, i) = iter[DOMAIN names] BY DEF Uses, FoldLeft, MapThenFoldSet
<1>2. /\ names \in Seq(Named(i)) /\ ToSet(names) = Named(i)
      /\ \A k, j \in DOMAIN names : names[k] = names[j] => k = j
  BY NamedFacts, SetToSeqFacts
<1> HIDE DEF names
<1>3. n \in Nat /\ DOMAIN names = 1..n /\ \A k \in 1..n : names[k] \in Named(i) BY <1>2
<1>4. << >> \in V OBVIOUS
<1>5. \A k \in 1..n : Spends(st, i, names[k]) \in V
  <2> TAKE k \in 1..n
  <2>1. OnceEach(Spends(st, i, names[k]), Spendable(st, names[k])) BY <1>3, CoveredFacts
  <2>2. Spendable(st, names[k]) \subseteq st.notes BY DEF Spendable
  <2>3. OnceEach(Spends(st, i, names[k]), st.notes) BY <2>1, <2>2, OnceEachMore
  <2> QED BY <2>3 DEF OnceEach
<1> HIDE DEF n
<1>6. \A x \in 1..n, v \in V : step[<<x, v>>] = v \o Spends(st, i, names[x])
  <2> TAKE x \in 1..n, v \in V
  <2>1. <<x, v>> \in (1..n) \X V /\ <<x, v>>[1] = x /\ <<x, v>>[2] = v OBVIOUS
  <2> QED BY <2>1
<1> HIDE DEF step
<1>7. Closed(step, 1..n, V)
  <2>1. \A x \in 1..n, v \in V : step[<<x, v>>] \in V
    <3> TAKE x \in 1..n, v \in V
    <3>1. Spends(st, i, names[x]) \in V BY <1>5
    <3>2. \A a, c \in Seq(st.notes) : a \o c \in Seq(st.notes) OBVIOUS
    <3>3. v \o Spends(st, i, names[x]) \in V BY <3>1, <3>2
    <3> QED BY <1>6, <3>3
  <2> QED BY <2>1 DEF Closed
<1> HIDE DEF V
<1>8. Rec(iter)
  <2>1. PICK it : IsPrefixFold(it, n, V, << >>, step) BY <1>3, <1>4, <1>7, FoldPrefixes
  <2>2. it = [T \in SUBSET (1..n) |-> IF T = {} THEN << >> ELSE step[<<Max(T), it[T \ {Max(T)}]>>]]
    BY <2>1 DEF IsPrefixFold
  <2>3. \A T \in SUBSET (1..n) : T # {} => Max(T) \in 1..n /\ it[T \ {Max(T)}] \in V
    BY <1>3, <2>1, MaxIsMember DEF IsPrefixFold
  <2>4. ASSUME NEW T \in SUBSET (1..n), T # {}
        PROVE  step[<<Max(T), it[T \ {Max(T)}]>>] = it[T \ {Max(T)}] \o Spends(st, i, names[Max(T)])
    BY <1>6, <2>3, <2>4
  <2>5. Rec(it) BY <1>3, <2>2, <2>4
  <2> QED BY <2>5
<1>9. iter = [s \in SUBSET (1..n) |->
                IF s = {} THEN << >> ELSE iter[s \ {Max(s)}] \o Spends(st, i, names[Max(s)])]
  BY <1>3, <1>8
<1> HIDE DEF iter, Rec
<1>10. PICK acc : IsRun(acc, n, V, << >>, step, iter[1..n])
  <2>1. iter[{}] = << >> BY <1>9
  <2>2. ASSUME NEW T \in SUBSET (1..n), T # {}, iter[T \ {Max(T)}] \in V
        PROVE  iter[T] = step[<<Max(T), iter[T \ {Max(T)}]>>]
    <3>1. Max(T) \in 1..n BY <1>3, <2>2, MaxIsMember
    <3>2. iter[T] = iter[T \ {Max(T)}] \o Spends(st, i, names[Max(T)]) BY <1>9, <2>2
    <3> QED BY <1>6, <2>2, <3>1, <3>2
  <2>3. Steps(iter, n, V, << >>, step) BY <2>1, <2>2 DEF Steps
  <2> QED BY <1>3, <1>4, <1>7, <2>3, FoldIsRun
<1> DEFINE T(k) == {names[j] : j \in 1..k}
           Ok == {k \in Nat : k <= n => UsesSoFar(acc[k], T(k), st, i)}
<1>11. 0 \in Ok
  <2>1. acc[0] = << >> BY <1>10 DEF IsRun
  <2>2. T(0) = {} OBVIOUS
  <2>3. OnceEach(<< >>, st.notes) BY DEF OnceEach
  <2>4. ToSet(<< >>) = {} BY DEF ToSet
  <2>5. UsesSoFar(<< >>, {}, st, i) BY <2>3, <2>4, EmptyList DEF UsesSoFar
  <2> QED BY <2>1, <2>2, <2>5
<1>12. ASSUME NEW k \in Nat, k \in Ok PROVE k + 1 \in Ok
  <2> SUFFICES ASSUME k + 1 <= n PROVE UsesSoFar(acc[k + 1], T(k + 1), st, i) OBVIOUS
  <2>1. UsesSoFar(acc[k], T(k), st, i) BY <1>3, <1>12
  <2>2. k + 1 \in 1..n /\ k \in 0..n /\ (k + 1) - 1 = k /\ \A j \in 1..k : j \in 1..n /\ j # k + 1 BY <1>3
  <2>3. acc[k + 1] = step[<<k + 1, acc[k]>>] /\ acc[k] \in V BY <1>10, <2>2 DEF IsRun
  <2>4. acc[k + 1] = acc[k] \o Spends(st, i, names[k + 1]) BY <1>6, <2>2, <2>3
  <2>5. names[k + 1] \notin T(k) BY <1>2, <1>3, <2>2
  <2>6. T(k + 1) = T(k) \cup {names[k + 1]}
    <3>1. \A j \in 1..(k + 1) : j \in 1..k \/ j = k + 1 OBVIOUS
    <3>2. \A j \in 1..k : j \in 1..(k + 1) OBVIOUS
    <3>3. k + 1 \in 1..(k + 1) OBVIOUS
    <3> QED BY <3>1, <3>2, <3>3
  <2> HIDE DEF T
  <2>7. names[k + 1] \in Named(i) BY <1>3, <2>2
  <2>8. UsesSoFar(acc[k] \o Spends(st, i, names[k + 1]), T(k) \cup {names[k + 1]}, st, i)
    BY <2>1, <2>5, <2>7, UsesOneMore
  <2> QED BY <2>4, <2>6, <2>8
<1> HIDE DEF Ok
<1>13. n \in Ok BY <1>3, <1>11, <1>12, NatSetInduction
<1>14. UsesSoFar(acc[n], T(n), st, i) BY <1>3, <1>13 DEF Ok
<1>15. T(n) = Named(i) BY <1>2, <1>3 DEF ToSet
<1>16. acc[n] = iter[1..n] BY <1>10 DEF IsRun
<1> QED BY <1>1, <1>3, <1>14, <1>15, <1>16

--------------------------------------------------------------------------------
(* The slots a plan gives out.                                             *)

SubsFor(K) == UNION {[S -> [index : Nat, next : Nat]] : S \in SUBSET K}

ChannelsFor(D, K) == [D -> [open : BOOLEAN, subs : SubsFor(K)]]

\* The planner's work, for recipients D and tokens K.
Accs(D, K) == [channels : ChannelsFor(D, K), outgoing : Nat,
               opens   : Seq([to : D, index : Nat]),
               subs    : Seq([to : D, token : K, index : Nat]),
               creates : Seq([to : D, token : K, amount : Nat, index : Nat])]

IsNote(note, D, K) == note.to \in D /\ note.token \in K /\ note.amount \in Nat

LEMMA SubsForFacts ==
  ASSUME NEW K, NEW f
  PROVE  f \in SubsFor(K) <=> /\ f = [t \in DOMAIN f |-> f[t]] /\ DOMAIN f \subseteq K
                              /\ \A t \in DOMAIN f : f[t] \in [index : Nat, next : Nat]
<1>1. ASSUME f \in SubsFor(K)
      PROVE  /\ f = [t \in DOMAIN f |-> f[t]] /\ DOMAIN f \subseteq K
             /\ \A t \in DOMAIN f : f[t] \in [index : Nat, next : Nat]
  <2>1. PICK S \in SUBSET K : f \in [S -> [index : Nat, next : Nat]] BY <1>1 DEF SubsFor
  <2> QED BY <2>1
<1>2. ASSUME f = [t \in DOMAIN f |-> f[t]], DOMAIN f \subseteq K,
             \A t \in DOMAIN f : f[t] \in [index : Nat, next : Nat]
      PROVE  f \in SubsFor(K)
  <2>1. f \in [DOMAIN f -> [index : Nat, next : Nat]] BY <1>2
  <2> QED BY <1>2, <2>1 DEF SubsFor
<1> QED BY <1>1, <1>2

LEMMA AccFields ==
  ASSUME NEW D, NEW K, NEW acc
  PROVE  acc \in Accs(D, K) <=>
            /\ acc = [channels |-> acc.channels, outgoing |-> acc.outgoing, opens |-> acc.opens,
                      subs |-> acc.subs, creates |-> acc.creates]
            /\ acc.channels \in ChannelsFor(D, K) /\ acc.outgoing \in Nat
            /\ acc.opens \in Seq([to : D, index : Nat])
            /\ acc.subs \in Seq([to : D, token : K, index : Nat])
            /\ acc.creates \in Seq([to : D, token : K, amount : Nat, index : Nat])
BY DEF Accs

LEMMA ChannelFields ==
  ASSUME NEW D, NEW K, NEW channels \in ChannelsFor(D, K), NEW to \in D
  PROVE  /\ channels[to] = [open |-> channels[to].open, subs |-> channels[to].subs]
         /\ channels[to].open \in BOOLEAN /\ channels[to].subs \in SubsFor(K)
BY DEF ChannelsFor

LEMMA FieldSet ==
  ASSUME NEW a, NEW b, NEW x, x = [open |-> a, subs |-> b], NEW c
  PROVE  [x EXCEPT !.open = c] = [open |-> c, subs |-> b] /\ [x EXCEPT !.subs = c] = [open |-> a, subs |-> c]
<1>1. [x EXCEPT !.open = c] = [open |-> c, subs |-> b]
  <2>1. [x EXCEPT !.open = c] = [f \in {"open", "subs"} |-> IF f = "open" THEN c ELSE b] OBVIOUS
  <2>2. [open |-> c, subs |-> b] = [f \in {"open", "subs"} |-> IF f = "open" THEN c ELSE b] OBVIOUS
  <2> QED BY <2>1, <2>2
<1>2. [x EXCEPT !.subs = c] = [open |-> a, subs |-> c]
  <2>1. [x EXCEPT !.subs = c] = [f \in {"open", "subs"} |-> IF f = "open" THEN a ELSE c] OBVIOUS
  <2>2. [open |-> a, subs |-> c] = [f \in {"open", "subs"} |-> IF f = "open" THEN a ELSE c] OBVIOUS
  <2> QED BY <2>1, <2>2
<1> QED BY <1>1, <1>2

LEMMA FieldOpened ==
  ASSUME NEW x, x = [open |-> x.open, subs |-> x.subs]
  PROVE  [x EXCEPT !.open = TRUE] = [open |-> TRUE, subs |-> x.subs]
<1> DEFINE c == TRUE
           a == x.open
           b == x.subs
<1>1. x = [open |-> a, subs |-> b] OBVIOUS
<1> HIDE DEF a, b, c
<1>2. [x EXCEPT !.open = c] = [open |-> c, subs |-> b] BY <1>1, FieldSet
<1> QED BY <1>2, Zenon DEF b, c

Opened(channels, to) == [c \in DOMAIN channels |->
                           IF c = to THEN [open |-> TRUE, subs |-> channels[to].subs] ELSE channels[c]]

LEMMA EnsureFacts ==
  ASSUME NEW D, NEW K, NEW acc \in Accs(D, K), NEW to \in D
  PROVE  LET E == EnsureChannel(acc, to)
         IN  /\ E \in Accs(D, K)
             /\ E.channels = Opened(acc.channels, to)
             /\ E.outgoing = acc.outgoing + (IF acc.channels[to].open THEN 0 ELSE 1)
             /\ E.opens = IF acc.channels[to].open THEN acc.opens
                          ELSE Append(acc.opens, [to |-> to, index |-> acc.outgoing])
             /\ E.subs = acc.subs /\ E.creates = acc.creates
<1> DEFINE E == EnsureChannel(acc, to)
<1>1. /\ acc.channels \in ChannelsFor(D, K) /\ acc.outgoing \in Nat /\ acc.opens \in Seq([to : D, index : Nat])
      /\ acc.subs \in Seq([to : D, token : K, index : Nat])
      /\ acc.creates \in Seq([to : D, token : K, amount : Nat, index : Nat])
  BY AccFields
<1>2. /\ acc.channels[to] = [open |-> acc.channels[to].open, subs |-> acc.channels[to].subs]
      /\ acc.channels[to].open \in BOOLEAN /\ acc.channels[to].subs \in SubsFor(K)
  BY <1>1, ChannelFields
<1>3. acc.channels = [c \in D |-> acc.channels[c]] BY <1>1 DEF ChannelsFor
<1>4. CASE acc.channels[to].open
  <2>1. E = acc BY <1>4 DEF EnsureChannel
  <2>2. acc.channels = Opened(acc.channels, to)
    <3>1. \A c \in D : c = to => acc.channels[c] = [open |-> TRUE, subs |-> acc.channels[to].subs] BY <1>2, <1>4
    <3> QED BY <1>3, <3>1 DEF Opened
  <2>3. acc.outgoing + 0 = acc.outgoing BY <1>1
  <2> HIDE DEF E
  <2> QED BY <1>4, <2>1, <2>2, <2>3 DEF E
<1>5. CASE ~acc.channels[to].open
  <2>1. /\ E.channels = [acc.channels EXCEPT ![to].open = TRUE] /\ E.outgoing = acc.outgoing + 1
        /\ E.opens = Append(acc.opens, [to |-> to, index |-> acc.outgoing])
        /\ E.subs = acc.subs /\ E.creates = acc.creates
        /\ E = [channels |-> E.channels, outgoing |-> E.outgoing, opens |-> E.opens, subs |-> E.subs,
                creates |-> E.creates]
    BY <1>5 DEF EnsureChannel, Accs
  <2> HIDE DEF E
  <2>2. E.channels = Opened(acc.channels, to)
    <3>1. [acc.channels[to] EXCEPT !.open = TRUE] = [open |-> TRUE, subs |-> acc.channels[to].subs]
      BY <1>2, FieldOpened
    <3>2. E.channels = [c \in D |-> IF c = to THEN [acc.channels[to] EXCEPT !.open = TRUE] ELSE acc.channels[c]]
      BY <1>3, <2>1
    <3>3. DOMAIN acc.channels = D BY <1>3
    <3> QED BY <3>1, <3>2, <3>3 DEF Opened
  <2>3. E.channels \in ChannelsFor(D, K)
    <3>1. E.channels = [c \in D |->
                          IF c = to THEN [open |-> TRUE, subs |-> acc.channels[to].subs] ELSE acc.channels[c]]
      BY <1>3, <2>2 DEF Opened
    <3>2. [open |-> TRUE, subs |-> acc.channels[to].subs] \in [open : BOOLEAN, subs : SubsFor(K)] BY <1>2
    <3>3. \A c \in D : acc.channels[c] \in [open : BOOLEAN, subs : SubsFor(K)] BY <1>1 DEF ChannelsFor
    <3> QED BY <3>1, <3>2, <3>3 DEF ChannelsFor
  <2>4. E.outgoing \in Nat BY <1>1, <2>1
  <2>5. E.opens \in Seq([to : D, index : Nat])
    <3>1. [to |-> to, index |-> acc.outgoing] \in [to : D, index : Nat] BY <1>1
    <3> QED BY <1>1, <2>1, <3>1
  <2>6. E \in Accs(D, K) BY <1>1, <2>1, <2>3, <2>4, <2>5, AccFields
  <2> QED BY <1>5, <2>1, <2>2, <2>6 DEF E
<1> QED BY <1>2, <1>4, <1>5

\* A note put into a channel that is open.
NextOf(old, t) == IF t \in DOMAIN old THEN old[t].next ELSE 0

PutSubs(old, t) ==
    [u \in {t} \cup DOMAIN old |->
        IF u = t THEN [index |-> IF t \in DOMAIN old THEN old[t].index ELSE Cardinality(DOMAIN old),
                       next  |-> NextOf(old, t) + 1]
        ELSE old[u]]

Put(acc, note) ==
    LET old == acc.channels[note.to].subs
    IN  [channels |-> [c \in DOMAIN acc.channels |->
                         IF c = note.to THEN [open |-> acc.channels[c].open, subs |-> PutSubs(old, note.token)]
                         ELSE acc.channels[c]],
         outgoing |-> acc.outgoing, opens |-> acc.opens,
         subs     |-> IF note.token \in DOMAIN old THEN acc.subs
                      ELSE Append(acc.subs, [to |-> note.to, token |-> note.token,
                                             index |-> Cardinality(DOMAIN old)]),
         creates  |-> Append(acc.creates, [to |-> note.to, token |-> note.token, amount |-> note.amount,
                                           index |-> NextOf(old, note.token)])]

LEMMA PlaceIsPut ==
  ASSUME NEW D, NEW K, NEW acc \in Accs(D, K), NEW note, IsNote(note, D, K)
  PROVE  PlaceNote(acc, note) = Put(EnsureChannel(acc, note.to), note)
<1> DEFINE E == EnsureChannel(acc, note.to)
           old == E.channels[note.to].subs
           new == note.token \notin DOMAIN old
           sub == IF new THEN [index |-> Cardinality(DOMAIN old), next |-> 0] ELSE old[note.token]
           subs == [t \in {note.token} \cup DOMAIN old |->
                      IF t = note.token THEN [sub EXCEPT !.next = @ + 1] ELSE old[t]]
<1>1. note.to \in D /\ note.token \in K BY DEF IsNote
<1>2. E \in Accs(D, K) BY <1>1, EnsureFacts
<1>3. PlaceNote(acc, note) =
         [E EXCEPT !.channels[note.to].subs = subs,
                   !.subs = IF new THEN Append(@, [to |-> note.to, token |-> note.token, index |-> sub.index]) ELSE @,
                   !.creates = Append(@, [to |-> note.to, token |-> note.token, amount |-> note.amount,
                                          index |-> sub.next])]
  BY DEF PlaceNote, PlaceAt
<1> HIDE DEF E
<1>4. E.channels \in ChannelsFor(D, K) /\ old \in SubsFor(K)
      /\ E.channels[note.to] = [open |-> E.channels[note.to].open, subs |-> old]
  <2>1. E.channels \in ChannelsFor(D, K) BY <1>2, AccFields
  <2>2. /\ E.channels[note.to] = [open |-> E.channels[note.to].open, subs |-> E.channels[note.to].subs]
        /\ E.channels[note.to].subs \in SubsFor(K)
    BY <1>1, <2>1, ChannelFields
  <2> QED BY <2>1, <2>2
<1>5. \A t \in DOMAIN old : old[t] \in [index : Nat, next : Nat] BY <1>4, SubsForFacts
<1> HIDE DEF old
<1>6. sub.next = NextOf(old, note.token)
      /\ sub.index = (IF new THEN Cardinality(DOMAIN old) ELSE old[note.token].index)
  BY DEF NextOf
<1>7. [sub EXCEPT !.next = @ + 1] =
         [index |-> IF note.token \in DOMAIN old THEN old[note.token].index ELSE Cardinality(DOMAIN old),
          next |-> NextOf(old, note.token) + 1]
  <2>1. CASE new BY <2>1 DEF NextOf
  <2>2. CASE ~new
    <3>1. old[note.token] = [index |-> old[note.token].index, next |-> old[note.token].next] BY <1>5, <2>2
    <3>2. sub = old[note.token] BY <2>2
    <3> HIDE DEF sub
    <3>3. [sub EXCEPT !.next = @ + 1] = [index |-> sub.index, next |-> sub.next + 1] BY <3>1, <3>2
    <3> QED BY <2>2, <3>2, <3>3 DEF NextOf
  <2> QED BY <2>1, <2>2
<1> HIDE DEF sub
<1>8. subs = PutSubs(old, note.token) BY <1>7 DEF PutSubs
<1> HIDE DEF subs
<1>9. [E.channels EXCEPT ![note.to].subs = subs] =
         [c \in DOMAIN E.channels |->
            IF c = note.to THEN [open |-> E.channels[c].open, subs |-> PutSubs(old, note.token)] ELSE E.channels[c]]
  <2>1. [E.channels[note.to] EXCEPT !.subs = subs] = [open |-> E.channels[note.to].open, subs |-> subs]
    BY <1>4, FieldSet
  <2> QED BY <1>8, <2>1
<1>10. new => sub.index = Cardinality(DOMAIN old) BY <1>6
<1>11. E = [channels |-> E.channels, outgoing |-> E.outgoing, opens |-> E.opens, subs |-> E.subs,
            creates |-> E.creates]
  BY <1>2, AccFields
<1>12. PlaceNote(acc, note) =
         [channels |-> [E.channels EXCEPT ![note.to].subs = subs], outgoing |-> E.outgoing, opens |-> E.opens,
          subs |-> IF new THEN Append(E.subs, [to |-> note.to, token |-> note.token, index |-> sub.index]) ELSE E.subs,
          creates |-> Append(E.creates, [to |-> note.to, token |-> note.token, amount |-> note.amount,
                                         index |-> sub.next])]
  BY <1>3, <1>11
<1>13. Put(E, note) =
         [channels |-> [c \in DOMAIN E.channels |->
                          IF c = note.to THEN [open |-> E.channels[c].open, subs |-> PutSubs(old, note.token)]
                          ELSE E.channels[c]],
          outgoing |-> E.outgoing, opens |-> E.opens,
          subs |-> IF note.token \in DOMAIN old THEN E.subs
                   ELSE Append(E.subs, [to |-> note.to, token |-> note.token, index |-> Cardinality(DOMAIN old)]),
          creates |-> Append(E.creates, [to |-> note.to, token |-> note.token, amount |-> note.amount,
                                         index |-> NextOf(old, note.token)])]
  BY DEF Put, old
<1>14. PlaceNote(acc, note).subs = Put(E, note).subs BY <1>10, <1>12, <1>13
<1>15. PlaceNote(acc, note).channels = Put(E, note).channels BY <1>9, <1>12, <1>13
<1>16. PlaceNote(acc, note).creates = Put(E, note).creates BY <1>6, <1>12, <1>13
<1>17. PlaceNote(acc, note).outgoing = Put(E, note).outgoing /\ PlaceNote(acc, note).opens = Put(E, note).opens
  BY <1>12, <1>13
<1> DEFINE P == PlaceNote(acc, note)
           Q == Put(E, note)
<1>18. P = [channels |-> P.channels, outgoing |-> P.outgoing, opens |-> P.opens, subs |-> P.subs,
            creates |-> P.creates]
  BY <1>12
<1>19. Q = [channels |-> Q.channels, outgoing |-> Q.outgoing, opens |-> Q.opens, subs |-> Q.subs,
            creates |-> Q.creates]
  BY <1>13
<1> HIDE DEF P, Q
<1>20. P = Q BY <1>14, <1>15, <1>16, <1>17, <1>18, <1>19 DEF P, Q
<1> QED BY <1>20 DEF E, P, Q

LEMMA AppendFacts ==
  ASSUME NEW X, NEW s \in Seq(X), NEW x \in X
  PROVE  /\ Append(s, x) \in Seq(X) /\ Len(s) \in Nat /\ Len(Append(s, x)) = Len(s) + 1
         /\ \A i \in 1..Len(s) : Append(s, x)[i] = s[i]
         /\ Append(s, x)[Len(s) + 1] = x
         /\ \A i \in 1..(Len(s) + 1) : i \in 1..Len(s) \/ i = Len(s) + 1
         /\ \A i \in 1..Len(s) : i \in 1..(Len(s) + 1) /\ i # Len(s) + 1
         /\ Len(s) + 1 \in 1..(Len(s) + 1)
OBVIOUS

\* The tokens of a recipient's subchannels, and the index its next note of a token gets.
Dom(acc, to) == DOMAIN acc.channels[to].subs
NextIn(acc, to, t) == NextOf(acc.channels[to].subs, t)

EnsureEffect(acc, E, to, D, K) ==
    /\ E \in Accs(D, K) /\ E.subs = acc.subs /\ E.creates = acc.creates
    /\ \A c \in D : /\ E.channels[c].open <=> c = to \/ acc.channels[c].open
                    /\ E.channels[c].subs = acc.channels[c].subs
    /\ IF acc.channels[to].open THEN E.opens = acc.opens /\ E.outgoing = acc.outgoing
       ELSE E.opens = Append(acc.opens, [to |-> to, index |-> acc.outgoing]) /\ E.outgoing = acc.outgoing + 1

LEMMA EnsureDoes ==
  ASSUME NEW D, NEW K, NEW acc \in Accs(D, K), NEW to \in D
  PROVE  EnsureEffect(acc, EnsureChannel(acc, to), to, D, K)
<1> DEFINE E == EnsureChannel(acc, to)
<1>1. /\ E \in Accs(D, K) /\ E.channels = Opened(acc.channels, to)
      /\ E.outgoing = acc.outgoing + (IF acc.channels[to].open THEN 0 ELSE 1)
      /\ E.opens = (IF acc.channels[to].open THEN acc.opens
                    ELSE Append(acc.opens, [to |-> to, index |-> acc.outgoing]))
      /\ E.subs = acc.subs /\ E.creates = acc.creates
  BY EnsureFacts
<1> HIDE DEF E
<1>2. acc.channels \in ChannelsFor(D, K) /\ acc.outgoing \in Nat BY AccFields
<1>3. DOMAIN acc.channels = D BY <1>2 DEF ChannelsFor
<1>4. ASSUME NEW c \in D
      PROVE  /\ E.channels[c].open <=> c = to \/ acc.channels[c].open
             /\ E.channels[c].subs = acc.channels[c].subs
  <2>1. E.channels[c] = IF c = to THEN [open |-> TRUE, subs |-> acc.channels[to].subs] ELSE acc.channels[c]
    BY <1>1, <1>3 DEF Opened
  <2>2. CASE c = to
    <3>1. E.channels[c] = [open |-> TRUE, subs |-> acc.channels[to].subs] BY <2>1, <2>2
    <3> QED BY <2>2, <3>1
  <2>3. CASE c # to BY <2>1, <2>3
  <2> QED BY <2>2, <2>3
<1>5. IF acc.channels[to].open THEN E.opens = acc.opens /\ E.outgoing = acc.outgoing
      ELSE E.opens = Append(acc.opens, [to |-> to, index |-> acc.outgoing]) /\ E.outgoing = acc.outgoing + 1
  BY <1>1, <1>2
<1> QED BY <1>1, <1>4, <1>5 DEF EnsureEffect, E

PutEffect(E, P, note, D, K) ==
    /\ P \in Accs(D, K) /\ P.outgoing = E.outgoing /\ P.opens = E.opens
    /\ \A c \in D : /\ P.channels[c].open = E.channels[c].open
                    /\ Dom(P, c) = IF c = note.to THEN Dom(E, c) \cup {note.token} ELSE Dom(E, c)
    /\ \A c \in D, t \in K :
          NextIn(P, c, t) = IF c = note.to /\ t = note.token THEN NextIn(E, c, t) + 1 ELSE NextIn(E, c, t)
    /\ P.subs = IF note.token \in Dom(E, note.to) THEN E.subs
                ELSE Append(E.subs, [to |-> note.to, token |-> note.token, index |-> Cardinality(Dom(E, note.to))])
    /\ P.creates = Append(E.creates, [to |-> note.to, token |-> note.token, amount |-> note.amount,
                                      index |-> NextIn(E, note.to, note.token)])

LEMMA NextInType ==
  ASSUME NEW D, NEW K, NEW acc \in Accs(D, K), NEW to \in D, NEW t
  PROVE  NextIn(acc, to, t) \in Nat /\ Dom(acc, to) \subseteq K
<1>1. acc.channels[to].subs \in SubsFor(K)
  <2>1. acc.channels \in ChannelsFor(D, K) BY AccFields
  <2> QED BY <2>1, ChannelFields
<1>2. /\ DOMAIN acc.channels[to].subs \subseteq K
      /\ \A u \in DOMAIN acc.channels[to].subs : acc.channels[to].subs[u] \in [index : Nat, next : Nat]
  BY <1>1, SubsForFacts
<1> QED BY <1>2 DEF NextIn, NextOf, Dom

LEMMA PutDoes ==
  ASSUME NEW D, NEW K, IsFiniteSet(K), NEW E \in Accs(D, K), NEW note, IsNote(note, D, K)
  PROVE  PutEffect(E, Put(E, note), note, D, K)
<1> DEFINE to == note.to
           t == note.token
           old == E.channels[to].subs
           P == Put(E, note)
<1>1. to \in D /\ t \in K /\ note.amount \in Nat BY DEF IsNote
<1>2. /\ E.channels \in ChannelsFor(D, K) /\ E.outgoing \in Nat /\ E.opens \in Seq([to : D, index : Nat])
      /\ E.subs \in Seq([to : D, token : K, index : Nat])
      /\ E.creates \in Seq([to : D, token : K, amount : Nat, index : Nat])
  BY AccFields
<1>3. DOMAIN E.channels = D BY <1>2 DEF ChannelsFor
<1>4. /\ P = [channels |-> P.channels, outgoing |-> E.outgoing, opens |-> E.opens, subs |-> P.subs,
              creates |-> P.creates]
      /\ P.channels = [c \in D |-> IF c = to THEN [open |-> E.channels[c].open, subs |-> PutSubs(old, t)]
                                   ELSE E.channels[c]]
      /\ P.subs = (IF t \in DOMAIN old THEN E.subs
                   ELSE Append(E.subs, [to |-> to, token |-> t, index |-> Cardinality(DOMAIN old)]))
      /\ P.creates = Append(E.creates, [to |-> to, token |-> t, amount |-> note.amount, index |-> NextOf(old, t)])
  BY <1>3 DEF Put
<1> HIDE DEF P
<1>5. old \in SubsFor(K) BY <1>1, <1>2, ChannelFields
<1> HIDE DEF to, t
<1>6. /\ DOMAIN old \subseteq K /\ \A u \in DOMAIN old : old[u] \in [index : Nat, next : Nat]
  BY <1>5, SubsForFacts
<1> DEFINE new == PutSubs(old, t)
           dom == {t} \cup DOMAIN old
<1>7. NextOf(old, t) \in Nat /\ Cardinality(DOMAIN old) \in Nat
  <2>1. NextOf(old, t) \in Nat BY <1>6 DEF NextOf
  <2>2. IsFiniteSet(DOMAIN old) BY <1>6, FS_Subset
  <2> QED BY <2>1, <2>2, FS_CardinalityType
<1>8. /\ DOMAIN new = dom /\ new = [u \in dom |-> new[u]]
      /\ new[t] = [index |-> IF t \in DOMAIN old THEN old[t].index ELSE Cardinality(DOMAIN old),
                   next |-> NextOf(old, t) + 1]
      /\ \A u \in DOMAIN old : u # t => new[u] = old[u]
  BY DEF PutSubs
<1> HIDE DEF old, new
<1>9. new \in SubsFor(K)
  <2>1. new[t] \in [index : Nat, next : Nat]
    <3>1. (IF t \in DOMAIN old THEN old[t].index ELSE Cardinality(DOMAIN old)) \in Nat BY <1>6, <1>7
    <3> QED BY <1>7, <1>8, <3>1
  <2>2. \A u \in dom : new[u] \in [index : Nat, next : Nat] BY <1>6, <1>8, <2>1
  <2>3. dom \subseteq K BY <1>1, <1>6
  <2> QED BY <1>8, <2>2, <2>3, SubsForFacts
<1>10. \A c \in D : /\ c = to => P.channels[c] = [open |-> E.channels[c].open, subs |-> new]
                    /\ c # to => P.channels[c] = E.channels[c]
  BY <1>4 DEF new
<1>11. P.channels \in ChannelsFor(D, K)
  <2>1. \A c \in D : P.channels[c] \in [open : BOOLEAN, subs : SubsFor(K)]
    <3> TAKE c \in D
    <3>1. E.channels[c] \in [open : BOOLEAN, subs : SubsFor(K)] BY <1>2 DEF ChannelsFor
    <3>2. [open |-> E.channels[c].open, subs |-> new] \in [open : BOOLEAN, subs : SubsFor(K)] BY <1>9, <3>1
    <3> QED BY <1>10, <3>1, <3>2
  <2>2. P.channels = [c \in D |-> P.channels[c]] BY <1>4
  <2> QED BY <2>1, <2>2 DEF ChannelsFor
<1>12. P \in Accs(D, K)
  <2>1. P.subs \in Seq([to : D, token : K, index : Nat])
    <3>1. [to |-> to, token |-> t, index |-> Cardinality(DOMAIN old)] \in [to : D, token : K, index : Nat]
      BY <1>1, <1>7
    <3>2. E.subs \in Seq([to : D, token : K, index : Nat]) BY <1>2
    <3>3. Append(E.subs, [to |-> to, token |-> t, index |-> Cardinality(DOMAIN old)])
             \in Seq([to : D, token : K, index : Nat])
      BY <3>1, <3>2, AppendFacts
    <3> QED BY <1>4, <3>2, <3>3 DEF old, to, t
  <2>2. P.creates \in Seq([to : D, token : K, amount : Nat, index : Nat])
    <3>1. [to |-> to, token |-> t, amount |-> note.amount, index |-> NextOf(old, t)]
             \in [to : D, token : K, amount : Nat, index : Nat]
      BY <1>1, <1>7
    <3>2. E.creates \in Seq([to : D, token : K, amount : Nat, index : Nat]) BY <1>2
    <3>3. Append(E.creates, [to |-> to, token |-> t, amount |-> note.amount, index |-> NextOf(old, t)])
             \in Seq([to : D, token : K, amount : Nat, index : Nat])
      BY <3>1, <3>2, AppendFacts
    <3> QED BY <1>4, <3>3 DEF old, to, t
  <2>3. P.outgoing = E.outgoing /\ P.opens = E.opens BY <1>4
  <2>4. P = [channels |-> P.channels, outgoing |-> P.outgoing, opens |-> P.opens, subs |-> P.subs,
             creates |-> P.creates]
    BY <1>4, <2>3
  <2> QED BY <1>2, <1>11, <2>1, <2>2, <2>3, <2>4, AccFields
<1>13. P.outgoing = E.outgoing /\ P.opens = E.opens BY <1>4
<1>14. ASSUME NEW c \in D
       PROVE  /\ P.channels[c].open = E.channels[c].open
              /\ Dom(P, c) = IF c = to THEN Dom(E, c) \cup {t} ELSE Dom(E, c)
              /\ \A u \in K : NextIn(P, c, u) = IF c = to /\ u = t THEN NextIn(E, c, u) + 1 ELSE NextIn(E, c, u)
  <2>1. CASE c = to
    <3>1. P.channels[c].open = E.channels[c].open /\ P.channels[c].subs = new
      <4> DEFINE a == E.channels[c].open
      <4>1. P.channels[c] = [open |-> a, subs |-> new] BY <1>10, <2>1
      <4> HIDE DEF a
      <4>2. P.channels[c].open = a BY <4>1
      <4>3. P.channels[c].subs = new BY <4>1
      <4> QED BY <4>2, <4>3, Zenon DEF a
    <3>2. E.channels[c].subs = old BY <2>1 DEF old
    <3>3. Dom(P, c) = Dom(E, c) \cup {t} BY <1>8, <3>1, <3>2 DEF Dom
    <3>4. ASSUME NEW u \in K
          PROVE  NextIn(P, c, u) = IF u = t THEN NextIn(E, c, u) + 1 ELSE NextIn(E, c, u)
      <4>1. NextIn(P, c, u) = NextOf(new, u) /\ NextIn(E, c, u) = NextOf(old, u) BY <3>1, <3>2 DEF NextIn
      <4>2. CASE u = t
        <5>1. NextOf(new, t) = NextOf(old, t) + 1 BY <1>8 DEF NextOf
        <5> QED BY <4>1, <4>2, <5>1
      <4>3. CASE u # t
        <5>1. NextOf(new, u) = NextOf(old, u) BY <1>8, <4>3 DEF NextOf
        <5> QED BY <4>1, <4>3, <5>1
      <4> QED BY <4>2, <4>3
    <3> QED BY <2>1, <3>1, <3>3, <3>4
  <2>2. CASE c # to
    <3>1. P.channels[c] = E.channels[c] BY <1>10, <2>2
    <3>2. Dom(P, c) = Dom(E, c) /\ \A u \in K : NextIn(P, c, u) = NextIn(E, c, u) BY <3>1 DEF Dom, NextIn
    <3> QED BY <2>2, <3>1, <3>2
  <2> QED BY <2>1, <2>2
<1>15. /\ P.subs = (IF t \in Dom(E, to) THEN E.subs
                    ELSE Append(E.subs, [to |-> to, token |-> t, index |-> Cardinality(Dom(E, to))]))
       /\ P.creates = Append(E.creates, [to |-> to, token |-> t, amount |-> note.amount,
                                         index |-> NextIn(E, to, t)])
  BY <1>4 DEF Dom, NextIn, old, to, t
<1> QED BY <1>12, <1>13, <1>14, <1>15 DEF PutEffect, P, to, t

\* What the channels to open say of the planner's channels: base is what it started from, n the first free index.
OpensTell(acc, base, n, D) ==
    /\ acc.outgoing = n + Len(acc.opens)
    /\ \A i \in 1..Len(acc.opens) :
          /\ acc.opens[i].index = n + i - 1
          /\ acc.opens[i].to \in D /\ ~base[acc.opens[i].to].open /\ acc.channels[acc.opens[i].to].open
    /\ \A i, j \in 1..Len(acc.opens) : acc.opens[i].to = acc.opens[j].to => i = j
    /\ \A to \in D : acc.channels[to].open =>
                       base[to].open \/ \E i \in 1..Len(acc.opens) : acc.opens[i].to = to
    /\ \A to \in D : base[to].open => acc.channels[to].open

OldDom(base, to) == DOMAIN base[to].subs

SubsTell(acc, base, D) ==
    /\ \A to \in D : OldDom(base, to) \subseteq Dom(acc, to)
    /\ \A i \in 1..Len(acc.subs) :
          LET s == acc.subs[i]
          IN  /\ s.to \in D /\ acc.channels[s.to].open /\ s.token \in Dom(acc, s.to) \ OldDom(base, s.to)
              /\ s.index \in Cardinality(OldDom(base, s.to))..(Cardinality(Dom(acc, s.to)) - 1)
    /\ \A i, j \in 1..Len(acc.subs) :
          acc.subs[i].to = acc.subs[j].to
             /\ (acc.subs[i].token = acc.subs[j].token \/ acc.subs[i].index = acc.subs[j].index) => i = j
    /\ \A to \in D : \A x \in Cardinality(OldDom(base, to))..(Cardinality(Dom(acc, to)) - 1) :
          \E i \in 1..Len(acc.subs) : acc.subs[i].to = to /\ acc.subs[i].index = x
    /\ \A to \in D : \A t \in Dom(acc, to) \ OldDom(base, to) :
          \E i \in 1..Len(acc.subs) : acc.subs[i].to = to /\ acc.subs[i].token = t

OldNext(base, to, t) == NextOf(base[to].subs, t)

CreatesTell(acc, base, D, K) ==
    /\ \A to \in D, t \in K : OldNext(base, to, t) <= NextIn(acc, to, t)
    /\ \A i \in 1..Len(acc.creates) :
          LET c == acc.creates[i]
          IN  /\ c.to \in D /\ acc.channels[c.to].open /\ c.token \in K /\ c.token \in Dom(acc, c.to)
              /\ c.index \in OldNext(base, c.to, c.token)..(NextIn(acc, c.to, c.token) - 1)
    /\ \A i, j \in 1..Len(acc.creates) :
          acc.creates[i].to = acc.creates[j].to /\ acc.creates[i].token = acc.creates[j].token
             /\ acc.creates[i].index = acc.creates[j].index => i = j
    /\ \A to \in D, t \in K : \A x \in OldNext(base, to, t)..(NextIn(acc, to, t) - 1) :
          \E i \in 1..Len(acc.creates) :
             acc.creates[i].to = to /\ acc.creates[i].token = t /\ acc.creates[i].index = x

IsBase(base, D, K) == base \in ChannelsFor(D, K) /\ \A to \in D : ~base[to].open => OldDom(base, to) = {}

Told(acc, base, n, D, K) ==
    acc \in Accs(D, K) /\ OpensTell(acc, base, n, D) /\ SubsTell(acc, base, D) /\ CreatesTell(acc, base, D, K)

LEMMA EnsureKeeps ==
  ASSUME NEW D, NEW K, NEW base, NEW n \in Nat, NEW acc, Told(acc, base, n, D, K), NEW to \in D
  PROVE  Told(EnsureChannel(acc, to), base, n, D, K) /\ EnsureChannel(acc, to).channels[to].open
<1> DEFINE E == EnsureChannel(acc, to)
<1>1. acc \in Accs(D, K) BY DEF Told
<1>2. EnsureEffect(acc, E, to, D, K) BY <1>1, EnsureDoes
<1> HIDE DEF E
<1>3. E \in Accs(D, K) /\ E.subs = acc.subs /\ E.creates = acc.creates BY <1>2 DEF EnsureEffect
<1>4. \A c \in D : (E.channels[c].open <=> c = to \/ acc.channels[c].open) /\ E.channels[c].subs = acc.channels[c].subs
  BY <1>2 DEF EnsureEffect
<1>5. \A c \in D : Dom(E, c) = Dom(acc, c) BY <1>4 DEF Dom
<1>6. \A c \in D : \A t \in K : NextIn(E, c, t) = NextIn(acc, c, t) BY <1>4 DEF NextIn
<1>7. SubsTell(E, base, D) BY <1>3, <1>4, <1>5 DEF Told, SubsTell
<1>8. CreatesTell(E, base, D, K)
  <2>1. \A c \in D, t \in K : OldNext(base, c, t) <= NextIn(E, c, t) BY <1>6 DEF Told, CreatesTell
  <2>2. \A i \in 1..Len(E.creates) :
           LET c == E.creates[i]
           IN  /\ c.to \in D /\ E.channels[c.to].open /\ c.token \in K /\ c.token \in Dom(E, c.to)
               /\ c.index \in OldNext(base, c.to, c.token)..(NextIn(E, c.to, c.token) - 1)
    BY <1>3, <1>4, <1>5, <1>6 DEF Told, CreatesTell
  <2>3. \A i, j \in 1..Len(E.creates) :
           E.creates[i].to = E.creates[j].to /\ E.creates[i].token = E.creates[j].token
              /\ E.creates[i].index = E.creates[j].index => i = j
    BY <1>3 DEF Told, CreatesTell
  <2>4. \A c \in D, t \in K : \A x \in OldNext(base, c, t)..(NextIn(E, c, t) - 1) :
           \E i \in 1..Len(E.creates) :
              E.creates[i].to = c /\ E.creates[i].token = t /\ E.creates[i].index = x
    BY <1>3, <1>6 DEF Told, CreatesTell
  <2> QED BY <2>1, <2>2, <2>3, <2>4 DEF CreatesTell
<1>9. OpensTell(E, base, n, D)
  <2>1. CASE acc.channels[to].open
    <3>1. E.opens = acc.opens /\ E.outgoing = acc.outgoing BY <1>2, <2>1 DEF EnsureEffect
    <3>2. \A c \in D : E.channels[c].open <=> acc.channels[c].open BY <1>4, <2>1
    <3> QED BY <3>1, <3>2 DEF Told, OpensTell
  <2>2. CASE ~acc.channels[to].open
    <3> DEFINE m == Len(acc.opens)
               x == [to |-> to, index |-> acc.outgoing]
    <3>1. E.opens = Append(acc.opens, x) /\ E.outgoing = acc.outgoing + 1 BY <1>2, <2>2 DEF EnsureEffect
    <3>2. acc.opens \in Seq([to : D, index : Nat]) /\ acc.outgoing \in Nat BY <1>1, AccFields
    <3>3. x \in [to : D, index : Nat] /\ x.to = to /\ x.index = acc.outgoing BY <3>2
    <3> HIDE DEF x
    <3>4. /\ m \in Nat /\ Len(E.opens) = m + 1 /\ E.opens[m + 1] = x
          /\ \A i \in 1..m : E.opens[i] = acc.opens[i] /\ i \in 1..(m + 1)
          /\ \A i \in 1..(m + 1) : i \in 1..m \/ i = m + 1
          /\ m + 1 \in 1..(m + 1)
      BY <3>1, <3>2, <3>3, AppendFacts
    <3>5. /\ acc.outgoing = n + m
          /\ \A i \in 1..m : acc.opens[i].index = n + i - 1 /\ acc.opens[i].to \in D
                             /\ ~base[acc.opens[i].to].open /\ acc.channels[acc.opens[i].to].open
          /\ \A i, j \in 1..m : acc.opens[i].to = acc.opens[j].to => i = j
          /\ \A c \in D : acc.channels[c].open => base[c].open \/ \E i \in 1..m : acc.opens[i].to = c
          /\ \A c \in D : base[c].open => acc.channels[c].open
      BY DEF Told, OpensTell
    <3> HIDE DEF m
    <3>6. ~base[to].open /\ \A i \in 1..m : acc.opens[i].to # to BY <2>2, <3>5
    <3>7. E.outgoing = n + Len(E.opens) BY <3>1, <3>4, <3>5
    <3>8. \A i \in 1..Len(E.opens) :
             /\ E.opens[i].index = n + i - 1
             /\ E.opens[i].to \in D /\ ~base[E.opens[i].to].open /\ E.channels[E.opens[i].to].open
      <4> TAKE i \in 1..Len(E.opens)
      <4>1. CASE i \in 1..m BY <1>4, <3>4, <3>5, <4>1
      <4>2. CASE i = m + 1
        <5>1. E.opens[i].index = n + i - 1 BY <3>3, <3>4, <3>5, <4>2
        <5>2. E.opens[i].to = to BY <3>3, <3>4, <4>2
        <5> QED BY <1>4, <3>6, <5>1, <5>2
      <4> QED BY <3>4, <4>1, <4>2
    <3>9. \A i, j \in 1..Len(E.opens) : E.opens[i].to = E.opens[j].to => i = j
      <4>1. \A i \in 1..m : E.opens[i].to = acc.opens[i].to /\ E.opens[i].to # to BY <3>4, <3>6
      <4>2. E.opens[m + 1].to = to BY <3>3, <3>4
      <4> TAKE i, j \in 1..Len(E.opens)
      <4>3. (i \in 1..m \/ i = m + 1) /\ (j \in 1..m \/ j = m + 1) BY <3>4
      <4> QED BY <3>5, <4>1, <4>2, <4>3
    <3>10. \A c \in D : E.channels[c].open => base[c].open \/ \E i \in 1..Len(E.opens) : E.opens[i].to = c
      <4> TAKE c \in D
      <4>1. CASE c = to
        <5>1. E.opens[m + 1].to = c /\ m + 1 \in 1..Len(E.opens) BY <3>3, <3>4, <4>1
        <5> QED BY <5>1
      <4>2. CASE c # to
        <5>1. E.channels[c].open => acc.channels[c].open BY <1>4, <4>2
        <5>2. \A i \in 1..m : E.opens[i].to = acc.opens[i].to /\ i \in 1..Len(E.opens) BY <3>4
        <5> QED BY <3>5, <5>1, <5>2
      <4> QED BY <4>1, <4>2
    <3>11. \A c \in D : base[c].open => E.channels[c].open BY <1>4, <3>5
    <3> QED BY <3>7, <3>8, <3>9, <3>10, <3>11 DEF OpensTell
  <2> QED BY <2>1, <2>2
<1>10. E.channels[to].open BY <1>4
<1> QED BY <1>3, <1>7, <1>8, <1>9, <1>10 DEF Told, E

LEMMA PutKeeps ==
  ASSUME NEW D, NEW K, IsFiniteSet(K), NEW base, IsBase(base, D, K), NEW n \in Nat,
         NEW acc, Told(acc, base, n, D, K), NEW note, IsNote(note, D, K), acc.channels[note.to].open
  PROVE  Told(Put(acc, note), base, n, D, K)
<1> DEFINE P == Put(acc, note)
           to == note.to
           t == note.token
<1>1. acc \in Accs(D, K) BY DEF Told
<1>2. PutEffect(acc, P, note, D, K) BY <1>1, PutDoes
<1> HIDE DEF P
<1>3. to \in D /\ t \in K /\ note.amount \in Nat BY DEF IsNote
<1>4. P \in Accs(D, K) /\ P.outgoing = acc.outgoing /\ P.opens = acc.opens BY <1>2 DEF PutEffect
<1>5. \A c \in D : P.channels[c].open <=> acc.channels[c].open BY <1>2 DEF PutEffect
<1>6. \A c \in D : Dom(P, c) = IF c = to THEN Dom(acc, c) \cup {t} ELSE Dom(acc, c) BY <1>2 DEF PutEffect
<1>7. \A c \in D, u \in K :
         NextIn(P, c, u) = IF c = to /\ u = t THEN NextIn(acc, c, u) + 1 ELSE NextIn(acc, c, u)
  BY <1>2 DEF PutEffect
<1>8. acc.channels[to].open OBVIOUS
<1>9. /\ \A c \in D, u \in K : NextIn(acc, c, u) \in Nat /\ NextIn(P, c, u) \in Nat
      /\ \A c \in D : Dom(acc, c) \subseteq K /\ Dom(P, c) \subseteq K
  BY <1>1, <1>4, NextInType
<1>10. \A c \in D, u \in K : OldNext(base, c, u) \in Nat
  <2> TAKE c \in D, u \in K
  <2>1. base[c].subs \in SubsFor(K) BY ChannelFields DEF IsBase
  <2> QED BY <2>1, SubsForFacts DEF OldNext, NextOf
<1>11. OpensTell(P, base, n, D)
  <2>1. OpensTell(acc, base, n, D) BY DEF Told
  <2>2. P.outgoing = acc.outgoing /\ P.opens = acc.opens BY <1>4
  <2> DEFINE new == P.channels
             old == acc.channels
             opens == P.opens
  <2>3. OpensTell(acc, base, n, D) <=>
          /\ P.outgoing = n + Len(opens)
          /\ \A i \in 1..Len(opens) :
                /\ opens[i].index = n + i - 1
                /\ opens[i].to \in D /\ ~base[opens[i].to].open /\ old[opens[i].to].open
          /\ \A i, j \in 1..Len(opens) : opens[i].to = opens[j].to => i = j
          /\ \A c \in D : old[c].open => base[c].open \/ \E i \in 1..Len(opens) : opens[i].to = c
          /\ \A c \in D : base[c].open => old[c].open
    BY <2>2 DEF OpensTell
  <2>4. \A c \in D : new[c].open <=> old[c].open BY <1>5
  <2>5. OpensTell(P, base, n, D) <=>
          /\ P.outgoing = n + Len(opens)
          /\ \A i \in 1..Len(opens) :
                /\ opens[i].index = n + i - 1
                /\ opens[i].to \in D /\ ~base[opens[i].to].open /\ new[opens[i].to].open
          /\ \A i, j \in 1..Len(opens) : opens[i].to = opens[j].to => i = j
          /\ \A c \in D : new[c].open => base[c].open \/ \E i \in 1..Len(opens) : opens[i].to = c
          /\ \A c \in D : base[c].open => new[c].open
    BY DEF OpensTell
  <2> HIDE DEF new, old, opens
  <2> QED BY <2>1, <2>3, <2>4, <2>5
<1>12. CreatesTell(P, base, D, K)
  <2> DEFINE m == Len(acc.creates)
             x == [to |-> to, token |-> t, amount |-> note.amount, index |-> NextIn(acc, to, t)]
  <2>1. P.creates = Append(acc.creates, x) BY <1>2 DEF PutEffect
  <2>2. acc.creates \in Seq([to : D, token : K, amount : Nat, index : Nat]) BY <1>1, AccFields
  <2>3. x \in [to : D, token : K, amount : Nat, index : Nat] /\ x.to = to /\ x.token = t
        /\ x.index = NextIn(acc, to, t)
    BY <1>3, <1>9
  <2> HIDE DEF x
  <2>4. /\ m \in Nat /\ Len(P.creates) = m + 1 /\ P.creates[m + 1] = x
        /\ \A i \in 1..m : P.creates[i] = acc.creates[i] /\ i \in 1..(m + 1)
        /\ \A i \in 1..(m + 1) : i \in 1..m \/ i = m + 1
        /\ m + 1 \in 1..(m + 1)
    BY <2>1, <2>2, <2>3, AppendFacts
  <2>5. \A i \in 1..m :
           LET c == acc.creates[i]
           IN  /\ c.to \in D /\ acc.channels[c.to].open /\ c.token \in K /\ c.token \in Dom(acc, c.to)
               /\ c.index \in OldNext(base, c.to, c.token)..(NextIn(acc, c.to, c.token) - 1)
    BY DEF Told, CreatesTell
  <2>6. \A i, j \in 1..m :
           acc.creates[i].to = acc.creates[j].to /\ acc.creates[i].token = acc.creates[j].token
              /\ acc.creates[i].index = acc.creates[j].index => i = j
    BY DEF Told, CreatesTell
  <2>7. \A c \in D, u \in K : \A y \in OldNext(base, c, u)..(NextIn(acc, c, u) - 1) :
           \E i \in 1..m : acc.creates[i].to = c /\ acc.creates[i].token = u /\ acc.creates[i].index = y
    BY DEF Told, CreatesTell
  <2>8. \A c \in D, u \in K : OldNext(base, c, u) <= NextIn(acc, c, u) BY DEF Told, CreatesTell
  <2> HIDE DEF m, to, t
  <2>9. \A c \in D, u \in K : OldNext(base, c, u) <= NextIn(P, c, u)
    <3> TAKE c \in D, u \in K
    <3> QED BY <1>7, <1>9, <1>10, <2>8
  <2>10. ASSUME NEW i \in 1..(m + 1)
         PROVE  LET c == P.creates[i]
                IN  /\ c.to \in D /\ P.channels[c.to].open /\ c.token \in K /\ c.token \in Dom(P, c.to)
                    /\ c.index \in OldNext(base, c.to, c.token)..(NextIn(P, c.to, c.token) - 1)
    <3>1. CASE i \in 1..m
      <4> DEFINE c == acc.creates[i]
      <4>1. /\ c.to \in D /\ acc.channels[c.to].open /\ c.token \in K /\ c.token \in Dom(acc, c.to)
            /\ c.index \in OldNext(base, c.to, c.token)..(NextIn(acc, c.to, c.token) - 1)
        BY <2>5, <3>1
      <4>2. P.creates[i] = c BY <2>4, <3>1
      <4> HIDE DEF c
      <4>3. P.channels[c.to].open /\ c.token \in Dom(P, c.to) BY <1>5, <1>6, <4>1
      <4>4. c.index \in OldNext(base, c.to, c.token)..(NextIn(P, c.to, c.token) - 1)
        <5>1. NextIn(P, c.to, c.token) >= NextIn(acc, c.to, c.token) BY <1>7, <1>9, <4>1
        <5>2. NextIn(P, c.to, c.token) \in Nat /\ NextIn(acc, c.to, c.token) \in Nat
              /\ OldNext(base, c.to, c.token) \in Nat
          BY <1>9, <1>10, <4>1
        <5> QED BY <4>1, <5>1, <5>2
      <4> QED BY <4>1, <4>2, <4>3, <4>4
    <3>2. CASE i = m + 1
      <4>1. P.creates[i] = x BY <2>4, <3>2
      <4>2. x.to \in D /\ P.channels[x.to].open /\ x.token \in K /\ x.token \in Dom(P, x.to)
        BY <1>3, <1>5, <1>6, <1>8, <2>3 DEF to, t
      <4>3. x.index \in OldNext(base, x.to, x.token)..(NextIn(P, x.to, x.token) - 1)
        <5>1. NextIn(P, to, t) = NextIn(acc, to, t) + 1 BY <1>3, <1>7 DEF to, t
        <5>2. NextIn(acc, to, t) \in Nat /\ OldNext(base, to, t) \in Nat /\ OldNext(base, to, t) <= NextIn(acc, to, t)
          BY <1>3, <1>9, <1>10, <2>8 DEF to, t
        <5> QED BY <2>3, <5>1, <5>2
      <4> QED BY <4>1, <4>2, <4>3
    <3> QED BY <2>4, <3>1, <3>2
  <2>11. ASSUME NEW i \in 1..(m + 1), NEW j \in 1..(m + 1),
                P.creates[i].to = P.creates[j].to, P.creates[i].token = P.creates[j].token,
                P.creates[i].index = P.creates[j].index
         PROVE  i = j
    <3>1. \A k \in 1..m : ~(P.creates[k].to = to /\ P.creates[k].token = t /\ P.creates[k].index = NextIn(acc, to, t))
      <4> TAKE k \in 1..m
      <4>1. P.creates[k] = acc.creates[k] BY <2>4
      <4>2. acc.creates[k].to = to /\ acc.creates[k].token = t =>
               acc.creates[k].index \in OldNext(base, to, t)..(NextIn(acc, to, t) - 1)
        BY <2>5
      <4>3. NextIn(acc, to, t) \in Nat /\ OldNext(base, to, t) \in Nat BY <1>3, <1>9, <1>10 DEF to, t
      <4> QED BY <4>1, <4>2, <4>3
    <3>2. (i \in 1..m \/ i = m + 1) /\ (j \in 1..m \/ j = m + 1) BY <2>4
    <3>3. CASE i \in 1..m /\ j \in 1..m BY <2>4, <2>6, <2>11, <3>3
    <3>4. CASE i = m + 1 /\ j \in 1..m BY <2>3, <2>4, <2>11, <3>1, <3>4
    <3>5. CASE i \in 1..m /\ j = m + 1 BY <2>3, <2>4, <2>11, <3>1, <3>5
    <3> QED BY <3>2, <3>3, <3>4, <3>5
  <2>12. ASSUME NEW c \in D, NEW u \in K, NEW y \in OldNext(base, c, u)..(NextIn(P, c, u) - 1)
         PROVE  \E i \in 1..(m + 1) : P.creates[i].to = c /\ P.creates[i].token = u /\ P.creates[i].index = y
    <3>1. NextIn(acc, c, u) \in Nat /\ OldNext(base, c, u) \in Nat BY <1>9, <1>10
    <3>2. CASE y \in OldNext(base, c, u)..(NextIn(acc, c, u) - 1)
      <4>1. PICK i \in 1..m : acc.creates[i].to = c /\ acc.creates[i].token = u /\ acc.creates[i].index = y
        BY <2>7, <3>2
      <4> QED BY <2>4, <4>1
    <3>3. CASE y \notin OldNext(base, c, u)..(NextIn(acc, c, u) - 1)
      <4>1. c = to /\ u = t /\ y = NextIn(acc, to, t)
        <5>1. NextIn(P, c, u) = IF c = to /\ u = t THEN NextIn(acc, c, u) + 1 ELSE NextIn(acc, c, u) BY <1>7
        <5>2. c = to /\ u = t BY <3>1, <3>3, <5>1
        <5>3. y \in OldNext(base, c, u)..((NextIn(acc, c, u) + 1) - 1) BY <5>1, <5>2
        <5> QED BY <3>1, <3>3, <5>2, <5>3
      <4> QED BY <2>3, <2>4, <4>1
    <3> QED BY <3>2, <3>3
  <2> QED BY <2>4, <2>9, <2>10, <2>11, <2>12 DEF CreatesTell
<1>13. SubsTell(P, base, D)
  <2> DEFINE m == Len(acc.subs)
             card == Cardinality(Dom(acc, to))
             x == [to |-> to, token |-> t, index |-> card]
  <2>1. P.subs = IF t \in Dom(acc, to) THEN acc.subs ELSE Append(acc.subs, x) BY <1>2 DEF PutEffect
  <2>2. /\ \A c \in D : OldDom(base, c) \subseteq Dom(acc, c)
        /\ \A i \in 1..m :
              LET s == acc.subs[i]
              IN  /\ s.to \in D /\ acc.channels[s.to].open /\ s.token \in Dom(acc, s.to) \ OldDom(base, s.to)
                  /\ s.index \in Cardinality(OldDom(base, s.to))..(Cardinality(Dom(acc, s.to)) - 1)
        /\ \A i, j \in 1..m :
              acc.subs[i].to = acc.subs[j].to
                 /\ (acc.subs[i].token = acc.subs[j].token \/ acc.subs[i].index = acc.subs[j].index) => i = j
        /\ \A c \in D : \A y \in Cardinality(OldDom(base, c))..(Cardinality(Dom(acc, c)) - 1) :
              \E i \in 1..m : acc.subs[i].to = c /\ acc.subs[i].index = y
        /\ \A c \in D : \A u \in Dom(acc, c) \ OldDom(base, c) :
              \E i \in 1..m : acc.subs[i].to = c /\ acc.subs[i].token = u
    BY DEF Told, SubsTell
  <2>3. CASE t \in Dom(acc, to)
    <3>1. P.subs = acc.subs BY <2>1, <2>3
    <3>2. \A c \in D : Dom(P, c) = Dom(acc, c) BY <1>6, <2>3
    <3> HIDE DEF m
    <3> QED BY <1>5, <2>2, <3>1, <3>2 DEF SubsTell, m
  <2>4. CASE t \notin Dom(acc, to)
    <3>1. \A c \in D : /\ IsFiniteSet(Dom(acc, c)) /\ Cardinality(Dom(acc, c)) \in Nat
                       /\ Cardinality(OldDom(base, c)) \in Nat
                       /\ Cardinality(OldDom(base, c)) <= Cardinality(Dom(acc, c))
      <4> TAKE c \in D
      <4>1. IsFiniteSet(Dom(acc, c)) BY <1>9, FS_Subset
      <4>2. OldDom(base, c) \subseteq Dom(acc, c) BY <2>2
      <4>3. IsFiniteSet(OldDom(base, c)) /\ Cardinality(OldDom(base, c)) <= Cardinality(Dom(acc, c))
        BY <4>1, <4>2, FS_Subset
      <4> QED BY <4>1, <4>3, FS_CardinalityType
    <3>2. Cardinality(Dom(P, to)) = card + 1
      <4>1. Dom(P, to) = Dom(acc, to) \cup {t} BY <1>3, <1>6
      <4> QED BY <1>3, <2>4, <3>1, <4>1, FS_AddElement
    <3>3. \A c \in D : Cardinality(Dom(P, c)) = IF c = to THEN Cardinality(Dom(acc, c)) + 1 ELSE Cardinality(Dom(acc, c))
      BY <1>6, <3>2
    <3>4. acc.subs \in Seq([to : D, token : K, index : Nat]) BY <1>1, AccFields
    <3>5. x \in [to : D, token : K, index : Nat] /\ x.to = to /\ x.token = t /\ x.index = card BY <1>3, <3>1
    <3>6. P.subs = Append(acc.subs, x) BY <2>1, <2>4
    <3> HIDE DEF x
    <3>7. /\ m \in Nat /\ Len(P.subs) = m + 1 /\ P.subs[m + 1] = x
          /\ \A i \in 1..m : P.subs[i] = acc.subs[i] /\ i \in 1..(m + 1)
          /\ \A i \in 1..(m + 1) : i \in 1..m \/ i = m + 1
          /\ m + 1 \in 1..(m + 1)
      BY <3>4, <3>5, <3>6, AppendFacts
    <3> HIDE DEF m, card, to, t
    <3>8. \A c \in D : OldDom(base, c) \subseteq Dom(P, c) BY <1>6, <2>2
    <3>9. ASSUME NEW i \in 1..(m + 1)
          PROVE  LET s == P.subs[i]
                 IN  /\ s.to \in D /\ P.channels[s.to].open /\ s.token \in Dom(P, s.to) \ OldDom(base, s.to)
                     /\ s.index \in Cardinality(OldDom(base, s.to))..(Cardinality(Dom(P, s.to)) - 1)
      <4>1. CASE i \in 1..m
        <5> DEFINE s == acc.subs[i]
        <5>1. /\ s.to \in D /\ acc.channels[s.to].open /\ s.token \in Dom(acc, s.to) \ OldDom(base, s.to)
              /\ s.index \in Cardinality(OldDom(base, s.to))..(Cardinality(Dom(acc, s.to)) - 1)
          BY <2>2, <4>1
        <5>2. P.subs[i] = s BY <3>7, <4>1
        <5> HIDE DEF s
        <5>3. P.channels[s.to].open /\ s.token \in Dom(P, s.to) BY <1>5, <1>6, <5>1
        <5>4. s.index \in Cardinality(OldDom(base, s.to))..(Cardinality(Dom(P, s.to)) - 1)
          <6>1. /\ Cardinality(Dom(acc, s.to)) \in Nat /\ Cardinality(OldDom(base, s.to)) \in Nat
                /\ Cardinality(Dom(P, s.to)) =
                      IF s.to = to THEN Cardinality(Dom(acc, s.to)) + 1 ELSE Cardinality(Dom(acc, s.to))
            BY <3>1, <3>3, <5>1
          <6> QED BY <5>1, <6>1
        <5> QED BY <5>1, <5>2, <5>3, <5>4
      <4>2. CASE i = m + 1
        <5>1. P.subs[i] = x BY <3>7, <4>2
        <5>2. to \in D /\ P.channels[to].open /\ t \in Dom(P, to) BY <1>3, <1>5, <1>6, <1>8 DEF to, t
        <5>3. t \notin OldDom(base, to) BY <2>2, <2>4, <5>2
        <5>4. card \in Cardinality(OldDom(base, to))..(Cardinality(Dom(P, to)) - 1)
          <6>1. card \in Nat /\ Cardinality(OldDom(base, to)) \in Nat /\ Cardinality(OldDom(base, to)) <= card
            BY <3>1, <5>2 DEF card
          <6> QED BY <3>2, <6>1
        <5> QED BY <3>5, <5>1, <5>2, <5>3, <5>4
      <4> QED BY <3>7, <4>1, <4>2
    <3>10. ASSUME NEW i \in 1..(m + 1), NEW j \in 1..(m + 1), P.subs[i].to = P.subs[j].to,
                  P.subs[i].token = P.subs[j].token \/ P.subs[i].index = P.subs[j].index
           PROVE  i = j
      <4>1. \A k \in 1..m : P.subs[k].to = to => P.subs[k].token # t /\ P.subs[k].index # card
        <5> TAKE k \in 1..m
        <5> SUFFICES ASSUME P.subs[k].to = to PROVE P.subs[k].token # t /\ P.subs[k].index # card OBVIOUS
        <5>1. P.subs[k] = acc.subs[k] BY <3>7
        <5>2. acc.subs[k].token \in Dom(acc, to)
              /\ acc.subs[k].index \in Cardinality(OldDom(base, to))..(card - 1)
          BY <2>2, <5>1 DEF card
        <5>3. card \in Nat /\ Cardinality(OldDom(base, to)) \in Nat BY <1>3, <3>1 DEF card, to
        <5> QED BY <2>4, <5>1, <5>2, <5>3
      <4>2. (i \in 1..m \/ i = m + 1) /\ (j \in 1..m \/ j = m + 1) BY <3>7
      <4>3. CASE i \in 1..m /\ j \in 1..m
        <5>1. P.subs[i] = acc.subs[i] /\ P.subs[j] = acc.subs[j] BY <3>7, <4>3
        <5> QED BY <2>2, <3>10, <4>3, <5>1
      <4>4. CASE i = m + 1 /\ j \in 1..m BY <3>5, <3>7, <3>10, <4>1, <4>4
      <4>5. CASE i \in 1..m /\ j = m + 1 BY <3>5, <3>7, <3>10, <4>1, <4>5
      <4> QED BY <4>2, <4>3, <4>4, <4>5
    <3>11. ASSUME NEW c \in D, NEW y \in Cardinality(OldDom(base, c))..(Cardinality(Dom(P, c)) - 1)
           PROVE  \E i \in 1..(m + 1) : P.subs[i].to = c /\ P.subs[i].index = y
      <4>1. Cardinality(Dom(acc, c)) \in Nat /\ Cardinality(OldDom(base, c)) \in Nat BY <3>1
      <4>2. CASE y \in Cardinality(OldDom(base, c))..(Cardinality(Dom(acc, c)) - 1)
        <5>1. PICK i \in 1..m : acc.subs[i].to = c /\ acc.subs[i].index = y BY <2>2, <4>2
        <5> QED BY <3>7, <5>1
      <4>3. CASE y \notin Cardinality(OldDom(base, c))..(Cardinality(Dom(acc, c)) - 1)
        <5>1. c = to BY <3>3, <4>3
        <5>2. y \in Cardinality(OldDom(base, c))..((Cardinality(Dom(acc, c)) + 1) - 1) BY <3>3, <5>1
        <5>3. y = card BY <4>1, <4>3, <5>1, <5>2 DEF card
        <5> QED BY <3>5, <3>7, <5>1, <5>3
      <4> QED BY <4>2, <4>3
    <3>12. ASSUME NEW c \in D, NEW u \in Dom(P, c) \ OldDom(base, c)
           PROVE  \E i \in 1..(m + 1) : P.subs[i].to = c /\ P.subs[i].token = u
      <4>1. CASE u \in Dom(acc, c)
        <5>1. PICK i \in 1..m : acc.subs[i].to = c /\ acc.subs[i].token = u BY <2>2, <4>1
        <5> QED BY <3>7, <5>1
      <4>2. CASE u \notin Dom(acc, c)
        <5>1. c = to /\ u = t BY <1>6, <4>2
        <5> QED BY <3>5, <3>7, <5>1
      <4> QED BY <4>1, <4>2
    <3> QED BY <3>7, <3>8, <3>9, <3>10, <3>11, <3>12 DEF SubsTell
  <2> QED BY <2>3, <2>4
<1> QED BY <1>4, <1>11, <1>12, <1>13 DEF Told, P

\* The notes placed are the notes given, in their order.
Places(acc, notes, k) ==
    /\ Len(acc.creates) = k
    /\ \A j \in 1..k : /\ acc.creates[j].to = notes[j].to /\ acc.creates[j].token = notes[j].token
                       /\ acc.creates[j].amount = notes[j].amount

LEMMA PlaceType ==
  ASSUME NEW D, NEW K, IsFiniteSet(K), NEW acc \in Accs(D, K), NEW note, IsNote(note, D, K)
  PROVE  PlaceNote(acc, note) \in Accs(D, K)
<1> DEFINE E == EnsureChannel(acc, note.to)
<1>1. note.to \in D BY DEF IsNote
<1>2. EnsureEffect(acc, E, note.to, D, K) BY <1>1, EnsureDoes
<1>3. E \in Accs(D, K) BY <1>2 DEF EnsureEffect
<1>4. PutEffect(E, Put(E, note), note, D, K) BY <1>3, PutDoes
<1>5. Put(E, note) \in Accs(D, K) BY <1>4 DEF PutEffect
<1>6. PlaceNote(acc, note) = Put(E, note) BY PlaceIsPut
<1> QED BY <1>5, <1>6

LEMMA PlaceKeeps ==
  ASSUME NEW D, NEW K, IsFiniteSet(K), NEW base, IsBase(base, D, K), NEW n \in Nat,
         NEW acc, Told(acc, base, n, D, K), NEW note, IsNote(note, D, K),
         NEW notes, NEW k \in Nat, Places(acc, notes, k), notes[k + 1] = note
  PROVE  Told(PlaceNote(acc, note), base, n, D, K) /\ Places(PlaceNote(acc, note), notes, k + 1)
<1> DEFINE E == EnsureChannel(acc, note.to)
           P == Put(E, note)
<1>1. note.to \in D /\ note.token \in K /\ note.amount \in Nat /\ acc \in Accs(D, K) BY DEF IsNote, Told
<1>2. Told(E, base, n, D, K) /\ E.channels[note.to].open BY <1>1, EnsureKeeps
<1>3. EnsureEffect(acc, E, note.to, D, K) BY <1>1, EnsureDoes
<1>4. E.creates = acc.creates /\ E \in Accs(D, K) BY <1>3 DEF EnsureEffect
<1>5. PlaceNote(acc, note) = P BY <1>1, PlaceIsPut
<1> HIDE DEF E
<1>6. Told(P, base, n, D, K) BY <1>2, PutKeeps
<1>7. PutEffect(E, P, note, D, K) BY <1>4, PutDoes
<1> HIDE DEF P
<1> DEFINE x == [to |-> note.to, token |-> note.token, amount |-> note.amount,
                 index |-> NextIn(E, note.to, note.token)]
<1>8. P.creates = Append(acc.creates, x) BY <1>4, <1>7 DEF PutEffect
<1>9. acc.creates \in Seq([to : D, token : K, amount : Nat, index : Nat]) BY <1>1, AccFields
<1>10. x \in [to : D, token : K, amount : Nat, index : Nat] BY <1>1, <1>4, NextInType
<1>11. x.to = note.to /\ x.token = note.token /\ x.amount = note.amount OBVIOUS
<1> HIDE DEF x
<1>12. Len(acc.creates) = k BY DEF Places
<1>13. /\ Len(P.creates) = k + 1 /\ P.creates[k + 1] = x
       /\ \A i \in 1..k : P.creates[i] = acc.creates[i]
       /\ \A i \in 1..(k + 1) : i \in 1..k \/ i = k + 1
  BY <1>8, <1>9, <1>10, <1>12, AppendFacts
<1>14. Places(P, notes, k + 1)
  <2> SUFFICES ASSUME NEW j \in 1..(k + 1)
               PROVE  /\ P.creates[j].to = notes[j].to /\ P.creates[j].token = notes[j].token
                      /\ P.creates[j].amount = notes[j].amount
    BY <1>13 DEF Places
  <2>1. CASE j \in 1..k BY <1>13, <2>1 DEF Places
  <2>2. CASE j = k + 1 BY <1>11, <1>13, <2>2
  <2> QED BY <1>13, <2>1, <2>2
<1> QED BY <1>5, <1>6, <1>14

LEMMA PlaceAllFacts ==
  ASSUME NEW D, NEW K, IsFiniteSet(K), NEW base, IsBase(base, D, K), NEW n \in Nat,
         NEW b, Told(b, base, n, D, K), b.creates = << >>,
         NEW notes, IsList(notes), \A k \in 1..Len(notes) : IsNote(notes[k], D, K)
  PROVE  /\ Told(FoldLeft(PlaceNote, b, notes), base, n, D, K)
         /\ Places(FoldLeft(PlaceNote, b, notes), notes, Len(notes))
<1> DEFINE m == Len(notes)
           V == Accs(D, K)
           Rec(f) == f = [s \in SUBSET DOMAIN notes |->
                        IF s = {} THEN b ELSE PlaceNote(f[s \ {Max(s)}], notes[Max(s)])]
           iter == CHOOSE f : Rec(f)
           step == [p \in (1..m) \X V |-> PlaceNote(p[2], notes[p[1]])]
<1>1. FoldLeft(PlaceNote, b, notes) = iter[DOMAIN notes] BY DEF FoldLeft, MapThenFoldSet
<1>2. m \in Nat /\ DOMAIN notes = 1..m
  <2>1. notes \in Seq(ToSet(notes)) BY DEF IsList
  <2> QED BY <2>1
<1>3. b \in V BY DEF Told
<1>4. \A k \in 1..m : IsNote(notes[k], D, K) OBVIOUS
<1> HIDE DEF m, V
<1>5. \A x \in 1..m, v \in V : step[<<x, v>>] = PlaceNote(v, notes[x])
  <2> TAKE x \in 1..m, v \in V
  <2>1. <<x, v>> \in (1..m) \X V /\ <<x, v>>[1] = x /\ <<x, v>>[2] = v OBVIOUS
  <2> QED BY <2>1
<1> HIDE DEF step
<1>6. Closed(step, 1..m, V)
  <2>1. \A x \in 1..m, v \in V : step[<<x, v>>] \in V
    <3> TAKE x \in 1..m, v \in V
    <3>1. PlaceNote(v, notes[x]) \in V BY <1>4, PlaceType DEF V
    <3> QED BY <1>5, <3>1
  <2> QED BY <2>1 DEF Closed
<1>7. Rec(iter)
  <2>1. PICK it : IsPrefixFold(it, m, V, b, step) BY <1>2, <1>3, <1>6, FoldPrefixes
  <2>2. it = [T \in SUBSET (1..m) |-> IF T = {} THEN b ELSE step[<<Max(T), it[T \ {Max(T)}]>>]]
    BY <2>1 DEF IsPrefixFold
  <2>3. \A T \in SUBSET (1..m) : T # {} => Max(T) \in 1..m /\ it[T \ {Max(T)}] \in V
    BY <1>2, <2>1, MaxIsMember DEF IsPrefixFold
  <2>4. ASSUME NEW T \in SUBSET (1..m), T # {}
        PROVE  step[<<Max(T), it[T \ {Max(T)}]>>] = PlaceNote(it[T \ {Max(T)}], notes[Max(T)])
    BY <1>5, <2>3, <2>4
  <2>5. Rec(it) BY <1>2, <2>2, <2>4
  <2> QED BY <2>5
<1>8. iter = [s \in SUBSET (1..m) |-> IF s = {} THEN b ELSE PlaceNote(iter[s \ {Max(s)}], notes[Max(s)])]
  BY <1>2, <1>7
<1> HIDE DEF iter, Rec
<1>9. PICK acc : IsRun(acc, m, V, b, step, iter[1..m])
  <2>1. iter[{}] = b BY <1>8
  <2>2. ASSUME NEW T \in SUBSET (1..m), T # {}, iter[T \ {Max(T)}] \in V
        PROVE  iter[T] = step[<<Max(T), iter[T \ {Max(T)}]>>]
    <3>1. Max(T) \in 1..m BY <1>2, <2>2, MaxIsMember
    <3>2. iter[T] = PlaceNote(iter[T \ {Max(T)}], notes[Max(T)]) BY <1>8, <2>2
    <3> QED BY <1>5, <2>2, <3>1, <3>2
  <2>3. Steps(iter, m, V, b, step) BY <2>1, <2>2 DEF Steps
  <2> QED BY <1>2, <1>3, <1>6, <2>3, FoldIsRun
<1> DEFINE Ok == {k \in Nat : k <= m => Told(acc[k], base, n, D, K) /\ Places(acc[k], notes, k)}
<1>10. 0 \in Ok
  <2>1. acc[0] = b BY <1>9 DEF IsRun
  <2>2. Places(b, notes, 0)
    <3>1. Len(b.creates) = 0 OBVIOUS
    <3> QED BY <3>1 DEF Places
  <2> QED BY <2>1, <2>2
<1>11. ASSUME NEW k \in Nat, k \in Ok PROVE k + 1 \in Ok
  <2> SUFFICES ASSUME k + 1 <= m
               PROVE  Told(acc[k + 1], base, n, D, K) /\ Places(acc[k + 1], notes, k + 1)
    OBVIOUS
  <2>1. Told(acc[k], base, n, D, K) /\ Places(acc[k], notes, k) BY <1>2, <1>11
  <2>2. k + 1 \in 1..m /\ k \in 0..m /\ (k + 1) - 1 = k BY <1>2
  <2>3. acc[k + 1] = step[<<k + 1, acc[k]>>] /\ acc[k] \in V BY <1>9, <2>2 DEF IsRun
  <2>4. acc[k + 1] = PlaceNote(acc[k], notes[k + 1]) BY <1>5, <2>2, <2>3
  <2>5. IsNote(notes[k + 1], D, K) BY <1>4, <2>2
  <2>6. /\ Told(PlaceNote(acc[k], notes[k + 1]), base, n, D, K)
        /\ Places(PlaceNote(acc[k], notes[k + 1]), notes, k + 1)
    BY <2>1, <2>5, PlaceKeeps
  <2> QED BY <2>4, <2>6
<1> HIDE DEF Ok
<1>12. m \in Ok BY <1>2, <1>10, <1>11, NatSetInduction
<1>13. Told(acc[m], base, n, D, K) /\ Places(acc[m], notes, m) BY <1>2, <1>12 DEF Ok
<1>14. acc[m] = iter[1..m] BY <1>9 DEF IsRun
<1> QED BY <1>1, <1>2, <1>13, <1>14 DEF m

--------------------------------------------------------------------------------
(* What the discovery reads of a pool without gaps.                        *)

ChansFrom(p, u) == {c \in p.chans : c.from = u}

LEMMA WellFormedLists ==
  ASSUME NEW p, WellFormed(p), NEW from, NEW to, NEW t
  PROVE  /\ IsFiniteSet(SubsOf(p, from, to)) /\ Dense(SubsOf(p, from, to))
         /\ IsFiniteSet(NotesOf(p, from, to, t)) /\ Dense(NotesOf(p, from, to, t))
         /\ IsFiniteSet(ChansFrom(p, from)) /\ Dense(ChansFrom(p, from))
<1>1. ASSUME NEW S, S = {} PROVE Dense(S)
  <2>1. Slots(S) = {} /\ Cardinality(S) = 0 BY <1>1, FS_EmptySet DEF Slots
  <2> QED BY <2>1 DEF Dense
<1>2. IsFiniteSet(p.chans) /\ IsFiniteSet(p.subs) /\ IsFiniteSet(p.notes) BY DEF WellFormed
<1>3. IsFiniteSet(SubsOf(p, from, to)) BY <1>2, FS_Subset DEF SubsOf
<1>4. IsFiniteSet(NotesOf(p, from, to, t)) BY <1>2, FS_Subset DEF NotesOf
<1>5. IsFiniteSet(ChansFrom(p, from)) BY <1>2, FS_Subset DEF ChansFrom
<1>6. Dense(SubsOf(p, from, to))
  <2>1. CASE SubsOf(p, from, to) # {}
    <3>1. PICK s \in p.subs : s.from = from /\ s.to = to BY <2>1 DEF SubsOf
    <3>2. Dense(SubsOf(p, s.from, s.to)) BY DEF WellFormed
    <3> QED BY <3>1, <3>2
  <2> QED BY <1>1, <2>1
<1>7. Dense(NotesOf(p, from, to, t))
  <2>1. CASE NotesOf(p, from, to, t) # {}
    <3>1. PICK n \in p.notes : n.from = from /\ n.to = to /\ n.token = t BY <2>1 DEF NotesOf
    <3>2. Dense(NotesOf(p, n.from, n.to, n.token)) BY DEF WellFormed
    <3> QED BY <3>1, <3>2
  <2> QED BY <1>1, <2>1
<1>8. Dense(ChansFrom(p, from))
  <2>1. CASE ChansFrom(p, from) # {}
    <3>1. PICK c \in p.chans : c.from = from BY <2>1 DEF ChansFrom
    <3>2. Dense({d \in p.chans : d.from = c.from}) BY DEF WellFormed
    <3>3. {d \in p.chans : d.from = c.from} = ChansFrom(p, from) BY <3>1 DEF ChansFrom
    <3> QED BY <3>2, <3>3
  <2> QED BY <1>1, <2>1
<1> QED BY <1>3, <1>4, <1>5, <1>6, <1>7, <1>8

\* Where there is no gap, reading up to the first empty slot reads everything.
LEMMA DenseRead ==
  ASSUME NEW S, IsFiniteSet(S), Dense(S)
  PROVE  {x \in S : x.index < FirstFree(Slots(S))} = S
<1>1. FirstFree(Slots(S)) = Cardinality(S) /\ Cardinality(S) \in Nat BY SlotsFirstFree, FS_CardinalityType
<1>2. \A x \in S : x.index \in 0..(Cardinality(S) - 1) BY DEF Dense, Slots
<1>3. \A x \in S : x.index < Cardinality(S) BY <1>1, <1>2
<1> QED BY <1>1, <1>3

LEMMA ReadsAll ==
  ASSUME NEW p, WellFormed(p), NEW from, NEW to, NEW t
  PROVE  /\ ReadSubs(p, from, to) = SubsOf(p, from, to)
         /\ ReadNotes(p, from, to, t) = NotesOf(p, from, to, t)
         /\ FirstFree(Slots(NotesOf(p, from, to, t))) = Cardinality(NotesOf(p, from, to, t))
         /\ OutgoingCount(p, from) = Cardinality(ChansFrom(p, from))
<1>1. /\ IsFiniteSet(SubsOf(p, from, to)) /\ Dense(SubsOf(p, from, to))
      /\ IsFiniteSet(NotesOf(p, from, to, t)) /\ Dense(NotesOf(p, from, to, t))
      /\ IsFiniteSet(ChansFrom(p, from)) /\ Dense(ChansFrom(p, from))
  BY WellFormedLists
<1>2. ReadSubs(p, from, to) = SubsOf(p, from, to) BY <1>1, DenseRead DEF ReadSubs
<1>3. ReadNotes(p, from, to, t) = NotesOf(p, from, to, t) BY <1>1, DenseRead DEF ReadNotes
<1>4. FirstFree(Slots(NotesOf(p, from, to, t))) = Cardinality(NotesOf(p, from, to, t)) BY <1>1, SlotsFirstFree
<1>5. FirstFree(Slots(ChansFrom(p, from))) = Cardinality(ChansFrom(p, from)) BY <1>1, SlotsFirstFree
<1> QED BY <1>2, <1>3, <1>4, <1>5 DEF OutgoingCount, ChansFrom

\* The owner's notes of a token that are not spent.
Holding(p, u, t) == {n \in Unspent(p, p.notes) : n.to = u /\ n.token = t}

LEMMA DiscoversAll ==
  ASSUME NEW p, WellFormed(p), NEW u, NEW tokens
  PROVE  DiscoverNotes(p, u, tokens) = {n \in Unspent(p, p.notes) : n.to = u /\ n.token \in tokens}
<1> DEFINE senders == {c.from : c \in {d \in p.chans : d.to = u}}
           subs    == {s \in UNION {ReadSubs(p, from, u) : from \in senders} : s.token \in tokens}
<1>1. DiscoverNotes(p, u, tokens) = Unspent(p, UNION {ReadNotes(p, s.from, u, s.token) : s \in subs})
  BY DEF DiscoverNotes
<1>2. \A from : ReadSubs(p, from, u) = SubsOf(p, from, u) BY ReadsAll
<1>3. \A from, t : ReadNotes(p, from, u, t) = NotesOf(p, from, u, t) BY ReadsAll
<1>4. ASSUME NEW n \in p.notes, n.to = u, n.token \in tokens
      PROVE  \E s \in subs : n \in ReadNotes(p, s.from, u, s.token)
  <2>1. PICK s \in SubsOf(p, n.from, n.to) : s.token = n.token BY DEF WellFormed
  <2>2. s \in p.subs /\ s.from = n.from /\ s.to = u BY <1>4, <2>1 DEF SubsOf
  <2>3. HasChannel(p, s.from, s.to) BY <2>2 DEF WellFormed
  <2>4. n.from \in senders BY <2>2, <2>3 DEF HasChannel
  <2>5. s \in ReadSubs(p, n.from, u) BY <1>2, <1>4, <2>1
  <2>6. s \in subs BY <1>4, <2>1, <2>4, <2>5
  <2>7. n \in ReadNotes(p, s.from, u, s.token) BY <1>3, <1>4, <2>1, <2>2 DEF NotesOf
  <2> QED BY <2>6, <2>7
<1>5. ASSUME NEW s \in subs, NEW n \in ReadNotes(p, s.from, u, s.token)
      PROVE  n \in p.notes /\ n.to = u /\ n.token \in tokens
  <2>1. n \in NotesOf(p, s.from, u, s.token) BY <1>3
  <2> QED BY <2>1 DEF NotesOf
<1> HIDE DEF subs, senders
<1> QED BY <1>1, <1>4, <1>5 DEF Unspent

\* What the channels of a state say of the pool.
BaseTells(base, p, u) ==
    \A to \in DOMAIN base :
       /\ base[to].open <=> HasChannel(p, u, to)
       /\ OldDom(base, to) = {s.token : s \in SubsOf(p, u, to)}
       /\ Cardinality(OldDom(base, to)) = Cardinality(SubsOf(p, u, to))
       /\ \A t : OldNext(base, to, t) = Cardinality(NotesOf(p, u, to, t))

LEMMA SubTokens ==
  ASSUME NEW p, WellFormed(p), NEW u, NEW to
  PROVE  Cardinality({s.token : s \in SubsOf(p, u, to)}) = Cardinality(SubsOf(p, u, to))
<1> DEFINE S == SubsOf(p, u, to)
           T == {s.token : s \in S}
           f == [s \in S |-> s.token]
<1>1. IsFiniteSet(S) BY WellFormedLists
<1>2. f \in Surjection(S, T) BY DEF Surjection
<1>3. \A r, s \in S : r.token = s.token => r = s BY DEF WellFormed, SubsOf
<1>4. f \in Injection(S, T)
  <2>1. f \in [S -> T] BY <1>2 DEF Surjection
  <2>2. \A r, s \in S : f[r] = f[s] => r = s BY <1>3
  <2> QED BY <2>1, <2>2 DEF Injection, IsInjective
<1> HIDE DEF S, T, f
<1>5. Cardinality(T) = Cardinality(S) BY <1>1, <1>2, <1>4, FS_Surjection
<1> QED BY <1>5 DEF S, T

LEMMA NoSubNoNote ==
  ASSUME NEW p, WellFormed(p), NEW u, NEW to, NEW t, t \notin {s.token : s \in SubsOf(p, u, to)}
  PROVE  Cardinality(NotesOf(p, u, to, t)) = 0
<1>1. NotesOf(p, u, to, t) = {}
  <2> SUFFICES ASSUME NEW n \in NotesOf(p, u, to, t) PROVE FALSE OBVIOUS
  <2>1. n \in p.notes /\ n.from = u /\ n.to = to /\ n.token = t BY DEF NotesOf
  <2>2. \E s \in SubsOf(p, n.from, n.to) : s.token = n.token BY <2>1 DEF WellFormed
  <2> QED BY <2>1, <2>2
<1> QED BY <1>1, FS_EmptySet

LEMMA ChannelTells ==
  ASSUME NEW p, WellFormed(p), NEW u, NEW to
  PROVE  LET ch == DiscoverChannel(p, u, to)
         IN  /\ ch.open <=> HasChannel(p, u, to)
             /\ DOMAIN ch.subs = {s.token : s \in SubsOf(p, u, to)}
             /\ \A t \in DOMAIN ch.subs :
                   /\ ch.subs[t] \in [index : Nat, next : Nat]
                   /\ ch.subs[t].next = Cardinality(NotesOf(p, u, to, t))
             /\ ch.subs = [t \in DOMAIN ch.subs |-> ch.subs[t]]
             /\ ch = [open |-> HasChannel(p, u, to), subs |-> ch.subs]
<1> DEFINE ch == DiscoverChannel(p, u, to)
           subs == IF HasChannel(p, u, to) THEN ReadSubs(p, u, to) ELSE {}
           T == {s.token : s \in subs}
<1>1. subs = SubsOf(p, u, to)
  <2>1. CASE HasChannel(p, u, to) BY <2>1, ReadsAll
  <2>2. CASE ~HasChannel(p, u, to)
    <3>1. SubsOf(p, u, to) = {}
      <4>1. \A s \in p.subs : HasChannel(p, s.from, s.to) BY DEF WellFormed
      <4> QED BY <2>2, <4>1 DEF SubsOf
    <3> QED BY <2>2, <3>1
  <2> QED BY <2>1, <2>2
<1>2. ch = [open |-> HasChannel(p, u, to),
            subs |-> [t \in T |-> [index |-> (CHOOSE s \in subs : s.token = t).index,
                                   next  |-> FirstFree(Slots(NotesOf(p, u, to, t)))]]]
  BY DEF DiscoverChannel
<1> HIDE DEF ch, subs
<1> DEFINE entry(t) == [index |-> (CHOOSE s \in subs : s.token = t).index,
                        next  |-> FirstFree(Slots(NotesOf(p, u, to, t)))]
<1>3. ch.subs = [t \in T |-> entry(t)] BY <1>2
<1>4. ASSUME NEW t \in T
      PROVE  entry(t) \in [index : Nat, next : Nat] /\ entry(t).next = Cardinality(NotesOf(p, u, to, t))
  <2>1. (CHOOSE s \in subs : s.token = t) \in subs OBVIOUS
  <2>2. \A s \in subs : s.index \in Nat
    <3>1. Dense(SubsOf(p, u, to)) BY WellFormedLists
    <3>2. IsFiniteSet(SubsOf(p, u, to)) BY WellFormedLists
    <3>3. Cardinality(SubsOf(p, u, to)) \in Nat BY <3>2, FS_CardinalityType
    <3> QED BY <1>1, <3>1, <3>3 DEF Dense, Slots
  <2>3. FirstFree(Slots(NotesOf(p, u, to, t))) = Cardinality(NotesOf(p, u, to, t)) BY ReadsAll
  <2>4. IsFiniteSet(NotesOf(p, u, to, t)) BY WellFormedLists
  <2>5. Cardinality(NotesOf(p, u, to, t)) \in Nat BY <2>4, FS_CardinalityType
  <2> QED BY <2>1, <2>2, <2>3, <2>5
<1> HIDE DEF entry
<1>5. DOMAIN ch.subs = T /\ \A t \in T : ch.subs[t] = entry(t) BY <1>3
<1>6. ch.open <=> HasChannel(p, u, to)
  <2> DEFINE a == HasChannel(p, u, to)
  <2>1. ch.open = a BY <1>2
  <2> HIDE DEF a
  <2> QED BY <2>1 DEF a
<1>7. T = {s.token : s \in SubsOf(p, u, to)} BY <1>1
<1>8. ch.subs = [t \in DOMAIN ch.subs |-> ch.subs[t]] BY <1>3
<1>9. ch = [open |-> HasChannel(p, u, to), subs |-> ch.subs]
  <2> DEFINE a == HasChannel(p, u, to)
             b == [t \in T |-> [index |-> (CHOOSE s \in subs : s.token = t).index,
                                next  |-> FirstFree(Slots(NotesOf(p, u, to, t)))]]
  <2>1. ch = [open |-> a, subs |-> b] BY <1>2
  <2> HIDE DEF a, b
  <2>2. ch.subs = b BY <2>1
  <2>3. ch = [open |-> a, subs |-> ch.subs] BY <2>1, <2>2
  <2> QED BY <2>3 DEF a
<1> HIDE DEF T
<1> QED BY <1>4, <1>5, <1>6, <1>7, <1>8, <1>9 DEF ch

\* The tokens a plan of this intent may meet in this pool.
TokensMet(p, i) == Named(i) \cup {s.token : s \in p.subs}

LEMMA TokensMetFinite ==
  ASSUME NEW p, WellFormed(p), NEW i, NEW tokens, IsIntent(i, tokens)
  PROVE  IsFiniteSet(TokensMet(p, i))
<1>1. IsFiniteSet(Named(i)) BY NamedFacts
<1>2. IsFiniteSet({s.token : s \in p.subs})
  <2> DEFINE f == [s \in p.subs |-> s.token]
  <2>1. {f[s] : s \in p.subs} = {s.token : s \in p.subs} OBVIOUS
  <2> HIDE DEF f
  <2>2. IsFiniteSet({f[s] : s \in p.subs}) BY ImageFinite DEF WellFormed
  <2> QED BY <2>1, <2>2
<1> QED BY <1>1, <1>2, FS_Union DEF TokensMet

LEMMA PlanOf ==
  ASSUME NEW u, NEW st, NEW i, PlanBatch(u, st, i) \notin Errors
  PROVE  /\ ~Unregistered(st, i) /\ ~ZeroAmount(i) /\ Covered(st, i) /\ ~Unknown(u, st, i)
         /\ PlanBatch(u, st, i) =
               [register |-> Registering(st, i), opens |-> Placed(u, st, i).opens, subs |-> Placed(u, st, i).subs,
                deposits |-> i.deposits, uses |-> Uses(st, i), creates |-> Placed(u, st, i).creates,
                withdrawals |-> i.withdrawals]
<1>1. /\ Refusal("NotRegistered") \in Errors /\ Refusal("ZeroAmount") \in Errors
      /\ Refusal("InsufficientBalance") \in Errors
  BY DEF Errors
<1> DEFINE batch == [register |-> Registering(st, i), opens |-> Placed(u, st, i).opens, subs |-> Placed(u, st, i).subs,
                deposits |-> i.deposits, uses |-> Uses(st, i), creates |-> Placed(u, st, i).creates,
                withdrawals |-> i.withdrawals]
<1>2. PlanBatch(u, st, i) = CASE Unregistered(st, i) -> Refusal("NotRegistered")
          [] ZeroAmount(i) -> Refusal("ZeroAmount")
          [] ~Covered(st, i) -> Refusal("InsufficientBalance")
          [] Unknown(u, st, i) -> Refusal("NotRegistered")
          [] OTHER -> batch
  BY DEF PlanBatch
<1> HIDE DEF batch
<1>3. ~Unregistered(st, i) BY <1>1, <1>2
<1>4. ~ZeroAmount(i) BY <1>1, <1>2, <1>3
<1>5. Covered(st, i) BY <1>1, <1>2, <1>3, <1>4
<1>6. ~Unknown(u, st, i) BY <1>1, <1>2, <1>3, <1>4, <1>5
<1>7. PlanBatch(u, st, i) = batch BY <1>2, <1>3, <1>4, <1>5, <1>6
<1> QED BY <1>3, <1>4, <1>5, <1>6, <1>7 DEF batch

\* What the discovery of a pool without gaps tells.
StateTold(p, u, st, i) ==
    /\ Readable(st) /\ st.outgoing = Cardinality(ChansFrom(p, u)) /\ st.outgoing \in Nat
    /\ (Registering(st, i) <=> u \notin p.reg)
    /\ (u \notin p.reg => i.register)
    /\ st.notes \subseteq {n \in Unspent(p, p.notes) : n.to = u}
    /\ IsBase(KnownChannels(u, st, i), DOMAIN KnownChannels(u, st, i), TokensMet(p, i))
    /\ BaseTells(KnownChannels(u, st, i), p, u)
    /\ DOMAIN KnownChannels(u, st, i) = IF u \in p.reg THEN Recipients(u, i) ELSE {u}

\* The state of a pool without gaps, and what the planner starts from.
LEMMA StateTells ==
  ASSUME NEW p, WellFormed(p), NEW u, NEW i, NEW tokens, IsIntent(i, tokens),
         NEW st, st = DiscoverState(p, u, i), ~Unregistered(st, i)
  PROVE  StateTold(p, u, st, i)
<1> DEFINE base == KnownChannels(u, st, i)
           K == TokensMet(p, i)
<1>1. i.register \in BOOLEAN BY IntentLists
<1>2. IsFiniteSet(ChansFrom(p, u)) BY WellFormedLists
<1>3. CASE u \in p.reg
  <2> DEFINE S == Recipients(u, i)
  <2>1. st = [registered |-> TRUE,
              channels   |-> [to \in S |-> DiscoverChannel(p, u, to)],
              notes      |-> DiscoverNotes(p, u, TokensOf(i)),
              outgoing   |-> OutgoingCount(p, u)]
    BY <1>3 DEF DiscoverState
  <2> HIDE DEF S
  <2>2. /\ st.registered = TRUE /\ st.channels = [to \in S |-> DiscoverChannel(p, u, to)]
        /\ st.notes = DiscoverNotes(p, u, TokensOf(i)) /\ st.outgoing = OutgoingCount(p, u)
    BY <2>1
  <2>3. ~Registering(st, i) BY <2>2 DEF Registering
  <2>4. base = [to \in S |-> DiscoverChannel(p, u, to)] BY <2>2, <2>3 DEF KnownChannels
  <2>5. st.outgoing = Cardinality(ChansFrom(p, u)) /\ st.outgoing \in Nat
    BY <1>2, <2>2, ReadsAll, FS_CardinalityType
  <2>6. st.notes = {n \in Unspent(p, p.notes) : n.to = u /\ n.token \in TokensOf(i)} BY <2>2, DiscoversAll
  <2>7. st.notes \subseteq p.notes /\ st.notes \subseteq {n \in Unspent(p, p.notes) : n.to = u}
    BY <2>6 DEF Unspent
  <2>8. Readable(st)
    <3>1. IsFiniteSet(st.notes)
      <4>1. IsFiniteSet(p.notes) BY DEF WellFormed
      <4> QED BY <2>7, <4>1, FS_Subset
    <3>2. \A n \in p.notes : n.amount \in Nat BY DEF WellFormed
    <3> QED BY <2>7, <3>1, <3>2 DEF Readable
  <2>9. ASSUME NEW to \in S
        PROVE  /\ base[to] \in [open : BOOLEAN, subs : SubsFor(K)]
               /\ base[to].open <=> HasChannel(p, u, to)
               /\ OldDom(base, to) = {s.token : s \in SubsOf(p, u, to)}
               /\ Cardinality(OldDom(base, to)) = Cardinality(SubsOf(p, u, to))
               /\ \A t : OldNext(base, to, t) = Cardinality(NotesOf(p, u, to, t))
               /\ ~base[to].open => OldDom(base, to) = {}
    <3> DEFINE ch == DiscoverChannel(p, u, to)
    <3>1. base[to] = ch BY <2>4
    <3>2. /\ ch.open <=> HasChannel(p, u, to)
          /\ DOMAIN ch.subs = {s.token : s \in SubsOf(p, u, to)}
          /\ \A t \in DOMAIN ch.subs :
                /\ ch.subs[t] \in [index : Nat, next : Nat]
                /\ ch.subs[t].next = Cardinality(NotesOf(p, u, to, t))
          /\ ch.subs = [t \in DOMAIN ch.subs |-> ch.subs[t]]
          /\ ch = [open |-> HasChannel(p, u, to), subs |-> ch.subs]
      BY ChannelTells
    <3> HIDE DEF ch, base
    <3>3. OldDom(base, to) = {s.token : s \in SubsOf(p, u, to)} BY <3>1, <3>2 DEF OldDom
    <3>4. \A t : OldNext(base, to, t) = Cardinality(NotesOf(p, u, to, t))
      <4> TAKE t
      <4>1. CASE t \in DOMAIN ch.subs BY <3>1, <3>2, <4>1 DEF OldNext, NextOf
      <4>2. CASE t \notin DOMAIN ch.subs
        <5>1. OldNext(base, to, t) = 0 BY <3>1, <4>2 DEF OldNext, NextOf
        <5>2. Cardinality(NotesOf(p, u, to, t)) = 0 BY <3>2, <4>2, NoSubNoNote
        <5> QED BY <5>1, <5>2
      <4> QED BY <4>1, <4>2
    <3>5. ch.subs \in SubsFor(K)
      <4>1. DOMAIN ch.subs \subseteq K BY <3>2 DEF TokensMet, SubsOf
      <4>2. \A t \in DOMAIN ch.subs : ch.subs[t] \in [index : Nat, next : Nat] BY <3>2
      <4>3. ch.subs = [t \in DOMAIN ch.subs |-> ch.subs[t]] BY <3>2
      <4> HIDE DEF K
      <4> QED BY <4>1, <4>2, <4>3, SubsForFacts
    <3>6. ch \in [open : BOOLEAN, subs : SubsFor(K)]
      <4> DEFINE a == HasChannel(p, u, to)
      <4>1. a \in BOOLEAN BY DEF HasChannel
      <4>2. ch = [open |-> a, subs |-> ch.subs] BY <3>2
      <4> HIDE DEF a, K
      <4> QED BY <3>5, <4>1, <4>2
    <3>7. ~base[to].open => OldDom(base, to) = {}
      <4> SUFFICES ASSUME ~base[to].open PROVE OldDom(base, to) = {} OBVIOUS
      <4>1. ~HasChannel(p, u, to) BY <3>1, <3>2
      <4>2. \A s \in p.subs : HasChannel(p, s.from, s.to) BY DEF WellFormed
      <4>3. SubsOf(p, u, to) = {} BY <4>1, <4>2 DEF SubsOf
      <4> QED BY <3>3, <4>3
    <3>8. Cardinality(OldDom(base, to)) = Cardinality(SubsOf(p, u, to)) BY <3>3, SubTokens
    <3>9. base[to].open <=> HasChannel(p, u, to) BY <3>1, <3>2
    <3> QED BY <3>1, <3>3, <3>4, <3>6, <3>7, <3>8, <3>9
  <2>10. DOMAIN base = S BY <2>4
  <2> HIDE DEF base, K
  <2>11. BaseTells(base, p, u) BY <2>9, <2>10 DEF BaseTells
  <2>12. base \in ChannelsFor(S, K)
    <3>1. base = [to \in S |-> base[to]] BY <2>4
    <3>2. \A to \in S : base[to] \in [open : BOOLEAN, subs : SubsFor(K)] BY <2>9
    <3> QED BY <3>1, <3>2 DEF ChannelsFor
  <2>13. IsBase(base, DOMAIN base, K) BY <2>9, <2>10, <2>12 DEF IsBase
  <2> QED BY <1>3, <2>3, <2>5, <2>7, <2>8, <2>10, <2>11, <2>13 DEF S, base, K, StateTold
<1>4. CASE u \notin p.reg
  <2>1. st = [registered |-> FALSE, channels |-> << >>, notes |-> {}, outgoing |-> 0] BY <1>4 DEF DiscoverState
  <2>2. st.registered = FALSE /\ st.notes = {} /\ st.outgoing = 0 BY <2>1
  <2>3. i.register BY <2>2 DEF Unregistered
  <2>4. Registering(st, i) BY <2>2, <2>3 DEF Registering
  <2>5. base = [to \in {u} |-> [open |-> FALSE, subs |-> << >>]] BY <2>4 DEF KnownChannels
  <2>6. DOMAIN base = {u} /\ base[u] = [open |-> FALSE, subs |-> << >>] BY <2>5
  <2>7. Readable(st) BY <2>2, FS_EmptySet DEF Readable
  <2>8. \A to : ~HasChannel(p, u, to) BY <1>4 DEF HasChannel, WellFormed
  <2>9. \A to : SubsOf(p, u, to) = {}
    <3>1. \A s \in p.subs : HasChannel(p, s.from, s.to) BY DEF WellFormed
    <3> QED BY <2>8, <3>1 DEF SubsOf
  <2>10. \A to, t : Cardinality(NotesOf(p, u, to, t)) = 0
    <3> TAKE to, t
    <3>1. t \notin {s.token : s \in SubsOf(p, u, to)} BY <2>9
    <3> QED BY <3>1, NoSubNoNote
  <2>11. ChansFrom(p, u) = {} BY <1>4 DEF ChansFrom, WellFormed
  <2>12. st.outgoing = Cardinality(ChansFrom(p, u)) BY <2>2, <2>11, FS_EmptySet
  <2>13. base[u].subs = << >> /\ DOMAIN << >> = {} BY <2>6
  <2>14. ~base[u].open BY <2>6
  <2> HIDE DEF base, K
  <2>15. OldDom(base, u) = {} BY <2>13 DEF OldDom
  <2>16. \A t : OldNext(base, u, t) = 0 BY <2>13 DEF OldNext, NextOf
  <2>17. BaseTells(base, p, u)
    <3>1. {s.token : s \in SubsOf(p, u, u)} = {} BY <2>9
    <3>2. Cardinality(SubsOf(p, u, u)) = 0 /\ Cardinality(OldDom(base, u)) = 0 BY <2>9, <2>15, FS_EmptySet
    <3>3. /\ base[u].open <=> HasChannel(p, u, u)
          /\ OldDom(base, u) = {s.token : s \in SubsOf(p, u, u)}
          /\ Cardinality(OldDom(base, u)) = Cardinality(SubsOf(p, u, u))
          /\ \A t : OldNext(base, u, t) = Cardinality(NotesOf(p, u, u, t))
      BY <2>8, <2>10, <2>14, <2>15, <2>16, <3>1, <3>2
    <3> QED BY <2>6, <3>3 DEF BaseTells
  <2>18. IsBase(base, {u}, K)
    <3>1. << >> \in SubsFor(K)
      <4>1. << >> = [t \in DOMAIN << >> |-> << >>[t]] /\ DOMAIN << >> = {} OBVIOUS
      <4> QED BY <4>1, SubsForFacts
    <3>2. [open |-> FALSE, subs |-> << >>] \in [open : BOOLEAN, subs : SubsFor(K)] BY <3>1
    <3>3. base \in ChannelsFor({u}, K) BY <2>5, <3>2 DEF ChannelsFor
    <3> QED BY <2>15, <3>3 DEF IsBase
  <2> QED BY <1>4, <2>2, <2>3, <2>4, <2>6, <2>7, <2>12, <2>17, <2>18 DEF base, K, StateTold
<1> QED BY <1>3, <1>4

\* The planner's first step: the channel of an account that registers.
LEMMA BegunTold ==
  ASSUME NEW u, NEW st, NEW i, NEW K, IsFiniteSet(K), st.outgoing \in Nat,
         IsBase(KnownChannels(u, st, i), DOMAIN KnownChannels(u, st, i), K),
         Registering(st, i) => u \in DOMAIN KnownChannels(u, st, i)
  PROVE  /\ Told(Begun(u, st, i), KnownChannels(u, st, i), st.outgoing, DOMAIN KnownChannels(u, st, i), K)
         /\ Begun(u, st, i).creates = << >>
<1> DEFINE base == KnownChannels(u, st, i)
           D == DOMAIN base
           n == st.outgoing
           acc == [channels |-> base, outgoing |-> n, opens |-> << >>, subs |-> << >>, creates |-> << >>]
<1>1. n \in Nat /\ IsBase(base, D, K) OBVIOUS
<1>2. base \in ChannelsFor(D, K) BY <1>1 DEF IsBase
<1>3. Begun(u, st, i) = IF Registering(st, i) THEN EnsureChannel(acc, u) ELSE acc BY DEF Begun
<1>4. Registering(st, i) => u \in D OBVIOUS
<1> HIDE DEF base, D, n
<1>5. /\ acc.channels = base /\ acc.outgoing = n /\ acc.opens = << >> /\ acc.subs = << >> /\ acc.creates = << >>
      /\ acc = [channels |-> acc.channels, outgoing |-> acc.outgoing, opens |-> acc.opens, subs |-> acc.subs,
                creates |-> acc.creates]
  OBVIOUS
<1> HIDE DEF acc
<1>6. acc \in Accs(D, K)
  <2>1. /\ acc.opens \in Seq([to : D, index : Nat]) /\ acc.subs \in Seq([to : D, token : K, index : Nat])
        /\ acc.creates \in Seq([to : D, token : K, amount : Nat, index : Nat])
    BY <1>5
  <2> QED BY <1>1, <1>2, <1>5, <2>1, AccFields
<1>7. Len(acc.opens) = 0 /\ Len(acc.subs) = 0 /\ Len(acc.creates) = 0 BY <1>5
<1>8. \A to \in D : Dom(acc, to) = OldDom(base, to) /\ acc.channels[to].open = base[to].open BY <1>5 DEF Dom, OldDom
<1>9. \A to \in D, t \in K : NextIn(acc, to, t) = OldNext(base, to, t) /\ NextIn(acc, to, t) \in Nat
  BY <1>5, <1>6, NextInType DEF NextIn, OldNext
<1>10. OpensTell(acc, base, n, D) BY <1>1, <1>5, <1>7, <1>8 DEF OpensTell
<1>11. SubsTell(acc, base, D)
  <2>1. \A to \in D : \A x \in Cardinality(OldDom(base, to))..(Cardinality(Dom(acc, to)) - 1) : FALSE
    <3> TAKE to \in D
    <3>1. Dom(acc, to) \subseteq K BY <1>6, NextInType
    <3>2. IsFiniteSet(Dom(acc, to)) BY <3>1, FS_Subset
    <3>3. Cardinality(Dom(acc, to)) \in Nat BY <3>2, FS_CardinalityType
    <3> QED BY <1>8, <3>3
  <2> QED BY <1>7, <1>8, <2>1 DEF SubsTell
<1>12. CreatesTell(acc, base, D, K)
  <2>1. \A to \in D, t \in K : \A x \in OldNext(base, to, t)..(NextIn(acc, to, t) - 1) : FALSE BY <1>9
  <2>2. \A to \in D, t \in K : OldNext(base, to, t) <= NextIn(acc, to, t) BY <1>9
  <2> QED BY <1>7, <2>1, <2>2 DEF CreatesTell
<1>13. Told(acc, base, n, D, K) BY <1>6, <1>10, <1>11, <1>12 DEF Told
<1>14. CASE ~Registering(st, i)
  <2>1. Begun(u, st, i) = acc BY <1>3, <1>14
  <2> QED BY <1>5, <1>13, <2>1 DEF base, D, n
<1>15. CASE Registering(st, i)
  <2>1. Begun(u, st, i) = EnsureChannel(acc, u) /\ u \in D BY <1>3, <1>4, <1>15
  <2>2. Told(EnsureChannel(acc, u), base, n, D, K) BY <1>1, <1>13, <2>1, EnsureKeeps
  <2>3. EnsureEffect(acc, EnsureChannel(acc, u), u, D, K) BY <1>6, <2>1, EnsureDoes
  <2>4. EnsureChannel(acc, u).creates = << >> BY <1>5, <2>3 DEF EnsureEffect
  <2> QED BY <2>1, <2>2, <2>4 DEF base, D, n
<1> QED BY <1>14, <1>15

\* The slots a plan gives out, told from what it has read.
PlanTells(u, st, i, p) ==
    /\ Told(Placed(u, st, i), KnownChannels(u, st, i), Cardinality(ChansFrom(p, u)),
            DOMAIN KnownChannels(u, st, i), TokensMet(p, i))
    /\ Places(Placed(u, st, i), NewNotes(u, st, i), Len(NewNotes(u, st, i)))

LEMMA PlacedTold ==
  ASSUME NEW p, WellFormed(p), NEW u, NEW i, NEW tokens, IsIntent(i, tokens),
         NEW st, st = DiscoverState(p, u, i), PlanBatch(u, st, i) \notin Errors
  PROVE  PlanTells(u, st, i, p)
<1>1. ~Unregistered(st, i) /\ Covered(st, i) /\ ~Unknown(u, st, i) BY PlanOf
<1>2. /\ Readable(st) /\ st.outgoing = Cardinality(ChansFrom(p, u)) /\ st.outgoing \in Nat
      /\ (Registering(st, i) <=> u \notin p.reg)
      /\ IsBase(KnownChannels(u, st, i), DOMAIN KnownChannels(u, st, i), TokensMet(p, i))
      /\ DOMAIN KnownChannels(u, st, i) = IF u \in p.reg THEN Recipients(u, i) ELSE {u}
  <2>1. StateTold(p, u, st, i) BY <1>1, StateTells
  <2> QED BY <2>1 DEF StateTold
<1> DEFINE base == KnownChannels(u, st, i)
           D == DOMAIN base
           K == TokensMet(p, i)
           n == Cardinality(ChansFrom(p, u))
           notes == NewNotes(u, st, i)
<1>3. IsFiniteSet(K) BY TokensMetFinite
<1>4. Money(notes) /\ \A k \in 1..Len(notes) : notes[k].token \in Named(i) BY <1>1, <1>2, NewNotesFacts
<1>5. Told(Begun(u, st, i), base, n, D, K) /\ Begun(u, st, i).creates = << >>
  <2>1. Registering(st, i) => u \in D BY <1>2
  <2>2. st.outgoing = n /\ st.outgoing \in Nat /\ IsBase(base, D, K) BY <1>2
  <2> QED BY <1>3, <2>1, <2>2, BegunTold
<1>6. \A k \in 1..Len(notes) : notes[k].to \in D
  <2>1. {notes[k].to : k \in DOMAIN notes} \subseteq D BY <1>1 DEF Unknown, Field
  <2>2. DOMAIN notes = 1..Len(notes) BY <1>4, MoneyWeights
  <2> HIDE DEF notes, D
  <2> QED BY <2>1, <2>2
<1>7. Placed(u, st, i) = FoldLeft(PlaceNote, Begun(u, st, i), notes) BY DEF Placed
<1>8. \A k \in 1..Len(notes) : notes[k].token \in K BY <1>4 DEF TokensMet
<1> HIDE DEF notes, base, D, K, n
<1>9. IsList(notes) /\ \A k \in 1..Len(notes) : IsNote(notes[k], D, K)
  <2>1. IsList(notes) BY <1>4, MoneyItems DEF IsList
  <2>2. \A k \in 1..Len(notes) : notes[k].amount \in Nat BY <1>4 DEF Money
  <2> QED BY <1>6, <1>8, <2>1, <2>2 DEF IsNote
<1>11. n \in Nat /\ IsBase(base, D, K) BY <1>2 DEF n, base, D, K
<1>10. /\ Told(FoldLeft(PlaceNote, Begun(u, st, i), notes), base, n, D, K)
       /\ Places(FoldLeft(PlaceNote, Begun(u, st, i), notes), notes, Len(notes))
  BY <1>3, <1>5, <1>9, <1>11, PlaceAllFacts
<1> QED BY <1>7, <1>10 DEF PlanTells, base, D, K, n, notes

--------------------------------------------------------------------------------
(* What a plan is to the pool it was read from.                            *)

\* The slots a list takes are those after the ones that are there.
Follow(S, T) == \E m \in Nat : Slots(T) = Cardinality(S)..(Cardinality(S) + m - 1)

OpensFit(p, u, opens) ==
    /\ IsList(opens)
    /\ Follow(ChansFrom(p, u), ToSet(opens))
    /\ \A j, k \in DOMAIN opens : opens[j].to = opens[k].to \/ opens[j].index = opens[k].index => j = k
    /\ \A o \in ToSet(opens) : o.to \in p.reg \cup {u} /\ ~HasChannel(p, u, o.to)

SubsFit(p, u, opens, subs) ==
    /\ IsList(subs)
    /\ \A to : Follow(SubsOf(p, u, to), {s \in ToSet(subs) : s.to = to})
    /\ \A j, k \in DOMAIN subs :
          subs[j].to = subs[k].to /\ (subs[j].token = subs[k].token \/ subs[j].index = subs[k].index) => j = k
    /\ \A s \in ToSet(subs) : /\ HasChannel(p, u, s.to) \/ \E o \in ToSet(opens) : o.to = s.to
                              /\ s.token \notin {x.token : x \in SubsOf(p, u, s.to)}

CreatesFit(p, u, subs, creates) ==
    /\ IsList(creates)
    /\ \A to, t : Follow(NotesOf(p, u, to, t), {c \in ToSet(creates) : c.to = to /\ c.token = t})
    /\ \A j, k \in DOMAIN creates :
          creates[j].to = creates[k].to /\ creates[j].token = creates[k].token
             /\ creates[j].index = creates[k].index => j = k
    /\ \A c \in ToSet(creates) :
          /\ c.amount \in Nat
          /\ \/ c.token \in {x.token : x \in SubsOf(p, u, c.to)}
             \/ \E s \in ToSet(subs) : s.to = c.to /\ s.token = c.token

LEMMA OpensFollow ==
  ASSUME NEW p, NEW u, NEW base, BaseTells(base, p, u), DOMAIN base \subseteq p.reg \cup {u}, NEW K, NEW acc,
         Cardinality(ChansFrom(p, u)) \in Nat,
         Told(acc, base, Cardinality(ChansFrom(p, u)), DOMAIN base, K)
  PROVE  OpensFit(p, u, acc.opens)
<1> DEFINE n == Cardinality(ChansFrom(p, u))
           D == DOMAIN base
           opens == acc.opens
<1>1. OpensTell(acc, base, n, D) /\ acc \in Accs(D, K) BY DEF Told
<1>2. opens \in Seq([to : D, index : Nat]) BY <1>1, AccFields
<1>3. /\ Len(opens) \in Nat /\ DOMAIN opens = 1..Len(opens)
      /\ ToSet(opens) = {opens[k] : k \in 1..Len(opens)}
  BY <1>2, SeqFacts
<1>4. /\ \A k \in 1..Len(opens) : /\ opens[k].index = n + k - 1
                                  /\ opens[k].to \in D /\ ~base[opens[k].to].open
      /\ \A j, k \in 1..Len(opens) : opens[j].to = opens[k].to => j = k
  BY <1>1 DEF OpensTell
<1>5. n \in Nat /\ D \subseteq p.reg \cup {u} OBVIOUS
<1>6. \A to \in D : base[to].open <=> HasChannel(p, u, to) BY DEF BaseTells
<1>7. IsList(opens) BY <1>2, OwnItems DEF IsList
<1> HIDE DEF opens, D, n
<1>8. Slots(ToSet(opens)) = n..(n + Len(opens) - 1)
  <2>1. Slots(ToSet(opens)) = {n + k - 1 : k \in 1..Len(opens)} BY <1>3, <1>4 DEF Slots
  <2>2. ASSUME NEW x \in n..(n + Len(opens) - 1) PROVE \E k \in 1..Len(opens) : x = n + k - 1
    <3>1. x - n + 1 \in 1..Len(opens) /\ x = n + (x - n + 1) - 1 BY <1>3, <1>5
    <3> QED BY <3>1
  <2>3. \A k \in 1..Len(opens) : n + k - 1 \in n..(n + Len(opens) - 1) BY <1>3, <1>5
  <2> QED BY <2>1, <2>2, <2>3
<1>9. Follow(ChansFrom(p, u), ToSet(opens)) BY <1>3, <1>8 DEF Follow, n
<1>10. \A j, k \in DOMAIN opens : opens[j].to = opens[k].to \/ opens[j].index = opens[k].index => j = k
  <2> SUFFICES ASSUME NEW j \in DOMAIN opens, NEW k \in DOMAIN opens,
                      opens[j].to = opens[k].to \/ opens[j].index = opens[k].index
               PROVE  j = k
    OBVIOUS
  <2>1. j \in 1..Len(opens) /\ k \in 1..Len(opens) BY <1>3
  <2>2. opens[j].index = n + j - 1 /\ opens[k].index = n + k - 1 BY <1>4, <2>1
  <2>3. n + j - 1 = n + k - 1 => j = k BY <1>3, <1>5, <2>1
  <2> QED BY <1>4, <2>1, <2>2, <2>3
<1>11. \A o \in ToSet(opens) : o.to \in p.reg \cup {u} /\ ~HasChannel(p, u, o.to)
  BY <1>3, <1>4, <1>5, <1>6
<1> QED BY <1>7, <1>9, <1>10, <1>11 DEF OpensFit, opens

LEMMA SubsFollow ==
  ASSUME NEW p, WellFormed(p), NEW u, NEW base, BaseTells(base, p, u), NEW K, IsFiniteSet(K), NEW acc, NEW n,
         Told(acc, base, n, DOMAIN base, K)
  PROVE  SubsFit(p, u, acc.opens, acc.subs)
<1> DEFINE D == DOMAIN base
           subs == acc.subs
           opens == acc.opens
<1>1. OpensTell(acc, base, n, D) /\ SubsTell(acc, base, D) /\ acc \in Accs(D, K) BY DEF Told
<1>2. subs \in Seq([to : D, token : K, index : Nat]) /\ opens \in Seq([to : D, index : Nat]) BY <1>1, AccFields
<1>3. /\ Len(subs) \in Nat /\ DOMAIN subs = 1..Len(subs)
      /\ ToSet(subs) = {subs[k] : k \in 1..Len(subs)}
      /\ ToSet(opens) = {opens[k] : k \in 1..Len(opens)}
  BY <1>2, SeqFacts
<1>4. IsList(subs) BY <1>2, OwnItems DEF IsList
<1>5. \A to \in D : /\ base[to].open <=> HasChannel(p, u, to)
                    /\ OldDom(base, to) = {s.token : s \in SubsOf(p, u, to)}
                    /\ Cardinality(OldDom(base, to)) = Cardinality(SubsOf(p, u, to))
  BY DEF BaseTells
<1>6. \A to : Cardinality(SubsOf(p, u, to)) \in Nat
  <2> TAKE to
  <2>1. IsFiniteSet(SubsOf(p, u, to)) BY WellFormedLists
  <2> QED BY <2>1, FS_CardinalityType
<1>7. \A to \in D : /\ Cardinality(Dom(acc, to)) \in Nat
                    /\ Cardinality(OldDom(base, to)) <= Cardinality(Dom(acc, to))
  <2> TAKE to \in D
  <2>1. Dom(acc, to) \subseteq K BY <1>1, NextInType
  <2>2. IsFiniteSet(Dom(acc, to)) BY <2>1, FS_Subset
  <2>3. OldDom(base, to) \subseteq Dom(acc, to) BY <1>1 DEF SubsTell
  <2> QED BY <2>2, <2>3, FS_Subset, FS_CardinalityType
<1>8. \A i \in 1..Len(subs) :
         /\ subs[i].to \in D /\ acc.channels[subs[i].to].open
         /\ subs[i].token \in Dom(acc, subs[i].to) \ OldDom(base, subs[i].to)
         /\ subs[i].index \in Cardinality(OldDom(base, subs[i].to))..(Cardinality(Dom(acc, subs[i].to)) - 1)
  BY <1>1 DEF SubsTell
<1>9. /\ \A i, j \in 1..Len(subs) :
            subs[i].to = subs[j].to /\ (subs[i].token = subs[j].token \/ subs[i].index = subs[j].index) => i = j
      /\ \A to \in D : \A x \in Cardinality(OldDom(base, to))..(Cardinality(Dom(acc, to)) - 1) :
            \E i \in 1..Len(subs) : subs[i].to = to /\ subs[i].index = x
  BY <1>1 DEF SubsTell
<1>10. \A to \in D : acc.channels[to].open =>
                       base[to].open \/ \E i \in 1..Len(opens) : opens[i].to = to
  BY <1>1 DEF OpensTell
<1> HIDE DEF D, subs, opens
<1>11. \A to : Follow(SubsOf(p, u, to), {s \in ToSet(subs) : s.to = to})
  <2> TAKE to
  <2> DEFINE T == {s \in ToSet(subs) : s.to = to}
             a == Cardinality(SubsOf(p, u, to))
  <2>1. a \in Nat BY <1>6
  <2>2. CASE to \notin D
    <3>1. T = {} BY <1>3, <1>8, <2>2
    <3>2. Slots(T) = {} BY <3>1 DEF Slots
    <3>3. 0 \in Nat /\ a..(a + 0 - 1) = {} BY <2>1
    <3> QED BY <3>2, <3>3 DEF Follow
  <2>3. CASE to \in D
    <3> DEFINE m == Cardinality(Dom(acc, to)) - a
    <3>1. /\ m \in Nat /\ Cardinality(Dom(acc, to)) = a + m /\ Cardinality(OldDom(base, to)) = a
      BY <1>5, <1>7, <2>1, <2>3
    <3> HIDE DEF m, a
    <3>2. ASSUME NEW s \in T PROVE s.index \in a..(a + m - 1)
      <4>1. PICK k \in 1..Len(subs) : s = subs[k] BY <1>3
      <4>2. s.index \in Cardinality(OldDom(base, s.to))..(Cardinality(Dom(acc, s.to)) - 1) /\ s.to = to
        BY <1>8, <4>1
      <4> QED BY <2>1, <3>1, <4>2
    <3>3. ASSUME NEW x \in a..(a + m - 1) PROVE \E s \in T : s.index = x
      <4>1. x \in Cardinality(OldDom(base, to))..(Cardinality(Dom(acc, to)) - 1) BY <2>1, <3>1
      <4>2. PICK k \in 1..Len(subs) : subs[k].to = to /\ subs[k].index = x BY <1>9, <2>3, <4>1
      <4> QED BY <1>3, <4>2
    <3>4. Slots(T) = a..(a + m - 1) BY <3>2, <3>3 DEF Slots
    <3> QED BY <3>1, <3>4 DEF Follow, a
  <2> QED BY <2>2, <2>3
<1>12. \A s \in ToSet(subs) : /\ HasChannel(p, u, s.to) \/ \E o \in ToSet(opens) : o.to = s.to
                              /\ s.token \notin {x.token : x \in SubsOf(p, u, s.to)}
  <2> SUFFICES ASSUME NEW k \in 1..Len(subs)
               PROVE  /\ HasChannel(p, u, subs[k].to) \/ \E o \in ToSet(opens) : o.to = subs[k].to
                      /\ subs[k].token \notin {x.token : x \in SubsOf(p, u, subs[k].to)}
    BY <1>3
  <2>1. subs[k].to \in D /\ acc.channels[subs[k].to].open /\ subs[k].token \notin OldDom(base, subs[k].to) BY <1>8
  <2>2. base[subs[k].to].open \/ \E i \in 1..Len(opens) : opens[i].to = subs[k].to BY <1>10, <2>1
  <2>3. HasChannel(p, u, subs[k].to) \/ \E o \in ToSet(opens) : o.to = subs[k].to BY <1>3, <1>5, <2>1, <2>2
  <2> QED BY <1>5, <2>1, <2>3
<1> QED BY <1>3, <1>4, <1>9, <1>11, <1>12 DEF SubsFit, subs, opens

LEMMA CreatesFollow ==
  ASSUME NEW p, WellFormed(p), NEW u, NEW base, BaseTells(base, p, u), NEW K, NEW acc, NEW n,
         Told(acc, base, n, DOMAIN base, K)
  PROVE  CreatesFit(p, u, acc.subs, acc.creates)
<1> DEFINE D == DOMAIN base
           subs == acc.subs
           creates == acc.creates
<1>1. CreatesTell(acc, base, D, K) /\ SubsTell(acc, base, D) /\ acc \in Accs(D, K) BY DEF Told
<1>2. /\ subs \in Seq([to : D, token : K, index : Nat])
      /\ creates \in Seq([to : D, token : K, amount : Nat, index : Nat])
  BY <1>1, AccFields
<1>3. /\ Len(creates) \in Nat /\ DOMAIN creates = 1..Len(creates)
      /\ ToSet(creates) = {creates[k] : k \in 1..Len(creates)}
      /\ ToSet(subs) = {subs[k] : k \in 1..Len(subs)}
      /\ \A k \in 1..Len(creates) : creates[k].amount \in Nat
  <2>1. /\ Len(creates) \in Nat /\ DOMAIN creates = 1..Len(creates)
        /\ ToSet(creates) = {creates[k] : k \in 1..Len(creates)}
        /\ \A k \in 1..Len(creates) : creates[k] \in [to : D, token : K, amount : Nat, index : Nat]
    BY <1>2, SeqFacts
  <2>2. ToSet(subs) = {subs[k] : k \in 1..Len(subs)} BY <1>2, SeqFacts
  <2> QED BY <2>1, <2>2
<1>4. IsList(creates) BY <1>2, OwnItems DEF IsList
<1>5. \A to \in D : /\ OldDom(base, to) = {s.token : s \in SubsOf(p, u, to)}
                    /\ \A t : OldNext(base, to, t) = Cardinality(NotesOf(p, u, to, t))
  BY DEF BaseTells
<1>6. \A to, t : Cardinality(NotesOf(p, u, to, t)) \in Nat
  <2> TAKE to, t
  <2>1. IsFiniteSet(NotesOf(p, u, to, t)) BY WellFormedLists
  <2> QED BY <2>1, FS_CardinalityType
<1>7. \A to \in D, t \in K : NextIn(acc, to, t) \in Nat /\ OldNext(base, to, t) <= NextIn(acc, to, t)
  BY <1>1, NextInType DEF CreatesTell
<1>8. \A i \in 1..Len(creates) :
         /\ creates[i].to \in D /\ creates[i].token \in K /\ creates[i].token \in Dom(acc, creates[i].to)
         /\ creates[i].index \in OldNext(base, creates[i].to, creates[i].token)..
                                   (NextIn(acc, creates[i].to, creates[i].token) - 1)
  BY <1>1 DEF CreatesTell
<1>9. /\ \A i, j \in 1..Len(creates) :
            creates[i].to = creates[j].to /\ creates[i].token = creates[j].token
               /\ creates[i].index = creates[j].index => i = j
      /\ \A to \in D, t \in K : \A x \in OldNext(base, to, t)..(NextIn(acc, to, t) - 1) :
            \E i \in 1..Len(creates) : creates[i].to = to /\ creates[i].token = t /\ creates[i].index = x
  BY <1>1 DEF CreatesTell
<1>10. \A to \in D : \A t \in Dom(acc, to) \ OldDom(base, to) :
          \E i \in 1..Len(subs) : subs[i].to = to /\ subs[i].token = t
  BY <1>1 DEF SubsTell
<1> HIDE DEF D, subs, creates
<1>11. \A to, t : Follow(NotesOf(p, u, to, t), {c \in ToSet(creates) : c.to = to /\ c.token = t})
  <2> TAKE to, t
  <2> DEFINE T == {c \in ToSet(creates) : c.to = to /\ c.token = t}
             a == Cardinality(NotesOf(p, u, to, t))
  <2>1. a \in Nat BY <1>6
  <2>2. CASE ~(to \in D /\ t \in K)
    <3>1. T = {} BY <1>3, <1>8, <2>2
    <3>2. Slots(T) = {} BY <3>1 DEF Slots
    <3>3. 0 \in Nat /\ a..(a + 0 - 1) = {} BY <2>1
    <3> QED BY <3>2, <3>3 DEF Follow
  <2>3. CASE to \in D /\ t \in K
    <3> DEFINE m == NextIn(acc, to, t) - a
    <3>1. m \in Nat /\ NextIn(acc, to, t) = a + m /\ OldNext(base, to, t) = a BY <1>5, <1>7, <2>1, <2>3
    <3> HIDE DEF m, a
    <3>2. ASSUME NEW c \in T PROVE c.index \in a..(a + m - 1)
      <4>1. PICK k \in 1..Len(creates) : c = creates[k] BY <1>3
      <4>2. c.index \in OldNext(base, c.to, c.token)..(NextIn(acc, c.to, c.token) - 1) /\ c.to = to /\ c.token = t
        BY <1>8, <4>1
      <4> QED BY <2>1, <3>1, <4>2
    <3>3. ASSUME NEW x \in a..(a + m - 1) PROVE \E c \in T : c.index = x
      <4>1. x \in OldNext(base, to, t)..(NextIn(acc, to, t) - 1) BY <2>1, <3>1
      <4>2. PICK k \in 1..Len(creates) : creates[k].to = to /\ creates[k].token = t /\ creates[k].index = x
        BY <1>9, <2>3, <4>1
      <4> QED BY <1>3, <4>2
    <3>4. Slots(T) = a..(a + m - 1) BY <3>2, <3>3 DEF Slots
    <3> QED BY <3>1, <3>4 DEF Follow, a
  <2> QED BY <2>2, <2>3
<1>12. \A c \in ToSet(creates) :
          /\ c.amount \in Nat
          /\ \/ c.token \in {x.token : x \in SubsOf(p, u, c.to)}
             \/ \E s \in ToSet(subs) : s.to = c.to /\ s.token = c.token
  <2> SUFFICES ASSUME NEW k \in 1..Len(creates)
               PROVE  \/ creates[k].token \in {x.token : x \in SubsOf(p, u, creates[k].to)}
                      \/ \E s \in ToSet(subs) : s.to = creates[k].to /\ s.token = creates[k].token
    BY <1>3
  <2>1. creates[k].to \in D /\ creates[k].token \in Dom(acc, creates[k].to) BY <1>8
  <2> QED BY <1>3, <1>5, <1>10, <2>1
<1> QED BY <1>3, <1>4, <1>9, <1>11, <1>12 DEF CreatesFit, subs, creates

UsesFit(p, u, uses) ==
    /\ IsList(uses)
    /\ \A j, k \in DOMAIN uses : uses[j] = uses[k] => j = k
    /\ \A n \in ToSet(uses) : n \in p.notes \ p.nulls /\ n.to = u

\* A batch that fits the pool it was planned from.
Fits(p, u, b) ==
    /\ b.register \in BOOLEAN /\ (b.register <=> u \notin p.reg)
    /\ OpensFit(p, u, b.opens) /\ SubsFit(p, u, b.opens, b.subs) /\ CreatesFit(p, u, b.subs, b.creates)
    /\ UsesFit(p, u, b.uses)
    /\ Balanced(b)

LEMMA FieldIsImage ==
  ASSUME NEW X, NEW list \in Seq(X)
  PROVE  Field(list, LAMBDA x : x.token) = {x.token : x \in ToSet(list)}
<1>1. DOMAIN list = 1..Len(list) /\ ToSet(list) = {list[i] : i \in 1..Len(list)} BY SeqFacts
<1>2. Field(list, LAMBDA x : x.token) = {list[i].token : i \in DOMAIN list} BY DEF Field
<1> QED BY <1>1, <1>2

\* What the notes of a plan are worth.
LEMMA CreatesAreWorth ==
  ASSUME NEW u, NEW st, NEW i, NEW tokens, IsIntent(i, tokens), Readable(st), Covered(st, i),
         NEW creates, IsList(creates), \A k \in DOMAIN creates : creates[k].amount \in Nat,
         NEW notes, notes = NewNotes(u, st, i), Len(creates) = Len(notes),
         \A j \in 1..Len(notes) : /\ creates[j].to = notes[j].to /\ creates[j].token = notes[j].token
                                  /\ creates[j].amount = notes[j].amount
  PROVE  /\ Money(creates)
         /\ \A c \in ToSet(creates) : c.token \in Named(i)
         /\ \A t \in Named(i) : TotalIn(creates, t) = TotalIn(i.transfers, t) + Change(st, i, t)
<1>1. /\ Money(notes)
      /\ \A k \in 1..Len(notes) : notes[k].token \in Named(i)
      /\ \A t \in Named(i) : TotalIn(notes, t) = TotalIn(i.transfers, t) + Change(st, i, t)
  BY NewNotesFacts
<1>2. /\ DOMAIN creates = 1..Len(creates) /\ ToSet(creates) = {creates[k] : k \in 1..Len(creates)}
  BY SeqFacts DEF IsList
<1>3. Money(creates) BY <1>2 DEF Money, IsList
<1>4. \A t : TotalIn(creates, t) = TotalIn(notes, t) BY <1>1, <1>3, TotalInSame
<1>5. \A c \in ToSet(creates) : c.token \in Named(i) BY <1>1, <1>2
<1> QED BY <1>1, <1>3, <1>4, <1>5

\* Every token's sums agree: deposits and spent notes with new notes and withdrawals.
LEMMA PlanBalances ==
  ASSUME NEW u, NEW st, NEW i, NEW tokens, IsIntent(i, tokens), Readable(st), Covered(st, i),
         NEW creates, Money(creates), \A c \in ToSet(creates) : c.token \in Named(i),
         \A t \in Named(i) : TotalIn(creates, t) = TotalIn(i.transfers, t) + Change(st, i, t),
         NEW b, b.deposits = i.deposits, b.withdrawals = i.withdrawals, b.creates = creates, b.uses = Uses(st, i)
  PROVE  Balanced(b)
<1> DEFINE uses == Uses(st, i)
           all == b.deposits \o b.uses \o b.creates \o b.withdrawals
<1>1. UsesSoFar(uses, Named(i), st, i) BY UsesFacts
<1>2. /\ OnceEach(uses, st.notes) /\ \A n \in ToSet(uses) : n.token \in Named(i)
      /\ \A t \in Named(i) : TotalIn(uses, t) = TotalIn(Spends(st, i, t), t)
  BY <1>1 DEF UsesSoFar
<1>3. Money(i.deposits) /\ Money(i.transfers) /\ Money(i.withdrawals) BY IntentLists
<1>4. IsList(i.deposits) /\ IsList(i.withdrawals) /\ IsList(creates) BY <1>3 DEF Money, IsList
<1>5. IsList(uses)
  <2>1. uses \in Seq(st.notes) BY <1>2 DEF OnceEach
  <2> QED BY <2>1, OwnItems DEF IsList
<1> HIDE DEF uses
<1>6. IsList(all) /\ ToSet(all) = ToSet(i.deposits) \cup ToSet(uses) \cup ToSet(creates) \cup ToSet(i.withdrawals)
  <2> DEFINE a1 == b.deposits \o b.uses
             a2 == a1 \o b.creates
  <2>0. b.deposits = i.deposits /\ b.withdrawals = i.withdrawals /\ b.creates = creates /\ b.uses = uses
    BY DEF uses
  <2>1. IsList(a1) /\ ToSet(a1) = ToSet(i.deposits) \cup ToSet(uses) BY <1>4, <1>5, <2>0, ConcatLists
  <2> HIDE DEF a1
  <2>2. IsList(a2) /\ ToSet(a2) = ToSet(a1) \cup ToSet(creates) BY <1>4, <2>0, <2>1, ConcatLists
  <2> HIDE DEF a2
  <2>3. IsList(a2 \o b.withdrawals) /\ ToSet(a2 \o b.withdrawals) = ToSet(a2) \cup ToSet(i.withdrawals)
    BY <1>4, <2>0, <2>2, ConcatLists
  <2> QED BY <2>1, <2>2, <2>3 DEF a1, a2
<1>7. Field(all, LAMBDA x : x.token) = {x.token : x \in ToSet(all)} BY <1>6, FieldIsImage DEF IsList
<1>8. \A x \in ToSet(i.deposits) \cup ToSet(i.withdrawals) : x.token \in Named(i) BY NamedFacts
<1>9. Field(all, LAMBDA x : x.token) \subseteq Named(i)
  <2>1. \A x \in ToSet(all) : x.token \in Named(i) BY <1>2, <1>6, <1>8
  <2> QED BY <1>7, <2>1
<1>10. ASSUME NEW t \in Named(i)
       PROVE  TotalIn(b.deposits, t) + TotalIn(b.uses, t) = TotalIn(b.creates, t) + TotalIn(b.withdrawals, t)
  <2>1. TotalIn(Spends(st, i, t), t) = Deficit(i, t) + Change(st, i, t) /\ Change(st, i, t) \in Nat BY CoveredFacts
  <2>2. TotalIn(uses, t) = Deficit(i, t) + Change(st, i, t) BY <1>2, <2>1
  <2>3. Deficit(i, t) = TotalIn(i.transfers, t) + TotalIn(i.withdrawals, t) - TotalIn(i.deposits, t) BY DEF Deficit
  <2>4. TotalIn(creates, t) = TotalIn(i.transfers, t) + Change(st, i, t) OBVIOUS
  <2>5. TotalIn(i.transfers, t) \in Nat /\ TotalIn(i.withdrawals, t) \in Nat /\ TotalIn(i.deposits, t) \in Nat
    BY <1>3, TotalInIsSum
  <2>6. b.deposits = i.deposits /\ b.withdrawals = i.withdrawals /\ b.creates = creates /\ b.uses = uses BY DEF uses
  <2> DEFINE tr == TotalIn(i.transfers, t)
             wd == TotalIn(i.withdrawals, t)
             de == TotalIn(i.deposits, t)
             ch == Change(st, i, t)
             us == TotalIn(uses, t)
             cr == TotalIn(creates, t)
  <2>7. tr \in Nat /\ wd \in Nat /\ de \in Nat /\ ch \in Nat /\ us = (tr + wd - de) + ch /\ cr = tr + ch
    BY <2>1, <2>2, <2>3, <2>4, <2>5
  <2> HIDE DEF tr, wd, de, ch, us, cr
  <2>8. de + us = cr + wd BY <2>7
  <2> QED BY <2>6, <2>8 DEF tr, wd, de, ch, us, cr
<1> QED BY <1>9, <1>10 DEF Balanced

\* Every batch plan makes fits the pool its state was read from.
LEMMA PlanFits ==
  ASSUME NEW p, WellFormed(p), NEW u, NEW i, NEW tokens, IsIntent(i, tokens), Reachable(p, u, i),
         PlanBatch(u, DiscoverState(p, u, i), i) \notin Errors
  PROVE  Fits(p, u, PlanBatch(u, DiscoverState(p, u, i), i))
<1> DEFINE st == DiscoverState(p, u, i)
           base == KnownChannels(u, st, i)
           acc == Placed(u, st, i)
           notes == NewNotes(u, st, i)
           b == PlanBatch(u, st, i)
           n == Cardinality(ChansFrom(p, u))
           K == TokensMet(p, i)
<1>1. PlanBatch(u, st, i) \notin Errors OBVIOUS
<1>2. st = DiscoverState(p, u, i) OBVIOUS
<1> HIDE DEF st
<1>3. /\ ~Unregistered(st, i) /\ Covered(st, i)
      /\ b = [register |-> Registering(st, i), opens |-> acc.opens, subs |-> acc.subs,
              deposits |-> i.deposits, uses |-> Uses(st, i), creates |-> acc.creates, withdrawals |-> i.withdrawals]
  BY <1>1, PlanOf
<1>4. StateTold(p, u, st, i) BY <1>2, <1>3, StateTells
<1>5. /\ Readable(st) /\ (Registering(st, i) <=> u \notin p.reg)
      /\ st.notes \subseteq {x \in Unspent(p, p.notes) : x.to = u}
      /\ BaseTells(base, p, u) /\ st.outgoing = n /\ st.outgoing \in Nat
      /\ DOMAIN base = IF u \in p.reg THEN Recipients(u, i) ELSE {u}
  BY <1>4 DEF StateTold
<1>6. PlanTells(u, st, i, p) BY <1>1, <1>2, PlacedTold
<1>7. Told(acc, base, n, DOMAIN base, K) /\ Places(acc, notes, Len(notes)) BY <1>6 DEF PlanTells
<1>8. IsFiniteSet(K) BY TokensMetFinite
<1>9. DOMAIN base \subseteq p.reg \cup {u} BY <1>5 DEF Reachable
<1> HIDE DEF base, acc, notes, b, n, K
<1>10. b.opens = acc.opens /\ b.subs = acc.subs /\ b.creates = acc.creates /\ b.uses = Uses(st, i)
       /\ b.deposits = i.deposits /\ b.withdrawals = i.withdrawals
  BY <1>3
<1>11. b.register \in BOOLEAN /\ (b.register <=> u \notin p.reg)
  <2> DEFINE a == Registering(st, i)
  <2>1. a \in BOOLEAN /\ (a <=> u \notin p.reg) BY <1>5 DEF Registering
  <2> HIDE DEF a
  <2>2. b.register = a BY <1>3 DEF a
  <2> QED BY <2>1, <2>2
<1>12. OpensFit(p, u, b.opens)
  <2>1. Told(acc, base, Cardinality(ChansFrom(p, u)), DOMAIN base, K) BY <1>7 DEF n
  <2>2. Cardinality(ChansFrom(p, u)) \in Nat BY <1>5 DEF n
  <2> QED BY <1>5, <1>9, <1>10, <2>1, <2>2, OpensFollow
<1>13. SubsFit(p, u, b.opens, b.subs) BY <1>5, <1>7, <1>8, <1>10, SubsFollow
<1>14. CreatesFit(p, u, b.subs, b.creates) BY <1>5, <1>7, <1>10, CreatesFollow
<1>15. UsesFit(p, u, b.uses)
  <2>1. UsesSoFar(b.uses, Named(i), st, i) BY <1>3, <1>5, <1>10, UsesFacts
  <2>2. OnceEach(b.uses, st.notes) BY <2>1 DEF UsesSoFar
  <2>3. /\ b.uses \in Seq(st.notes) /\ DOMAIN b.uses = 1..Len(b.uses) /\ ToSet(b.uses) \subseteq st.notes
        /\ \A j, k \in 1..Len(b.uses) : b.uses[j] = b.uses[k] => j = k
    BY <2>2, OnceEachCount DEF OnceEach
  <2>4. IsList(b.uses) BY <2>3, OwnItems DEF IsList
  <2>5. \A x \in st.notes : x \in p.notes \ p.nulls /\ x.to = u BY <1>5 DEF Unspent
  <2> QED BY <2>3, <2>4, <2>5 DEF UsesFit
<1>16. Balanced(b)
  <2>1. /\ IsList(b.creates) /\ \A c \in ToSet(b.creates) : c.amount \in Nat BY <1>14 DEF CreatesFit
  <2>2. \A k \in DOMAIN b.creates : b.creates[k].amount \in Nat
    <3>1. DOMAIN b.creates = 1..Len(b.creates) /\ ToSet(b.creates) = {b.creates[k] : k \in 1..Len(b.creates)}
      BY <2>1, SeqFacts DEF IsList
    <3> QED BY <2>1, <3>1
  <2>3. /\ Len(b.creates) = Len(notes)
        /\ \A j \in 1..Len(notes) :
              /\ b.creates[j].to = notes[j].to /\ b.creates[j].token = notes[j].token
              /\ b.creates[j].amount = notes[j].amount
    BY <1>7, <1>10 DEF Places
  <2>4. notes = NewNotes(u, st, i) BY DEF notes
  <2>5. /\ Money(b.creates)
        /\ \A c \in ToSet(b.creates) : c.token \in Named(i)
        /\ \A t \in Named(i) : TotalIn(b.creates, t) = TotalIn(i.transfers, t) + Change(st, i, t)
    BY <1>3, <1>5, <2>1, <2>2, <2>3, <2>4, CreatesAreWorth
  <2> QED BY <1>3, <1>5, <1>10, <2>5, PlanBalances
<1>17. Fits(p, u, b) BY <1>11, <1>12, <1>13, <1>14, <1>15, <1>16 DEF Fits
<1> QED BY <1>17 DEF b, st

LEMMA OneValueEach ==
  ASSUME NEW list, IsList(list), NEW f, DOMAIN f = DOMAIN list, \A j, k \in DOMAIN list : f[j] = f[k] => j = k
  PROVE  Cardinality({f[k] : k \in DOMAIN list}) = Len(list)
<1>1. Len(list) \in Nat /\ DOMAIN list = 1..Len(list) BY SeqFacts DEF IsList
<1> QED BY <1>1, DistinctValues

LEMMA DistinctOpens ==
  ASSUME NEW p, NEW u, NEW opens, OpensFit(p, u, opens)
  PROVE  Distinct(opens, LAMBDA o : o.index) /\ Distinct(opens, LAMBDA o : o.to)
<1>1. IsList(opens) /\ \A j, k \in DOMAIN opens : opens[j].to = opens[k].to \/ opens[j].index = opens[k].index => j = k
  BY DEF OpensFit
<1> DEFINE f == [k \in DOMAIN opens |-> opens[k].index]
           g == [k \in DOMAIN opens |-> opens[k].to]
<1>2. Cardinality({f[k] : k \in DOMAIN opens}) = Len(opens)
  <2>1. DOMAIN f = DOMAIN opens /\ \A j, k \in DOMAIN opens : f[j] = f[k] => j = k BY <1>1
  <2> HIDE DEF f
  <2> QED BY <1>1, <2>1, OneValueEach
<1>3. Cardinality({g[k] : k \in DOMAIN opens}) = Len(opens)
  <2>1. DOMAIN g = DOMAIN opens /\ \A j, k \in DOMAIN opens : g[j] = g[k] => j = k BY <1>1
  <2> HIDE DEF g
  <2> QED BY <1>1, <2>1, OneValueEach
<1>4. {f[k] : k \in DOMAIN opens} = {opens[k].index : k \in DOMAIN opens} OBVIOUS
<1>5. {g[k] : k \in DOMAIN opens} = {opens[k].to : k \in DOMAIN opens} OBVIOUS
<1>6. Distinct(opens, LAMBDA o : o.index) BY <1>2, <1>4 DEF Distinct, Field
<1>7. Distinct(opens, LAMBDA o : o.to) BY <1>3, <1>5 DEF Distinct, Field
<1> QED BY <1>6, <1>7

LEMMA DistinctSubs ==
  ASSUME NEW p, NEW u, NEW opens, NEW subs, SubsFit(p, u, opens, subs)
  PROVE  Distinct(subs, LAMBDA s : <<s.to, s.index>>)
<1>1. /\ IsList(subs)
      /\ \A j, k \in DOMAIN subs : subs[j].to = subs[k].to /\ subs[j].index = subs[k].index => j = k
  BY DEF SubsFit
<1> DEFINE f == [k \in DOMAIN subs |-> <<subs[k].to, subs[k].index>>]
<1>2. Cardinality({f[k] : k \in DOMAIN subs}) = Len(subs)
  <2>1. DOMAIN f = DOMAIN subs /\ \A j, k \in DOMAIN subs : f[j] = f[k] => j = k BY <1>1
  <2> HIDE DEF f
  <2> QED BY <1>1, <2>1, OneValueEach
<1>3. {f[k] : k \in DOMAIN subs} = {<<subs[k].to, subs[k].index>> : k \in DOMAIN subs} OBVIOUS
<1> QED BY <1>2, <1>3 DEF Distinct, Field

LEMMA DistinctUses ==
  ASSUME NEW p, NEW u, NEW uses, UsesFit(p, u, uses)
  PROVE  Distinct(uses, LAMBDA n : n)
<1>1. IsList(uses) /\ \A j, k \in DOMAIN uses : uses[j] = uses[k] => j = k BY DEF UsesFit
<1>2. Cardinality({uses[k] : k \in DOMAIN uses}) = Len(uses) BY <1>1, OneValueEach
<1> QED BY <1>2 DEF Distinct, Field

LEMMA DistinctCreates ==
  ASSUME NEW p, NEW u, NEW subs, NEW creates, CreatesFit(p, u, subs, creates)
  PROVE  Distinct(creates, LAMBDA n : <<n.to, n.token, n.index>>)
<1>1. /\ IsList(creates)
      /\ \A j, k \in DOMAIN creates :
            creates[j].to = creates[k].to /\ creates[j].token = creates[k].token
               /\ creates[j].index = creates[k].index => j = k
  BY DEF CreatesFit
<1> DEFINE f == [k \in DOMAIN creates |-> <<creates[k].to, creates[k].token, creates[k].index>>]
<1>2. Cardinality({f[k] : k \in DOMAIN creates}) = Len(creates)
  <2>1. DOMAIN f = DOMAIN creates /\ \A j, k \in DOMAIN creates : f[j] = f[k] => j = k BY <1>1
  <2> HIDE DEF f
  <2> QED BY <1>1, <2>1, OneValueEach
<1>3. {f[k] : k \in DOMAIN creates} = {<<creates[k].to, creates[k].token, creates[k].index>> : k \in DOMAIN creates}
  OBVIOUS
<1> QED BY <1>2, <1>3 DEF Distinct, Field

\* A list that follows on a list without gaps takes none of its slots.
LEMMA FollowIsFree ==
  ASSUME NEW S, IsFiniteSet(S), Dense(S), NEW T, Follow(S, T), NEW x \in T
  PROVE  x.index \notin Slots(S)
<1>1. PICK m \in Nat : Slots(T) = Cardinality(S)..(Cardinality(S) + m - 1) BY DEF Follow
<1>2. Cardinality(S) \in Nat BY FS_CardinalityType
<1>3. x.index \in Cardinality(S)..(Cardinality(S) + m - 1) BY <1>1 DEF Slots
<1>4. x.index \notin 0..(Cardinality(S) - 1) BY <1>2, <1>3
<1> QED BY <1>4 DEF Dense

\* What a batch adds to the pool.
ChansTo(q, to) == {c \in q.chans : c.to = to}
ChansBy(q, u, opens) == {[from |-> u, to |-> o.to, index |-> o.index, place |-> Cardinality(ChansTo(q, o.to))] :
                           o \in ToSet(opens)}
SubsBy(u, subs) == {[from |-> u, to |-> s.to, token |-> s.token, index |-> s.index] : s \in ToSet(subs)}
NotesBy(u, creates) == {[from |-> u, to |-> n.to, token |-> n.token, index |-> n.index, amount |-> n.amount] :
                          n \in ToSet(creates)}

Effect(q, u, b, after) ==
    /\ after.reg = (IF b.register THEN q.reg \cup {u} ELSE q.reg)
    /\ after.chans = q.chans \cup ChansBy(q, u, b.opens)
    /\ after.subs = q.subs \cup SubsBy(u, b.subs)
    /\ after.notes = q.notes \cup NotesBy(u, b.creates)
    /\ after.nulls = q.nulls \cup ToSet(b.uses)

LEMMA AfterFacts ==
  ASSUME NEW q, NEW u, NEW b
  PROVE  Effect(q, u, b, After(q, u, b))
<1> DEFINE regs == IF b.register THEN q.reg \cup {u} ELSE q.reg
           chans == q.chans \cup ChansBy(q, u, b.opens)
           subs == q.subs \cup SubsBy(u, b.subs)
           notes == q.notes \cup NotesBy(u, b.creates)
           nulls == q.nulls \cup ToSet(b.uses)
<1>1. After(q, u, b) = [reg |-> regs, chans |-> chans, subs |-> subs, notes |-> notes, nulls |-> nulls]
  BY DEF After, ChansBy, ChansTo, SubsBy, NotesBy
<1> HIDE DEF regs, chans, subs, notes, nulls
<1>2. /\ After(q, u, b).reg = regs /\ After(q, u, b).chans = chans /\ After(q, u, b).subs = subs
      /\ After(q, u, b).notes = notes /\ After(q, u, b).nulls = nulls
  BY <1>1
<1> QED BY <1>2 DEF regs, chans, subs, notes, nulls, Effect

LEMMA ChansBrought ==
  ASSUME NEW q, NEW u, NEW list
  PROVE  /\ \A c \in ChansBy(q, u, list) : \E o \in ToSet(list) :
               c.from = u /\ c.to = o.to /\ c.index = o.index /\ c.place = Cardinality(ChansTo(q, o.to))
         /\ \A o \in ToSet(list) : \E c \in ChansBy(q, u, list) :
               c.from = u /\ c.to = o.to /\ c.index = o.index /\ c.place = Cardinality(ChansTo(q, o.to))
<1> DEFINE chan(o) == [from |-> u, to |-> o.to, index |-> o.index, place |-> Cardinality(ChansTo(q, o.to))]
<1>1. ChansBy(q, u, list) = {chan(o) : o \in ToSet(list)} BY DEF ChansBy
<1>2. \A o : /\ chan(o).from = u /\ chan(o).to = o.to /\ chan(o).index = o.index
             /\ chan(o).place = Cardinality(ChansTo(q, o.to))
  OBVIOUS
<1> HIDE DEF chan
<1> QED BY <1>1, <1>2

LEMMA SubsBrought ==
  ASSUME NEW u, NEW list
  PROVE  /\ \A x \in SubsBy(u, list) :
               \E s \in ToSet(list) : x.from = u /\ x.to = s.to /\ x.token = s.token /\ x.index = s.index
         /\ \A s \in ToSet(list) : \E x \in SubsBy(u, list) :
               x.from = u /\ x.to = s.to /\ x.token = s.token /\ x.index = s.index
<1> DEFINE sub(s) == [from |-> u, to |-> s.to, token |-> s.token, index |-> s.index]
<1>1. SubsBy(u, list) = {sub(s) : s \in ToSet(list)} BY DEF SubsBy
<1>2. \A s : sub(s).from = u /\ sub(s).to = s.to /\ sub(s).token = s.token /\ sub(s).index = s.index OBVIOUS
<1> HIDE DEF sub
<1> QED BY <1>1, <1>2

LEMMA NotesBrought ==
  ASSUME NEW u, NEW list
  PROVE  /\ \A x \in NotesBy(u, list) : \E n \in ToSet(list) :
               x.from = u /\ x.to = n.to /\ x.token = n.token /\ x.index = n.index /\ x.amount = n.amount
         /\ \A n \in ToSet(list) : \E x \in NotesBy(u, list) :
               x.from = u /\ x.to = n.to /\ x.token = n.token /\ x.index = n.index /\ x.amount = n.amount
<1> DEFINE note(n) == [from |-> u, to |-> n.to, token |-> n.token, index |-> n.index, amount |-> n.amount]
<1>1. NotesBy(u, list) = {note(n) : n \in ToSet(list)} BY DEF NotesBy
<1>2. \A n : /\ note(n).from = u /\ note(n).to = n.to /\ note(n).token = n.token /\ note(n).index = n.index
             /\ note(n).amount = n.amount
  OBVIOUS
<1> HIDE DEF note
<1> QED BY <1>1, <1>2

\* The pool takes a batch that fits it.
LEMMA FitsIsAccepted ==
  ASSUME NEW p, WellFormed(p), NEW u, NEW b, Fits(p, u, b)
  PROVE  Accepts(p, u, b)
<1> DEFINE q == After(p, u, b)
<1>1. /\ q.reg = IF b.register THEN p.reg \cup {u} ELSE p.reg
      /\ q.chans = p.chans \cup ChansBy(p, u, b.opens)
      /\ q.subs = p.subs \cup SubsBy(u, b.subs)
  <2>1. Effect(p, u, b, q) BY AfterFacts
  <2> HIDE DEF q
  <2> QED BY <2>1 DEF Effect
<1> HIDE DEF q
<1>2. /\ b.register \in BOOLEAN /\ (b.register <=> u \notin p.reg)
      /\ OpensFit(p, u, b.opens) /\ SubsFit(p, u, b.opens, b.subs) /\ CreatesFit(p, u, b.subs, b.creates)
      /\ UsesFit(p, u, b.uses) /\ Balanced(b)
  BY DEF Fits
<1>3. u \in q.reg /\ q.reg = p.reg \cup {u} /\ (b.register => u \notin p.reg) BY <1>1, <1>2
<1>4. ASSUME NEW o \in ToSet(b.opens)
      PROVE  o.to \in q.reg /\ ~HasChannel(p, u, o.to) /\ o.index \notin Slots({c \in p.chans : c.from = u})
  <2>1. /\ o.to \in p.reg \cup {u} /\ ~HasChannel(p, u, o.to) /\ Follow(ChansFrom(p, u), ToSet(b.opens))
    BY <1>2 DEF OpensFit
  <2>2. IsFiniteSet(ChansFrom(p, u)) /\ Dense(ChansFrom(p, u)) BY WellFormedLists
  <2>3. o.index \notin Slots(ChansFrom(p, u)) BY <2>1, <2>2, FollowIsFree
  <2> QED BY <1>3, <2>1, <2>3 DEF ChansFrom
<1>5. ASSUME NEW s \in ToSet(b.subs)
      PROVE  HasChannel(q, u, s.to) /\ s.index \notin Slots(SubsOf(p, u, s.to))
  <2>1. /\ HasChannel(p, u, s.to) \/ \E o \in ToSet(b.opens) : o.to = s.to
        /\ Follow(SubsOf(p, u, s.to), {x \in ToSet(b.subs) : x.to = s.to})
    BY <1>2 DEF SubsFit
  <2>2. IsFiniteSet(SubsOf(p, u, s.to)) /\ Dense(SubsOf(p, u, s.to)) BY WellFormedLists
  <2>3. s \in {x \in ToSet(b.subs) : x.to = s.to} OBVIOUS
  <2>4. s.index \notin Slots(SubsOf(p, u, s.to)) BY <2>1, <2>2, <2>3, FollowIsFree
  <2>5. CASE HasChannel(p, u, s.to) BY <1>1, <2>4, <2>5 DEF HasChannel
  <2>6. CASE \E o \in ToSet(b.opens) : o.to = s.to
    <3>1. PICK o \in ToSet(b.opens) : o.to = s.to BY <2>6
    <3> DEFINE list == b.opens
    <3>3. o \in ToSet(list) BY <3>1
    <3> HIDE DEF list
    <3>4. \E c \in ChansBy(p, u, list) : c.from = u /\ c.to = o.to BY <3>3, ChansBrought
    <3>2. PICK c \in ChansBy(p, u, b.opens) : c.from = u /\ c.to = o.to BY <3>4 DEF list
    <3> QED BY <1>1, <2>4, <3>1, <3>2 DEF HasChannel
  <2> QED BY <2>1, <2>5, <2>6
<1>6. \A n \in ToSet(b.uses) : n \in p.notes \ p.nulls /\ n.to = u BY <1>2 DEF UsesFit
<1>7. ASSUME NEW n \in ToSet(b.creates)
      PROVE  /\ \E s \in SubsOf(q, u, n.to) : s.token = n.token
             /\ n.index \notin Slots(NotesOf(p, u, n.to, n.token))
  <2>1. /\ \/ n.token \in {x.token : x \in SubsOf(p, u, n.to)}
           \/ \E s \in ToSet(b.subs) : s.to = n.to /\ s.token = n.token
        /\ Follow(NotesOf(p, u, n.to, n.token), {c \in ToSet(b.creates) : c.to = n.to /\ c.token = n.token})
    BY <1>2 DEF CreatesFit
  <2>2. IsFiniteSet(NotesOf(p, u, n.to, n.token)) /\ Dense(NotesOf(p, u, n.to, n.token)) BY WellFormedLists
  <2>3. n \in {c \in ToSet(b.creates) : c.to = n.to /\ c.token = n.token} OBVIOUS
  <2>4. n.index \notin Slots(NotesOf(p, u, n.to, n.token)) BY <2>1, <2>2, <2>3, FollowIsFree
  <2>5. CASE n.token \in {x.token : x \in SubsOf(p, u, n.to)} BY <1>1, <2>4, <2>5 DEF SubsOf
  <2>6. CASE \E s \in ToSet(b.subs) : s.to = n.to /\ s.token = n.token
    <3>1. PICK s \in ToSet(b.subs) : s.to = n.to /\ s.token = n.token BY <2>6
    <3> DEFINE list == b.subs
    <3>3. s \in ToSet(list) BY <3>1
    <3> HIDE DEF list
    <3>4. \E c \in SubsBy(u, list) : c.from = u /\ c.to = s.to /\ c.token = s.token BY <3>3, SubsBrought
    <3>2. PICK c \in SubsBy(u, b.subs) : c.from = u /\ c.to = s.to /\ c.token = s.token BY <3>4 DEF list
    <3> QED BY <1>1, <2>4, <3>1, <3>2 DEF SubsOf
  <2> QED BY <2>1, <2>5, <2>6
<1>8. /\ Distinct(b.opens, LAMBDA o : o.index) /\ Distinct(b.opens, LAMBDA o : o.to)
      /\ Distinct(b.subs, LAMBDA s : <<s.to, s.index>>)
      /\ Distinct(b.uses, LAMBDA n : n)
      /\ Distinct(b.creates, LAMBDA n : <<n.to, n.token, n.index>>)
  BY <1>2, DistinctOpens, DistinctSubs, DistinctUses, DistinctCreates
<1> QED BY <1>2, <1>3, <1>4, <1>5, <1>6, <1>7, <1>8 DEF Accepts, q

--------------------------------------------------------------------------------
(* A batch planned on an older pool leaves a newer one without gaps.       *)

Grown(p, q) ==
    /\ p.reg \subseteq q.reg /\ p.chans \subseteq q.chans /\ p.subs \subseteq q.subs
    /\ p.notes \subseteq q.notes /\ p.nulls \subseteq q.nulls

\* Slots that follow S and are free in the list R that S has become: nothing has been added to S.
LEMMA FollowKeepsDense ==
  ASSUME NEW S, NEW R, S \subseteq R, IsFiniteSet(R), Dense(R), NEW T, Follow(S, T),
         \A x \in T : x.index \notin Slots(R), \A x, y \in T : x.index = y.index => x = y
  PROVE  /\ IsFiniteSet(R \cup T) /\ Dense(R \cup T)
         /\ T # {} => S = R
<1>1. IsFiniteSet(S) /\ Cardinality(S) \in Nat /\ Cardinality(R) \in Nat /\ Cardinality(S) <= Cardinality(R)
      /\ (Cardinality(S) = Cardinality(R) => S = R)
  BY FS_Subset, FS_CardinalityType
<1>2. PICK m \in Nat : Slots(T) = Cardinality(S)..(Cardinality(S) + m - 1) BY DEF Follow
<1>3. CASE T = {}
  <2>1. R \cup T = R BY <1>3
  <2> QED BY <1>3, <2>1
<1>4. CASE T # {}
  <2>1. PICK x \in T : TRUE BY <1>4
  <2>2. x.index \in Cardinality(S)..(Cardinality(S) + m - 1) BY <1>2 DEF Slots
  <2>3. Cardinality(S) \in Cardinality(S)..(Cardinality(S) + m - 1) BY <1>1, <2>2
  <2>4. PICK y \in T : y.index = Cardinality(S) BY <1>2, <2>3 DEF Slots
  <2>5. Cardinality(S) \notin 0..(Cardinality(R) - 1) BY <2>4 DEF Dense
  <2>6. Cardinality(S) = Cardinality(R) BY <1>1, <2>5
  <2>7. S = R BY <1>1, <2>6
  <2>8. IsFiniteSet(S) /\ Dense(S) BY <2>7
  <2>9. IsFiniteSet(S \cup T) /\ Dense(S \cup T) BY <1>2, <2>8, DenseExtended
  <2> QED BY <2>7, <2>9
<1> QED BY <1>3, <1>4

LEMMA ByIsFinite ==
  ASSUME NEW q, NEW u, NEW list, IsList(list)
  PROVE  IsFiniteSet(ChansBy(q, u, list)) /\ IsFiniteSet(SubsBy(u, list)) /\ IsFiniteSet(NotesBy(u, list))
<1> DEFINE S == ToSet(list)
           f == [o \in S |-> [from |-> u, to |-> o.to, index |-> o.index, place |-> Cardinality(ChansTo(q, o.to))]]
           g == [s \in S |-> [from |-> u, to |-> s.to, token |-> s.token, index |-> s.index]]
           h == [n \in S |-> [from |-> u, to |-> n.to, token |-> n.token, index |-> n.index, amount |-> n.amount]]
<1>1. ChansBy(q, u, list) = {f[x] : x \in S} BY DEF ChansBy
<1>2. SubsBy(u, list) = {g[x] : x \in S} BY DEF SubsBy
<1>3. NotesBy(u, list) = {h[x] : x \in S} BY DEF NotesBy
<1>4. IsFiniteSet(S) BY ItemsFinite DEF IsList
<1> HIDE DEF S, f, g, h
<1>5. IsFiniteSet({f[x] : x \in S}) /\ IsFiniteSet({g[x] : x \in S}) /\ IsFiniteSet({h[x] : x \in S})
  BY <1>4, ImageFinite
<1> QED BY <1>1, <1>2, <1>3, <1>5

\* Positions in a list without repetitions are as good as its items.
LEMMA ItemAt ==
  ASSUME NEW list, IsList(list), NEW x \in ToSet(list)
  PROVE  \E k \in DOMAIN list : x = list[k]
<1>1. DOMAIN list = 1..Len(list) /\ ToSet(list) = {list[i] : i \in 1..Len(list)} BY SeqFacts DEF IsList
<1> QED BY <1>1

ChansKept(regs, chans) ==
    /\ IsFiniteSet(chans)
    /\ \A c \in chans :
          /\ {c.from, c.to} \subseteq regs
          /\ Dense({d \in chans : d.from = c.from})
          /\ LET incoming == {d \in chans : d.to = c.to}
             IN  {d.place : d \in incoming} = 0..(Cardinality(incoming) - 1)
    /\ \A c, d \in chans : c.from = d.from /\ c.to = d.to => c = d

LEMMA OpensKeepChans ==
  ASSUME NEW p, WellFormed(p), NEW q, WellFormed(q), Grown(p, q), NEW u,
         NEW opens, OpensFit(p, u, opens),
         \A o \in ToSet(opens) : ~HasChannel(q, u, o.to) /\ o.index \notin Slots(ChansFrom(q, u)),
         NEW regs, q.reg \subseteq regs, u \in regs, \A o \in ToSet(opens) : o.to \in regs
  PROVE  ChansKept(regs, q.chans \cup ChansBy(q, u, opens))
<1> DEFINE new == ChansBy(q, u, opens)
           chans == q.chans \cup new
<1>1. /\ IsList(opens) /\ Follow(ChansFrom(p, u), ToSet(opens))
      /\ \A j, k \in DOMAIN opens : opens[j].to = opens[k].to \/ opens[j].index = opens[k].index => j = k
  BY DEF OpensFit
<1>2. \A x, y \in ToSet(opens) : x.to = y.to \/ x.index = y.index => x = y
  <2> TAKE x, y \in ToSet(opens)
  <2>1. PICK j \in DOMAIN opens : x = opens[j] BY <1>1, ItemAt
  <2>2. PICK k \in DOMAIN opens : y = opens[k] BY <1>1, ItemAt
  <2> QED BY <1>1, <2>1, <2>2
<1>3. /\ \A c \in new : \E o \in ToSet(opens) :
            c.from = u /\ c.to = o.to /\ c.index = o.index /\ c.place = Cardinality(ChansTo(q, o.to))
      /\ \A o \in ToSet(opens) : \E c \in new :
            c.from = u /\ c.to = o.to /\ c.index = o.index /\ c.place = Cardinality(ChansTo(q, o.to))
  BY ChansBrought
<1>4. \A c, d \in new : c.to = d.to \/ c.index = d.index => c = d
  <2> DEFINE chan(o) == [from |-> u, to |-> o.to, index |-> o.index, place |-> Cardinality(ChansTo(q, o.to))]
  <2>1. new = {chan(o) : o \in ToSet(opens)} BY DEF ChansBy
  <2>2. \A o : chan(o).to = o.to /\ chan(o).index = o.index OBVIOUS
  <2> HIDE DEF new, chan
  <2> QED BY <1>2, <2>1, <2>2
<1>5. IsFiniteSet(new) BY <1>1, ByIsFinite
<1> HIDE DEF new
<1>6. IsFiniteSet(q.chans) /\ IsFiniteSet(chans)
  <2>1. IsFiniteSet(q.chans) BY DEF WellFormed
  <2> QED BY <1>5, <2>1, FS_Union
<1>7. /\ \A c \in q.chans : {c.from, c.to} \subseteq q.reg
      /\ \A c \in q.chans : {d.place : d \in ChansTo(q, c.to)} = 0..(Cardinality(ChansTo(q, c.to)) - 1)
      /\ \A c, d \in q.chans : c.from = d.from /\ c.to = d.to => c = d
  <2>1. \A c \in q.chans : {c.from, c.to} \subseteq q.reg BY DEF WellFormed
  <2>2. \A c \in q.chans : {d.place : d \in ChansTo(q, c.to)} = 0..(Cardinality(ChansTo(q, c.to)) - 1)
    BY DEF WellFormed, ChansTo
  <2>3. \A c, d \in q.chans : c.from = d.from /\ c.to = d.to => c = d BY DEF WellFormed
  <2> QED BY <2>1, <2>2, <2>3
<1>8. ASSUME NEW x PROVE Dense({d \in chans : d.from = x})
  <2>1. CASE x # u
    <3>1. {d \in chans : d.from = x} = ChansFrom(q, x) BY <1>3, <2>1 DEF ChansFrom
    <3> QED BY <3>1, WellFormedLists
  <2>2. CASE x = u
    <3>1. {d \in chans : d.from = x} = ChansFrom(q, u) \cup new BY <1>3, <2>2 DEF ChansFrom
    <3>2. ChansFrom(p, u) \subseteq ChansFrom(q, u) BY DEF Grown, ChansFrom
    <3>3. IsFiniteSet(ChansFrom(q, u)) /\ Dense(ChansFrom(q, u)) BY WellFormedLists
    <3>4. Slots(new) = Slots(ToSet(opens)) BY <1>3 DEF Slots
    <3>5. Follow(ChansFrom(p, u), new) BY <1>1, <3>4 DEF Follow
    <3>6. \A c \in new : c.index \notin Slots(ChansFrom(q, u)) BY <1>3
    <3>7. Dense(ChansFrom(q, u) \cup new) BY <1>4, <3>2, <3>3, <3>5, <3>6, FollowKeepsDense
    <3> QED BY <3>1, <3>7
  <2> QED BY <2>1, <2>2
<1>9. \A c \in chans : {c.from, c.to} \subseteq regs
  <2>1. \A c \in q.chans : {c.from, c.to} \subseteq regs BY <1>7
  <2>2. \A c \in new : {c.from, c.to} \subseteq regs BY <1>3
  <2> QED BY <2>1, <2>2
<1>10. \A c, d \in chans : c.from = d.from /\ c.to = d.to => c = d
  <2>1. ASSUME NEW c \in q.chans, NEW d \in new PROVE ~(c.from = d.from /\ c.to = d.to)
    <3>1. PICK o \in ToSet(opens) : d.from = u /\ d.to = o.to BY <1>3
    <3>2. ~HasChannel(q, u, o.to) OBVIOUS
    <3> QED BY <3>1, <3>2 DEF HasChannel
  <2> QED BY <1>4, <1>7, <2>1
<1>11. ASSUME NEW e \in chans
       PROVE  {d.place : d \in {d \in chans : d.to = e.to}} = 0..(Cardinality({d \in chans : d.to = e.to}) - 1)
  <2> DEFINE I == {d \in chans : d.to = e.to}
             J == ChansTo(q, e.to)
             N == {d \in new : d.to = e.to}
             k == Cardinality(J)
  <2>1. I = J \cup N BY DEF ChansTo
  <2>2. IsFiniteSet(J) BY <1>6, FS_Subset DEF ChansTo
  <2>3. k \in Nat BY <2>2, FS_CardinalityType
  <2>4. {d.place : d \in J} = 0..(k - 1)
    <3>1. CASE J = {}
      <4>1. k = 0 BY <3>1, FS_EmptySet
      <4>2. {d.place : d \in J} = {} BY <3>1
      <4> HIDE DEF k, J
      <4> QED BY <4>1, <4>2
    <3>2. CASE J # {}
      <4>1. PICK c \in q.chans : c.to = e.to BY <3>2 DEF ChansTo
      <4>2. {d.place : d \in ChansTo(q, c.to)} = 0..(Cardinality(ChansTo(q, c.to)) - 1) BY <1>7
      <4> QED BY <4>1, <4>2
    <3> QED BY <3>1, <3>2
  <2>5. \A d \in N : d.place = k
    <3> SUFFICES ASSUME NEW d \in N PROVE d.place = k OBVIOUS
    <3>1. d \in new /\ d.to = e.to OBVIOUS
    <3>2. PICK o \in ToSet(opens) : d.to = o.to /\ d.place = Cardinality(ChansTo(q, o.to)) BY <1>3, <3>1
    <3>3. o.to = e.to BY <3>1, <3>2
    <3> QED BY <3>2, <3>3
  <2>6. \A d \in N : d \notin J
    <3> SUFFICES ASSUME NEW d \in N, d \in J PROVE FALSE OBVIOUS
    <3>1. d \in new /\ d \in q.chans BY DEF ChansTo
    <3>2. PICK o \in ToSet(opens) : d.from = u /\ d.to = o.to BY <1>3, <3>1
    <3>3. ~HasChannel(q, u, o.to) OBVIOUS
    <3> QED BY <3>1, <3>2, <3>3 DEF HasChannel
  <2>7. \A c, d \in N : c = d BY <1>4
  <2> HIDE DEF I, J, N, k
  <2>8. CASE N = {}
    <3>1. I = J BY <2>1, <2>8
    <3> QED BY <2>4, <3>1 DEF I, k
  <2>9. CASE N # {}
    <3>1. PICK d \in N : TRUE BY <2>9
    <3>2. I = J \cup {d} BY <2>1, <2>7, <3>1
    <3>3. Cardinality(I) = k + 1 BY <2>2, <2>6, <3>1, <3>2, FS_AddElement DEF k
    <3>4. {c.place : c \in I} = 0..(k - 1) \cup {k}
      <4>1. {c.place : c \in I} = {c.place : c \in J} \cup {d.place} BY <3>2
      <4> QED BY <2>4, <2>5, <3>1, <4>1
    <3>5. 0..(k - 1) \cup {k} = 0..((k + 1) - 1) BY <2>3
    <3>6. {c.place : c \in I} = 0..(Cardinality(I) - 1) BY <3>3, <3>4, <3>5
    <3> QED BY <3>6 DEF I
  <2> QED BY <2>8, <2>9
<1> QED BY <1>6, <1>8, <1>9, <1>10, <1>11 DEF ChansKept, new

SubsKept(chans, subs) ==
    /\ IsFiniteSet(subs)
    /\ \A s \in subs : /\ \E c \in chans : c.from = s.from /\ c.to = s.to
                       /\ Dense({x \in subs : x.from = s.from /\ x.to = s.to})
    /\ \A r, s \in subs : r.from = s.from /\ r.to = s.to /\ r.token = s.token => r = s

LEMMA PlanKeepsSubs ==
  ASSUME NEW p, WellFormed(p), NEW q, WellFormed(q), Grown(p, q), NEW u,
         NEW opens, NEW subs, SubsFit(p, u, opens, subs),
         NEW chans, q.chans \subseteq chans,
         \A s \in ToSet(subs) : /\ \E c \in chans : c.from = u /\ c.to = s.to
                                /\ s.index \notin Slots(SubsOf(q, u, s.to))
  PROVE  SubsKept(chans, q.subs \cup SubsBy(u, subs))
<1> DEFINE new == SubsBy(u, subs)
           all == q.subs \cup new
           Own(to) == {x \in new : x.to = to}
<1>1. /\ IsList(subs) /\ \A to : Follow(SubsOf(p, u, to), {s \in ToSet(subs) : s.to = to})
      /\ \A j, k \in DOMAIN subs :
            subs[j].to = subs[k].to /\ (subs[j].token = subs[k].token \/ subs[j].index = subs[k].index) => j = k
      /\ \A s \in ToSet(subs) : s.token \notin {x.token : x \in SubsOf(p, u, s.to)}
  BY DEF SubsFit
<1>2. \A x, y \in ToSet(subs) : x.to = y.to /\ (x.token = y.token \/ x.index = y.index) => x = y
  <2> TAKE x, y \in ToSet(subs)
  <2>1. PICK j \in DOMAIN subs : x = subs[j] BY <1>1, ItemAt
  <2>2. PICK k \in DOMAIN subs : y = subs[k] BY <1>1, ItemAt
  <2> QED BY <1>1, <2>1, <2>2
<1>3. /\ \A x \in new : \E s \in ToSet(subs) : x.from = u /\ x.to = s.to /\ x.token = s.token /\ x.index = s.index
      /\ \A s \in ToSet(subs) : \E x \in new : x.from = u /\ x.to = s.to /\ x.token = s.token /\ x.index = s.index
  BY SubsBrought
<1>4. \A x, y \in new : x.to = y.to /\ (x.token = y.token \/ x.index = y.index) => x = y
  <2> DEFINE sub(s) == [from |-> u, to |-> s.to, token |-> s.token, index |-> s.index]
  <2>1. new = {sub(s) : s \in ToSet(subs)} BY DEF SubsBy
  <2>2. \A s : sub(s).to = s.to /\ sub(s).token = s.token /\ sub(s).index = s.index OBVIOUS
  <2> HIDE DEF new, sub
  <2> QED BY <1>2, <2>1, <2>2
<1>5. IsFiniteSet(new) BY <1>1, ByIsFinite
<1> HIDE DEF new
<1>6. IsFiniteSet(all)
  <2>1. IsFiniteSet(q.subs) BY DEF WellFormed
  <2> QED BY <1>5, <2>1, FS_Union
<1>7. \A x \in new : x.from = u BY <1>3
<1>8. ASSUME NEW to
      PROVE  /\ Dense(SubsOf(q, u, to) \cup Own(to))
             /\ Own(to) # {} => SubsOf(p, u, to) = SubsOf(q, u, to)
  <2> DEFINE T == Own(to)
  <2>1. SubsOf(p, u, to) \subseteq SubsOf(q, u, to) BY DEF Grown, SubsOf
  <2>2. IsFiniteSet(SubsOf(q, u, to)) /\ Dense(SubsOf(q, u, to)) BY WellFormedLists
  <2>3. Slots(T) = Slots({s \in ToSet(subs) : s.to = to})
    <3>1. \A x \in T : \E s \in {s \in ToSet(subs) : s.to = to} : x.index = s.index BY <1>3
    <3>2. \A s \in {s \in ToSet(subs) : s.to = to} : \E x \in T : x.index = s.index BY <1>3
    <3> HIDE DEF T
    <3> QED BY <3>1, <3>2 DEF Slots
  <2>4. Follow(SubsOf(p, u, to), T)
    <3> HIDE DEF T
    <3>1. Follow(SubsOf(p, u, to), {s \in ToSet(subs) : s.to = to}) BY <1>1
    <3> QED BY <2>3, <3>1 DEF Follow
  <2>5. \A x \in T : x.index \notin Slots(SubsOf(q, u, to))
    <3> SUFFICES ASSUME NEW x \in T PROVE x.index \notin Slots(SubsOf(q, u, to)) OBVIOUS
    <3>1. x \in new /\ x.to = to OBVIOUS
    <3>2. PICK s \in ToSet(subs) : x.to = s.to /\ x.index = s.index BY <1>3, <3>1
    <3>3. s.index \notin Slots(SubsOf(q, u, s.to)) OBVIOUS
    <3> QED BY <3>1, <3>2, <3>3
  <2>6. \A x, y \in T : x.index = y.index => x = y BY <1>4
  <2> HIDE DEF T
  <2>7. /\ IsFiniteSet(SubsOf(q, u, to) \cup T) /\ Dense(SubsOf(q, u, to) \cup T)
        /\ T # {} => SubsOf(p, u, to) = SubsOf(q, u, to)
    BY <2>1, <2>2, <2>4, <2>5, <2>6, FollowKeepsDense
  <2> QED BY <2>7 DEF T
<1>9. ASSUME NEW s \in all PROVE Dense({x \in all : x.from = s.from /\ x.to = s.to})
  <2>1. CASE s.from # u
    <3>1. {x \in all : x.from = s.from /\ x.to = s.to} = SubsOf(q, s.from, s.to) BY <1>7, <2>1 DEF SubsOf
    <3> QED BY <3>1, WellFormedLists
  <2>2. CASE s.from = u
    <3>1. {x \in all : x.from = s.from /\ x.to = s.to} = SubsOf(q, u, s.to) \cup Own(s.to)
      BY <1>7, <2>2 DEF SubsOf
    <3> QED BY <1>8, <3>1
  <2> QED BY <2>1, <2>2
<1>10. ASSUME NEW s \in all PROVE \E c \in chans : c.from = s.from /\ c.to = s.to
  <2>1. CASE s \in q.subs
    <3>1. HasChannel(q, s.from, s.to) BY <2>1 DEF WellFormed
    <3> QED BY <3>1 DEF HasChannel
  <2>2. CASE s \in new
    <3>1. PICK x \in ToSet(subs) : s.from = u /\ s.to = x.to BY <1>3, <2>2
    <3>2. \E c \in chans : c.from = u /\ c.to = x.to OBVIOUS
    <3> QED BY <3>1, <3>2
  <2> QED BY <2>1, <2>2
<1>11. \A r, s \in all : r.from = s.from /\ r.to = s.to /\ r.token = s.token => r = s
  <2>1. ASSUME NEW r \in q.subs, NEW s \in new PROVE ~(r.from = s.from /\ r.to = s.to /\ r.token = s.token)
    <3> SUFFICES ASSUME r.from = s.from, r.to = s.to, r.token = s.token PROVE FALSE OBVIOUS
    <3>1. PICK x \in ToSet(subs) : s.from = u /\ s.to = x.to /\ s.token = x.token BY <1>3
    <3>2. s \in Own(x.to) BY <3>1
    <3>3. SubsOf(p, u, x.to) = SubsOf(q, u, x.to) BY <1>8, <3>2
    <3>4. r \in SubsOf(q, u, x.to) BY <3>1 DEF SubsOf
    <3>5. x.token \notin {y.token : y \in SubsOf(p, u, x.to)} BY <1>1
    <3> QED BY <3>1, <3>3, <3>4, <3>5
  <2>2. \A r, s \in q.subs : r.from = s.from /\ r.to = s.to /\ r.token = s.token => r = s BY DEF WellFormed
  <2> QED BY <1>4, <2>1, <2>2
<1> QED BY <1>6, <1>9, <1>10, <1>11 DEF SubsKept, new

NotesKept(subs, notes) ==
    /\ IsFiniteSet(notes)
    /\ \A n \in notes :
          /\ n.amount \in Nat
          /\ \E s \in subs : s.from = n.from /\ s.to = n.to /\ s.token = n.token
          /\ Dense({x \in notes : x.from = n.from /\ x.to = n.to /\ x.token = n.token})

LEMMA PlanKeepsNotes ==
  ASSUME NEW p, WellFormed(p), NEW q, WellFormed(q), Grown(p, q), NEW u,
         NEW list, NEW creates, CreatesFit(p, u, list, creates),
         NEW subs, q.subs \subseteq subs,
         \A n \in ToSet(creates) : /\ \E s \in subs : s.from = u /\ s.to = n.to /\ s.token = n.token
                                   /\ n.index \notin Slots(NotesOf(q, u, n.to, n.token))
  PROVE  NotesKept(subs, q.notes \cup NotesBy(u, creates))
<1> DEFINE new == NotesBy(u, creates)
           all == q.notes \cup new
           Own(to, t) == {x \in new : x.to = to /\ x.token = t}
<1>1. /\ IsList(creates)
      /\ \A to, t : Follow(NotesOf(p, u, to, t), {c \in ToSet(creates) : c.to = to /\ c.token = t})
      /\ \A j, k \in DOMAIN creates :
            creates[j].to = creates[k].to /\ creates[j].token = creates[k].token
               /\ creates[j].index = creates[k].index => j = k
      /\ \A c \in ToSet(creates) : c.amount \in Nat
  BY DEF CreatesFit
<1>2. \A x, y \in ToSet(creates) : x.to = y.to /\ x.token = y.token /\ x.index = y.index => x = y
  <2> TAKE x, y \in ToSet(creates)
  <2>1. PICK j \in DOMAIN creates : x = creates[j] BY <1>1, ItemAt
  <2>2. PICK k \in DOMAIN creates : y = creates[k] BY <1>1, ItemAt
  <2> QED BY <1>1, <2>1, <2>2
<1>3. /\ \A x \in new : \E n \in ToSet(creates) :
            x.from = u /\ x.to = n.to /\ x.token = n.token /\ x.index = n.index /\ x.amount = n.amount
      /\ \A n \in ToSet(creates) : \E x \in new :
            x.from = u /\ x.to = n.to /\ x.token = n.token /\ x.index = n.index /\ x.amount = n.amount
  BY NotesBrought
<1>4. \A x, y \in new : x.to = y.to /\ x.token = y.token /\ x.index = y.index => x = y
  <2> DEFINE note(n) == [from |-> u, to |-> n.to, token |-> n.token, index |-> n.index, amount |-> n.amount]
  <2>1. new = {note(n) : n \in ToSet(creates)} BY DEF NotesBy
  <2>2. \A n : note(n).to = n.to /\ note(n).token = n.token /\ note(n).index = n.index OBVIOUS
  <2> HIDE DEF new, note
  <2> QED BY <1>2, <2>1, <2>2
<1>5. IsFiniteSet(new) BY <1>1, ByIsFinite
<1> HIDE DEF new
<1>6. IsFiniteSet(all)
  <2>1. IsFiniteSet(q.notes) BY DEF WellFormed
  <2> QED BY <1>5, <2>1, FS_Union
<1>7. \A x \in new : x.from = u BY <1>3
<1>8. ASSUME NEW to, NEW t PROVE Dense(NotesOf(q, u, to, t) \cup Own(to, t))
  <2> DEFINE T == Own(to, t)
  <2>1. NotesOf(p, u, to, t) \subseteq NotesOf(q, u, to, t) BY DEF Grown, NotesOf
  <2>2. IsFiniteSet(NotesOf(q, u, to, t)) /\ Dense(NotesOf(q, u, to, t)) BY WellFormedLists
  <2>3. Slots(T) = Slots({c \in ToSet(creates) : c.to = to /\ c.token = t})
    <3>1. \A x \in T : \E c \in {c \in ToSet(creates) : c.to = to /\ c.token = t} : x.index = c.index BY <1>3
    <3>2. \A c \in {c \in ToSet(creates) : c.to = to /\ c.token = t} : \E x \in T : x.index = c.index BY <1>3
    <3> HIDE DEF T
    <3> QED BY <3>1, <3>2 DEF Slots
  <2>4. Follow(NotesOf(p, u, to, t), T)
    <3> HIDE DEF T
    <3>1. Follow(NotesOf(p, u, to, t), {c \in ToSet(creates) : c.to = to /\ c.token = t}) BY <1>1
    <3> QED BY <2>3, <3>1 DEF Follow
  <2>5. \A x \in T : x.index \notin Slots(NotesOf(q, u, to, t))
    <3> SUFFICES ASSUME NEW x \in T PROVE x.index \notin Slots(NotesOf(q, u, to, t)) OBVIOUS
    <3>1. x \in new /\ x.to = to /\ x.token = t OBVIOUS
    <3>2. PICK n \in ToSet(creates) : x.to = n.to /\ x.token = n.token /\ x.index = n.index BY <1>3, <3>1
    <3>3. n.index \notin Slots(NotesOf(q, u, n.to, n.token)) OBVIOUS
    <3> QED BY <3>1, <3>2, <3>3
  <2>6. \A x, y \in T : x.index = y.index => x = y BY <1>4
  <2> HIDE DEF T
  <2>7. Dense(NotesOf(q, u, to, t) \cup T) BY <2>1, <2>2, <2>4, <2>5, <2>6, FollowKeepsDense
  <2> QED BY <2>7 DEF T
<1>9. ASSUME NEW n \in all
      PROVE  Dense({x \in all : x.from = n.from /\ x.to = n.to /\ x.token = n.token})
  <2> DEFINE S == {x \in all : x.from = n.from /\ x.to = n.to /\ x.token = n.token}
  <2>1. CASE n.from # u
    <3>1. S = NotesOf(q, n.from, n.to, n.token) BY <1>7, <2>1 DEF NotesOf
    <3> QED BY <3>1, WellFormedLists
  <2>2. CASE n.from = u
    <3>1. S = NotesOf(q, u, n.to, n.token) \cup Own(n.to, n.token) BY <1>7, <2>2 DEF NotesOf
    <3> QED BY <1>8, <3>1
  <2> QED BY <2>1, <2>2
<1>10. ASSUME NEW n \in all
       PROVE  n.amount \in Nat /\ \E s \in subs : s.from = n.from /\ s.to = n.to /\ s.token = n.token
  <2>1. CASE n \in q.notes
    <3>1. n.amount \in Nat /\ \E s \in SubsOf(q, n.from, n.to) : s.token = n.token BY <2>1 DEF WellFormed
    <3> QED BY <3>1 DEF SubsOf
  <2>2. CASE n \in new
    <3>1. PICK x \in ToSet(creates) : n.from = u /\ n.to = x.to /\ n.token = x.token /\ n.amount = x.amount
      BY <1>3, <2>2
    <3>2. \E s \in subs : s.from = u /\ s.to = x.to /\ s.token = x.token OBVIOUS
    <3>3. x.amount \in Nat BY <1>1
    <3> QED BY <3>1, <3>2, <3>3
  <2> QED BY <2>1, <2>2
<1> QED BY <1>6, <1>9, <1>10 DEF NotesKept, new

\* What the pool checks of a batch, list by list.
Checked(q, u, b, after) ==
    /\ u \in after.reg
    /\ \A o \in ToSet(b.opens) :
          o.to \in after.reg /\ ~HasChannel(q, u, o.to) /\ o.index \notin Slots(ChansFrom(q, u))
    /\ \A s \in ToSet(b.subs) : HasChannel(after, u, s.to) /\ s.index \notin Slots(SubsOf(q, u, s.to))
    /\ \A n \in ToSet(b.uses) : n \in q.notes \ q.nulls /\ n.to = u
    /\ \A n \in ToSet(b.creates) : /\ \E s \in SubsOf(after, u, n.to) : s.token = n.token
                                   /\ n.index \notin Slots(NotesOf(q, u, n.to, n.token))

LEMMA AcceptsChecks ==
  ASSUME NEW q, NEW u, NEW b, Accepts(q, u, b)
  PROVE  Checked(q, u, b, After(q, u, b))
<1> DEFINE after == After(q, u, b)
<1>1. u \in after.reg BY DEF Accepts
<1>2. \A o \in ToSet(b.opens) :
         o.to \in after.reg /\ ~HasChannel(q, u, o.to) /\ o.index \notin Slots({c \in q.chans : c.from = u})
  BY DEF Accepts
<1>3. \A s \in ToSet(b.subs) : HasChannel(after, u, s.to) /\ s.index \notin Slots(SubsOf(q, u, s.to)) BY DEF Accepts
<1>4. \A n \in ToSet(b.uses) : n \in q.notes \ q.nulls /\ n.to = u BY DEF Accepts
<1>5. \A n \in ToSet(b.creates) : /\ \E s \in SubsOf(after, u, n.to) : s.token = n.token
                                  /\ n.index \notin Slots(NotesOf(q, u, n.to, n.token))
  BY DEF Accepts
<1> HIDE DEF after
<1>6. {c \in q.chans : c.from = u} = ChansFrom(q, u) BY DEF ChansFrom
<1>7. Checked(q, u, b, after) BY <1>1, <1>2, <1>3, <1>4, <1>5, <1>6 DEF Checked
<1> QED BY <1>7 DEF after

\* A batch planned from an older pool that a newer one accepts leaves it without gaps, whatever happened in between: what
\* the planner counted on is there, or the pool refuses (planner.rs, plan, with the indices it gives out).
THEOREM PoolKept ==
  ASSUME NEW p, WellFormed(p), NEW q, WellFormed(q), Grown(p, q), NEW u, NEW b, Fits(p, u, b), Accepts(q, u, b)
  PROVE  WellFormed(After(q, u, b)) /\ Grown(q, After(q, u, b))
<1> DEFINE after == After(q, u, b)
           opens == b.opens
           subs == b.subs
           creates == b.creates
           uses == b.uses
<1>1. Effect(q, u, b, after) BY AfterFacts
<1>2. Checked(q, u, b, after) BY AcceptsChecks
<1>3. OpensFit(p, u, opens) /\ SubsFit(p, u, opens, subs) /\ CreatesFit(p, u, subs, creates) BY DEF Fits
<1> HIDE DEF after
<1>4. /\ q.reg \subseteq after.reg
      /\ after.chans = q.chans \cup ChansBy(q, u, opens)
      /\ after.subs = q.subs \cup SubsBy(u, subs)
      /\ after.notes = q.notes \cup NotesBy(u, creates)
      /\ after.nulls = q.nulls \cup ToSet(uses)
  BY <1>1 DEF Effect
<1>5. /\ u \in after.reg
      /\ \A o \in ToSet(opens) :
            o.to \in after.reg /\ ~HasChannel(q, u, o.to) /\ o.index \notin Slots(ChansFrom(q, u))
      /\ \A s \in ToSet(subs) : HasChannel(after, u, s.to) /\ s.index \notin Slots(SubsOf(q, u, s.to))
      /\ \A n \in ToSet(uses) : n \in q.notes
      /\ \A n \in ToSet(creates) : /\ \E s \in SubsOf(after, u, n.to) : s.token = n.token
                                   /\ n.index \notin Slots(NotesOf(q, u, n.to, n.token))
  BY <1>2 DEF Checked
<1> HIDE DEF opens, subs, creates, uses
<1>6. ChansKept(after.reg, after.chans) BY <1>3, <1>4, <1>5, OpensKeepChans
<1>7. SubsKept(after.chans, after.subs)
  <2>1. \A s \in ToSet(subs) : \E c \in after.chans : c.from = u /\ c.to = s.to BY <1>5 DEF HasChannel
  <2>2. q.chans \subseteq after.chans BY <1>4
  <2>3. SubsKept(after.chans, q.subs \cup SubsBy(u, subs)) BY <1>3, <1>5, <2>1, <2>2, PlanKeepsSubs
  <2> QED BY <1>4, <2>3
<1>8. NotesKept(after.subs, after.notes)
  <2>1. \A n \in ToSet(creates) : \E s \in after.subs : s.from = u /\ s.to = n.to /\ s.token = n.token
    BY <1>5 DEF SubsOf
  <2>2. q.subs \subseteq after.subs BY <1>4
  <2>3. NotesKept(after.subs, q.notes \cup NotesBy(u, creates)) BY <1>3, <1>5, <2>1, <2>2, PlanKeepsNotes
  <2> QED BY <1>4, <2>3
<1>9. after.nulls \subseteq after.notes
  <2>1. q.nulls \subseteq q.notes BY DEF WellFormed
  <2> QED BY <1>4, <1>5, <2>1
<1>10. Grown(q, after) BY <1>4 DEF Grown
<1>11. WellFormed(after)
  <2>1. IsFiniteSet(after.chans) /\ IsFiniteSet(after.subs) /\ IsFiniteSet(after.notes)
    BY <1>6, <1>7, <1>8 DEF ChansKept, SubsKept, NotesKept
  <2>2. /\ \A c \in after.chans :
              /\ {c.from, c.to} \subseteq after.reg
              /\ Dense({d \in after.chans : d.from = c.from})
              /\ LET incoming == {d \in after.chans : d.to = c.to}
                 IN  {d.place : d \in incoming} = 0..(Cardinality(incoming) - 1)
        /\ \A c, d \in after.chans : c.from = d.from /\ c.to = d.to => c = d
    BY <1>6 DEF ChansKept
  <2>3. \A s \in after.subs : HasChannel(after, s.from, s.to) /\ Dense(SubsOf(after, s.from, s.to))
    BY <1>7 DEF SubsKept, HasChannel, SubsOf
  <2>4. \A r, s \in after.subs : r.from = s.from /\ r.to = s.to /\ r.token = s.token => r = s BY <1>7 DEF SubsKept
  <2>5. \A n \in after.notes : n.amount \in Nat BY <1>8 DEF NotesKept
  <2>6. \A n \in after.notes : \E s \in SubsOf(after, n.from, n.to) : s.token = n.token BY <1>8 DEF NotesKept, SubsOf
  <2>7. \A n \in after.notes : Dense(NotesOf(after, n.from, n.to, n.token)) BY <1>8 DEF NotesKept, NotesOf
  <2> QED BY <1>9, <2>1, <2>2, <2>3, <2>4, <2>5, <2>6, <2>7 DEF WellFormed
<1> QED BY <1>10, <1>11 DEF after

--------------------------------------------------------------------------------
(* What the handlers are asked.                                            *)

LEMMA ItemsAppend ==
  ASSUME NEW list, NEW tokens, ItemsOf(list, tokens), NEW x, x.token \in tokens, x.amount \in Nat
  PROVE  ItemsOf(Append(list, x), tokens)
<1>1. IsList(list) /\ \A y \in ToSet(list) : y.token \in tokens /\ y.amount \in Nat BY DEF ItemsOf, IsList
<1>2. list \in Seq(ToSet(list) \cup {x})
  <2>1. list \in Seq(ToSet(list)) /\ ToSet(list) \subseteq ToSet(list) \cup {x} BY <1>1 DEF IsList
  <2> QED BY <2>1
<1> DEFINE X == ToSet(list) \cup {x}
<1>3. \A y \in X : y.token \in tokens /\ y.amount \in Nat BY <1>1
<1>4. x \in X /\ list \in Seq(X) BY <1>2
<1> HIDE DEF X
<1>5. Append(list, x) \in Seq(X) BY <1>4, AppendFacts
<1>6. ToSet(Append(list, x)) \subseteq X
  <2> DEFINE new == Append(list, x)
  <2> HIDE DEF new
  <2>1. new \in Seq(X) BY <1>5 DEF new
  <2>2. ToSet(new) = {new[k] : k \in 1..Len(new)} /\ \A k \in 1..Len(new) : new[k] \in X BY <2>1, SeqFacts
  <2> QED BY <2>2 DEF new
<1>7. Append(list, x) \in Seq(ToSet(Append(list, x))) BY <1>5, OwnItems
<1> QED BY <1>3, <1>6, <1>7 DEF ItemsOf

LEMMA OneItem ==
  ASSUME NEW x, NEW tokens, x.token \in tokens, x.amount \in Nat
  PROVE  ItemsOf(<< >>, tokens) /\ ItemsOf(<<x>>, tokens)
<1>1. ItemsOf(<< >>, tokens)
  <2>1. << >> \in Seq({}) OBVIOUS
  <2>2. ToSet(<< >>) = {} BY DEF ToSet
  <2> QED BY <2>1, <2>2 DEF ItemsOf
<1>2. <<x>> = Append(<< >>, x) OBVIOUS
<1> QED BY <1>1, <1>2, ItemsAppend

\* The relay's fee makes an intent of an intent.
LEMMA AskedAreIntents ==
  ASSUME NEW i \in Asked \cup OtherIntents
  PROVE  IsIntent(i, AllTokens)
<1>1. CASE i \in OtherIntents BY <1>1, IntentsAssumption
<1>2. CASE i \in Asked
  <2>1. PICK w \in Wishes : i \in Quoted(w) BY <1>2 DEF Asked
  <2>2. IsIntent(w.intent, AllTokens) BY <2>1, IntentsAssumption
  <2>3. CASE i = w.intent BY <2>2, <2>3
  <2>4. CASE i # w.intent
    <3> DEFINE fee(q) == [to |-> Relayer, token |-> FeeToken, amount |-> q]
               old == w.intent
    <3>1. PICK q \in Quotes : i = [old EXCEPT !.withdrawals = Append(@, fee(q))]
      BY <2>1, <2>4 DEF Quoted
    <3>2. /\ DOMAIN old = {"register", "deposits", "transfers", "withdrawals"}
          /\ old.register \in BOOLEAN
          /\ ItemsOf(old.deposits, AllTokens) /\ ItemsOf(old.transfers, AllTokens)
          /\ ItemsOf(old.withdrawals, AllTokens)
      BY <2>2 DEF IsIntent
    <3>3. fee(q).token = FeeToken /\ fee(q).amount = q OBVIOUS
    <3>4. q \in Nat /\ FeeToken \in AllTokens BY <3>1, AmountsAssumption
    <3> HIDE DEF fee, old
    <3>5. ItemsOf(Append(old.withdrawals, fee(q)), AllTokens) BY <3>2, <3>3, <3>4, ItemsAppend
    <3>6. DOMAIN i = DOMAIN old BY <3>1
    <3>7. i.register = old.register /\ i.deposits = old.deposits /\ i.transfers = old.transfers
      BY <3>1, <3>2
    <3>8. i.withdrawals = Append(old.withdrawals, fee(q)) BY <3>1, <3>2
    <3> QED BY <3>2, <3>5, <3>6, <3>7, <3>8 DEF IsIntent
  <2> QED BY <2>3, <2>4
<1> QED BY <1>1, <1>2

\* What the sender's gift plans.
GiftOf(t, a) == [register |-> FALSE, deposits |-> <<[token |-> t, amount |-> a]>>,
                 transfers |-> <<[to |-> Owner, token |-> t, amount |-> a]>>, withdrawals |-> << >>]

LEMMA GiftsAreIntents ==
  ASSUME NEW t \in AllTokens, NEW a \in Gifts
  PROVE  IsIntent(GiftOf(t, a), AllTokens)
<1> DEFINE d == [token |-> t, amount |-> a]
           x == [to |-> Owner, token |-> t, amount |-> a]
           ds == <<d>>
           xs == <<x>>
<1>1. a \in Nat BY AmountsAssumption
<1>2. d.token \in AllTokens /\ d.amount \in Nat /\ x.token \in AllTokens /\ x.amount \in Nat BY <1>1
<1> HIDE DEF d, x
<1>3. ItemsOf(<< >>, AllTokens) /\ ItemsOf(ds, AllTokens) /\ ItemsOf(xs, AllTokens) BY <1>2, OneItem
<1>4. GiftOf(t, a) = [register |-> FALSE, deposits |-> ds, transfers |-> xs, withdrawals |-> << >>] BY DEF GiftOf, d, x
<1> HIDE DEF ds, xs
<1> DEFINE e == << >>
<1>5. ItemsOf(e, AllTokens) BY <1>3
<1>6. GiftOf(t, a) = [register |-> FALSE, deposits |-> ds, transfers |-> xs, withdrawals |-> e] BY <1>4
<1> HIDE DEF e
<1>7. /\ DOMAIN GiftOf(t, a) = {"register", "deposits", "transfers", "withdrawals"}
      /\ GiftOf(t, a).register = FALSE /\ GiftOf(t, a).deposits = ds
      /\ GiftOf(t, a).transfers = xs /\ GiftOf(t, a).withdrawals = e
  BY <1>6
<1> QED BY <1>3, <1>5, <1>7 DEF IsIntent

--------------------------------------------------------------------------------
(* The chain.                                                              *)

\* Every block's pool is without gaps, and pools only grow.
ChainOk(c) ==
    /\ IsList(c) /\ Len(c) >= 1
    /\ \A k \in 1..Len(c) : WellFormed(c[k])
    /\ \A j, k \in 1..Len(c) : j <= k => Grown(c[j], c[k])

LEMMA GrownMore ==
  /\ \A p : Grown(p, p)
  /\ \A p, q, r : Grown(p, q) /\ Grown(q, r) => Grown(p, r)
BY DEF Grown

\* One more block, and a longer chain.
Longer(c, q) == Append(c, q)

Extends(d, c) == /\ Len(c) \in Nat /\ Len(d) \in Nat /\ Len(c) <= Len(d)
                 /\ \A k \in 1..Len(c) : d[k] = c[k]

LEMMA ChainGrows ==
  ASSUME NEW c, ChainOk(c), NEW q, WellFormed(q), Grown(c[Len(c)], q), NEW d, d = Longer(c, q)
  PROVE  ChainOk(d) /\ Extends(d, c)
<1>0. d = Append(c, q) BY DEF Longer
<1>1. c \in Seq(ToSet(c) \cup {q})
  <2>1. c \in Seq(ToSet(c)) /\ ToSet(c) \subseteq ToSet(c) \cup {q} BY DEF ChainOk, IsList
  <2> QED BY <2>1
<1>2. /\ d \in Seq(ToSet(c) \cup {q}) /\ Len(c) \in Nat /\ Len(d) = Len(c) + 1
      /\ \A k \in 1..Len(c) : d[k] = c[k]
      /\ d[Len(c) + 1] = q
      /\ \A k \in 1..(Len(c) + 1) : k \in 1..Len(c) \/ k = Len(c) + 1
  <2> DEFINE X == ToSet(c) \cup {q}
  <2>1. c \in Seq(X) /\ q \in X BY <1>1
  <2> HIDE DEF X
  <2>2. d \in Seq(X) /\ \A k \in 1..(Len(c) + 1) : k \in 1..Len(c) \/ k = Len(c) + 1 BY <1>0, <2>1, AppendFacts
  <2>3. /\ Len(c) \in Nat /\ Len(d) = Len(c) + 1
        /\ \A k \in 1..Len(c) : d[k] = c[k]
        /\ d[Len(c) + 1] = q
    BY <1>0, <2>1, AppendFacts
  <2> QED BY <2>2, <2>3 DEF X
<1>3. IsList(d) BY <1>2, OwnItems DEF IsList
<1>4. /\ Len(c) >= 1 /\ \A k \in 1..Len(c) : WellFormed(c[k])
      /\ \A j, k \in 1..Len(c) : j <= k => Grown(c[j], c[k])
  BY DEF ChainOk
<1>5. \A k \in 1..Len(d) : WellFormed(d[k]) BY <1>2, <1>4
<1>6. ASSUME NEW j \in 1..Len(d), NEW k \in 1..Len(d), j <= k PROVE Grown(d[j], d[k])
  <2>1. CASE j \in 1..Len(c) /\ k \in 1..Len(c) BY <1>2, <1>4, <1>6, <2>1
  <2>2. CASE k = Len(c) + 1 /\ j = k BY <2>2, GrownMore
  <2>3. CASE k = Len(c) + 1 /\ j \in 1..Len(c)
    <3>1. Len(c) \in 1..Len(c) /\ j <= Len(c) BY <1>2, <1>4, <2>3
    <3>2. Grown(c[j], c[Len(c)]) BY <1>4, <2>3, <3>1
    <3>3. d[j] = c[j] /\ d[k] = q BY <1>2, <2>3
    <3> QED BY <3>2, <3>3, GrownMore
  <2>4. j \in 1..Len(c) \/ j = Len(c) + 1 BY <1>2
  <2>5. k \in 1..Len(c) \/ k = Len(c) + 1 BY <1>2
  <2>6. ~(k \in 1..Len(c) /\ j = Len(c) + 1) BY <1>2, <1>6
  <2> QED BY <2>1, <2>2, <2>3, <2>4, <2>5, <2>6
<1>7. Len(d) >= 1 BY <1>2
<1> QED BY <1>2, <1>3, <1>4, <1>5, <1>6, <1>7 DEF ChainOk, Extends

LEMMA FirstChain ==
  ASSUME NEW n \in Nat, NEW p, WellFormed(p)
  PROVE  ChainOk([h \in 1..(n + 1) |-> p])
<1> DEFINE c == [h \in 1..(n + 1) |-> p]
<1>1. c \in Seq({p}) /\ Len(c) = n + 1
  <2>1. n + 1 \in Nat /\ c = [h \in 1..(n + 1) |-> c[h]] /\ \A h \in 1..(n + 1) : c[h] \in {p} OBVIOUS
  <2> HIDE DEF c
  <2> QED BY <2>1, SeqByItems
<1>2. \A k \in 1..(n + 1) : c[k] = p OBVIOUS
<1> HIDE DEF c
<1>3. IsList(c) BY <1>1, OwnItems DEF IsList
<1>4. Len(c) >= 1 BY <1>1
<1>5. \A k \in 1..Len(c) : WellFormed(c[k]) BY <1>1, <1>2
<1>6. \A j, k \in 1..Len(c) : Grown(c[j], c[k]) BY <1>1, <1>2, GrownMore
<1> QED BY <1>3, <1>4, <1>5, <1>6 DEF ChainOk, c

--------------------------------------------------------------------------------
(* What a request holds, by its stage.                                     *)

StateAt(c, h, i) == DiscoverState(c[h + 1], Owner, i)

Started(c, q) == /\ q.intent \in Asked
               /\ Reachable(c[q.block + 1], Owner, q.intent)

\* A part of st has been read again in one of the blocks from since on.
Reread(c, since, i, st, k) == \E h \in since..(Len(c) - 1) : StateAt(c, h, i)[Parts[k]] = st[Parts[k]]

Shaped(q) == DOMAIN q = {"stage", "kind", "intent", "block", "since", "seen", "st", "batch"}

Checking(c, q) ==
    /\ q.st = StateAt(c, q.block, q.intent)
    /\ q.seen \in 0..3
    /\ q.seen > 0 => q.block <= q.since
    /\ \A k \in 1..q.seen : Reread(c, q.since, q.intent, q.st, k)

HoldsPlan(c, q) ==
    LET st == StateAt(c, q.block, q.intent)
    IN  /\ q.batch = PlanBatch(Owner, st, q.intent) /\ q.batch \notin Errors
        /\ q.block <= q.since
        /\ \A k \in 1..4 : k = 1 \/ st.registered => Reread(c, q.since, q.intent, st, k)

ReqOk(c, q) ==
    /\ Shaped(q)
    /\ q.stage \in {"idle", "check", "failed"} \cup Planned
    /\ q.block \in 0..(Len(c) - 1) /\ q.since \in 0..(Len(c) - 1)
    /\ q.stage \in {"check"} \cup Planned => Started(c, q)
    /\ q.stage = "check" => Checking(c, q)
    /\ q.stage \in Planned => HoldsPlan(c, q)

LEMMA IdleOk ==
  ASSUME NEW c, Len(c) \in Nat, Len(c) >= 1
  PROVE  ReqOk(c, Idle) /\ ReqOk(c, [Idle EXCEPT !.stage = "failed"])
<1> DEFINE failed == [Idle EXCEPT !.stage = "failed"]
<1>1. Shaped(Idle) /\ Idle.stage = "idle" /\ Idle.block = 0 /\ Idle.since = 0 BY DEF Idle, Shaped
<1>2. Shaped(failed) /\ failed.stage = "failed" /\ failed.block = 0 /\ failed.since = 0 BY DEF Idle, Shaped
<1>3. 0 \in 0..(Len(c) - 1) OBVIOUS
<1>4. "idle" \notin {"check"} \cup Planned /\ "failed" \notin {"check"} \cup Planned BY DEF Planned
<1> HIDE DEF failed
<1>5. ReqOk(c, Idle) BY <1>1, <1>3, <1>4 DEF ReqOk
<1>6. ReqOk(c, failed) BY <1>2, <1>3, <1>4 DEF ReqOk
<1> QED BY <1>5, <1>6 DEF failed

LEMMA RestagedOk ==
  ASSUME NEW c, NEW q, ReqOk(c, q), q.stage \in Planned, NEW s \in Planned
  PROVE  ReqOk(c, [q EXCEPT !.stage = s])
<1> DEFINE new == [q EXCEPT !.stage = s]
<1>1. Shaped(q) /\ q.block \in 0..(Len(c) - 1) /\ q.since \in 0..(Len(c) - 1) /\ Started(c, q) /\ HoldsPlan(c, q)
  BY DEF ReqOk
<1>2. /\ Shaped(new) /\ new.stage = s /\ new.block = q.block /\ new.since = q.since
      /\ new.intent = q.intent /\ new.batch = q.batch
  BY <1>1 DEF Shaped
<1> HIDE DEF new
<1>3. Started(c, new) BY <1>1, <1>2 DEF Started
<1>4. HoldsPlan(c, new) BY <1>1, <1>2 DEF HoldsPlan
<1>5. s # "check" BY DEF Planned
<1>6. ReqOk(c, new) BY <1>1, <1>2, <1>3, <1>4, <1>5 DEF ReqOk
<1> QED BY <1>6 DEF new

LEMMA BegunOk ==
  ASSUME NEW c, Len(c) \in Nat, Len(c) >= 1, NEW kind, NEW i \in Asked, NEW block \in 0..(Len(c) - 1),
         Reachable(c[block + 1], Owner, i)
  PROVE  ReqOk(c, [Idle EXCEPT !.stage = "check", !.kind = kind, !.intent = i, !.block = block,
                               !.st = DiscoverState(c[block + 1], Owner, i)])
<1> DEFINE st == DiscoverState(c[block + 1], Owner, i)
<1>1. st = StateAt(c, block, i) BY DEF StateAt
<1> HIDE DEF st
<1> DEFINE new == [Idle EXCEPT !.stage = "check", !.kind = kind, !.intent = i, !.block = block, !.st = st]
<1>2. /\ Shaped(new) /\ new.stage = "check" /\ new.block = block /\ new.since = 0
      /\ new.intent = i /\ new.seen = 0 /\ new.st = st
  <2> DEFINE old == Idle
  <2>1. Shaped(old) /\ old.since = 0 /\ old.seen = 0 BY DEF Idle, Shaped
  <2> HIDE DEF old
  <2>2. new = [old EXCEPT !.stage = "check", !.kind = kind, !.intent = i, !.block = block, !.st = st] BY DEF old
  <2> QED BY <2>1, <2>2 DEF Shaped
<1> HIDE DEF new
<1>3. Started(c, new) BY <1>2 DEF Started
<1>4. Checking(c, new) BY <1>1, <1>2 DEF Checking
<1>5. "check" \notin Planned BY DEF Planned
<1>6. 0 \in 0..(Len(c) - 1) OBVIOUS
<1>7. ReqOk(c, new) BY <1>2, <1>3, <1>4, <1>5, <1>6 DEF ReqOk
<1> QED BY <1>7 DEF new, st

\* In a longer chain.
LEMMA RereadGrows ==
  ASSUME NEW c, NEW d, Extends(d, c), NEW since \in Nat, NEW i, NEW st, NEW k, Reread(c, since, i, st, k)
  PROVE  Reread(d, since, i, st, k)
<1>1. PICK h \in since..(Len(c) - 1) : StateAt(c, h, i)[Parts[k]] = st[Parts[k]] BY DEF Reread
<1>2. h \in since..(Len(d) - 1) /\ h + 1 \in 1..Len(c) BY DEF Extends
<1>3. d[h + 1] = c[h + 1] BY <1>2 DEF Extends
<1>4. StateAt(d, h, i) = StateAt(c, h, i) BY <1>3 DEF StateAt
<1> QED BY <1>1, <1>2, <1>4 DEF Reread

LEMMA ReqOkGrows ==
  ASSUME NEW c, NEW d, Extends(d, c), NEW q, ReqOk(c, q)
  PROVE  ReqOk(d, q)
<1>1. /\ Shaped(q) /\ q.stage \in {"idle", "check", "failed"} \cup Planned
      /\ q.block \in 0..(Len(c) - 1) /\ q.since \in 0..(Len(c) - 1)
      /\ q.stage \in {"check"} \cup Planned => Started(c, q)
      /\ q.stage = "check" => Checking(c, q)
      /\ q.stage \in Planned => HoldsPlan(c, q)
  BY DEF ReqOk
<1>2. q.block \in 0..(Len(d) - 1) /\ q.since \in 0..(Len(d) - 1) /\ q.block + 1 \in 1..Len(c) /\ q.since \in Nat
  BY <1>1 DEF Extends
<1>3. d[q.block + 1] = c[q.block + 1] BY <1>2 DEF Extends
<1>4. StateAt(d, q.block, q.intent) = StateAt(c, q.block, q.intent) BY <1>3 DEF StateAt
<1>5. q.stage \in {"check"} \cup Planned => Started(d, q) BY <1>1, <1>3 DEF Started
<1>6. q.stage = "check" => Checking(d, q)
  <2> SUFFICES ASSUME q.stage = "check" PROVE Checking(d, q) OBVIOUS
  <2>1. Checking(c, q) BY <1>1
  <2>2. \A k \in 1..q.seen : Reread(d, q.since, q.intent, q.st, k)
    <3> TAKE k \in 1..q.seen
    <3>1. Reread(c, q.since, q.intent, q.st, k) BY <2>1 DEF Checking
    <3> QED BY <1>2, <3>1, RereadGrows
  <2> QED BY <1>4, <2>1, <2>2 DEF Checking
<1>7. q.stage \in Planned => HoldsPlan(d, q)
  <2> SUFFICES ASSUME q.stage \in Planned PROVE HoldsPlan(d, q) OBVIOUS
  <2> DEFINE st == StateAt(c, q.block, q.intent)
  <2>1. HoldsPlan(c, q) BY <1>1
  <2>2. /\ q.batch = PlanBatch(Owner, st, q.intent) /\ q.batch \notin Errors
        /\ q.block <= q.since
        /\ \A k \in 1..4 : k = 1 \/ st.registered => Reread(c, q.since, q.intent, st, k)
    BY <2>1 DEF HoldsPlan
  <2>3. st = StateAt(d, q.block, q.intent) BY <1>4
  <2> HIDE DEF st
  <2>4. \A k \in 1..4 : k = 1 \/ st.registered => Reread(d, q.since, q.intent, st, k)
    <3> SUFFICES ASSUME NEW k \in 1..4, k = 1 \/ st.registered PROVE Reread(d, q.since, q.intent, st, k) OBVIOUS
    <3>1. Reread(c, q.since, q.intent, st, k) BY <2>2
    <3> QED BY <1>2, <3>1, RereadGrows
  <2> QED BY <2>2, <2>3, <2>4 DEF HoldsPlan
<1> QED BY <1>1, <1>2, <1>5, <1>6, <1>7 DEF ReqOk

\* The second discovery: one more part has been read, in the last block.
LEMMA OneMoreReread ==
  ASSUME NEW c, Len(c) \in Nat, Len(c) >= 1, NEW q, ReqOk(c, q), q.stage = "check",
         NEW since, since = (IF q.seen = 0 THEN Len(c) - 1 ELSE q.since),
         SameState(q.st, DiscoverState(c[Len(c)], Owner, q.intent), Parts[q.seen + 1])
  PROVE  /\ since \in 0..(Len(c) - 1) /\ q.block <= since
         /\ q.st = StateAt(c, q.block, q.intent) /\ q.seen \in 0..3
         /\ \A k \in 1..(q.seen + 1) : Reread(c, since, q.intent, q.st, k)
<1>1. Checking(c, q) /\ q.block \in 0..(Len(c) - 1) /\ q.since \in 0..(Len(c) - 1) BY DEF ReqOk
<1>2. /\ q.st = StateAt(c, q.block, q.intent) /\ q.seen \in 0..3
      /\ q.seen > 0 => q.block <= q.since
      /\ \A k \in 1..q.seen : Reread(c, q.since, q.intent, q.st, k)
  BY <1>1 DEF Checking
<1>3. since \in 0..(Len(c) - 1) /\ q.block <= since /\ (q.seen > 0 => since = q.since) BY <1>1, <1>2
<1>4. Reread(c, since, q.intent, q.st, q.seen + 1)
  <2>1. StateAt(c, Len(c) - 1, q.intent) = DiscoverState(c[Len(c)], Owner, q.intent)
    <3>1. (Len(c) - 1) + 1 = Len(c) OBVIOUS
    <3> QED BY <3>1 DEF StateAt
  <2>2. Len(c) - 1 \in since..(Len(c) - 1) BY <1>3
  <2>3. StateAt(c, Len(c) - 1, q.intent)[Parts[q.seen + 1]] = q.st[Parts[q.seen + 1]] BY <2>1 DEF SameState
  <2> QED BY <2>2, <2>3 DEF Reread
<1>5. ASSUME NEW k \in 1..(q.seen + 1) PROVE Reread(c, since, q.intent, q.st, k)
  <2>1. CASE k = q.seen + 1 BY <1>4, <2>1
  <2>2. CASE k # q.seen + 1
    <3>1. k \in 1..q.seen /\ q.seen > 0 BY <1>2, <2>2
    <3> QED BY <1>2, <1>3, <3>1
  <2> QED BY <2>1, <2>2
<1> QED BY <1>2, <1>3, <1>5

LEMMA RereadOk ==
  ASSUME NEW c, Len(c) \in Nat, Len(c) >= 1, NEW q, ReqOk(c, q), q.stage = "check", q.seen + 1 # 4,
         NEW since, since = (IF q.seen = 0 THEN Len(c) - 1 ELSE q.since),
         SameState(q.st, DiscoverState(c[Len(c)], Owner, q.intent), Parts[q.seen + 1])
  PROVE  ReqOk(c, [q EXCEPT !.seen = @ + 1, !.since = since])
<1> DEFINE new == [q EXCEPT !.seen = @ + 1, !.since = since]
<1>1. /\ since \in 0..(Len(c) - 1) /\ q.block <= since
      /\ q.st = StateAt(c, q.block, q.intent) /\ q.seen \in 0..3
      /\ \A k \in 1..(q.seen + 1) : Reread(c, since, q.intent, q.st, k)
  BY OneMoreReread
<1>2. Shaped(q) /\ q.block \in 0..(Len(c) - 1) /\ Started(c, q) BY DEF ReqOk
<1>3. /\ Shaped(new) /\ new.stage = "check" /\ new.block = q.block /\ new.since = since
      /\ new.intent = q.intent /\ new.seen = q.seen + 1 /\ new.st = q.st
  <2>1. Shaped(q) BY <1>2
  <2> QED BY <2>1 DEF Shaped
<1> HIDE DEF new
<1>4. q.seen + 1 \in 0..3 BY <1>1
<1>5. Checking(c, new) BY <1>1, <1>3, <1>4 DEF Checking
<1>6. Started(c, new) BY <1>2, <1>3 DEF Started
<1>7. "check" \notin Planned BY DEF Planned
<1>8. ReqOk(c, new) BY <1>1, <1>2, <1>3, <1>5, <1>6, <1>7 DEF ReqOk
<1> QED BY <1>8 DEF new

LEMMA AskedOk ==
  ASSUME NEW c, Len(c) \in Nat, Len(c) >= 1, NEW q, ReqOk(c, q), q.stage = "check",
         q.seen + 1 = 4 \/ ~q.st.registered,
         NEW since, since = (IF q.seen = 0 THEN Len(c) - 1 ELSE q.since),
         SameState(q.st, DiscoverState(c[Len(c)], Owner, q.intent), Parts[q.seen + 1]),
         NEW batch, batch = PlanBatch(Owner, q.st, q.intent), batch \notin Errors
  PROVE  ReqOk(c, [q EXCEPT !.stage = "ask", !.since = since, !.batch = batch, !.st = Nothing, !.seen = 0])
<1> DEFINE new == [q EXCEPT !.stage = "ask", !.since = since, !.batch = batch, !.st = Nothing, !.seen = 0]
<1>1. /\ since \in 0..(Len(c) - 1) /\ q.block <= since
      /\ q.st = StateAt(c, q.block, q.intent) /\ q.seen \in 0..3
      /\ \A k \in 1..(q.seen + 1) : Reread(c, since, q.intent, q.st, k)
  BY OneMoreReread
<1>2. Shaped(q) /\ q.block \in 0..(Len(c) - 1) /\ Started(c, q) BY DEF ReqOk
<1>3. /\ Shaped(new) /\ new.stage = "ask" /\ new.block = q.block /\ new.since = since
      /\ new.intent = q.intent /\ new.batch = batch
  <2>1. Shaped(q) BY <1>2
  <2> QED BY <2>1 DEF Shaped
<1> HIDE DEF new
<1> DEFINE st == q.st
<1>4. \A k \in 1..4 : k = 1 \/ st.registered => Reread(c, since, q.intent, st, k)
  <2> SUFFICES ASSUME NEW k \in 1..4, k = 1 \/ st.registered PROVE Reread(c, since, q.intent, st, k) OBVIOUS
  <2>1. k \in 1..(q.seen + 1) BY <1>1
  <2> QED BY <1>1, <2>1
<1>5. st = StateAt(c, new.block, new.intent) BY <1>1, <1>3
<1>6. batch = PlanBatch(Owner, st, q.intent) OBVIOUS
<1> HIDE DEF st
<1>7. HoldsPlan(c, new)
  <2>1. /\ new.batch = PlanBatch(Owner, st, new.intent) /\ new.batch \notin Errors /\ new.block <= new.since
        /\ \A k \in 1..4 : k = 1 \/ st.registered => Reread(c, new.since, new.intent, st, k)
    BY <1>1, <1>3, <1>4, <1>6
  <2> QED BY <1>5, <2>1 DEF HoldsPlan
<1>8. Started(c, new) BY <1>2, <1>3 DEF Started
<1>9. "ask" \in Planned /\ "ask" # "check" BY DEF Planned
<1>10. ReqOk(c, new) BY <1>1, <1>2, <1>3, <1>7, <1>8, <1>9 DEF ReqOk
<1> QED BY <1>10 DEF new

--------------------------------------------------------------------------------
(* The invariant.                                                          *)

Final == {"done", "unknown", "returned"}

\* The chain is of well-formed pools that only grow; a request in its second discovery holds what the first read from the
\* proving block, confirmed so far; one past it holds that block's plan; and what was sent is past its proof.
Sound ==
    /\ ChainOk(chain)
    /\ DOMAIN req = Requests
    /\ \A r \in Requests : ReqOk(chain, req[r])
    /\ mempool \cup applied \subseteq {r \in Requests : req[r].stage \in Final}
    /\ \A t \in AllTokens : public[t] \in Nat

LEMMA ChainFacts ==
  ASSUME ChainOk(chain)
  PROVE  /\ Len(chain) \in Nat /\ Len(chain) >= 1 /\ Height = Len(chain) - 1 /\ Height \in Nat
         /\ Latest = chain[Len(chain)] /\ WellFormed(Latest)
         /\ \A h \in 0..Height : h + 1 \in 1..Len(chain) /\ WellFormed(Pool(h)) /\ Grown(Pool(h), Latest)
<1>1. Len(chain) \in Nat /\ Len(chain) >= 1 BY SeqFacts DEF ChainOk, IsList
<1>2. Height = Len(chain) - 1 /\ Height \in Nat BY <1>1 DEF Height
<1>3. Latest = chain[Len(chain)] BY DEF Latest
<1>4. Len(chain) \in 1..Len(chain) BY <1>1
<1>5. WellFormed(Latest) BY <1>3, <1>4 DEF ChainOk
<1>6. ASSUME NEW h \in 0..Height PROVE h + 1 \in 1..Len(chain) /\ WellFormed(Pool(h)) /\ Grown(Pool(h), Latest)
  <2>1. h + 1 \in 1..Len(chain) /\ h + 1 <= Len(chain) BY <1>1, <1>2
  <2>2. WellFormed(chain[h + 1]) /\ Grown(chain[h + 1], chain[Len(chain)]) BY <1>4, <2>1 DEF ChainOk
  <2> QED BY <1>3, <2>1, <2>2 DEF Pool
<1> QED BY <1>1, <1>2, <1>3, <1>5, <1>6

\* A step of one request that leaves the chain alone.
LEMMA OneRequest ==
  ASSUME Sound, NEW r \in Requests, NEW x, ReqOk(chain, x), chain' = chain, public' = public, applied' = applied,
         req' = [req EXCEPT ![r] = x], mempool' \subseteq mempool \cup {r},
         r \in mempool' \cup applied => x.stage \in Final
  PROVE  Sound'
<1>1. DOMAIN req' = Requests /\ req'[r] = x /\ \A s \in Requests \ {r} : req'[s] = req[s] BY DEF Sound
<1>2. \A s \in Requests : ReqOk(chain', req'[s])
  <2> TAKE s \in Requests
  <2>1. CASE s = r BY <1>1, <2>1
  <2>2. CASE s # r
    <3>1. ReqOk(chain, req[s]) BY DEF Sound
    <3>2. req'[s] = req[s] BY <1>1, <2>2
    <3> QED BY <3>1, <3>2
  <2> QED BY <2>1, <2>2
<1>3. mempool' \cup applied' \subseteq {s \in Requests : req'[s].stage \in Final}
  <2> SUFFICES ASSUME NEW s \in mempool' \cup applied' PROVE s \in Requests /\ req'[s].stage \in Final OBVIOUS
  <2>1. CASE s = r BY <1>1, <2>1
  <2>2. CASE s # r
    <3>1. s \in mempool \cup applied BY <2>2
    <3>2. s \in Requests /\ req[s].stage \in Final BY <3>1 DEF Sound
    <3> QED BY <1>1, <2>2, <3>2
  <2> QED BY <2>1, <2>2
<1>4. \A t \in AllTokens : public'[t] \in Nat BY DEF Sound
<1>5. ChainOk(chain') BY DEF Sound
<1> QED BY <1>1, <1>2, <1>3, <1>4, <1>5 DEF Sound, AllTokens

\* A step that leaves the chain and the requests alone.
LEMMA NoRequest ==
  ASSUME Sound, chain' = chain, req' = req, public' = public, applied' = applied, mempool' \subseteq mempool
  PROVE  Sound'
<1>1. ChainOk(chain') /\ DOMAIN req' = Requests /\ \A s \in Requests : ReqOk(chain', req'[s]) BY DEF Sound
<1>2. mempool' \cup applied' \subseteq {s \in Requests : req'[s].stage \in Final} BY DEF Sound
<1>3. \A t \in AllTokens : public'[t] \in Nat BY DEF Sound
<1> QED BY <1>1, <1>2, <1>3 DEF Sound, AllTokens

\* A new block.
LEMMA NewBlock ==
  ASSUME Sound, NEW q, WellFormed(q), Grown(Latest, q), chain' = Append(chain, q), req' = req,
         \A t \in AllTokens : public'[t] \in Nat,
         mempool' \cup applied' \subseteq mempool \cup applied
  PROVE  Sound'
<1>1. ChainOk(chain) /\ Latest = chain[Len(chain)] BY DEF Sound, Latest
<1>2. ASSUME NEW d, d = Append(chain, q) PROVE ChainOk(d) /\ Extends(d, chain)
  <2>1. ChainOk(chain) /\ Grown(chain[Len(chain)], q) /\ WellFormed(q) /\ d = Longer(chain, q)
    BY <1>1, <1>2 DEF Longer
  <2> QED BY <2>1, ChainGrows
<1>3. ChainOk(chain') /\ Extends(chain', chain)
  <2>1. chain' = Append(chain, q) OBVIOUS
  <2> QED BY <1>2, <2>1
<1>4. \A s \in Requests : ReqOk(chain', req'[s])
  <2> TAKE s \in Requests
  <2>1. ReqOk(chain, req[s]) BY DEF Sound
  <2>2. ReqOk(chain', req[s]) BY <1>3, <2>1, ReqOkGrows
  <2> QED BY <2>2
<1>5. mempool' \cup applied' \subseteq {s \in Requests : req'[s].stage \in Final} BY DEF Sound
<1>6. DOMAIN req' = Requests BY DEF Sound
<1> QED BY <1>3, <1>4, <1>5, <1>6 DEF Sound, AllTokens

LEMMA SoundInit == Init => Sound
<1> SUFFICES ASSUME Init PROVE Sound OBVIOUS
<1>1. PICK p \in InitialPools : chain = [h \in 1..(Lag + 1) |-> p] BY DEF Init
<1>2. WellFormed(p) /\ Lag \in Nat BY PoolsAssumption, AmountsAssumption
<1>3. ChainOk(chain) BY <1>1, <1>2, FirstChain
<1>4. Len(chain) \in Nat /\ Len(chain) >= 1 BY <1>3, ChainFacts
<1>5. req = [r \in Requests |-> Idle] BY DEF Init
<1>6. DOMAIN req = Requests /\ \A r \in Requests : req[r] = Idle BY <1>5
<1>7. \A r \in Requests : ReqOk(chain, req[r]) BY <1>4, <1>6, IdleOk
<1>8. mempool \cup applied = {} BY DEF Init
<1>9. \A t \in AllTokens : public[t] \in Nat BY AmountsAssumption DEF Init
<1> QED BY <1>3, <1>6, <1>7, <1>8, <1>9 DEF Sound

LEMMA SoundFail ==
  ASSUME Sound, NEW r \in Requests, Fail(r), r \notin mempool \cup applied,
         chain' = chain, public' = public, applied' = applied, mempool' = mempool
  PROVE  Sound'
<1> DEFINE x == [Idle EXCEPT !.stage = "failed"]
<1>1. ReqOk(chain, x) BY ChainFacts, IdleOk DEF Sound
<1>2. req' = [req EXCEPT ![r] = x] BY DEF Fail
<1> HIDE DEF x
<1> QED BY <1>1, <1>2, OneRequest

LEMMA SoundBegin ==
  ASSUME Sound, NEW r \in Requests, Begin(r)
  PROVE  Sound'
<1>1. req[r].stage = "idle" /\ UNCHANGED <<chain, mempool, applied, public>> BY DEF Begin
<1>2. r \notin mempool \cup applied BY <1>1 DEF Sound, Final
<1>3. CASE Fail(r) BY <1>1, <1>2, <1>3, SoundFail
<1>4. CASE ~Fail(r)
  <2>0. PICK w \in Wishes : \E i \in Quoted(w) : Discover(r, w.kind, i) BY <1>4 DEF Begin
  <2>1. PICK i \in Quoted(w) : Discover(r, w.kind, i) BY <2>0
  <2>2. i \in Asked BY <2>0, <2>1 DEF Asked
  <2> DEFINE block == IF Height < Lag THEN 0 ELSE Height - Lag
             x == [Idle EXCEPT !.stage = "check", !.kind = w.kind, !.intent = i, !.block = block,
                               !.st = DiscoverState(Pool(block), Owner, i)]
  <2>3. Reachable(Pool(block), Owner, i) /\ req' = [req EXCEPT ![r] = x]
    <3> DEFINE ok == Reachable(Pool(block), Owner, i)
    <3>1. IF ok THEN req' = [req EXCEPT ![r] = x] ELSE Fail(r) BY <2>1 DEF Discover
    <3> HIDE DEF ok, x
    <3>2. ok /\ req' = [req EXCEPT ![r] = x] BY <1>4, <3>1
    <3> QED BY <3>2 DEF ok
  <2>4. Len(chain) \in Nat /\ Len(chain) >= 1 /\ Height = Len(chain) - 1 /\ Height \in Nat BY ChainFacts DEF Sound
  <2>5. block \in 0..(Len(chain) - 1)
    <3>1. Lag \in Nat BY AmountsAssumption
    <3>2. block = IF Height < Lag THEN 0 ELSE Height - Lag OBVIOUS
    <3> HIDE DEF block
    <3>3. block \in 0..Height BY <2>4, <3>1, <3>2
    <3> QED BY <2>4, <3>3
  <2>6. x = [Idle EXCEPT !.stage = "check", !.kind = w.kind, !.intent = i, !.block = block,
                         !.st = DiscoverState(chain[block + 1], Owner, i)]
    BY DEF Pool
  <2>7. Reachable(chain[block + 1], Owner, i) BY <2>3 DEF Pool
  <2> HIDE DEF block, x
  <2>8. ReqOk(chain, x) BY <2>2, <2>4, <2>5, <2>6, <2>7, BegunOk
  <2> QED BY <1>1, <1>2, <2>3, <2>8, OneRequest
<1> QED BY <1>3, <1>4

LEMMA SoundRecheck ==
  ASSUME Sound, NEW r \in Requests, Recheck(r)
  PROVE  Sound'
<1> DEFINE q    == req[r]
           now  == DiscoverState(Latest, Owner, q.intent)
           part == Parts[q.seen + 1]
           last == q.seen + 1 = Len(Parts) \/ ~q.st.registered
           since == IF q.seen = 0 THEN Height ELSE q.since
           batch == PlanBatch(Owner, q.st, q.intent)
<1>1. q.stage = "check" /\ UNCHANGED <<chain, mempool, applied, public>> BY DEF Recheck
<1>2. r \notin mempool \cup applied BY <1>1 DEF Sound, Final
<1>3. CASE Fail(r) BY <1>1, <1>2, <1>3, SoundFail
<1>4. CASE ~Fail(r)
  <2>1. SameState(q.st, now, part) BY <1>4 DEF Recheck
  <2>2. /\ last => Propose(r, since, batch)
        /\ ~last => req' = [req EXCEPT ![r].seen = @ + 1, ![r].since = since]
    BY <1>4 DEF Recheck
  <2>3. Len(chain) \in Nat /\ Len(chain) >= 1 /\ Height = Len(chain) - 1 /\ Latest = chain[Len(chain)]
    BY ChainFacts DEF Sound
  <2>4. ReqOk(chain, q) /\ DOMAIN req = Requests BY DEF Sound
  <2>5. SameState(q.st, DiscoverState(chain[Len(chain)], Owner, q.intent), Parts[q.seen + 1]) BY <2>1, <2>3
  <2>6. since = (IF q.seen = 0 THEN Len(chain) - 1 ELSE q.since) BY <2>3
  <2>7. Len(Parts) = 4 BY DEF Parts
  <2>8. CASE last
    <3> DEFINE x == [q EXCEPT !.stage = "ask", !.since = since, !.batch = batch, !.st = Nothing, !.seen = 0]
    <3>1. batch \notin Errors /\ Ask(r, since, batch) BY <1>4, <2>2, <2>8 DEF Propose
    <3>2. req' = [req EXCEPT ![r] = x] BY <3>1 DEF Ask
    <3>3. q.seen + 1 = 4 \/ ~q.st.registered BY <2>7, <2>8
    <3> HIDE DEF q, since, batch
    <3>4. batch = PlanBatch(Owner, q.st, q.intent) BY DEF batch
    <3>5. q.stage = "check" BY <1>1
    <3>6. ReqOk(chain, x) BY <2>3, <2>4, <2>5, <2>6, <3>1, <3>3, <3>4, <3>5, AskedOk
    <3> HIDE DEF x
    <3> QED BY <1>1, <1>2, <3>2, <3>6, OneRequest
  <2>9. CASE ~last
    <3> DEFINE x == [q EXCEPT !.seen = @ + 1, !.since = since]
    <3>1. req' = [req EXCEPT ![r].seen = @ + 1, ![r].since = since] BY <2>2, <2>9
    <3>2. req' = [req EXCEPT ![r] = x] BY <2>4, <3>1
    <3>3. q.seen + 1 # 4 BY <2>7, <2>9
    <3> HIDE DEF q, since, batch
    <3>4. q.stage = "check" BY <1>1
    <3>5. ReqOk(chain, x) BY <2>3, <2>4, <2>5, <2>6, <3>3, <3>4, RereadOk
    <3> HIDE DEF x
    <3> QED BY <1>1, <1>2, <3>2, <3>5, OneRequest
  <2> QED BY <2>8, <2>9
<1> QED BY <1>3, <1>4

\* A request that has a plan goes on.
LEMMA SoundOnward ==
  ASSUME Sound, NEW r \in Requests, req[r].stage \in Planned, NEW s \in Planned,
         req' = [req EXCEPT ![r].stage = s], chain' = chain, public' = public, applied' = applied,
         mempool' \subseteq mempool \cup {r}, r \in mempool' \cup applied => s \in Final
  PROVE  Sound'
<1> DEFINE x == [req[r] EXCEPT !.stage = s]
<1>1. ReqOk(chain, req[r]) /\ DOMAIN req = Requests BY DEF Sound
<1>2. ReqOk(chain, x) BY <1>1, RestagedOk
<1>3. req' = [req EXCEPT ![r] = x] BY <1>1
<1>4. x.stage = s BY <1>1 DEF ReqOk, Shaped
<1> HIDE DEF x
<1> QED BY <1>2, <1>3, <1>4, OneRequest

LEMMA SoundStages ==
  ASSUME Sound, NEW r \in Requests,
         GiveUp(r) \/ Approve(r) \/ Prove(r) \/ Relay(r) \/ Estimate(r) \/ Submit(r) \/ CallerSubmits(r)
  PROVE  Sound'
<1>1. {"ask", "prove", "proved", "estimated", "returned", "done", "unknown"} = Planned BY DEF Planned
<1>2. req[r].stage \notin Final => r \notin mempool \cup applied BY DEF Sound
<1>3. CASE GiveUp(r)
  <2>1. req[r].stage \notin Final BY <1>3 DEF GiveUp, Final
  <2> QED BY <1>2, <1>3, <2>1, SoundFail DEF GiveUp
<1>4. CASE Approve(r)
  <2>1. req[r].stage \notin Final /\ req[r].stage \in Planned BY <1>4 DEF Approve, Final, Planned
  <2>2. "prove" \in Planned /\ req' = [req EXCEPT ![r].stage = "prove"] BY <1>1, <1>4 DEF Approve
  <2>3. UNCHANGED <<chain, mempool, applied, public>> BY <1>4 DEF Approve
  <2> QED BY <1>2, <2>1, <2>2, <2>3, SoundOnward
<1>5. CASE Prove(r)
  <2>1. req[r].stage \notin Final /\ req[r].stage \in Planned BY <1>5 DEF Prove, Final, Planned
  <2>2. UNCHANGED <<chain, mempool, applied, public>> BY <1>5 DEF Prove
  <2>3. CASE Fail(r) BY <1>2, <2>1, <2>2, <2>3, SoundFail
  <2>4. CASE ~Fail(r)
    <3> DEFINE s == IF req[r].kind = "prepare" THEN "returned" ELSE "proved"
    <3>1. req' = [req EXCEPT ![r].stage = s] BY <1>5, <2>4 DEF Prove
    <3>2. s \in Planned BY <1>1
    <3> HIDE DEF s
    <3> QED BY <1>2, <2>1, <2>2, <3>1, <3>2, SoundOnward
  <2> QED BY <2>3, <2>4
<1>6. CASE Relay(r) \/ Submit(r)
  <2>1. req[r].stage \notin Final /\ req[r].stage \in Planned BY <1>6 DEF Relay, Submit, Final, Planned
  <2>2. UNCHANGED <<chain, applied, public>> BY <1>6 DEF Relay, Submit
  <2>3. PICK answer \in {"done", "unknown"} :
           /\ req' = [req EXCEPT ![r].stage = answer]
           /\ mempool' \in {mempool \cup {r}} \cup (IF answer = "unknown" THEN {mempool} ELSE {})
    BY <1>6 DEF Relay, Submit
  <2>4. answer \in Planned /\ answer \in Final BY DEF Planned, Final
  <2>5. mempool' \subseteq mempool \cup {r} BY <2>3
  <2> QED BY <2>1, <2>2, <2>3, <2>4, <2>5, SoundOnward
<1>7. CASE Estimate(r)
  <2>1. req[r].stage \notin Final /\ req[r].stage \in Planned BY <1>7 DEF Estimate, Final, Planned
  <2>2. UNCHANGED <<chain, mempool, applied, public>> BY <1>7 DEF Estimate
  <2>3. CASE Fail(r) BY <1>2, <2>1, <2>2, <2>3, SoundFail
  <2>4. CASE ~Fail(r)
    <3>1. req' = [req EXCEPT ![r].stage = "estimated"] /\ "estimated" \in Planned BY <1>1, <1>7, <2>4 DEF Estimate
    <3> QED BY <1>2, <2>1, <2>2, <3>1, SoundOnward
  <2> QED BY <2>3, <2>4
<1>8. CASE CallerSubmits(r)
  <2>1. req[r].stage = "returned" /\ mempool' = mempool \cup {r} /\ UNCHANGED <<chain, req, applied, public>>
    BY <1>8 DEF CallerSubmits
  <2>2. ReqOk(chain, req[r]) /\ DOMAIN req = Requests BY DEF Sound
  <2>3. mempool' \cup applied' \subseteq {s \in Requests : req'[s].stage \in Final} BY <2>1 DEF Sound, Final
  <2>4. ChainOk(chain') /\ DOMAIN req' = Requests /\ \A s \in Requests : ReqOk(chain', req'[s]) BY <2>1 DEF Sound
  <2>5. \A t \in AllTokens : public'[t] \in Nat BY <2>1 DEF Sound
  <2> QED BY <2>3, <2>4, <2>5 DEF Sound, AllTokens
<1> QED BY <1>3, <1>4, <1>5, <1>6, <1>7, <1>8

--------------------------------------------------------------------------------
(* The steps that make a block.                                            *)

\* What the planner plans from a pool, for whatever intent the pool's users can meet, that pool accepts: no slot is given
\* out twice or skipped, no note is used twice, and every token balances (planner.rs, plan; discovery.rs, discover_state).
THEOREM PlanIsAccepted ==
  ASSUME NEW p, WellFormed(p), NEW u, NEW i, IsIntent(i, AllTokens), Reachable(p, u, i),
         NEW b, b = PlanBatch(u, DiscoverState(p, u, i), i), b \notin Errors
  PROVE  Fits(p, u, b) /\ Accepts(p, u, b) /\ b.deposits = i.deposits
<1> DEFINE st == DiscoverState(p, u, i)
<1>1. Fits(p, u, b) BY PlanFits
<1>2. Accepts(p, u, b) BY <1>1, FitsIsAccepted
<1>3. b = PlanBatch(u, st, i) /\ PlanBatch(u, st, i) \notin Errors OBVIOUS
<1> HIDE DEF st
<1>4. b.deposits = i.deposits BY <1>3, PlanOf
<1> QED BY <1>1, <1>2, <1>4

LEMMA HoldersPlan ==
  ASSUME Sound, NEW r \in Requests, req[r].stage \in Planned
  PROVE  LET p == Pool(req[r].block)
             i == req[r].intent
             b == req[r].batch
         IN  /\ req[r].block \in 0..Height /\ req[r].since \in 0..Height /\ req[r].block <= req[r].since
             /\ i \in Asked /\ IsIntent(i, AllTokens) /\ Reachable(p, Owner, i)
             /\ b = PlanBatch(Owner, DiscoverState(p, Owner, i), i) /\ b \notin Errors
             /\ Fits(p, Owner, b) /\ Accepts(p, Owner, b) /\ b.deposits = i.deposits
<1> DEFINE q == req[r]
           p == Pool(q.block)
           i == q.intent
           b == q.batch
<1>1. ChainOk(chain) /\ ReqOk(chain, q) /\ q.stage \in Planned BY DEF Sound
<1> HIDE DEF q
<1>2. Started(chain, q) /\ HoldsPlan(chain, q) /\ q.block \in 0..(Len(chain) - 1) /\ q.since \in 0..(Len(chain) - 1)
  BY <1>1 DEF ReqOk
<1>3. Height = Len(chain) - 1 BY DEF Height
<1>4. i \in Asked /\ Reachable(p, Owner, i) BY <1>2 DEF Started, Pool
<1>5. IsIntent(i, AllTokens) BY <1>4, AskedAreIntents
<1>6. b = PlanBatch(Owner, DiscoverState(p, Owner, i), i) /\ b \notin Errors /\ q.block <= q.since
  BY <1>2 DEF HoldsPlan, StateAt, Pool
<1>7. WellFormed(p)
  <2>1. q.block \in 0..Height BY <1>2, <1>3
  <2> QED BY <1>1, <2>1, ChainFacts
<1> HIDE DEF p, i, b
<1>8. Fits(p, Owner, b) /\ Accepts(p, Owner, b) /\ b.deposits = i.deposits BY <1>4, <1>5, <1>6, <1>7, PlanIsAccepted
<1> QED BY <1>2, <1>3, <1>4, <1>5, <1>6, <1>8 DEF p, i, b, q

LEMMA CostsAreNat ==
  ASSUME NEW i, IsIntent(i, AllTokens)
  PROVE  \A t : TotalIn(i.deposits, t) \in Nat /\ Needed(i, t) \in Nat
<1>1. Money(i.deposits) BY IntentLists
<1>2. \A t : TotalIn(i.deposits, t) \in Nat BY <1>1, TotalInIsSum
<1>3. PoolFee \in Nat BY AmountsAssumption
<1> QED BY <1>2, <1>3 DEF Needed

LEMMA SoundLand ==
  ASSUME Sound, NEW r \in Requests, Land(r)
  PROVE  Sound'
<1> DEFINE q == req[r]
           b == q.batch
           p == Pool(q.block)
           after == After(Latest, Owner, b)
           cost == [t \in AllTokens |-> IF FromAccount(q) THEN Needed(q.intent, t) ELSE TotalIn(q.batch.deposits, t)]
<1>1. /\ r \in mempool /\ Accepts(Latest, Owner, b) /\ \A t \in AllTokens : public[t] >= cost[t]
      /\ chain' = Append(chain, after) /\ public' = [t \in AllTokens |-> public[t] - cost[t]]
      /\ mempool' = mempool \ {r} /\ applied' = applied \cup {r} /\ req' = req
  BY DEF Land
<1>2. req[r].stage \in Planned BY <1>1 DEF Sound, Final, Planned
<1>3. /\ q.block \in 0..Height /\ IsIntent(q.intent, AllTokens) /\ Fits(p, Owner, b) /\ b.deposits = q.intent.deposits
  BY <1>2, HoldersPlan
<1>4. WellFormed(p) /\ Grown(p, Latest) /\ WellFormed(Latest) BY <1>3, ChainFacts DEF Sound
<1>5. \A t \in AllTokens : cost[t] \in Nat BY <1>3, CostsAreNat
<1>6. \A t \in AllTokens : public[t] \in Nat BY DEF Sound
<1>7. \A t \in AllTokens : public'[t] \in Nat
  <2> TAKE t \in AllTokens
  <2> HIDE DEF cost
  <2>1. public'[t] = public[t] - cost[t] BY <1>1
  <2> QED BY <1>1, <1>5, <1>6, <2>1
<1> HIDE DEF p, b, cost, q
<1>8. WellFormed(After(Latest, Owner, b)) /\ Grown(Latest, After(Latest, Owner, b)) BY <1>1, <1>3, <1>4, PoolKept
<1> HIDE DEF after
<1>9. WellFormed(after) /\ Grown(Latest, after) BY <1>8 DEF after
<1>10. mempool' \cup applied' \subseteq mempool \cup applied \cup {r} BY <1>1
<1>11. mempool' \cup applied' \subseteq mempool \cup applied BY <1>1
<1> QED BY <1>1, <1>7, <1>9, <1>11, NewBlock

LEMMA SoundElsewhere ==
  ASSUME Sound, NEW u, NEW i, IsIntent(i, AllTokens), Elsewhere(u, i)
  PROVE  Sound'
<1> DEFINE p == Latest
           b == PlanBatch(u, DiscoverState(p, u, i), i)
           after == After(Latest, u, b)
<1>1. /\ Reachable(p, u, i) /\ b \notin Errors /\ Accepts(p, u, b)
      /\ chain' = Append(chain, after) /\ UNCHANGED <<req, mempool, applied, public>>
  BY DEF Elsewhere
<1>2. WellFormed(p) BY ChainFacts DEF Sound
<1> HIDE DEF p
<1>3. Fits(p, u, b) BY <1>1, <1>2, PlanFits
<1>4. Grown(p, p) BY GrownMore
<1> HIDE DEF b
<1>5. WellFormed(After(p, u, b)) /\ Grown(p, After(p, u, b)) BY <1>1, <1>2, <1>3, <1>4, PoolKept
<1>6. WellFormed(after) /\ Grown(Latest, after) BY <1>5 DEF p
<1> HIDE DEF after
<1>7. \A t \in AllTokens : public'[t] \in Nat BY <1>1 DEF Sound
<1>8. mempool' \cup applied' \subseteq mempool \cup applied BY <1>1
<1> QED BY <1>1, <1>6, <1>7, <1>8, NewBlock

LEMMA SoundMine ==
  ASSUME Sound, Mine
  PROVE  Sound'
<1>1. chain' = Append(chain, Latest) /\ UNCHANGED <<req, mempool, applied, public>> BY DEF Mine
<1>2. WellFormed(Latest) /\ Grown(Latest, Latest) BY ChainFacts, GrownMore DEF Sound
<1>3. \A t \in AllTokens : public'[t] \in Nat BY <1>1 DEF Sound
<1>4. mempool' \cup applied' \subseteq mempool \cup applied BY <1>1
<1> QED BY <1>1, <1>2, <1>3, <1>4, NewBlock

LEMMA SoundNext == Sound /\ [Next]_vars => Sound'
<1> SUFFICES ASSUME Sound, [Next]_vars PROVE Sound' OBVIOUS
<1>1. ASSUME NEW r \in Requests, Step(r) PROVE Sound'
  <2>1. CASE Begin(r) BY <2>1, SoundBegin
  <2>2. CASE Recheck(r) BY <2>2, SoundRecheck
  <2>3. CASE GiveUp(r) \/ Approve(r) \/ Prove(r) \/ Relay(r) \/ Estimate(r) \/ Submit(r) \/ CallerSubmits(r)
    BY <2>3, SoundStages
  <2>4. CASE Land(r) BY <2>4, SoundLand
  <2>5. CASE Drop(r) BY <2>5, NoRequest DEF Drop
  <2> QED BY <1>1, <2>1, <2>2, <2>3, <2>4, <2>5 DEF Step
<1>2. CASE Mine BY <1>2, SoundMine
<1>3. CASE OtherWallet
  <2>1. PICK i \in OtherIntents : Elsewhere(Owner, i) BY <1>3 DEF OtherWallet
  <2>2. IsIntent(i, AllTokens) BY AskedAreIntents
  <2> QED BY <2>1, <2>2, SoundElsewhere
<1>4. CASE Gift
  <2>1. PICK t \in AllTokens, a \in Gifts : Elsewhere(Sender, GiftOf(t, a)) BY <1>4 DEF Gift, GiftOf
  <2>2. IsIntent(GiftOf(t, a), AllTokens) BY GiftsAreIntents
  <2> QED BY <2>1, <2>2, SoundElsewhere
<1>5. CASE BalancesBegin BY <1>5, NoRequest DEF BalancesBegin
<1>6. CASE BalancesRead BY <1>6, NoRequest DEF BalancesRead
<1>7. CASE UNCHANGED vars BY <1>7, NoRequest DEF vars
<1> QED BY <1>1, <1>2, <1>3, <1>4, <1>5, <1>6, <1>7 DEF Next

\* Inductive: whatever the user, the node, the prover, the relay, other wallets and senders do, a request's state and batch
\* are those of its proving block, and the pool stays a pool whose lists have no gaps (mod.rs, prepare; planner.rs, plan).
THEOREM SoundHolds == Spec => []Sound
<1>1. Init => Sound BY SoundInit
<1>2. Sound /\ [Next]_vars => Sound' BY SoundNext
<1> QED BY <1>1, <1>2, PTL DEF Spec

--------------------------------------------------------------------------------
(* What follows from the invariant.                                        *)

LEMMA SoundLosesNothing == Sound => NothingLost
<1> SUFFICES ASSUME Sound, NEW u \in Users, NEW t \in AllTokens
             PROVE  TotalOf(DiscoverNotes(Latest, u, {t})) = Balance(Latest, u, t)
  BY DEF NothingLost
<1> DEFINE p == Latest
           found == DiscoverNotes(p, u, {t})
           owned == {n \in Unspent(p, p.notes) : n.to = u /\ n.token = t}
<1>1. WellFormed(p) BY ChainFacts DEF Sound
<1> HIDE DEF p
<1>2. found = {n \in Unspent(p, p.notes) : n.to = u /\ n.token \in {t}} BY <1>1, DiscoversAll
<1>3. found = owned BY <1>2
<1>4. Balance(p, u, t) = TotalOf(owned) BY DEF Balance
<1> HIDE DEF owned, found
<1>5. TotalOf(found) = Balance(p, u, t) BY <1>3, <1>4
<1> QED BY <1>5 DEF p, found

LEMMA SoundIsConsistent == Sound => Consistent
<1> SUFFICES ASSUME Sound PROVE Consistent OBVIOUS
<1>1. Height = Len(chain) - 1 BY DEF Height
<1>2. ASSUME NEW r \in Requests
      PROVE  /\ req[r].stage \in {"idle", "check", "failed"} \cup Planned
             /\ req[r].stage \in {"check"} \cup Planned => req[r].intent \in Asked
             /\ req[r].stage \in Planned => req[r].batch \notin Errors
             /\ req[r].block \in 0..Height /\ req[r].since \in 0..Height
  <2> DEFINE q == req[r]
  <2>1. ReqOk(chain, q) BY DEF Sound
  <2> HIDE DEF q
  <2>2. /\ q.stage \in {"idle", "check", "failed"} \cup Planned
        /\ q.stage \in {"check"} \cup Planned => q.intent \in Asked
        /\ q.stage \in Planned => q.batch \notin Errors
        /\ q.block \in 0..Height /\ q.since \in 0..Height
    BY <1>1, <2>1 DEF ReqOk, Started, HoldsPlan
  <2> QED BY <2>2 DEF q
<1>3. mempool \cup applied \subseteq {r \in Requests : req[r].stage \in {"done", "unknown", "returned"}}
  BY DEF Sound, Final
<1>4. \A t \in AllTokens : public[t] \in Nat BY DEF Sound
<1>5. TypeOK BY <1>2, <1>3, <1>4 DEF TypeOK
<1>6. PlansCompile
  <2> SUFFICES ASSUME NEW r \in Requests, req[r].stage \in Planned
               PROVE  Accepts(Pool(req[r].block), Owner, req[r].batch)
    BY DEF PlansCompile, HasBatch
  <2> QED BY HoldersPlan
<1> QED BY <1>5, <1>6 DEF Consistent

\* Every note there is gets found: no batch, from whatever block it was planned and whenever it lands, leaves a gap
\* behind it that would hide the notes after it from the scans that stop at the first empty slot
\* (discovery.rs, discover_notes; planner.rs, plan).
THEOREM NothingLostHolds == Spec => []NothingLost
BY SoundHolds, SoundLosesNothing, PTL

\* A request that has been planned holds a batch that compiles at the block it will be proved against: every channel,
\* subchannel and note slot is free and given out once, every note spent is there and unspent, and every token
\* balances (planner.rs, plan; mod.rs, prepare).
THEOREM ConsistentHolds == Spec => []Consistent
BY SoundHolds, SoundIsConsistent, PTL

--------------------------------------------------------------------------------
(* Two discoveries that agree.                                             *)

\* What a discovery answers, part by part.
Read(p, u, i) == DiscoverState(p, u, i)

LEMMA ReadFields ==
  ASSUME NEW p, NEW u, NEW i
  PROVE  /\ u \notin p.reg => Read(p, u, i) = [registered |-> FALSE, channels |-> << >>, notes |-> {}, outgoing |-> 0]
         /\ u \in p.reg =>
               /\ Read(p, u, i) = [registered |-> TRUE, channels |-> Read(p, u, i).channels,
                                   notes |-> Read(p, u, i).notes, outgoing |-> Read(p, u, i).outgoing]
               /\ Read(p, u, i).channels = [to \in Recipients(u, i) |-> DiscoverChannel(p, u, to)]
               /\ Read(p, u, i).notes = DiscoverNotes(p, u, TokensOf(i))
               /\ Read(p, u, i).outgoing = OutgoingCount(p, u)
         /\ Read(p, u, i)["registered"] = Read(p, u, i).registered
         /\ Read(p, u, i).registered \in BOOLEAN
         /\ Read(p, u, i).registered <=> u \in p.reg
<1> DEFINE channels == [to \in Recipients(u, i) |-> DiscoverChannel(p, u, to)]
           notes == DiscoverNotes(p, u, TokensOf(i))
           count == OutgoingCount(p, u)
           empty == << >>
<1>1. CASE u \in p.reg
  <2>1. Read(p, u, i) = [registered |-> TRUE, channels |-> channels, notes |-> notes, outgoing |-> count]
    BY <1>1 DEF Read, DiscoverState
  <2> HIDE DEF channels, notes, count
  <2>2. /\ Read(p, u, i).registered = TRUE /\ Read(p, u, i).channels = channels
        /\ Read(p, u, i).notes = notes /\ Read(p, u, i).outgoing = count
    BY <2>1
  <2>3. Read(p, u, i) = [registered |-> TRUE, channels |-> Read(p, u, i).channels,
                         notes |-> Read(p, u, i).notes, outgoing |-> Read(p, u, i).outgoing]
    BY <2>1, <2>2
  <2> QED BY <1>1, <2>2, <2>3 DEF channels, notes, count
<1>2. CASE u \notin p.reg
  <2>1. Read(p, u, i) = [registered |-> FALSE, channels |-> empty, notes |-> {}, outgoing |-> 0]
    BY <1>2 DEF Read, DiscoverState
  <2> HIDE DEF empty
  <2>2. Read(p, u, i).registered = FALSE BY <2>1
  <2> QED BY <1>2, <2>1, <2>2 DEF empty
<1> QED BY <1>1, <1>2

\* Finite lists that grow and have the same length in the end have not changed on the way.
LEMMA Sandwich ==
  ASSUME NEW S, NEW M, NEW L, S \subseteq M, M \subseteq L, IsFiniteSet(L), Cardinality(S) = Cardinality(L)
  PROVE  S = M /\ M = L
<1>1. S \subseteq L OBVIOUS
<1>2. S = L BY <1>1, FS_Subset
<1> QED BY <1>2

LEMMA SameCount ==
  ASSUME NEW b, WellFormed(b), NEW s, WellFormed(s), NEW h, WellFormed(h), Grown(b, s), Grown(s, h), NEW u,
         OutgoingCount(h, u) = OutgoingCount(b, u)
  PROVE  OutgoingCount(s, u) = OutgoingCount(b, u)
<1>1. /\ OutgoingCount(h, u) = Cardinality(ChansFrom(h, u))
      /\ OutgoingCount(s, u) = Cardinality(ChansFrom(s, u))
      /\ OutgoingCount(b, u) = Cardinality(ChansFrom(b, u))
  BY ReadsAll
<1>2. IsFiniteSet(ChansFrom(h, u)) BY WellFormedLists
<1>3. ChansFrom(b, u) \subseteq ChansFrom(s, u) /\ ChansFrom(s, u) \subseteq ChansFrom(h, u)
  BY DEF Grown, ChansFrom
<1>4. ChansFrom(b, u) = ChansFrom(s, u) BY <1>1, <1>2, <1>3, Sandwich
<1> QED BY <1>1, <1>4

\* A channel that is the same in two pools.
Kept(b, s, u, to) ==
    /\ HasChannel(b, u, to) <=> HasChannel(s, u, to)
    /\ SubsOf(b, u, to) = SubsOf(s, u, to)
    /\ \A t \in {x.token : x \in SubsOf(b, u, to)} : NotesOf(b, u, to, t) = NotesOf(s, u, to, t)

LEMMA KeptReadsSame ==
  ASSUME NEW b, WellFormed(b), NEW s, WellFormed(s), NEW u, NEW to, Kept(b, s, u, to)
  PROVE  DiscoverChannel(s, u, to) = DiscoverChannel(b, u, to)
<1>1. ReadSubs(b, u, to) = SubsOf(b, u, to) /\ ReadSubs(s, u, to) = SubsOf(s, u, to) BY ReadsAll
<1> DEFINE subsB == IF HasChannel(b, u, to) THEN ReadSubs(b, u, to) ELSE {}
           subsS == IF HasChannel(s, u, to) THEN ReadSubs(s, u, to) ELSE {}
           open(p) == HasChannel(p, u, to)
           free(p, t) == FirstFree(Slots(NotesOf(p, u, to, t)))
           f(p, subs) == [t \in {x.token : x \in subs} |->
                             [index |-> (CHOOSE x \in subs : x.token = t).index, next |-> free(p, t)]]
<1>2. subsB = subsS /\ \A t \in {x.token : x \in subsB} : NotesOf(b, u, to, t) = NotesOf(s, u, to, t)
  BY <1>1 DEF Kept
<1>3. open(b) = open(s) BY DEF Kept, HasChannel
<1>4. DiscoverChannel(b, u, to) = [open |-> open(b), subs |-> f(b, subsB)] BY DEF DiscoverChannel
<1>5. DiscoverChannel(s, u, to) = [open |-> open(s), subs |-> f(s, subsS)] BY DEF DiscoverChannel
<1> HIDE DEF subsB, subsS, open
<1>6. \A t \in {x.token : x \in subsB} : free(b, t) = free(s, t) BY <1>2
<1> HIDE DEF free
<1>7. f(b, subsB) = f(s, subsS) BY <1>2, <1>6
<1> HIDE DEF f
<1> QED BY <1>3, <1>4, <1>5, <1>7

Says(ch, p, u, to) ==
    /\ ch.open <=> HasChannel(p, u, to)
    /\ DOMAIN ch.subs = {x.token : x \in SubsOf(p, u, to)}
    /\ \A t \in DOMAIN ch.subs : ch.subs[t].next = Cardinality(NotesOf(p, u, to, t))

LEMMA ChannelSays ==
  ASSUME NEW p, WellFormed(p), NEW u, NEW to
  PROVE  Says(DiscoverChannel(p, u, to), p, u, to)
<1> DEFINE ch == DiscoverChannel(p, u, to)
<1>1. /\ ch.open <=> HasChannel(p, u, to)
      /\ DOMAIN ch.subs = {s.token : s \in SubsOf(p, u, to)}
      /\ \A t \in DOMAIN ch.subs :
            /\ ch.subs[t] \in [index : Nat, next : Nat]
            /\ ch.subs[t].next = Cardinality(NotesOf(p, u, to, t))
      /\ ch.subs = [t \in DOMAIN ch.subs |-> ch.subs[t]]
      /\ ch = [open |-> HasChannel(p, u, to), subs |-> ch.subs]
  BY ChannelTells
<1> HIDE DEF ch
<1>2. Says(ch, p, u, to) BY <1>1 DEF Says
<1> QED BY <1>2 DEF ch

LEMMA SameChannel ==
  ASSUME NEW b, WellFormed(b), NEW s, WellFormed(s), NEW h, WellFormed(h), Grown(b, s), Grown(s, h), NEW u, NEW to,
         DiscoverChannel(h, u, to) = DiscoverChannel(b, u, to)
  PROVE  DiscoverChannel(s, u, to) = DiscoverChannel(b, u, to)
<1> DEFINE chB == DiscoverChannel(b, u, to)
           chH == DiscoverChannel(h, u, to)
<1>1. /\ chB.open <=> HasChannel(b, u, to)
      /\ DOMAIN chB.subs = {x.token : x \in SubsOf(b, u, to)}
      /\ \A t \in DOMAIN chB.subs : chB.subs[t].next = Cardinality(NotesOf(b, u, to, t))
  <2>1. Says(chB, b, u, to) BY ChannelSays
  <2> QED BY <2>1 DEF Says
<1>2. /\ chH.open <=> HasChannel(h, u, to)
      /\ DOMAIN chH.subs = {x.token : x \in SubsOf(h, u, to)}
      /\ \A t \in DOMAIN chH.subs : chH.subs[t].next = Cardinality(NotesOf(h, u, to, t))
  <2>1. Says(chH, h, u, to) BY ChannelSays
  <2> QED BY <2>1 DEF Says
<1>3. chB = chH OBVIOUS
<1> HIDE DEF chB, chH
<1>4. HasChannel(b, u, to) <=> HasChannel(s, u, to)
  <2>1. HasChannel(b, u, to) => HasChannel(s, u, to) BY DEF HasChannel, Grown
  <2>2. HasChannel(s, u, to) => HasChannel(h, u, to) BY DEF HasChannel, Grown
  <2>3. HasChannel(h, u, to) <=> HasChannel(b, u, to) BY <1>1, <1>2, <1>3
  <2> QED BY <2>1, <2>2, <2>3
<1>5. SubsOf(b, u, to) = SubsOf(s, u, to)
  <2>1. SubsOf(b, u, to) \subseteq SubsOf(s, u, to) /\ SubsOf(s, u, to) \subseteq SubsOf(h, u, to) BY DEF SubsOf, Grown
  <2>2. IsFiniteSet(SubsOf(h, u, to)) BY WellFormedLists
  <2>3. /\ Cardinality(DOMAIN chB.subs) = Cardinality(SubsOf(b, u, to))
        /\ Cardinality(DOMAIN chH.subs) = Cardinality(SubsOf(h, u, to))
    BY <1>1, <1>2, SubTokens
  <2>4. Cardinality(SubsOf(b, u, to)) = Cardinality(SubsOf(h, u, to)) BY <1>3, <2>3
  <2> QED BY <2>1, <2>2, <2>4, Sandwich
<1>6. ASSUME NEW t \in {x.token : x \in SubsOf(b, u, to)} PROVE NotesOf(b, u, to, t) = NotesOf(s, u, to, t)
  <2>1. NotesOf(b, u, to, t) \subseteq NotesOf(s, u, to, t) /\ NotesOf(s, u, to, t) \subseteq NotesOf(h, u, to, t)
    BY DEF NotesOf, Grown
  <2>2. IsFiniteSet(NotesOf(h, u, to, t)) BY WellFormedLists
  <2>3. t \in DOMAIN chB.subs /\ t \in DOMAIN chH.subs BY <1>1, <1>3
  <2>4. Cardinality(NotesOf(b, u, to, t)) = Cardinality(NotesOf(h, u, to, t)) BY <1>1, <1>2, <1>3, <2>3
  <2> QED BY <2>1, <2>2, <2>4, Sandwich
<1>7. Kept(b, s, u, to) BY <1>4, <1>5, <1>6 DEF Kept
<1> QED BY <1>7, KeptReadsSame

\* Notes that were unspent at b and again after s, with none found in the end that was not there at s.
LEMMA SameNotes ==
  ASSUME NEW b, WellFormed(b), NEW s, WellFormed(s), NEW h, WellFormed(h), NEW l, WellFormed(l),
         Grown(b, s), Grown(s, h), Grown(h, l), NEW u, NEW tokens,
         DiscoverNotes(h, u, tokens) = DiscoverNotes(b, u, tokens),
         DiscoverNotes(s, u, tokens) = DiscoverNotes(l, u, tokens)
  PROVE  DiscoverNotes(s, u, tokens) = DiscoverNotes(b, u, tokens)
<1> DEFINE D(p) == DiscoverNotes(p, u, tokens)
<1>1. ASSUME NEW p, WellFormed(p)
      PROVE  \A n : n \in D(p) <=> n \in p.notes /\ n \notin p.nulls /\ n.to = u /\ n.token \in tokens
  <2>1. D(p) = {n \in Unspent(p, p.notes) : n.to = u /\ n.token \in tokens} BY <1>1, DiscoversAll
  <2> QED BY <2>1 DEF Unspent
<1>2. /\ \A n : n \in D(b) <=> n \in b.notes /\ n \notin b.nulls /\ n.to = u /\ n.token \in tokens
      /\ \A n : n \in D(s) <=> n \in s.notes /\ n \notin s.nulls /\ n.to = u /\ n.token \in tokens
      /\ \A n : n \in D(h) <=> n \in h.notes /\ n \notin h.nulls /\ n.to = u /\ n.token \in tokens
      /\ \A n : n \in D(l) <=> n \in l.notes /\ n \notin l.nulls /\ n.to = u /\ n.token \in tokens
  BY <1>1
<1>3. D(h) = D(b) /\ D(s) = D(l) OBVIOUS
<1> HIDE DEF D
<1>4. ASSUME NEW n \in D(b) PROVE n \in D(s)
  <2>1. n \in b.notes /\ n.to = u /\ n.token \in tokens /\ n \notin h.nulls BY <1>2, <1>3
  <2>2. n \in s.notes /\ n \notin s.nulls BY <2>1 DEF Grown
  <2> QED BY <1>2, <2>1, <2>2
<1>5. ASSUME NEW n \in D(s) PROVE n \in D(b)
  <2>1. n \in s.notes /\ n.to = u /\ n.token \in tokens /\ n \notin l.nulls BY <1>2, <1>3
  <2>2. n \in h.notes /\ n \notin h.nulls BY <2>1 DEF Grown
  <2> QED BY <1>2, <1>3, <2>1, <2>2
<1>6. D(s) = D(b) BY <1>4, <1>5
<1> QED BY <1>6 DEF D

\* A part of what was read at b was found again at a pool between s and l.
Between(s, l, h) == WellFormed(h) /\ Grown(s, h) /\ Grown(h, l)

FoundAgain(b, s, l, u, i, part) == \E h : Between(s, l, h) /\ Read(h, u, i)[part] = Read(b, u, i)[part]

\* The second discovery: when each part of the first was found again after s, and nothing the discovery reads has
\* changed from s to l, then what was read is what is still there.
LEMMA ReadStillHolds ==
  ASSUME NEW b, WellFormed(b), NEW s, WellFormed(s), NEW l, WellFormed(l), Grown(b, s), Grown(s, l), NEW u, NEW i,
         Read(s, u, i) = Read(l, u, i),
         FoundAgain(b, s, l, u, i, "registered"),
         u \in b.reg => /\ FoundAgain(b, s, l, u, i, "channels") /\ FoundAgain(b, s, l, u, i, "notes")
                        /\ FoundAgain(b, s, l, u, i, "outgoing")
  PROVE  Read(l, u, i) = Read(b, u, i)
<1>1. CASE u \notin b.reg
  <2>1. PICK h : Between(s, l, h) /\ Read(h, u, i)["registered"] = Read(b, u, i)["registered"] BY DEF FoundAgain
  <2>2. u \notin h.reg
    <3> DEFINE atH == Read(h, u, i).registered
               atB == Read(b, u, i).registered
    <3>1. atH = atB BY <2>1, ReadFields
    <3>2. (atH <=> u \in h.reg) /\ (atB <=> u \in b.reg) BY ReadFields
    <3> HIDE DEF atH, atB
    <3> QED BY <1>1, <3>1, <3>2
  <2>3. u \notin s.reg BY <2>1, <2>2 DEF Between, Grown
  <2>4. Read(s, u, i) = Read(b, u, i)
    <3> DEFINE none == [registered |-> FALSE, channels |-> << >>, notes |-> {}, outgoing |-> 0]
    <3>1. Read(s, u, i) = none BY <2>3, ReadFields
    <3>2. Read(b, u, i) = none BY <1>1, ReadFields
    <3> QED BY <3>1, <3>2
  <2> QED BY <2>4
<1>2. CASE u \in b.reg
  <2>1. u \in s.reg /\ u \in l.reg BY <1>2 DEF Grown
  <2>2. Read(s, u, i).channels = Read(b, u, i).channels
    <3>1. PICK h : Between(s, l, h) /\ Read(h, u, i).channels = Read(b, u, i).channels BY <1>2 DEF FoundAgain
    <3>2. u \in h.reg /\ WellFormed(h) /\ Grown(s, h) BY <2>1, <3>1 DEF Between, Grown
    <3> DEFINE R == Recipients(u, i)
               cB == [to \in R |-> DiscoverChannel(b, u, to)]
               cS == [to \in R |-> DiscoverChannel(s, u, to)]
               cH == [to \in R |-> DiscoverChannel(h, u, to)]
    <3>3. Read(h, u, i).channels = cH /\ Read(b, u, i).channels = cB /\ Read(s, u, i).channels = cS
      BY <1>2, <2>1, <3>2, ReadFields
    <3>4. cH = cB BY <3>1, <3>3
    <3>5. ASSUME NEW to \in R PROVE DiscoverChannel(s, u, to) = DiscoverChannel(b, u, to)
      <4>1. cH[to] = DiscoverChannel(h, u, to) /\ cB[to] = DiscoverChannel(b, u, to) OBVIOUS
      <4>2. DiscoverChannel(h, u, to) = DiscoverChannel(b, u, to) BY <3>4, <4>1
      <4> QED BY <3>2, <4>2, SameChannel
    <3>6. cS = cB BY <3>5
    <3> QED BY <3>3, <3>6
  <2>3. Read(s, u, i).notes = Read(b, u, i).notes
    <3>1. PICK h : Between(s, l, h) /\ Read(h, u, i).notes = Read(b, u, i).notes BY <1>2 DEF FoundAgain
    <3>2. u \in h.reg /\ WellFormed(h) /\ Grown(s, h) /\ Grown(h, l) BY <2>1, <3>1 DEF Between, Grown
    <3> DEFINE T == TokensOf(i)
    <3>3. /\ Read(h, u, i).notes = DiscoverNotes(h, u, T) /\ Read(b, u, i).notes = DiscoverNotes(b, u, T)
          /\ Read(s, u, i).notes = DiscoverNotes(s, u, T) /\ Read(l, u, i).notes = DiscoverNotes(l, u, T)
      BY <1>2, <2>1, <3>2, ReadFields
    <3> HIDE DEF T
    <3>4. DiscoverNotes(h, u, T) = DiscoverNotes(b, u, T) /\ DiscoverNotes(s, u, T) = DiscoverNotes(l, u, T)
      BY <3>1, <3>3
    <3>5. DiscoverNotes(s, u, T) = DiscoverNotes(b, u, T) BY <3>2, <3>4, SameNotes
    <3> QED BY <3>3, <3>5
  <2>4. Read(s, u, i).outgoing = Read(b, u, i).outgoing
    <3>1. PICK h : Between(s, l, h) /\ Read(h, u, i).outgoing = Read(b, u, i).outgoing BY <1>2 DEF FoundAgain
    <3>2. u \in h.reg /\ WellFormed(h) /\ Grown(s, h) BY <2>1, <3>1 DEF Between, Grown
    <3>3. /\ Read(h, u, i).outgoing = OutgoingCount(h, u) /\ Read(b, u, i).outgoing = OutgoingCount(b, u)
          /\ Read(s, u, i).outgoing = OutgoingCount(s, u)
      BY <1>2, <2>1, <3>2, ReadFields
    <3>4. OutgoingCount(h, u) = OutgoingCount(b, u) BY <3>1, <3>3
    <3>5. OutgoingCount(s, u) = OutgoingCount(b, u) BY <3>2, <3>4, SameCount
    <3> QED BY <3>3, <3>5
  <2>5. Read(s, u, i) = [registered |-> TRUE, channels |-> Read(s, u, i).channels,
                         notes |-> Read(s, u, i).notes, outgoing |-> Read(s, u, i).outgoing]
    BY <2>1, ReadFields
  <2>6. Read(b, u, i) = [registered |-> TRUE, channels |-> Read(b, u, i).channels,
                         notes |-> Read(b, u, i).notes, outgoing |-> Read(b, u, i).outgoing]
    BY <1>2, ReadFields
  <2>7. Read(s, u, i) = Read(b, u, i)
    <3> DEFINE x == Read(s, u, i)
               y == Read(b, u, i)
    <3> HIDE DEF x, y
    <3>1. x.channels = y.channels /\ x.notes = y.notes /\ x.outgoing = y.outgoing BY <2>2, <2>3, <2>4 DEF x, y
    <3>2. /\ x = [registered |-> TRUE, channels |-> x.channels, notes |-> x.notes, outgoing |-> x.outgoing]
          /\ y = [registered |-> TRUE, channels |-> y.channels, notes |-> y.notes, outgoing |-> y.outgoing]
      BY <2>5, <2>6 DEF x, y
    <3>3. x = y BY <3>1, <3>2
    <3> QED BY <3>3 DEF x, y
  <2> QED BY <2>7
<1> QED BY <1>1, <1>2

LEMMA SoundRereads ==
  ASSUME Sound, NEW r \in Requests, req[r].stage \in Planned, NEW k \in 1..4, NEW p, p = Pool(req[r].block),
         k = 1 \/ Owner \in p.reg
  PROVE  FoundAgain(p, Pool(req[r].since), Latest, Owner, req[r].intent, Parts[k])
<1> DEFINE q == req[r]
           st == StateAt(chain, q.block, q.intent)
<1>1. ChainOk(chain) /\ ReqOk(chain, q) /\ q.stage \in Planned BY DEF Sound
<1> HIDE DEF q
<1>2. HoldsPlan(chain, q) /\ q.block \in 0..(Len(chain) - 1) /\ q.since \in 0..(Len(chain) - 1) BY <1>1 DEF ReqOk
<1>3. st = Read(p, Owner, q.intent)
  <2>1. p = chain[q.block + 1] BY DEF Pool, q
  <2> QED BY <2>1 DEF StateAt, Read
<1>4. st.registered <=> Owner \in p.reg
  <2> DEFINE atP == Read(p, Owner, q.intent).registered
             held == st.registered
  <2>1. atP <=> Owner \in p.reg BY ReadFields
  <2>2. held = atP BY <1>3
  <2> HIDE DEF atP, held
  <2>3. held <=> Owner \in p.reg BY <2>1, <2>2
  <2> QED BY <2>3 DEF held
<1>5. k = 1 \/ st.registered => Reread(chain, q.since, q.intent, st, k)
  <2> HIDE DEF st
  <2>1. \A j \in 1..4 : j = 1 \/ st.registered => Reread(chain, q.since, q.intent, st, j)
    BY <1>2 DEF HoldsPlan, st
  <2> QED BY <2>1
<1>6. Reread(chain, q.since, q.intent, st, k) BY <1>4, <1>5
<1> HIDE DEF st
<1>7. PICK h \in q.since..(Len(chain) - 1) : StateAt(chain, h, q.intent)[Parts[k]] = st[Parts[k]] BY <1>6 DEF Reread
<1> DEFINE at == chain[h + 1]
           s == chain[q.since + 1]
<1>8. /\ Len(chain) \in Nat /\ Latest = chain[Len(chain)] /\ h + 1 \in 1..Len(chain)
      /\ q.since + 1 \in 1..Len(chain) /\ Len(chain) \in 1..Len(chain) /\ q.since + 1 <= h + 1 /\ h + 1 <= Len(chain)
  BY <1>1, <1>2, <1>7, ChainFacts
<1>9. WellFormed(at) /\ Grown(s, at) /\ Grown(at, Latest) BY <1>1, <1>8 DEF ChainOk
<1>10. Read(at, Owner, q.intent)[Parts[k]] = Read(p, Owner, q.intent)[Parts[k]] BY <1>3, <1>7 DEF StateAt, Read
<1>11. s = Pool(req[r].since) BY DEF Pool, q
<1> HIDE DEF at, s
<1>12. FoundAgain(p, s, Latest, Owner, q.intent, Parts[k]) BY <1>9, <1>10 DEF FoundAgain, Between
<1> QED BY <1>11, <1>12 DEF q

LEMMA SoundIsStaleOnlyByRace == Sound => StaleOnlyByRace
<1> SUFFICES ASSUME Sound, NEW r \in Requests, req[r].stage \in Planned,
                    DiscoverState(Pool(req[r].since), Owner, req[r].intent)
                       = DiscoverState(Latest, Owner, req[r].intent)
             PROVE  Accepts(Latest, Owner, req[r].batch)
  BY DEF StaleOnlyByRace, HasBatch
<1> DEFINE i == req[r].intent
           b == Pool(req[r].block)
           s == Pool(req[r].since)
           l == Latest
           batch == req[r].batch
<1>1. /\ req[r].block \in 0..Height /\ req[r].since \in 0..Height /\ req[r].block <= req[r].since
      /\ IsIntent(i, AllTokens) /\ Reachable(b, Owner, i)
      /\ batch = PlanBatch(Owner, DiscoverState(b, Owner, i), i) /\ batch \notin Errors
  BY HoldersPlan
<1>2. ChainOk(chain) BY DEF Sound
<1>3. /\ WellFormed(b) /\ WellFormed(s) /\ WellFormed(l) /\ Grown(b, l) /\ Grown(s, l)
  BY <1>1, <1>2, ChainFacts
<1>4. Grown(b, s)
  <2>1. /\ req[r].block + 1 \in 1..Len(chain) /\ req[r].since + 1 \in 1..Len(chain)
        /\ req[r].block + 1 <= req[r].since + 1
    BY <1>1, <1>2, ChainFacts
  <2>2. Grown(chain[req[r].block + 1], chain[req[r].since + 1]) BY <1>2, <2>1 DEF ChainOk
  <2> QED BY <2>2 DEF Pool
<1>5. Read(s, Owner, i) = Read(l, Owner, i) BY DEF Read
<1>6. /\ Parts[1] = "registered" /\ Parts[2] = "channels" /\ Parts[3] = "notes" /\ Parts[4] = "outgoing"
  BY DEF Parts
<1>7. FoundAgain(b, s, l, Owner, i, Parts[1]) BY SoundRereads
<1>8. Owner \in b.reg => /\ FoundAgain(b, s, l, Owner, i, Parts[2]) /\ FoundAgain(b, s, l, Owner, i, Parts[3])
                         /\ FoundAgain(b, s, l, Owner, i, Parts[4])
  BY SoundRereads
<1> HIDE DEF i, b, s, l, batch
<1>9. Read(l, Owner, i) = Read(b, Owner, i) BY <1>3, <1>4, <1>5, <1>6, <1>7, <1>8, ReadStillHolds
<1>10. batch = PlanBatch(Owner, DiscoverState(l, Owner, i), i) BY <1>1, <1>9 DEF Read
<1>11. Reachable(l, Owner, i)
  <2>1. Owner \in b.reg <=> Owner \in l.reg
    <3> DEFINE atL == Read(l, Owner, i).registered
               atB == Read(b, Owner, i).registered
    <3>1. atL = atB BY <1>9
    <3>2. (atL <=> Owner \in l.reg) /\ (atB <=> Owner \in b.reg) BY ReadFields
    <3> HIDE DEF atL, atB
    <3> QED BY <3>1, <3>2
  <2>2. b.reg \subseteq l.reg BY <1>3 DEF Grown
  <2> QED BY <1>1, <2>1, <2>2 DEF Reachable
<1>12. Accepts(l, Owner, batch) BY <1>1, <1>3, <1>10, <1>11, PlanIsAccepted
<1> QED BY <1>12 DEF l, batch

\* The second discovery does its work: a batch the head of the chain no longer takes is one whose state was changed
\* after that discovery began.  Its four reads may each be answered from another block, and still what they confirm is
\* what the whole discovery would have found when they began (mod.rs, prepare and same_state).
THEOREM StaleOnlyByRaceHolds == Spec => []StaleOnlyByRace
BY SoundHolds, SoundIsStaleOnlyByRace, PTL

--------------------------------------------------------------------------------
(* What a list holds for one user and one token.                           *)

TotalTo(list, u, t) == FoldLeft(LAMBDA sum, x : IF x.token = t /\ x.to = u THEN sum + x.amount ELSE sum, 0, list)

WeightsTo(list, u, t) == [k \in 1..Len(list) |-> IF list[k].token = t /\ list[k].to = u THEN list[k].amount ELSE 0]

LEMMA MoneyWeightsTo ==
  ASSUME NEW list, Money(list), NEW u, NEW t
  PROVE  /\ Len(list) \in Nat /\ DOMAIN list = 1..Len(list)
         /\ \A k \in 1..Len(list) :
               /\ WeightsTo(list, u, t)[k] = IF list[k].token = t /\ list[k].to = u THEN list[k].amount ELSE 0
               /\ WeightsTo(list, u, t)[k] \in Nat
BY DEF Money, WeightsTo

\* The fold adds the weights up.
LEMMA TotalToIsSum ==
  ASSUME NEW list, Money(list), NEW u, NEW t
  PROVE  TotalTo(list, u, t) = SumOf(WeightsTo(list, u, t), Len(list)) /\ TotalTo(list, u, t) \in Nat
<1> DEFINE n == Len(list)
           w == WeightsTo(list, u, t)
           Rec(f) == f = [s \in SUBSET DOMAIN list |->
                        IF s = {} THEN 0
                        ELSE IF list[Max(s)].token = t /\ list[Max(s)].to = u THEN f[s \ {Max(s)}] + list[Max(s)].amount
                             ELSE f[s \ {Max(s)}]]
           iter == CHOOSE f : Rec(f)
           step == [p \in (1..n) \X Nat |-> IF list[p[1]].token = t /\ list[p[1]].to = u
                                            THEN p[2] + list[p[1]].amount ELSE p[2]]
<1>1. TotalTo(list, u, t) = iter[DOMAIN list] BY DEF TotalTo, FoldLeft, MapThenFoldSet
<1>2. n \in Nat /\ DOMAIN list = 1..n /\ \A k \in 1..n : list[k].amount \in Nat BY MoneyWeightsTo DEF Money
<1>3. \A k \in 1..n : /\ w[k] \in Nat
                      /\ w[k] = IF list[k].token = t /\ list[k].to = u THEN list[k].amount ELSE 0
  BY MoneyWeightsTo
<1> HIDE DEF n, w
<1>4. \A x \in 1..n, v \in Nat :
         step[<<x, v>>] = (IF list[x].token = t /\ list[x].to = u THEN v + list[x].amount ELSE v)
  <2> TAKE x \in 1..n, v \in Nat
  <2>1. <<x, v>> \in (1..n) \X Nat /\ <<x, v>>[1] = x /\ <<x, v>>[2] = v OBVIOUS
  <2> QED BY <2>1
<1> HIDE DEF step
<1>5. \A x \in 1..n, v \in Nat : step[<<x, v>>] = v + w[x]
  <2> TAKE x \in 1..n, v \in Nat
  <2>1. list[x].amount \in Nat BY <1>2
  <2> QED BY <1>3, <1>4, <2>1
<1>6. Closed(step, 1..n, Nat)
  <2>1. \A x \in 1..n, v \in Nat : step[<<x, v>>] \in Nat
    <3> TAKE x \in 1..n, v \in Nat
    <3>1. w[x] \in Nat BY <1>3
    <3> QED BY <1>5, <3>1
  <2> QED BY <2>1 DEF Closed
<1>7. Rec(iter)
  <2>1. PICK it : IsPrefixFold(it, n, Nat, 0, step) BY <1>2, <1>6, FoldPrefixes
  <2>2. it = [T \in SUBSET (1..n) |-> IF T = {} THEN 0 ELSE step[<<Max(T), it[T \ {Max(T)}]>>]]
    BY <2>1 DEF IsPrefixFold
  <2>3. \A T \in SUBSET (1..n) : T # {} => Max(T) \in 1..n /\ it[T \ {Max(T)}] \in Nat
    BY <1>2, <2>1, MaxIsMember DEF IsPrefixFold
  <2>4. ASSUME NEW T \in SUBSET (1..n), T # {}
        PROVE  step[<<Max(T), it[T \ {Max(T)}]>>] =
                  IF list[Max(T)].token = t /\ list[Max(T)].to = u
                  THEN it[T \ {Max(T)}] + list[Max(T)].amount ELSE it[T \ {Max(T)}]
    BY <1>4, <2>3, <2>4
  <2>5. Rec(it) BY <1>2, <2>2, <2>4
  <2> QED BY <2>5
<1>8. iter = [s \in SUBSET DOMAIN list |->
                 IF s = {} THEN 0
                 ELSE IF list[Max(s)].token = t /\ list[Max(s)].to = u THEN iter[s \ {Max(s)}] + list[Max(s)].amount
                      ELSE iter[s \ {Max(s)}]]
  BY <1>7
<1> HIDE DEF iter, Rec
<1>9. PICK acc : IsRun(acc, n, Nat, 0, step, iter[1..n])
  <2>1. iter[{}] = 0 BY <1>8
  <2>2. ASSUME NEW T \in SUBSET (1..n), T # {}, iter[T \ {Max(T)}] \in Nat
        PROVE  iter[T] = step[<<Max(T), iter[T \ {Max(T)}]>>]
    <3>1. Max(T) \in 1..n BY <1>2, <2>2, MaxIsMember
    <3>2. iter[T] = IF list[Max(T)].token = t /\ list[Max(T)].to = u
                    THEN iter[T \ {Max(T)}] + list[Max(T)].amount ELSE iter[T \ {Max(T)}]
      BY <1>2, <1>8, <2>2
    <3> QED BY <1>4, <2>2, <3>1, <3>2
  <2>3. \A T \in SUBSET (1..n) : T # {} /\ iter[T \ {Max(T)}] \in Nat =>
           iter[T] = step[<<Max(T), iter[T \ {Max(T)}]>>]
    BY <2>2
  <2>4. Steps(iter, n, Nat, 0, step) BY <2>1, <2>3 DEF Steps
  <2> QED BY <1>2, <1>6, <2>4, FoldIsRun
<1>10. acc[0] = 0 /\ \A k \in 1..n : acc[k] = acc[k - 1] + w[k]
  <2>1. acc[0] = 0 BY <1>9 DEF IsRun
  <2>2. ASSUME NEW k \in 1..n PROVE acc[k] = acc[k - 1] + w[k]
    <3>1. k - 1 \in 0..n BY <1>2
    <3>2. acc[k - 1] \in Nat /\ acc[k] = step[<<k, acc[k - 1]>>] BY <1>9, <3>1 DEF IsRun
    <3> QED BY <1>5, <3>2
  <2> QED BY <2>1, <2>2
<1>11. SumOf(w, n) = acc[n] /\ SumOf(w, n) \in Nat
  <2>1. Counts(w, n) BY <1>3 DEF Counts
  <2>2. AddsUp(acc, w, n) BY <1>10 DEF AddsUp
  <2> QED BY <1>2, <2>1, <2>2, SumIs
<1>12. acc[n] = iter[1..n] BY <1>9 DEF IsRun
<1> QED BY <1>1, <1>2, <1>11, <1>12 DEF n, w

LEMMA TotalToSame ==
  ASSUME NEW s, Money(s), NEW r, Money(r), Len(r) = Len(s),
         \A k \in 1..Len(s) : r[k].to = s[k].to /\ r[k].token = s[k].token /\ r[k].amount = s[k].amount
  PROVE  \A u, t : TotalTo(r, u, t) = TotalTo(s, u, t)
<1> TAKE u, t
<1> DEFINE n == Len(s)
           v == WeightsTo(r, u, t)
           w == WeightsTo(s, u, t)
<1>1. n \in Nat /\ \A k \in 1..n : w[k] \in Nat /\ w[k] = IF s[k].token = t /\ s[k].to = u THEN s[k].amount ELSE 0
  BY MoneyWeightsTo
<1>2. \A k \in 1..n : v[k] = IF r[k].token = t /\ r[k].to = u THEN r[k].amount ELSE 0 BY MoneyWeightsTo
<1>3. TotalTo(r, u, t) = SumOf(v, n) /\ TotalTo(s, u, t) = SumOf(w, n) BY TotalToIsSum
<1>4. \A k \in 1..n : r[k].to = s[k].to /\ r[k].token = s[k].token /\ r[k].amount = s[k].amount OBVIOUS
<1> HIDE DEF n, v, w
<1>5. \A k \in 1..n : v[k] = w[k] BY <1>1, <1>2, <1>4
<1>6. \A k \in 1..n : w[k] \in Nat BY <1>1
<1>7. SumOf(v, n) = SumOf(w, n) BY <1>1, <1>5, <1>6, SumSame
<1> QED BY <1>3, <1>7

LEMMA TotalToConcat ==
  ASSUME NEW s, Money(s), NEW r, Money(r), NEW u, NEW t
  PROVE  TotalTo(s \o r, u, t) = TotalTo(s, u, t) + TotalTo(r, u, t)
<1> DEFINE n == Len(s)
           m == Len(r)
           c == s \o r
           w == WeightsTo(c, u, t)
           v == WeightsTo(r, u, t)
           x == WeightsTo(s, u, t)
<1>1. Money(c) BY TotalInConcat
<1>2. /\ n \in Nat /\ m \in Nat /\ Len(c) = n + m
      /\ \A k \in 1..n : c[k] = s[k]
      /\ \A k \in 1..m : c[n + k] = r[k]
  BY DEF Money
<1>3. \A k \in 1..n : x[k] = IF s[k].token = t /\ s[k].to = u THEN s[k].amount ELSE 0 BY MoneyWeightsTo
<1>4. \A k \in 1..m : v[k] = IF r[k].token = t /\ r[k].to = u THEN r[k].amount ELSE 0 BY MoneyWeightsTo
<1>5. TotalTo(s, u, t) = SumOf(x, n) /\ TotalTo(r, u, t) = SumOf(v, m) BY TotalToIsSum
<1>6. \A k \in 1..n : x[k] \in Nat BY MoneyWeightsTo
<1> HIDE DEF c
<1>7. \A k \in 1..Len(c) : w[k] \in Nat /\ w[k] = IF c[k].token = t /\ c[k].to = u THEN c[k].amount ELSE 0
  BY <1>1, MoneyWeightsTo
<1>8. TotalTo(c, u, t) = SumOf(w, Len(c)) BY <1>1, TotalToIsSum
<1> HIDE DEF n, m, w, v, x
<1>9. \A k \in 1..(n + m) : w[k] \in Nat BY <1>2, <1>7
<1>10. \A k \in 1..m : v[k] = w[n + k]
  <2> TAKE k \in 1..m
  <2>1. n + k \in 1..Len(c) /\ c[n + k] = r[k] BY <1>2
  <2> QED BY <1>4, <1>7, <2>1
<1>11. \A k \in 1..n : w[k] = x[k]
  <2> TAKE k \in 1..n
  <2>1. k \in 1..Len(c) /\ c[k] = s[k] BY <1>2
  <2> QED BY <1>3, <1>7, <2>1
<1>12. SumOf(w, n + m) = SumOf(w, n) + SumOf(v, m) BY <1>2, <1>9, <1>10, SumConcat
<1>13. SumOf(w, n) = SumOf(x, n) BY <1>2, <1>6, <1>11, SumSame
<1>14. TotalTo(c, u, t) = SumOf(w, n + m) BY <1>2, <1>8
<1> QED BY <1>5, <1>12, <1>13, <1>14 DEF c

LEMMA TotalToOne ==
  ASSUME NEW s, Money(s), NEW user, \A k \in 1..Len(s) : s[k].to = user, NEW u, NEW t
  PROVE  TotalTo(s, u, t) = IF u = user THEN TotalIn(s, t) ELSE 0
<1> DEFINE n == Len(s)
           v == WeightsTo(s, u, t)
           w == Weights(s, t)
           z == [k \in 0..n |-> 0]
<1>1. n \in Nat /\ \A k \in 1..n : w[k] \in Nat /\ w[k] = IF s[k].token = t THEN s[k].amount ELSE 0
  BY MoneyWeights
<1>2. \A k \in 1..n : v[k] \in Nat /\ v[k] = IF s[k].token = t /\ s[k].to = u THEN s[k].amount ELSE 0
  BY MoneyWeightsTo
<1>3. TotalTo(s, u, t) = SumOf(v, n) /\ TotalIn(s, t) = SumOf(w, n) BY TotalToIsSum, TotalInIsSum
<1>4. \A k \in 1..n : s[k].to = user OBVIOUS
<1>5. z[0] = 0 /\ \A k \in 1..n : z[k] = 0 /\ z[k - 1] = 0
  <2>1. 0 \in 0..n /\ \A k \in 1..n : k \in 0..n /\ k - 1 \in 0..n BY <1>1
  <2> QED BY <2>1
<1> HIDE DEF n, v, w, z
<1>6. \A k \in 1..n : v[k] \in Nat /\ w[k] \in Nat BY <1>1, <1>2
<1>7. CASE u = user
  <2>1. \A k \in 1..n : v[k] = w[k] BY <1>1, <1>2, <1>4, <1>7
  <2>2. \A k \in 1..n : w[k] \in Nat BY <1>6
  <2>3. SumOf(v, n) = SumOf(w, n) BY <1>1, <2>1, <2>2, SumSame
  <2> QED BY <1>3, <1>7, <2>3
<1>8. CASE u # user
  <2>1. \A k \in 1..n : v[k] = 0 BY <1>2, <1>4, <1>8
  <2>2. \A k \in 1..n : z[k] = z[k - 1] + v[k] BY <1>5, <2>1
  <2>3. \A k \in 1..n : v[k] \in Nat BY <1>6
  <2>4. z[0] = 0 BY <1>5
  <2>5. SumOf(v, n) = z[n]
    <3>1. Counts(v, n) BY <2>3 DEF Counts
    <3>2. AddsUp(z, v, n) BY <2>2, <2>4 DEF AddsUp
    <3> QED BY <1>1, <3>1, <3>2, SumIs
  <2>6. z[n] = 0
    <3>1. n = 0 \/ n \in 1..n BY <1>1
    <3> QED BY <1>5, <3>1
  <2> QED BY <1>3, <1>8, <2>5, <2>6
<1> QED BY <1>7, <1>8

\* The set of the items some indices pick, each once, is worth what those indices weigh.
Picked(f, P) == {f[k] : k \in P}

LEMMA TotalOfPicked ==
  ASSUME NEW n \in Nat, NEW w, \A k \in 1..n : w[k] \in Nat, NEW f, NEW P, P \subseteq 1..n,
         \A k \in P : f[k].amount = w[k], \A k \in (1..n) \ P : w[k] = 0,
         \A j, k \in P : f[j] = f[k] => j = k
  PROVE  TotalOf(Picked(f, P)) = SumOf(w, n)
<1> DEFINE Part(k) == {f[j] : j \in {x \in P : x <= k}}
           T == {k \in Nat : k <= n => TotalOf(Part(k)) = SumOf(w, k)}
<1>0. \A x \in P : x \in Nat /\ x <= n OBVIOUS
<1>1. SumOf(w, 0) = 0 /\ \A k \in 1..n : SumOf(w, k) \in Nat /\ SumOf(w, k) = SumOf(w, k - 1) + w[k]
  BY SumUnfolds
<1>2. 0 \in T
  <2>1. Part(0) = {} OBVIOUS
  <2> QED BY <1>1, <2>1, TotalOfEmpty
<1>3. ASSUME NEW k \in Nat, k \in T PROVE k + 1 \in T
  <2> SUFFICES ASSUME k + 1 <= n PROVE TotalOf(Part(k + 1)) = SumOf(w, k + 1) OBVIOUS
  <2>1. k + 1 \in 1..n /\ (k + 1) - 1 = k OBVIOUS
  <2>6. \A x \in P : x <= k + 1 <=> x <= k \/ x = k + 1 BY <1>0
  <2>2. TotalOf(Part(k)) = SumOf(w, k) BY <1>3, <2>1
  <2>3. SumOf(w, k + 1) = SumOf(w, k) + w[k + 1] BY <1>1, <2>1
  <2>4. CASE k + 1 \notin P
    <3>1. {x \in P : x <= k + 1} = {x \in P : x <= k} BY <2>4, <2>6
    <3>2. Part(k + 1) = Part(k) BY <3>1
    <3>3. w[k + 1] = 0 BY <2>1, <2>4
    <3>4. SumOf(w, k) \in Nat
      <4>1. k = 0 \/ k \in 1..n BY <2>1
      <4> QED BY <1>1, <4>1
    <3>5. SumOf(w, k + 1) = SumOf(w, k) BY <2>3, <3>3, <3>4
    <3> HIDE DEF Part
    <3> QED BY <2>2, <3>2, <3>5
  <2>5. CASE k + 1 \in P
    <3> DEFINE Q == {x \in P : x <= k}
    <3>1. {x \in P : x <= k + 1} = Q \cup {k + 1} BY <2>5, <2>6
    <3>2. Part(k + 1) = Part(k) \cup {f[k + 1]} BY <3>1
    <3>3. f[k + 1] \notin Part(k)
      <4>1. \A j \in Q : j \in P /\ j # k + 1 OBVIOUS
      <4> QED BY <2>5, <4>1
    <3>4. IsFiniteSet(Part(k)) /\ \A x \in Part(k) : x.amount \in Nat
      <4>1. IsFiniteSet(1..n) BY FS_Interval
      <4>2. IsFiniteSet(Q) /\ \A j \in Q : f[j].amount \in Nat
        <5>1. Q \subseteq 1..n OBVIOUS
        <5>2. IsFiniteSet(Q) BY <4>1, <5>1, FS_Subset
        <5>3. \A j \in Q : j \in P /\ j \in 1..n OBVIOUS
        <5>4. \A j \in Q : f[j].amount = w[j] /\ w[j] \in Nat BY <5>3
        <5> QED BY <5>2, <5>4
      <4> HIDE DEF Q
      <4>3. [j \in Q |-> f[j]] \in Surjection(Q, {f[j] : j \in Q}) BY DEF Surjection
      <4>4. IsFiniteSet({f[j] : j \in Q}) BY <4>2, <4>3, FS_Surjection
      <4>5. \A x \in {f[j] : j \in Q} : x.amount \in Nat BY <4>2
      <4> QED BY <4>4, <4>5 DEF Q
    <3>5. f[k + 1].amount = w[k + 1] /\ w[k + 1] \in Nat BY <2>1, <2>5
    <3> HIDE DEF Part
    <3>6. TotalOf(Part(k + 1)) = TotalOf(Part(k)) + f[k + 1].amount BY <3>2, <3>3, <3>4, <3>5, TotalOfAdd
    <3> QED BY <2>2, <2>3, <3>5, <3>6
  <2> QED BY <2>4, <2>5
<1> HIDE DEF T
<1>4. n \in T BY <1>2, <1>3, NatSetInduction
<1>5. TotalOf(Part(n)) = SumOf(w, n) BY <1>4 DEF T
<1>6. {x \in P : x <= n} = P BY <1>0
<1>7. Part(n) = Picked(f, P) BY <1>6 DEF Picked
<1> QED BY <1>5, <1>7

LEMMA LedgerReceives ==
  ASSUME NEW i, NEW u, NEW t
  PROVE  Ledger!Receives(i, u, t) = TotalTo(i.transfers, u, t)
BY DEF Ledger!Receives, Ledger!Sum, TotalTo, FoldLeft, MapThenFoldSet, Ledger!FoldLeft, Ledger!MapThenFoldSet, Max,
       Ledger!Max

LEMMA LedgerPays ==
  ASSUME NEW i, NEW t
  PROVE  Ledger!Pays(i, t) = TotalIn(i.transfers \o i.withdrawals, t) - TotalIn(i.deposits, t)
BY DEF Ledger!Pays, Ledger!Sum, TotalIn, FoldLeft, MapThenFoldSet, Ledger!FoldLeft, Ledger!MapThenFoldSet, Max,
       Ledger!Max

LEMMA LedgerPaysDeficit ==
  ASSUME NEW i, NEW tokens, IsIntent(i, tokens), NEW t
  PROVE  Ledger!Pays(i, t) = Deficit(i, t)
<1>1. Money(i.transfers) /\ Money(i.withdrawals) BY IntentLists
<1>2. TotalIn(i.transfers \o i.withdrawals, t) = TotalIn(i.transfers, t) + TotalIn(i.withdrawals, t)
  BY <1>1, TotalInConcat
<1>3. Ledger!Pays(i, t) = TotalIn(i.transfers \o i.withdrawals, t) - TotalIn(i.deposits, t) BY LedgerPays
<1>4. Deficit(i, t) = TotalIn(i.transfers, t) + TotalIn(i.withdrawals, t) - TotalIn(i.deposits, t) BY DEF Deficit
<1>5. TotalIn(i.transfers, t) \in Nat /\ TotalIn(i.withdrawals, t) \in Nat /\ TotalIn(i.deposits, t) \in Nat
  BY <1>1, IntentLists, TotalInIsSum
<1> QED BY <1>2, <1>3, <1>4, <1>5

\* What a plan does to balances: the new notes carry the transfers, and what the planning user spends comes back to
\* that user, all but the deficit.
Settles(user, i, b) ==
    /\ Money(b.creates) /\ Money(b.uses)
    /\ \A u, t : TotalTo(b.creates, u, t) = TotalTo(i.transfers, u, t)
                                              + (IF u = user THEN TotalIn(b.uses, t) - Deficit(i, t) ELSE 0)

LEMMA NewNotesTo ==
  ASSUME NEW user, NEW st, NEW i, NEW tokens, IsIntent(i, tokens), Readable(st), Covered(st, i), NEW u, NEW t
  PROVE  TotalTo(NewNotes(user, st, i), u, t) =
            TotalTo(i.transfers, u, t) + (IF u = user THEN TotalIn(ChangeNotes(user, st, i), t) ELSE 0)
<1> DEFINE c == ChangeNotes(user, st, i)
           r == i.transfers
<1>1. Money(r) BY IntentLists
<1>2. Money(c) /\ \A k \in 1..Len(c) : c[k].to = user BY ChangeNotesFacts
<1>3. NewNotes(user, st, i) = r \o c BY DEF NewNotes
<1> HIDE DEF c, r
<1>4. TotalTo(r \o c, u, t) = TotalTo(r, u, t) + TotalTo(c, u, t) BY <1>1, <1>2, TotalToConcat
<1>5. TotalTo(c, u, t) = IF u = user THEN TotalIn(c, t) ELSE 0 BY <1>2, TotalToOne
<1> QED BY <1>3, <1>4, <1>5 DEF c, r

\* Change is what is spent beyond the deficit, of the tokens an intent names and of all others.
LEMMA ChangeIsTheRest ==
  ASSUME NEW user, NEW st, NEW i, NEW tokens, IsIntent(i, tokens), Readable(st), Covered(st, i), NEW t
  PROVE  /\ Money(Uses(st, i))
         /\ TotalIn(ChangeNotes(user, st, i), t) = TotalIn(Uses(st, i), t) - Deficit(i, t)
<1> DEFINE c == ChangeNotes(user, st, i)
           uses == Uses(st, i)
<1>1. /\ Money(c) /\ \A k \in 1..Len(c) : c[k].token \in Named(i)
      /\ \A x \in Named(i) : TotalIn(c, x) = Change(st, i, x)
  BY ChangeNotesFacts
<1>2. UsesSoFar(uses, Named(i), st, i) BY UsesFacts
<1>3. /\ OnceEach(uses, st.notes) /\ \A n \in ToSet(uses) : n.token \in Named(i)
      /\ \A x \in Named(i) : TotalIn(uses, x) = TotalIn(Spends(st, i, x), x)
  BY <1>2 DEF UsesSoFar
<1>4. Money(uses) BY <1>3, OnceEachMoney DEF Readable
<1>5. Money(i.deposits) /\ Money(i.transfers) /\ Money(i.withdrawals) BY IntentLists
<1> HIDE DEF c, uses
<1>6. CASE t \in Named(i)
  <2>1. TotalIn(Spends(st, i, t), t) = Deficit(i, t) + Change(st, i, t) /\ Change(st, i, t) \in Nat BY <1>6, CoveredFacts
  <2>2. Deficit(i, t) \in Int BY IntentLists
  <2>3. TotalIn(uses, t) = Deficit(i, t) + TotalIn(c, t) /\ TotalIn(c, t) \in Nat BY <1>1, <1>3, <1>6, <2>1
  <2>4. TotalIn(c, t) = TotalIn(uses, t) - Deficit(i, t) BY <2>2, <2>3
  <2> QED BY <1>4, <2>4 DEF c, uses
<1>7. CASE t \notin Named(i)
  <2>1. TotalIn(c, t) = 0
    <3>1. \A k \in 1..Len(c) : c[k].token # t BY <1>1, <1>7
    <3> QED BY <1>1, <3>1, TotalInNone
  <2>2. TotalIn(uses, t) = 0
    <3>1. \A k \in 1..Len(uses) : uses[k].token # t
      <4>1. ToSet(uses) = {uses[k] : k \in 1..Len(uses)} BY <1>4, SeqFacts DEF Money
      <4> QED BY <1>3, <1>7, <4>1
    <3> QED BY <1>4, <3>1, TotalInNone
  <2>3. \A list \in {i.deposits, i.transfers, i.withdrawals} : TotalIn(list, t) = 0
    <3> SUFFICES ASSUME NEW list \in {i.deposits, i.transfers, i.withdrawals} PROVE TotalIn(list, t) = 0 OBVIOUS
    <3>1. Money(list) BY <1>5
    <3>2. ToSet(list) = {list[k] : k \in 1..Len(list)} BY <3>1, SeqFacts DEF Money
    <3>3. \A x \in ToSet(list) : x.token \in Named(i) BY NamedFacts
    <3>4. \A k \in 1..Len(list) : list[k].token # t BY <1>7, <3>2, <3>3
    <3> QED BY <3>1, <3>4, TotalInNone
  <2>4. Deficit(i, t) = 0 BY <2>3 DEF Deficit
  <2>5. TotalIn(c, t) = TotalIn(uses, t) - Deficit(i, t) BY <2>1, <2>2, <2>4
  <2> QED BY <1>4, <2>5 DEF c, uses
<1> QED BY <1>6, <1>7

LEMMA PlanSettles ==
  ASSUME NEW p, WellFormed(p), NEW u, NEW i, NEW tokens, IsIntent(i, tokens), Reachable(p, u, i),
         NEW b, b = PlanBatch(u, DiscoverState(p, u, i), i), b \notin Errors
  PROVE  Settles(u, i, b)
<1> DEFINE st == DiscoverState(p, u, i)
           acc == Placed(u, st, i)
           notes == NewNotes(u, st, i)
<1>1. PlanBatch(u, st, i) \notin Errors /\ b = PlanBatch(u, st, i) OBVIOUS
<1>2. st = DiscoverState(p, u, i) OBVIOUS
<1> HIDE DEF st
<1>3. ~Unregistered(st, i) /\ Covered(st, i) BY <1>1, PlanOf
<1>4. PlanBatch(u, st, i) =
         [register |-> Registering(st, i), opens |-> acc.opens, subs |-> acc.subs,
          deposits |-> i.deposits, uses |-> Uses(st, i), creates |-> acc.creates, withdrawals |-> i.withdrawals]
  BY <1>1, PlanOf
<1>5. StateTold(p, u, st, i) BY <1>2, <1>3, StateTells
<1>6. Readable(st) BY <1>5 DEF StateTold
<1>7. PlanTells(u, st, i, p) BY <1>1, <1>2, PlacedTold
<1>8. Places(acc, notes, Len(notes)) BY <1>7 DEF PlanTells
<1>9. Fits(p, u, b) BY PlanFits
<1> HIDE DEF acc
<1>10. b.creates = acc.creates /\ b.uses = Uses(st, i) BY <1>1, <1>4
<1>11. CreatesFit(p, u, b.subs, b.creates) BY <1>9 DEF Fits
<1>12. IsList(b.creates) /\ \A c \in ToSet(b.creates) : c.amount \in Nat BY <1>11 DEF CreatesFit
<1>13. Money(b.creates)
  <2>1. ToSet(b.creates) = {b.creates[k] : k \in 1..Len(b.creates)} BY <1>12, SeqFacts DEF IsList
  <2> QED BY <1>12, <2>1 DEF Money, IsList
<1>14. Money(notes) BY <1>3, <1>6, NewNotesFacts
<1> HIDE DEF notes
<1>15. /\ Len(b.creates) = Len(notes)
       /\ \A j \in 1..Len(notes) :
             /\ b.creates[j].to = notes[j].to /\ b.creates[j].token = notes[j].token
             /\ b.creates[j].amount = notes[j].amount
  BY <1>8, <1>10 DEF Places
<1>16. \A v, t : TotalTo(b.creates, v, t) = TotalTo(notes, v, t)
  <2> DEFINE new == b.creates
  <2>1. Money(new) /\ Len(new) = Len(notes) BY <1>13, <1>15
  <2>2. \A j \in 1..Len(notes) : new[j].to = notes[j].to /\ new[j].token = notes[j].token /\ new[j].amount = notes[j].amount
    BY <1>15
  <2> HIDE DEF new
  <2>3. \A v, t : TotalTo(new, v, t) = TotalTo(notes, v, t) BY <1>14, <2>1, <2>2, TotalToSame
  <2> QED BY <2>3 DEF new
<1>17. Money(Uses(st, i)) BY <1>3, <1>6, ChangeIsTheRest
<1>18. ASSUME NEW v, NEW t
       PROVE  TotalTo(b.creates, v, t) = TotalTo(i.transfers, v, t)
                                           + (IF v = u THEN TotalIn(b.uses, t) - Deficit(i, t) ELSE 0)
  <2> DEFINE rest == TotalIn(ChangeNotes(u, st, i), t)
  <2>1. TotalTo(notes, v, t) = TotalTo(i.transfers, v, t) + (IF v = u THEN rest ELSE 0)
    BY <1>3, <1>6, NewNotesTo DEF notes
  <2>2. rest = TotalIn(b.uses, t) - Deficit(i, t)
    <3>1. rest = TotalIn(Uses(st, i), t) - Deficit(i, t) BY <1>3, <1>6, ChangeIsTheRest
    <3> QED BY <1>10, <3>1
  <2>3. TotalTo(b.creates, v, t) = TotalTo(notes, v, t) BY <1>16
  <2> HIDE DEF rest
  <2> QED BY <2>1, <2>2, <2>3
<1> QED BY <1>10, <1>13, <1>17, <1>18 DEF Settles

\* What a batch that is applied does to a user's balance.
LEMMA NewNotesTotal ==
  ASSUME NEW p, NEW user, NEW subs, NEW creates, CreatesFit(p, user, subs, creates), Money(creates), NEW u, NEW t
  PROVE  TotalOf({x \in NotesBy(user, creates) : x.to = u /\ x.token = t}) = TotalTo(creates, u, t)
<1> DEFINE n == Len(creates)
           note(c) == [from |-> user, to |-> c.to, token |-> c.token, index |-> c.index, amount |-> c.amount]
           f == [k \in 1..n |-> note(creates[k])]
           P == {k \in 1..n : creates[k].to = u /\ creates[k].token = t}
           w == WeightsTo(creates, u, t)
           mine == {x \in NotesBy(user, creates) : x.to = u /\ x.token = t}
<1>1. /\ \A j, k \in DOMAIN creates :
            creates[j].to = creates[k].to /\ creates[j].token = creates[k].token
               /\ creates[j].index = creates[k].index => j = k
  BY DEF CreatesFit
<1>2. n \in Nat /\ DOMAIN creates = 1..n /\ ToSet(creates) = {creates[k] : k \in 1..n} BY SeqFacts DEF Money
<1>3. \A k \in 1..n : w[k] \in Nat /\ w[k] = IF creates[k].token = t /\ creates[k].to = u THEN creates[k].amount ELSE 0
  BY MoneyWeightsTo
<1>4. TotalTo(creates, u, t) = SumOf(w, n) BY TotalToIsSum
<1>5. NotesBy(user, creates) = {note(c) : c \in ToSet(creates)} BY DEF NotesBy
<1>6. \A c : note(c).to = c.to /\ note(c).token = c.token /\ note(c).index = c.index /\ note(c).amount = c.amount
  OBVIOUS
<1>7. \A k \in 1..n : f[k] = note(creates[k]) OBVIOUS
<1> HIDE DEF n, w, f, note
<1>8. mine = Picked(f, P)
  <2>1. ASSUME NEW x \in mine PROVE \E k \in P : x = f[k]
    <3>1. PICK c \in ToSet(creates) : x = note(c) BY <1>5
    <3>2. PICK k \in 1..n : c = creates[k] BY <1>2
    <3>3. k \in P /\ x = f[k] BY <1>6, <1>7, <3>1, <3>2
    <3> QED BY <3>3
  <2>2. ASSUME NEW k \in P PROVE f[k] \in mine
    <3>1. k \in 1..n /\ creates[k].to = u /\ creates[k].token = t /\ creates[k] \in ToSet(creates) BY <1>2
    <3>2. f[k] \in NotesBy(user, creates) /\ f[k].to = u /\ f[k].token = t BY <1>5, <1>6, <1>7, <3>1
    <3> QED BY <3>2
  <2> QED BY <2>1, <2>2 DEF Picked
<1>9. P \subseteq 1..n /\ \A k \in 1..n : k \in P <=> creates[k].to = u /\ creates[k].token = t OBVIOUS
<1> HIDE DEF P, mine
<1>10. \A k \in P : f[k].amount = w[k]
  <2> TAKE k \in P
  <2>1. k \in 1..n /\ creates[k].to = u /\ creates[k].token = t BY <1>9
  <2>2. w[k] = creates[k].amount BY <1>3, <2>1
  <2>3. f[k].amount = creates[k].amount BY <1>6, <1>7, <2>1
  <2> QED BY <2>2, <2>3
<1>11. \A k \in (1..n) \ P : w[k] = 0 BY <1>3, <1>9
<1>12. \A j, k \in P : f[j] = f[k] => j = k
  <2> TAKE j, k \in P
  <2>1. j \in 1..n /\ k \in 1..n BY <1>9
  <2>2. f[j].to = creates[j].to /\ f[j].token = creates[j].token /\ f[j].index = creates[j].index BY <1>6, <1>7, <2>1
  <2>3. f[k].to = creates[k].to /\ f[k].token = creates[k].token /\ f[k].index = creates[k].index BY <1>6, <1>7, <2>1
  <2> QED BY <1>1, <1>2, <2>1, <2>2, <2>3
<1>13. \A k \in 1..n : w[k] \in Nat BY <1>3
<1>14. TotalOf(Picked(f, P)) = SumOf(w, n)
  <2>1. n \in Nat /\ P \subseteq 1..n BY <1>2, <1>9
  <2> QED BY <2>1, <1>10, <1>11, <1>12, <1>13, TotalOfPicked
<1>15. TotalOf(mine) = TotalTo(creates, u, t) BY <1>4, <1>8, <1>14
<1> QED BY <1>15 DEF mine

LEMMA UsedNotesTotal ==
  ASSUME NEW uses, Money(uses), \A j, k \in DOMAIN uses : uses[j] = uses[k] => j = k, NEW t
  PROVE  TotalOf({x \in ToSet(uses) : x.token = t}) = TotalIn(uses, t)
<1> DEFINE n == Len(uses)
           P == {k \in 1..n : uses[k].token = t}
           w == Weights(uses, t)
           mine == {x \in ToSet(uses) : x.token = t}
<1>1. n \in Nat /\ DOMAIN uses = 1..n /\ ToSet(uses) = {uses[k] : k \in 1..n} BY SeqFacts DEF Money
<1>2. \A k \in 1..n : w[k] \in Nat /\ w[k] = IF uses[k].token = t THEN uses[k].amount ELSE 0 BY MoneyWeights
<1>3. TotalIn(uses, t) = SumOf(w, n) BY TotalInIsSum
<1> HIDE DEF n, w
<1>4. mine = Picked(uses, P) BY <1>1 DEF Picked
<1>5. P \subseteq 1..n /\ \A k \in 1..n : k \in P <=> uses[k].token = t OBVIOUS
<1> HIDE DEF P, mine
<1>6. \A k \in P : uses[k].amount = w[k] BY <1>2, <1>5
<1>7. \A k \in (1..n) \ P : w[k] = 0 BY <1>2, <1>5
<1>8. \A j, k \in P : uses[j] = uses[k] => j = k BY <1>1, <1>5
<1>9. \A k \in 1..n : w[k] \in Nat BY <1>2
<1>10. TotalOf(Picked(uses, P)) = SumOf(w, n) BY <1>1, <1>5, <1>6, <1>7, <1>8, <1>9, TotalOfPicked
<1>11. TotalOf(mine) = TotalIn(uses, t) BY <1>3, <1>4, <1>10
<1> QED BY <1>11 DEF mine

MadeFor(user, creates, u, t) == {x \in NotesBy(user, creates) : x.to = u /\ x.token = t}
SpentOf(uses, u, t) == {x \in ToSet(uses) : x.to = u /\ x.token = t}

\* The balance after a batch: what it makes for the user comes on top, what it spends goes.
LEMMA HoldingAfter ==
  ASSUME NEW q, WellFormed(q), NEW user, NEW b, Checked(q, user, b, After(q, user, b)), IsList(b.creates),
         IsList(b.uses), \A c \in ToSet(b.creates) : c.amount \in Nat, NEW u, NEW t,
         NEW old, old = Holding(q, u, t),
         NEW new, new = MadeFor(user, b.creates, u, t), NEW gone, gone = SpentOf(b.uses, u, t)
  PROVE  /\ Balance(After(q, user, b), u, t) = TotalOf(old) + TotalOf(new) - TotalOf(gone)
         /\ TotalOf(old) \in Nat /\ TotalOf(new) \in Nat /\ TotalOf(gone) \in Nat
<1> DEFINE after == After(q, user, b)
           creates == b.creates
           uses == b.uses
           kept == old \ gone
<1>1. Effect(q, user, b, after) BY AfterFacts
<1> HIDE DEF after
<1>2. after.notes = q.notes \cup NotesBy(user, creates) /\ after.nulls = q.nulls \cup ToSet(uses) BY <1>1 DEF Effect
<1>3. \A n \in ToSet(uses) : n \in q.notes \ q.nulls /\ n.to = user BY DEF Checked
<1>4. \A n \in ToSet(creates) : n.index \notin Slots(NotesOf(q, user, n.to, n.token)) BY DEF Checked
<1>5. \A c \in ToSet(creates) : c.amount \in Nat OBVIOUS
<1>6. IsList(creates) /\ IsList(uses) OBVIOUS
<1> HIDE DEF creates, uses
<1>7. ASSUME NEW x \in NotesBy(user, creates) PROVE x \notin q.notes /\ x.amount \in Nat
  <2>1. PICK n \in ToSet(creates) : x.from = user /\ x.to = n.to /\ x.token = n.token /\ x.index = n.index
                                      /\ x.amount = n.amount
    BY NotesBrought
  <2>2. n.index \notin Slots(NotesOf(q, user, n.to, n.token)) /\ n.amount \in Nat BY <1>4, <1>5
  <2>3. x \notin NotesOf(q, user, n.to, n.token) BY <2>1, <2>2 DEF Slots
  <2> QED BY <2>1, <2>2, <2>3 DEF NotesOf
<1>8. IsFiniteSet(q.notes) /\ q.nulls \subseteq q.notes /\ \A n \in q.notes : n.amount \in Nat BY DEF WellFormed
<1>9. IsFiniteSet(NotesBy(user, creates)) BY <1>6, ByIsFinite
<1>10. /\ old \subseteq q.notes \ q.nulls /\ gone \subseteq old /\ new \subseteq NotesBy(user, creates)
       /\ \A n : n \in old <=> n \in q.notes /\ n \notin q.nulls /\ n.to = u /\ n.token = t
       /\ \A n : n \in gone <=> n \in ToSet(uses) /\ n.to = u /\ n.token = t
       /\ \A n : n \in new <=> n \in NotesBy(user, creates) /\ n.to = u /\ n.token = t
  BY <1>3 DEF uses, creates, Unspent, Holding, MadeFor, SpentOf
<1>11. {n \in Unspent(after, after.notes) : n.to = u /\ n.token = t} = kept \cup new
  <2>1. \A n : n \in Unspent(after, after.notes) <=> n \in after.notes /\ n \notin after.nulls BY DEF Unspent
  <2>2. \A n \in ToSet(uses) : n \in q.notes BY <1>3
  <2>3. \A n \in NotesBy(user, creates) : n \notin q.notes /\ n \notin q.nulls /\ n \notin ToSet(uses)
    BY <1>7, <1>8, <2>2
  <2>4. ASSUME NEW n, n \in after.notes, n \notin after.nulls, n.to = u, n.token = t PROVE n \in kept \cup new
    <3>1. n \notin q.nulls /\ n \notin ToSet(uses) BY <1>2, <2>4
    <3>2. n \in q.notes \/ n \in NotesBy(user, creates) BY <1>2, <2>4
    <3> QED BY <1>10, <2>4, <3>1, <3>2
  <2>5. ASSUME NEW n \in kept \cup new PROVE n \in after.notes /\ n \notin after.nulls /\ n.to = u /\ n.token = t
    <3>1. CASE n \in new
      <4>1. n \in NotesBy(user, creates) /\ n.to = u /\ n.token = t BY <1>10, <3>1
      <4> QED BY <1>2, <2>3, <4>1
    <3>2. CASE n \in old /\ n \notin gone
      <4>1. n \in q.notes /\ n \notin q.nulls /\ n.to = u /\ n.token = t BY <1>10, <3>2
      <4>2. n \notin ToSet(uses) BY <1>10, <3>2, <4>1
      <4> QED BY <1>2, <4>1, <4>2
    <3> QED BY <3>1, <3>2
  <2> HIDE DEF kept
  <2> QED BY <2>1, <2>4, <2>5
<1>12. Balance(after, u, t) = TotalOf(kept \cup new)
  <2> DEFINE left == {n \in Unspent(after, after.notes) : n.to = u /\ n.token = t}
  <2>1. Balance(after, u, t) = TotalOf(left) BY DEF Balance
  <2>2. left = kept \cup new BY <1>11
  <2> HIDE DEF left, kept
  <2> QED BY <2>1, <2>2
<1>13. /\ IsFiniteSet(old) /\ IsFiniteSet(gone) /\ IsFiniteSet(new) /\ IsFiniteSet(kept)
       /\ \A n \in old : n.amount \in Nat
       /\ \A n \in new : n.amount \in Nat
  <2>1. old \subseteq q.notes /\ gone \subseteq q.notes /\ kept \subseteq q.notes BY <1>10
  <2>2. IsFiniteSet(old) /\ IsFiniteSet(gone) /\ IsFiniteSet(kept) BY <1>8, <2>1, FS_Subset
  <2>3. IsFiniteSet(new) BY <1>9, <1>10, FS_Subset
  <2> QED BY <1>7, <1>8, <1>10, <2>1, <2>2, <2>3
<1>14. kept \cup gone = old /\ kept \cap gone = {} /\ kept \cap new = {} BY <1>7, <1>10
<1>15. (\A n \in kept : n.amount \in Nat) /\ (\A n \in gone : n.amount \in Nat) BY <1>10, <1>13
<1> HIDE DEF kept
<1>16. TotalOf(kept \cup gone) = TotalOf(kept) + TotalOf(gone) BY <1>13, <1>14, <1>15, TotalOfUnion
<1>17. TotalOf(kept \cup new) = TotalOf(kept) + TotalOf(new) BY <1>13, <1>14, <1>15, TotalOfUnion
<1>18. TotalOf(old) \in Nat /\ TotalOf(new) \in Nat /\ TotalOf(gone) \in Nat /\ TotalOf(kept) \in Nat
  BY <1>13, <1>15, TotalOfType
<1>19. TotalOf(old) = TotalOf(kept) + TotalOf(gone) BY <1>14, <1>16
<1>20. Balance(after, u, t) = TotalOf(old) + TotalOf(new) - TotalOf(gone) BY <1>12, <1>17, <1>18, <1>19
<1> QED BY <1>18, <1>20 DEF after

\* What a planned batch does to a balance, whenever the pool applies it.
LEMMA BalanceMoves ==
  ASSUME NEW p, NEW q, WellFormed(q), NEW user, NEW i, NEW b,
         Fits(p, user, b), Accepts(q, user, b), Settles(user, i, b), NEW tokens, IsIntent(i, tokens), NEW u, NEW t
  PROVE  Balance(After(q, user, b), u, t) =
            Balance(q, u, t) + TotalTo(i.transfers, u, t) - (IF u = user THEN Deficit(i, t) ELSE 0)
<1> DEFINE creates == b.creates
           uses == b.uses
           old == Holding(q, u, t)
           new == MadeFor(user, b.creates, u, t)
           gone == SpentOf(b.uses, u, t)
           sent == TotalTo(i.transfers, u, t)
           due == Deficit(i, t)
<1>0. sent \in Nat /\ due \in Int
  <2> DEFINE r == i.transfers
  <2>1. Money(r) /\ \A x : Deficit(i, x) \in Int BY IntentLists
  <2> HIDE DEF r
  <2>2. TotalTo(r, u, t) \in Nat BY <2>1, TotalToIsSum
  <2> QED BY <2>1, <2>2 DEF r
<1>1. Checked(q, user, b, After(q, user, b)) BY AcceptsChecks
<1>2. CreatesFit(p, user, b.subs, b.creates) /\ UsesFit(p, user, b.uses) BY DEF Fits
<1>3. IsList(b.creates) /\ \A c \in ToSet(b.creates) : c.amount \in Nat BY <1>2 DEF CreatesFit
<1>4. IsList(b.uses) /\ \A n \in ToSet(b.uses) : n.to = user BY <1>2 DEF UsesFit
<1>5. /\ Money(b.creates) /\ Money(b.uses)
      /\ TotalTo(b.creates, u, t) = sent + (IF u = user THEN TotalIn(b.uses, t) - due ELSE 0)
  BY DEF Settles
<1>6. old = Holding(q, u, t) OBVIOUS
<1>7. new = MadeFor(user, b.creates, u, t) OBVIOUS
<1>8. gone = SpentOf(b.uses, u, t) OBVIOUS
<1>9. Balance(q, u, t) = TotalOf(old) BY DEF Balance, Holding
<1> HIDE DEF old, new, gone, sent, due
<1>10. /\ Balance(After(q, user, b), u, t) = TotalOf(old) + TotalOf(new) - TotalOf(gone)
       /\ TotalOf(old) \in Nat /\ TotalOf(new) \in Nat /\ TotalOf(gone) \in Nat
  BY <1>1, <1>3, <1>4, <1>6, <1>7, <1>8, HoldingAfter
<1>11. TotalOf(new) = TotalTo(b.creates, u, t)
  <2>1. CreatesFit(p, user, b.subs, creates) /\ Money(creates) /\ new = {x \in NotesBy(user, creates) : x.to = u /\ x.token = t}
    BY <1>2, <1>5, <1>7 DEF MadeFor
  <2> HIDE DEF creates
  <2>2. TotalOf(new) = TotalTo(creates, u, t) BY <2>1, NewNotesTotal
  <2> QED BY <2>2 DEF creates
<1>12. CASE u = user
  <2>1. gone = {x \in ToSet(b.uses) : x.token = t} BY <1>4, <1>8, <1>12 DEF SpentOf
  <2>2. TotalOf(gone) = TotalIn(b.uses, t)
    <3>1. Money(uses) /\ (\A j, k \in DOMAIN uses : uses[j] = uses[k] => j = k) /\ gone = {x \in ToSet(uses) : x.token = t}
      BY <1>2, <1>5, <2>1 DEF UsesFit
    <3> HIDE DEF uses
    <3>2. TotalOf(gone) = TotalIn(uses, t) BY <3>1, UsedNotesTotal
    <3> QED BY <3>2 DEF uses
  <2>3. TotalOf(new) = sent + (TotalOf(gone) - due) BY <1>5, <1>11, <1>12, <2>2
  <2> QED BY <1>0, <1>9, <1>10, <1>12, <2>3 DEF sent, due
<1>13. CASE u # user
  <2>1. gone = {} BY <1>4, <1>8, <1>13 DEF SpentOf
  <2>2. TotalOf(gone) = 0 BY <2>1, TotalOfEmpty
  <2>3. TotalOf(new) = sent + 0 BY <1>5, <1>11, <1>13
  <2> QED BY <1>0, <1>9, <1>10, <1>13, <2>2, <2>3 DEF sent
<1> QED BY <1>12, <1>13

--------------------------------------------------------------------------------
(* A batch takes effect once.                                              *)

\* Everything a batch claims is taken: the pool has applied it.
Taken(p, user, b) ==
    /\ b.register => user \in p.reg
    /\ \A o \in ToSet(b.opens) : HasChannel(p, user, o.to)
    /\ \A s \in ToSet(b.subs) : s.index \in Slots(SubsOf(p, user, s.to))
    /\ \A n \in ToSet(b.uses) : n \in p.nulls
    /\ \A n \in ToSet(b.creates) : n.index \in Slots(NotesOf(p, user, n.to, n.token))

LEMMA TakenStays ==
  ASSUME NEW p, NEW q, Grown(p, q), NEW user, NEW b, Taken(p, user, b)
  PROVE  Taken(q, user, b)
<1> DEFINE opens == b.opens
           subs == b.subs
           uses == b.uses
           creates == b.creates
<1>1. /\ p.reg \subseteq q.reg /\ p.chans \subseteq q.chans /\ p.subs \subseteq q.subs
      /\ p.notes \subseteq q.notes /\ p.nulls \subseteq q.nulls
  BY DEF Grown
<1>2. /\ b.register => user \in p.reg
      /\ \A o \in ToSet(opens) : HasChannel(p, user, o.to)
      /\ \A s \in ToSet(subs) : s.index \in Slots(SubsOf(p, user, s.to))
      /\ \A n \in ToSet(uses) : n \in p.nulls
      /\ \A n \in ToSet(creates) : n.index \in Slots(NotesOf(p, user, n.to, n.token))
  BY DEF Taken
<1> HIDE DEF opens, subs, uses, creates
<1>3. b.register => user \in q.reg BY <1>1, <1>2
<1>4. \A o \in ToSet(opens) : HasChannel(q, user, o.to) BY <1>1, <1>2 DEF HasChannel
<1>5. \A s \in ToSet(subs) : s.index \in Slots(SubsOf(q, user, s.to)) BY <1>1, <1>2 DEF Slots, SubsOf
<1>6. \A n \in ToSet(uses) : n \in q.nulls BY <1>1, <1>2
<1>7. \A n \in ToSet(creates) : n.index \in Slots(NotesOf(q, user, n.to, n.token)) BY <1>1, <1>2 DEF Slots, NotesOf
<1> QED BY <1>3, <1>4, <1>5, <1>6, <1>7 DEF Taken, opens, subs, uses, creates

LEMMA AfterIsTaken ==
  ASSUME NEW q, NEW user, NEW b, NEW after, Effect(q, user, b, after)
  PROVE  Taken(after, user, b)
<1> DEFINE opens == b.opens
           subs == b.subs
           uses == b.uses
           creates == b.creates
<1>1. /\ b.register => user \in after.reg
      /\ ChansBy(q, user, opens) \subseteq after.chans /\ SubsBy(user, subs) \subseteq after.subs
      /\ NotesBy(user, creates) \subseteq after.notes /\ ToSet(uses) \subseteq after.nulls
  BY DEF Effect
<1> HIDE DEF opens, subs, uses, creates
<1>2. ASSUME NEW o \in ToSet(opens) PROVE HasChannel(after, user, o.to)
  <2>1. PICK c \in ChansBy(q, user, opens) : c.from = user /\ c.to = o.to BY ChansBrought
  <2> QED BY <1>1, <2>1 DEF HasChannel
<1>3. ASSUME NEW s \in ToSet(subs) PROVE s.index \in Slots(SubsOf(after, user, s.to))
  <2>0. \A y \in ToSet(subs) : \E x \in SubsBy(user, subs) :
           x.from = user /\ x.to = y.to /\ x.token = y.token /\ x.index = y.index
    BY SubsBrought
  <2>1. PICK x \in SubsBy(user, subs) : x.from = user /\ x.to = s.to /\ x.index = s.index BY <2>0
  <2>2. x \in SubsOf(after, user, s.to) BY <1>1, <2>1 DEF SubsOf
  <2> QED BY <2>1, <2>2 DEF Slots
<1>4. ASSUME NEW n \in ToSet(creates) PROVE n.index \in Slots(NotesOf(after, user, n.to, n.token))
  <2>1. PICK x \in NotesBy(user, creates) : x.from = user /\ x.to = n.to /\ x.token = n.token /\ x.index = n.index
    BY NotesBrought
  <2>2. x \in NotesOf(after, user, n.to, n.token) BY <1>1, <2>1 DEF NotesOf
  <2> QED BY <2>1, <2>2 DEF Slots
<1> QED BY <1>1, <1>2, <1>3, <1>4 DEF Taken, opens, subs, uses, creates

\* Of what is taken nothing is left for the pool to take twice.
LEMMA TakenOnlyOnce ==
  ASSUME NEW q, NEW user, NEW b, b.register \in BOOLEAN, Taken(q, user, b), Accepts(q, user, b), NEW u, NEW t
  PROVE  Balance(After(q, user, b), u, t) = Balance(q, u, t)
<1> DEFINE after == After(q, user, b)
           uses == b.uses
           creates == b.creates
<1>1. Effect(q, user, b, after) /\ Checked(q, user, b, after) BY AfterFacts, AcceptsChecks
<1> HIDE DEF after
<1>2. /\ after.notes = q.notes \cup NotesBy(user, creates)
      /\ after.nulls = q.nulls \cup ToSet(uses)
  BY <1>1 DEF Effect
<1>3. /\ \A n \in ToSet(uses) : n \in q.nulls /\ n \notin q.nulls
      /\ \A n \in ToSet(creates) : /\ n.index \in Slots(NotesOf(q, user, n.to, n.token))
                                   /\ n.index \notin Slots(NotesOf(q, user, n.to, n.token))
  BY <1>1 DEF Taken, Checked
<1> HIDE DEF uses, creates
<1>4. ToSet(uses) = {} /\ ToSet(creates) = {} BY <1>3
<1>5. NotesBy(user, creates) = {}
  <2>1. \A x \in NotesBy(user, creates) : \E n \in ToSet(creates) : x.to = n.to BY NotesBrought
  <2> QED BY <1>4, <2>1
<1>6. after.notes = q.notes /\ after.nulls = q.nulls BY <1>2, <1>4, <1>5
<1>7. Balance(after, u, t) = Balance(q, u, t) BY <1>6 DEF Balance, Unspent
<1> QED BY <1>7 DEF after

\* The invariant of the refinement: what has been applied is taken for good.
Settled == \A r \in applied : Taken(Latest, Owner, req[r].batch)

OnceOnly == Sound /\ Settled

LEMMA LatestOfLonger ==
  ASSUME ChainOk(chain), NEW q, chain' = Append(chain, q)
  PROVE  Latest' = q
<1> DEFINE X == ToSet(chain) \cup {q}
<1>1. chain \in Seq(X) /\ q \in X
  <2>1. chain \in Seq(ToSet(chain)) /\ ToSet(chain) \subseteq X BY DEF ChainOk, IsList
  <2> QED BY <2>1
<1> HIDE DEF X
<1>2. ASSUME NEW d, d = Append(chain, q) PROVE d[Len(d)] = q
  <2>1. Len(d) = Len(chain) + 1 /\ d[Len(chain) + 1] = q BY <1>1, <1>2, AppendFacts
  <2> QED BY <2>1
<1> QED BY <1>2 DEF Latest

\* Steps of a request that make no block, and all that do not touch the requests.
LEMMA SettledStays ==
  ASSUME OnceOnly, Grown(Latest, Latest'), applied' = applied, \A r \in applied : req'[r] = req[r]
  PROVE  Settled'
<1> SUFFICES ASSUME NEW r \in applied PROVE Taken(Latest', Owner, req'[r].batch) BY DEF Settled
<1> DEFINE b == req[r].batch
<1>1. Taken(Latest, Owner, b) BY DEF OnceOnly, Settled
<1>2. req'[r].batch = b OBVIOUS
<1> HIDE DEF b
<1>3. Taken(Latest', Owner, b) BY <1>1, TakenStays
<1> QED BY <1>2, <1>3

\* A step of one request that is not settled, in a chain that stays.
LEMMA SettledRequest ==
  ASSUME OnceOnly, NEW r, r \notin applied, NEW x, req' = [req EXCEPT ![r] = x], chain' = chain, applied' = applied
  PROVE  Settled'
<1>1. Latest' = Latest BY DEF Latest
<1>2. Grown(Latest, Latest') BY <1>1, GrownMore
<1>3. \A s \in applied : req'[s] = req[s]
  <2>1. DOMAIN req = Requests /\ applied \subseteq Requests BY DEF OnceOnly, Sound
  <2> QED BY <2>1
<1> QED BY <1>2, <1>3, SettledStays

--------------------------------------------------------------------------------
(* The ledger of consents.                                                 *)

\* The intent a request's prompt named, once it was approved.
Consents(q) == IF q.stage \in Consented THEN q.intent ELSE Nothing

\* What a request's own step may do to its consent: keep it, give it up, or ask for it.
ConsentsOn(old, new) ==
    \/ Consents(new) = Consents(old)
    \/ Consents(new) = Nothing
    \/ Consents(old) = Nothing /\ Consents(new) \in Asked

Moves(r) == \E x : req' = [req EXCEPT ![r] = x] /\ ConsentsOn(req[r], x)

LEMMA FailMoves ==
  ASSUME NEW r, Fail(r)
  PROVE  Moves(r)
<1> DEFINE x == [Idle EXCEPT !.stage = "failed"]
<1>1. req' = [req EXCEPT ![r] = x] BY DEF Fail
<1>2. x.stage = "failed" BY DEF Idle
<1>3. x.stage \notin Consented BY <1>2 DEF Consented, Planned
<1> HIDE DEF x
<1>4. Consents(x) = Nothing BY <1>3 DEF Consents
<1> QED BY <1>1, <1>4 DEF Moves, ConsentsOn

LEMMA StageMoves ==
  ASSUME Sound, NEW r \in Requests, req[r].stage \in Consented, NEW s \in Consented,
         req' = [req EXCEPT ![r].stage = s]
  PROVE  Moves(r)
<1> DEFINE q == req[r]
           x == [q EXCEPT !.stage = s]
<1>1. DOMAIN req = Requests /\ Shaped(q) BY DEF Sound, ReqOk
<1>2. req' = [req EXCEPT ![r] = x] OBVIOUS
<1>3. q.stage \in Consented OBVIOUS
<1> HIDE DEF q
<1>4. x.stage = s /\ x.intent = q.intent BY <1>1 DEF Shaped
<1> HIDE DEF x
<1>5. Consents(x) = Consents(q) BY <1>3, <1>4 DEF Consents
<1> QED BY <1>2, <1>5 DEF Moves, ConsentsOn, q

LEMMA RequestMoves ==
  ASSUME Sound, NEW r \in Requests,
         Begin(r) \/ Recheck(r) \/ GiveUp(r) \/ Approve(r) \/ Prove(r) \/ Relay(r) \/ Estimate(r) \/ Submit(r)
  PROVE  chain' = chain /\ applied' = applied /\ r \notin applied /\ Moves(r)
<1>1. chain' = chain /\ applied' = applied BY DEF Begin, Recheck, GiveUp, Approve, Prove, Relay, Estimate, Submit
<1>2. {"prove", "proved", "estimated", "returned", "done", "unknown"} \subseteq Consented
      /\ "check" \notin Consented /\ "ask" \notin Consented
  BY DEF Consented, Planned
<1>3. req[r].stage \notin Final
  BY DEF Begin, Recheck, GiveUp, Approve, Prove, Relay, Estimate, Submit, Final
<1>4. r \notin applied BY <1>3 DEF Sound
<1>5. DOMAIN req = Requests BY DEF Sound
<1>6. CASE Fail(r) BY <1>1, <1>4, <1>6, FailMoves
<1>7. CASE ~Fail(r) /\ Begin(r)
  <2>0. PICK w \in Wishes : \E i \in Quoted(w) : Discover(r, w.kind, i) BY <1>7 DEF Begin
  <2>1. PICK i \in Quoted(w) : Discover(r, w.kind, i) BY <2>0
  <2> DEFINE block == IF Height < Lag THEN 0 ELSE Height - Lag
             st == DiscoverState(Pool(block), Owner, i)
             x == [Idle EXCEPT !.stage = "check", !.kind = w.kind, !.intent = i, !.block = block, !.st = st]
  <2>2. req' = [req EXCEPT ![r] = x] BY <1>7, <2>1 DEF Discover
  <2> HIDE DEF block, st
  <2>3. x.stage = "check" BY DEF Idle
  <2> HIDE DEF x
  <2>4. Consents(x) = Nothing BY <1>2, <2>3 DEF Consents
  <2> QED BY <1>1, <1>4, <2>2, <2>4 DEF Moves, ConsentsOn
<1>8. CASE ~Fail(r) /\ Recheck(r)
  <2> DEFINE q    == req[r]
             last == q.seen + 1 = Len(Parts) \/ ~q.st.registered
             since == IF q.seen = 0 THEN Height ELSE q.since
             batch == PlanBatch(Owner, q.st, q.intent)
  <2>1. q.stage = "check" BY <1>8 DEF Recheck
  <2>2. /\ last => Propose(r, since, batch)
        /\ ~last => req' = [req EXCEPT ![r].seen = @ + 1, ![r].since = since]
    BY <1>8 DEF Recheck
  <2>3. Shaped(q) BY DEF Sound, ReqOk
  <2>4. CASE last
    <3> DEFINE x == [q EXCEPT !.stage = "ask", !.since = since, !.batch = batch, !.st = Nothing, !.seen = 0]
    <3>1. Ask(r, since, batch) BY <1>8, <2>2, <2>4 DEF Propose
    <3>2. req' = [req EXCEPT ![r] = x] BY <3>1 DEF Ask
    <3> HIDE DEF q, since, batch
    <3>3. x.stage = "ask" BY <2>3 DEF Shaped
    <3> HIDE DEF x
    <3>4. Consents(x) = Nothing BY <1>2, <3>3 DEF Consents
    <3> QED BY <1>1, <1>4, <3>2, <3>4 DEF Moves, ConsentsOn
  <2>5. CASE ~last
    <3> DEFINE x == [q EXCEPT !.seen = @ + 1, !.since = since]
    <3>1. req' = [req EXCEPT ![r].seen = @ + 1, ![r].since = since] BY <2>2, <2>5
    <3>2. req' = [req EXCEPT ![r] = x] BY <1>5, <3>1
    <3> HIDE DEF q, since
    <3>3. x.stage = "check" BY <2>1, <2>3 DEF Shaped
    <3> HIDE DEF x
    <3>4. Consents(x) = Nothing BY <1>2, <3>3 DEF Consents
    <3> QED BY <1>1, <1>4, <3>2, <3>4 DEF Moves, ConsentsOn
  <2> QED BY <2>4, <2>5
<1>9. CASE GiveUp(r) BY <1>1, <1>4, <1>9, FailMoves DEF GiveUp
<1>10. CASE Approve(r)
  <2> DEFINE q == req[r]
             x == [q EXCEPT !.stage = "prove"]
  <2>1. q.stage = "ask" /\ req' = [req EXCEPT ![r] = x] BY <1>10 DEF Approve
  <2>2. q.intent \in Asked
    <3>1. req[r].stage \in Planned BY <2>1 DEF Planned
    <3> QED BY <3>1, HoldersPlan
  <2>3. Shaped(q) BY DEF Sound, ReqOk
  <2> HIDE DEF q
  <2>4. x.stage = "prove" /\ x.intent = q.intent BY <2>3 DEF Shaped
  <2> HIDE DEF x
  <2>5. Consents(q) = Nothing /\ Consents(x) \in Asked BY <1>2, <2>1, <2>2, <2>4 DEF Consents
  <2> QED BY <1>1, <1>4, <2>1, <2>5 DEF Moves, ConsentsOn, q
<1>11. CASE ~Fail(r) /\ Prove(r)
  <2> DEFINE s == IF req[r].kind = "prepare" THEN "returned" ELSE "proved"
  <2>1. req[r].stage = "prove" /\ req' = [req EXCEPT ![r].stage = s] BY <1>11 DEF Prove
  <2>2. s \in Consented /\ req[r].stage \in Consented BY <1>2, <2>1
  <2> HIDE DEF s
  <2> QED BY <1>1, <1>4, <2>1, <2>2, StageMoves
<1>12. CASE Relay(r) \/ Submit(r)
  <2>1. req[r].stage \in {"proved", "estimated"} BY <1>12 DEF Relay, Submit
  <2>2. PICK answer \in {"done", "unknown"} : req' = [req EXCEPT ![r].stage = answer] BY <1>12 DEF Relay, Submit
  <2>3. answer \in Consented /\ req[r].stage \in Consented BY <1>2, <2>1
  <2> QED BY <1>1, <1>4, <2>2, <2>3, StageMoves
<1>13. CASE ~Fail(r) /\ Estimate(r)
  <2>1. req[r].stage = "proved" /\ req' = [req EXCEPT ![r].stage = "estimated"] BY <1>13 DEF Estimate
  <2>2. "estimated" \in Consented /\ req[r].stage \in Consented BY <1>2, <2>1
  <2> QED BY <1>1, <1>4, <2>1, <2>2, StageMoves
<1> QED BY <1>6, <1>7, <1>8, <1>9, <1>10, <1>11, <1>12, <1>13

LEMMA LandFacts ==
  ASSUME Sound, NEW r \in Requests, Land(r)
  PROVE  LET i == req[r].intent
             b == req[r].batch
         IN  /\ req' = req /\ applied' = applied \cup {r} /\ req[r].stage \in Consented
             /\ i \in Asked /\ IsIntent(i, AllTokens) /\ b.register \in BOOLEAN
             /\ WellFormed(Latest) /\ Grown(Latest, Latest') /\ Latest' = After(Latest, Owner, b)
             /\ Accepts(Latest, Owner, b) /\ Fits(Pool(req[r].block), Owner, b) /\ Settles(Owner, i, b)
<1> DEFINE q == req[r]
           i == q.intent
           b == q.batch
           p == Pool(q.block)
           after == After(Latest, Owner, b)
<1>1. /\ r \in mempool /\ Accepts(Latest, Owner, b)
      /\ chain' = Append(chain, after) /\ applied' = applied \cup {r} /\ req' = req
  BY DEF Land
<1>2. q.stage \in Final /\ q.stage \in Planned /\ q.stage \in Consented
  <2>1. q.stage \in Final BY <1>1 DEF Sound
  <2> QED BY <2>1 DEF Final, Planned, Consented
<1>3. /\ q.block \in 0..Height /\ i \in Asked /\ IsIntent(i, AllTokens) /\ Reachable(p, Owner, i)
      /\ b = PlanBatch(Owner, DiscoverState(p, Owner, i), i) /\ b \notin Errors /\ Fits(p, Owner, b)
  BY <1>2, HoldersPlan
<1>4. WellFormed(p) /\ Grown(p, Latest) /\ WellFormed(Latest) BY <1>3, ChainFacts DEF Sound
<1>5. ChainOk(chain) BY DEF Sound
<1>6. Latest' = after BY <1>1, <1>5, LatestOfLonger
<1> HIDE DEF q, i, b, p, after
<1>7. Settles(Owner, i, b) BY <1>3, <1>4, PlanSettles
<1>8. Grown(Latest, after) BY <1>1, <1>3, <1>4, PoolKept DEF after
<1>9. b.register \in BOOLEAN BY <1>3 DEF Fits
<1>10. Grown(Latest, Latest') BY <1>6, <1>8
<1> QED BY <1>1, <1>2, <1>3, <1>4, <1>6, <1>7, <1>9, <1>10 DEF q, i, b, p, after

LEMMA ElsewhereFacts ==
  ASSUME Sound, NEW u, NEW i, IsIntent(i, AllTokens), Elsewhere(u, i)
  PROVE  \E b : /\ req' = req /\ applied' = applied
                /\ WellFormed(Latest) /\ Grown(Latest, Latest') /\ Latest' = After(Latest, u, b)
                /\ Accepts(Latest, u, b) /\ Fits(Latest, u, b) /\ Settles(u, i, b)
<1> DEFINE p == Latest
           b == PlanBatch(u, DiscoverState(p, u, i), i)
           after == After(p, u, b)
<1>1. /\ Reachable(p, u, i) /\ b \notin Errors /\ Accepts(p, u, b)
      /\ chain' = Append(chain, after) /\ UNCHANGED <<req, mempool, applied, public>>
  BY DEF Elsewhere
<1>2. WellFormed(p) BY ChainFacts DEF Sound
<1>3. b = PlanBatch(u, DiscoverState(p, u, i), i) OBVIOUS
<1>4. ChainOk(chain) BY DEF Sound
<1>5. Latest' = after BY <1>1, <1>4, LatestOfLonger
<1> HIDE DEF p, b
<1>6. Fits(p, u, b) BY <1>1, <1>2, <1>3, PlanFits
<1>7. Settles(u, i, b) BY <1>1, <1>2, <1>3, PlanSettles
<1>8. Grown(p, p) BY GrownMore
<1>9. Grown(p, after) BY <1>1, <1>2, <1>6, <1>8, PoolKept
<1> HIDE DEF after
<1>10. /\ req' = req /\ applied' = applied
       /\ WellFormed(p) /\ Grown(p, Latest') /\ Latest' = After(p, u, b)
       /\ Accepts(p, u, b) /\ Fits(p, u, b) /\ Settles(u, i, b)
  BY <1>1, <1>2, <1>5, <1>6, <1>7, <1>9 DEF after
<1> QED BY <1>10 DEF p

LEMMA SettledElsewhere ==
  ASSUME OnceOnly, NEW u, NEW i, IsIntent(i, AllTokens), Elsewhere(u, i)
  PROVE  Settled'
<1>1. req' = req /\ applied' = applied /\ Grown(Latest, Latest') BY ElsewhereFacts DEF OnceOnly
<1> QED BY <1>1, SettledStays

LEMMA SettledLand ==
  ASSUME OnceOnly, NEW r \in Requests, Land(r)
  PROVE  Settled'
<1> DEFINE b == req[r].batch
<1>1. /\ req' = req /\ applied' = applied \cup {r} /\ Grown(Latest, Latest')
      /\ Latest' = After(Latest, Owner, b)
  BY LandFacts DEF OnceOnly
<1> SUFFICES ASSUME NEW s \in applied' PROVE Taken(Latest', Owner, req'[s].batch) BY DEF Settled
<1>2. CASE s = r
  <2> HIDE DEF b
  <2>1. Effect(Latest, Owner, b, Latest') BY <1>1, AfterFacts
  <2>2. Taken(Latest', Owner, b) BY <2>1, AfterIsTaken
  <2> QED BY <1>1, <1>2, <2>2 DEF b
<1>3. CASE s # r
  <2> DEFINE c == req[s].batch
  <2>1. s \in applied BY <1>1, <1>3
  <2>2. Taken(Latest, Owner, c) BY <2>1 DEF OnceOnly, Settled
  <2>3. req'[s].batch = c BY <1>1
  <2> HIDE DEF c
  <2>4. Taken(Latest', Owner, c) BY <1>1, <2>2, TakenStays
  <2> QED BY <2>3, <2>4
<1> QED BY <1>2, <1>3

LEMMA SettledIdle ==
  ASSUME OnceOnly, Latest' = Latest, applied' = applied, req' = req
  PROVE  Settled'
<1>1. Grown(Latest, Latest') BY GrownMore
<1> QED BY <1>1, SettledStays

LEMMA SettledNext == OnceOnly /\ [Next]_vars => Settled'
<1> SUFFICES ASSUME OnceOnly, [Next]_vars PROVE Settled' OBVIOUS
<1>0. Sound BY DEF OnceOnly
<1>1. chain' = chain => Latest' = Latest BY DEF Latest
<1>2. ASSUME NEW r \in Requests, Step(r) PROVE Settled'
  <2>1. CASE Begin(r) \/ Recheck(r) \/ GiveUp(r) \/ Approve(r) \/ Prove(r) \/ Relay(r) \/ Estimate(r) \/ Submit(r)
    <3>1. chain' = chain /\ applied' = applied /\ r \notin applied /\ Moves(r) BY <1>0, <2>1, RequestMoves
    <3>2. PICK x : req' = [req EXCEPT ![r] = x] BY <3>1 DEF Moves
    <3> QED BY <3>1, <3>2, SettledRequest
  <2>2. CASE CallerSubmits(r) \/ Drop(r) BY <1>1, <2>2, SettledIdle DEF CallerSubmits, Drop
  <2>3. CASE Land(r) BY <2>3, SettledLand
  <2> QED BY <1>2, <2>1, <2>2, <2>3 DEF Step
<1>3. CASE Mine
  <2>1. chain' = Append(chain, Latest) /\ req' = req /\ applied' = applied BY <1>3 DEF Mine
  <2>2. Latest' = Latest BY <1>0, <2>1, LatestOfLonger DEF Sound
  <2> QED BY <2>1, <2>2, SettledIdle
<1>4. CASE OtherWallet
  <2>1. PICK i \in OtherIntents : Elsewhere(Owner, i) BY <1>4 DEF OtherWallet
  <2>2. IsIntent(i, AllTokens) BY AskedAreIntents
  <2> QED BY <2>1, <2>2, SettledElsewhere
<1>5. CASE Gift
  <2>1. PICK t \in AllTokens, a \in Gifts : Elsewhere(Sender, GiftOf(t, a)) BY <1>5 DEF Gift, GiftOf
  <2>2. IsIntent(GiftOf(t, a), AllTokens) BY GiftsAreIntents
  <2> QED BY <2>1, <2>2, SettledElsewhere
<1>6. CASE BalancesBegin \/ BalancesRead BY <1>1, <1>6, SettledIdle DEF BalancesBegin, BalancesRead
<1>7. CASE UNCHANGED vars BY <1>1, <1>7, SettledIdle DEF vars
<1> QED BY <1>2, <1>3, <1>4, <1>5, <1>6, <1>7 DEF Next

\* What the pool has applied once, it has taken for good: every slot the batch filled is taken and every note it used
\* is spent, so that a batch that comes again, from a retry whose first answer was lost or from the caller it was returned
\* to, is refused or changes nothing (mod.rs, invoke_transaction; paymaster.rs, execute).
THEOREM OnceOnlyHolds == Spec => []OnceOnly
<1>1. Init => OnceOnly
  <2>1. Init => Settled BY DEF Init, Settled
  <2> QED BY <2>1, SoundInit DEF OnceOnly
<1>2. OnceOnly /\ [Next]_vars => OnceOnly' BY SoundNext, SettledNext DEF OnceOnly
<1> QED BY <1>1, <1>2, PTL DEF Spec

--------------------------------------------------------------------------------
(* Refinement of PrivateLedger.                                            *)

Balances == [u \in Users |-> [t \in AllTokens |-> Balance(Latest, u, t)]]
Consenting == [r \in Requests |-> Consents(req[r])]

\* The balances move by an intent of the owner's.
BalancesTake(i) ==
    \A u, t : Balance(Latest', u, t) =
                 Balance(Latest, u, t) + TotalTo(i.transfers, u, t) - (IF u = Owner THEN Deficit(i, t) ELSE 0)

LEMMA MappedVars ==
  /\ [u \in Users |-> [t \in AllTokens |-> Balance(Latest, u, t)]] = Balances
  /\ [r \in Requests |-> IF req[r].stage \in Consented THEN req[r].intent ELSE Nothing] = Consenting
BY DEF Balances, Consenting, Consents

LEMMA TakeStep ==
  ASSUME NEW i, IsIntent(i, AllTokens), BalancesTake(i)
  PROVE  Ledger!Take(i)
<1>1. \A u, t : Ledger!Receives(i, u, t) = TotalTo(i.transfers, u, t) BY LedgerReceives
<1>2. \A t : Ledger!Pays(i, t) = Deficit(i, t) BY LedgerPaysDeficit
<1>3. \A u, t : Balance(Latest', u, t) =
                   Balance(Latest, u, t) + Ledger!Receives(i, u, t) - (IF u = Owner THEN Ledger!Pays(i, t) ELSE 0)
  BY <1>1, <1>2 DEF BalancesTake
<1>4. \A u \in Users, t \in AllTokens : Balances[u][t] = Balance(Latest, u, t) BY DEF Balances
<1>5. Balances' = [u \in Users |-> [t \in AllTokens |->
                     Balances[u][t] + Ledger!Receives(i, u, t) - (IF u = Owner THEN Ledger!Pays(i, t) ELSE 0)]]
  <2>1. Balances' = [u \in Users |-> [t \in AllTokens |-> Balance(Latest', u, t)]] BY DEF Balances, Users, AllTokens, Balance, Unspent
  <2> QED BY <1>3, <1>4, <2>1
<1> QED BY <1>5 DEF Ledger!Take, Balances

\* Nothing of the ledger changes.
LEMMA LedgerStays ==
  ASSUME Balances' = Balances, Consenting' = Consenting, applied' = applied
  PROVE  [Ledger!Next]_(Ledger!vars)
BY DEF Ledger!vars, Balances, Consenting, Consents

LEMMA SameLatest ==
  ASSUME Latest' = Latest
  PROVE  Balances' = Balances
BY DEF Balances, Users, AllTokens, Balance, Unspent

LEMMA SameRequests ==
  ASSUME req' = req
  PROVE  Consenting' = Consenting
BY DEF Consenting, Consents

\* The handlers' own steps.
LEMMA LedgerMoves ==
  ASSUME OnceOnly, NEW r \in Requests, chain' = chain, applied' = applied, r \notin applied, Moves(r)
  PROVE  [Ledger!Next]_(Ledger!vars)
<1>1. PICK x : req' = [req EXCEPT ![r] = x] /\ ConsentsOn(req[r], x) BY DEF Moves
<1>2. Latest' = Latest BY DEF Latest
<1>3. Balances' = Balances BY <1>2, SameLatest
<1>4. DOMAIN req = Requests BY DEF OnceOnly, Sound
<1>5. Consenting' = [Consenting EXCEPT ![r] = Consents(x)] /\ Consenting[r] = Consents(req[r])
  <2>1. \A s \in Requests : req'[s] = IF s = r THEN x ELSE req[s] BY <1>1, <1>4
  <2>2. \A s \in Requests : Consents(req'[s]) = IF s = r THEN Consents(x) ELSE Consents(req[s]) BY <2>1
  <2>3. Consenting' = [s \in Requests |-> Consents(req'[s])] BY DEF Consenting, Consents
  <2>4. Consenting = [s \in Requests |-> Consents(req[s])] BY DEF Consenting
  <2> QED BY <2>2, <2>3, <2>4
<1>6. CASE Consents(x) = Consents(req[r])
  <2>1. Consenting' = Consenting BY <1>5, <1>6 DEF Consenting
  <2> QED BY <1>3, <2>1, LedgerStays
<1>7. CASE Consents(x) = Nothing /\ Consents(req[r]) # Nothing
  <2>1. Consenting[r] # Nothing /\ Consenting' = [Consenting EXCEPT ![r] = Nothing] BY <1>5, <1>7
  <2>2. Ledger!Abandon(r) BY <1>3, <2>1 DEF Ledger!Abandon, Balances, Consenting, Consents
  <2> QED BY <2>2 DEF Ledger!Next
<1>8. CASE Consents(req[r]) = Nothing /\ Consents(x) \in Asked
  <2>1. Consenting[r] = Nothing /\ Consenting' = [Consenting EXCEPT ![r] = Consents(x)] BY <1>5, <1>8
  <2>2. \E i \in Asked : Consenting' = [Consenting EXCEPT ![r] = i] BY <1>8, <2>1
  <2>3. Ledger!Consent(r) BY <1>3, <2>1, <2>2 DEF Ledger!Consent, Balances, Consenting, Consents
  <2> QED BY <2>3 DEF Ledger!Next
<1> QED BY <1>1, <1>6, <1>7, <1>8 DEF ConsentsOn

\* A block with a batch of the owner's.
LEMMA OwnersBatch ==
  ASSUME NEW p, WellFormed(Latest), NEW i, IsIntent(i, AllTokens), NEW b, Latest' = After(Latest, Owner, b),
         Fits(p, Owner, b), Accepts(Latest, Owner, b), Settles(Owner, i, b)
  PROVE  BalancesTake(i)
<1> DEFINE q == Latest
<1>1. WellFormed(q) /\ Accepts(q, Owner, b) /\ Latest' = After(q, Owner, b) OBVIOUS
<1> HIDE DEF q
<1>2. \A u, t : Balance(After(q, Owner, b), u, t) =
                   Balance(q, u, t) + TotalTo(i.transfers, u, t) - (IF u = Owner THEN Deficit(i, t) ELSE 0)
  BY <1>1, BalanceMoves
<1>3. \A u, t : Balance(Latest', u, t) =
                   Balance(q, u, t) + TotalTo(i.transfers, u, t) - (IF u = Owner THEN Deficit(i, t) ELSE 0)
  BY <1>1, <1>2
<1> QED BY <1>3 DEF BalancesTake, q

LEMMA LedgerLand ==
  ASSUME OnceOnly, NEW r \in Requests, Land(r)
  PROVE  [Ledger!Next]_(Ledger!vars)
<1> DEFINE i == req[r].intent
           b == req[r].batch
           p == Pool(req[r].block)
<1>1. /\ req' = req /\ applied' = applied \cup {r} /\ req[r].stage \in Consented
      /\ i \in Asked /\ IsIntent(i, AllTokens) /\ b.register \in BOOLEAN
      /\ WellFormed(Latest) /\ Latest' = After(Latest, Owner, b)
      /\ Accepts(Latest, Owner, b) /\ Fits(p, Owner, b) /\ Settles(Owner, i, b)
  BY LandFacts DEF OnceOnly
<1>2. Consenting' = Consenting BY <1>1, SameRequests
<1>3. Consenting[r] = i /\ i # Nothing BY <1>1, NothingAssumption DEF Consenting, Consents
<1>4. CASE r \in applied
  <2>1. Taken(Latest, Owner, b) BY <1>4 DEF OnceOnly, Settled
  <2> HIDE DEF b
  <2> DEFINE q == Latest
  <2>2. Taken(q, Owner, b) /\ Accepts(q, Owner, b) /\ b.register \in BOOLEAN /\ Latest' = After(q, Owner, b)
    BY <1>1, <2>1
  <2> HIDE DEF q
  <2>3. \A u, t : Balance(After(q, Owner, b), u, t) = Balance(q, u, t) BY <2>2, TakenOnlyOnce
  <2>4. \A u, t : Balance(Latest', u, t) = Balance(q, u, t) BY <2>2, <2>3
  <2>5. Balances' = Balances
    <3>1. Balances' = [u \in Users |-> [t \in AllTokens |-> Balance(Latest', u, t)]]
      BY DEF Balances, Users, AllTokens, Balance, Unspent
    <3> QED BY <2>4, <3>1 DEF Balances, q
  <2>6. applied' = applied BY <1>1, <1>4
  <2> QED BY <1>2, <2>5, <2>6, LedgerStays
<1>5. CASE r \notin applied
  <2> HIDE DEF i, b, p
  <2>1. BalancesTake(i) BY <1>1, OwnersBatch
  <2>2. Ledger!Take(i) BY <1>1, <2>1, TakeStep
  <2>3. Ledger!Take(Consenting[r]) BY <1>3, <2>2
  <2>4. Ledger!Settle(r) BY <1>1, <1>2, <1>3, <1>5, <2>3 DEF Ledger!Settle, Consenting, Consents
  <2> QED BY <2>4 DEF Ledger!Next
<1> QED BY <1>4, <1>5

LEMMA LedgerOther ==
  ASSUME OnceOnly, NEW i \in OtherIntents, Elsewhere(Owner, i)
  PROVE  [Ledger!Next]_(Ledger!vars)
<1>1. IsIntent(i, AllTokens) BY AskedAreIntents
<1>2. PICK b : /\ req' = req /\ applied' = applied
               /\ WellFormed(Latest) /\ Grown(Latest, Latest') /\ Latest' = After(Latest, Owner, b)
               /\ Accepts(Latest, Owner, b) /\ Fits(Latest, Owner, b) /\ Settles(Owner, i, b)
  BY <1>1, ElsewhereFacts DEF OnceOnly
<1>3. BalancesTake(i) BY <1>1, <1>2, OwnersBatch
<1>4. Ledger!Take(i) BY <1>1, <1>3, TakeStep
<1>5. Consenting' = Consenting BY <1>2, SameRequests
<1>6. Ledger!OtherWallet BY <1>2, <1>4, <1>5 DEF Ledger!OtherWallet, Consenting, Consents
<1> QED BY <1>6 DEF Ledger!Next

\* Lists of one item.
LEMMA OneItemTotals ==
  ASSUME NEW s, Money(s), Len(s) = 1, NEW t, NEW u
  PROVE  /\ TotalIn(s, t) = IF s[1].token = t THEN s[1].amount ELSE 0
         /\ TotalTo(s, u, t) = IF s[1].token = t /\ s[1].to = u THEN s[1].amount ELSE 0
<1> DEFINE v == WeightsTo(s, u, t)
           w == Weights(s, t)
<1>1. \A k \in 1..1 : w[k] \in Nat /\ w[k] = IF s[k].token = t THEN s[k].amount ELSE 0
  <2>1. \A k \in 1..Len(s) : w[k] \in Nat /\ w[k] = IF s[k].token = t THEN s[k].amount ELSE 0 BY MoneyWeights
  <2> HIDE DEF w
  <2> QED BY <2>1
<1>2. \A k \in 1..1 : v[k] \in Nat /\ v[k] = IF s[k].token = t /\ s[k].to = u THEN s[k].amount ELSE 0
  BY MoneyWeightsTo
<1>3. TotalTo(s, u, t) = SumOf(v, 1) /\ TotalIn(s, t) = SumOf(w, 1) BY TotalToIsSum, TotalInIsSum
<1> HIDE DEF v, w
<1>4. ASSUME NEW x, \A k \in 1..1 : x[k] \in Nat PROVE SumOf(x, 1) = x[1]
  <2>1. SumOf(x, 0) = 0 /\ SumOf(x, 1) = SumOf(x, 0) + x[1]
    <3>1. 1 \in Nat /\ 1 \in 1..1 /\ 1 - 1 = 0 OBVIOUS
    <3>2. SumOf(x, 0) = 0 /\ \A k \in 1..1 : SumOf(x, k) = SumOf(x, k - 1) + x[k] BY <1>4, <3>1, SumUnfolds
    <3> QED BY <3>1, <3>2
  <2>2. x[1] \in Nat BY <1>4
  <2> QED BY <2>1, <2>2
<1>5. SumOf(v, 1) = v[1] /\ SumOf(w, 1) = w[1]
  <2>1. (\A k \in 1..1 : v[k] \in Nat) /\ \A k \in 1..1 : w[k] \in Nat BY <1>1, <1>2
  <2> QED BY <1>4, <2>1
<1>6. 1 \in 1..1 OBVIOUS
<1>7. w[1] = IF s[1].token = t THEN s[1].amount ELSE 0 BY <1>1, <1>6
<1>8. v[1] = IF s[1].token = t /\ s[1].to = u THEN s[1].amount ELSE 0 BY <1>2, <1>6
<1> QED BY <1>3, <1>5, <1>7, <1>8

\* The gift's deposit pays for the gift.
LEMMA GiftMoves ==
  ASSUME NEW t \in AllTokens, NEW a \in Gifts, NEW u, NEW s
  PROVE  /\ Deficit(GiftOf(t, a), s) = 0
         /\ TotalTo(GiftOf(t, a).transfers, u, s) = IF u = Owner /\ s = t THEN a ELSE 0
<1> DEFINE g == GiftOf(t, a)
           d == [token |-> t, amount |-> a]
           x == [to |-> Owner, token |-> t, amount |-> a]
           ds == <<d>>
           xs == <<x>>
           e == << >>
<1>0. IsIntent(g, AllTokens) BY GiftsAreIntents
<1>1. a \in Nat BY AmountsAssumption
<1>2. d.token = t /\ d.amount = a /\ x.token = t /\ x.amount = a /\ x.to = Owner OBVIOUS
<1> HIDE DEF d, x
<1>3. Len(ds) = 1 /\ ds[1] = d /\ Len(xs) = 1 /\ xs[1] = x OBVIOUS
<1>4. g.deposits = ds /\ g.transfers = xs /\ g.withdrawals = e BY DEF GiftOf, d, x
<1>5. TotalIn(e, s) = 0 BY EmptyList
<1> HIDE DEF ds, xs, e, g
<1>6. Money(g.deposits) /\ Money(g.transfers) BY <1>0, IntentLists
<1>7. Money(ds) /\ Money(xs) BY <1>4, <1>6
<1>8. TotalIn(ds, s) = IF t = s THEN a ELSE 0 BY <1>2, <1>3, <1>7, OneItemTotals
<1>9. /\ TotalIn(xs, s) = IF t = s THEN a ELSE 0
      /\ TotalTo(xs, u, s) = IF t = s /\ Owner = u THEN a ELSE 0
  BY <1>2, <1>3, <1>7, OneItemTotals
<1>10. Deficit(g, s) = TotalIn(xs, s) + TotalIn(e, s) - TotalIn(ds, s) BY <1>4 DEF Deficit
<1>11. Deficit(g, s) = 0 BY <1>1, <1>5, <1>8, <1>9, <1>10
<1>12. TotalTo(g.transfers, u, s) = IF u = Owner /\ s = t THEN a ELSE 0 BY <1>4, <1>9
<1> QED BY <1>11, <1>12 DEF g

LEMMA BalanceType ==
  ASSUME NEW p, WellFormed(p), NEW u, NEW t
  PROVE  Balance(p, u, t) \in Nat
<1> DEFINE owned == {n \in Unspent(p, p.notes) : n.to = u /\ n.token = t}
<1>1. IsFiniteSet(p.notes) /\ \A n \in p.notes : n.amount \in Nat BY DEF WellFormed
<1>2. owned \subseteq p.notes BY DEF Unspent
<1>3. Balance(p, u, t) = TotalOf(owned) BY DEF Balance
<1> HIDE DEF owned
<1>4. IsFiniteSet(owned) BY <1>1, <1>2, FS_Subset
<1>5. TotalOf(owned) \in Nat BY <1>1, <1>2, <1>4, TotalOfType
<1> QED BY <1>3, <1>5

LEMMA LedgerGift ==
  ASSUME OnceOnly, NEW t \in AllTokens, NEW a \in Gifts, Elsewhere(Sender, GiftOf(t, a))
  PROVE  [Ledger!Next]_(Ledger!vars)
<1> DEFINE g == GiftOf(t, a)
<1>1. IsIntent(g, AllTokens) BY GiftsAreIntents
<1>2. \A u, s : Deficit(g, s) = 0 /\ TotalTo(g.transfers, u, s) = IF u = Owner /\ s = t THEN a ELSE 0 BY GiftMoves
<1>3. Elsewhere(Sender, g) OBVIOUS
<1> HIDE DEF g
<1>4. PICK b : /\ req' = req /\ applied' = applied
               /\ WellFormed(Latest) /\ Grown(Latest, Latest') /\ Latest' = After(Latest, Sender, b)
               /\ Accepts(Latest, Sender, b) /\ Fits(Latest, Sender, b) /\ Settles(Sender, g, b)
  BY <1>1, <1>3, ElsewhereFacts DEF OnceOnly
<1> DEFINE q == Latest
<1>5. WellFormed(q) /\ Accepts(q, Sender, b) /\ Fits(q, Sender, b) /\ Latest' = After(q, Sender, b) BY <1>4
<1> HIDE DEF q
<1>6. \A u, s : Balance(After(q, Sender, b), u, s) =
                   Balance(q, u, s) + TotalTo(g.transfers, u, s) - (IF u = Sender THEN Deficit(g, s) ELSE 0)
  BY <1>1, <1>4, <1>5, BalanceMoves
<1>7. a \in Nat BY AmountsAssumption
<1>8. \A u, s : Balance(q, u, s) \in Nat BY <1>5, BalanceType
<1>9. \A u, s : Balance(Latest', u, s) = IF u = Owner /\ s = t THEN Balance(q, u, s) + a ELSE Balance(q, u, s)
  <2> TAKE u, s
  <2>1. Balance(Latest', u, s) = Balance(q, u, s) + TotalTo(g.transfers, u, s) - (IF u = Sender THEN Deficit(g, s) ELSE 0)
    BY <1>5, <1>6
  <2>2. Deficit(g, s) = 0 /\ TotalTo(g.transfers, u, s) = IF u = Owner /\ s = t THEN a ELSE 0 BY <1>2
  <2>3. Balance(q, u, s) \in Nat BY <1>8
  <2> QED BY <1>7, <2>1, <2>2, <2>3
<1>10. Balances' = [Balances EXCEPT ![Owner][t] = @ + a]
  <2>1. Balances' = [u \in Users |-> [s \in AllTokens |-> Balance(Latest', u, s)]]
    BY DEF Balances, Users, AllTokens, Balance, Unspent
  <2>2. Balances = [u \in Users |-> [s \in AllTokens |-> Balance(q, u, s)]] BY DEF Balances, q
  <2>3. Owner \in Users BY DEF Users
  <2> HIDE DEF q
  <2> QED BY <1>9, <2>1, <2>2, <2>3
<1>11. Consenting' = Consenting BY <1>4, SameRequests
<1>12. Ledger!Receive BY <1>4, <1>10, <1>11 DEF Ledger!Receive, Balances, Consenting, Consents
<1> QED BY <1>12 DEF Ledger!Next

LEMMA LedgerNext == OnceOnly /\ [Next]_vars => [Ledger!Next]_(Ledger!vars)
<1> SUFFICES ASSUME OnceOnly, [Next]_vars PROVE [Ledger!Next]_(Ledger!vars) OBVIOUS
<1>0. Sound BY DEF OnceOnly
<1>1. chain' = chain => Latest' = Latest BY DEF Latest
<1>2. ASSUME Latest' = Latest, req' = req, applied' = applied PROVE [Ledger!Next]_(Ledger!vars)
  BY <1>2, SameLatest, SameRequests, LedgerStays
<1>3. ASSUME NEW r \in Requests, Step(r) PROVE [Ledger!Next]_(Ledger!vars)
  <2>1. CASE Begin(r) \/ Recheck(r) \/ GiveUp(r) \/ Approve(r) \/ Prove(r) \/ Relay(r) \/ Estimate(r) \/ Submit(r)
    <3>1. chain' = chain /\ applied' = applied /\ r \notin applied /\ Moves(r) BY <1>0, <2>1, RequestMoves
    <3> QED BY <3>1, LedgerMoves
  <2>2. CASE CallerSubmits(r) \/ Drop(r) BY <1>1, <1>2, <2>2 DEF CallerSubmits, Drop
  <2>3. CASE Land(r) BY <2>3, LedgerLand
  <2> QED BY <1>3, <2>1, <2>2, <2>3 DEF Step
<1>4. CASE Mine
  <2>1. chain' = Append(chain, Latest) /\ req' = req /\ applied' = applied BY <1>4 DEF Mine
  <2>2. Latest' = Latest BY <1>0, <2>1, LatestOfLonger DEF Sound
  <2> QED BY <1>2, <2>1, <2>2
<1>5. CASE OtherWallet
  <2>1. PICK i \in OtherIntents : Elsewhere(Owner, i) BY <1>5 DEF OtherWallet
  <2> QED BY <2>1, LedgerOther
<1>6. CASE Gift
  <2>1. PICK t \in AllTokens, a \in Gifts : Elsewhere(Sender, GiftOf(t, a)) BY <1>6 DEF Gift, GiftOf
  <2> QED BY <2>1, LedgerGift
<1>7. CASE BalancesBegin \/ BalancesRead BY <1>1, <1>2, <1>7 DEF BalancesBegin, BalancesRead
<1>8. CASE UNCHANGED vars BY <1>1, <1>2, <1>8 DEF vars
<1> QED BY <1>3, <1>4, <1>5, <1>6, <1>7, <1>8 DEF Next

LEMMA LedgerInit == Init => Ledger!Init
<1> SUFFICES ASSUME Init PROVE Ledger!Init OBVIOUS
<1>1. Sound BY SoundInit
<1>2. WellFormed(Latest) BY <1>1, ChainFacts DEF Sound
<1>3. \A u, t : Balance(Latest, u, t) \in Nat BY <1>2, BalanceType
<1>4. Balances \in [Users -> [AllTokens -> Nat]] BY <1>3 DEF Balances
<1>5. \A r \in Requests : req[r].stage = "idle" BY DEF Init, Idle
<1>6. \A r \in Requests : Consents(req[r]) = Nothing BY <1>5 DEF Consents, Consented, Planned
<1>7. Consenting = [r \in Requests |-> Nothing] BY <1>6 DEF Consenting
<1>8. applied = {} BY DEF Init
<1> QED BY <1>4, <1>7, <1>8 DEF Ledger!Init, Balances, Consenting, Consents

\* The wallet and the pool together keep the ledger of consents: private balances, the owner's and all others', change
\* only by batches that were approved, each once however often it is submitted, and by the amounts that were shown,
\* with the change back to the owner (planner.rs, plan; mod.rs, prepare, describe and invoke_transaction).
THEOREM KeepsLedgerHolds == Spec => KeepsLedger
<1>1. Init => Ledger!Init BY LedgerInit
<1>2. OnceOnly /\ [Next]_vars => [Ledger!Next]_(Ledger!vars) BY LedgerNext
<1> QED BY <1>1, <1>2, OnceOnlyHolds, PTL DEF Spec, KeepsLedger, Ledger!Spec

--------------------------------------------------------------------------------
(* The slot-by-slot scan of wallet_strk20Balances.                         *)

\* Notes are brought by users.
NewByUsers(p, q) == \A n \in q.notes : n \in p.notes \/ n.from \in Users

\* Blocks between which the owner neither sends nor spends a note.
Steady(p, q) == WellFormed(p) /\ WellFormed(q) /\ Grown(p, q) /\ NewByUsers(p, q) /\ Sent(p) = Sent(q)

LEMMA SentSays ==
  ASSUME NEW p, NEW q
  PROVE  Sent(p) = Sent(q) <=> /\ {n \in p.notes : n.from = Owner} = {n \in q.notes : n.from = Owner}
                               /\ {n \in p.nulls : n.to = Owner} = {n \in q.nulls : n.to = Owner}
<1> DEFINE a(x) == {n \in x.notes : n.from = Owner}
           b(x) == {n \in x.nulls : n.to = Owner}
<1>1. Sent(p) = [notes |-> a(p), spent |-> b(p)] /\ Sent(q) = [notes |-> a(q), spent |-> b(q)] BY DEF Sent
<1> HIDE DEF a, b
<1>2. Sent(p).notes = a(p) /\ Sent(q).notes = a(q) /\ Sent(p).spent = b(p) /\ Sent(q).spent = b(q) BY <1>1
<1>3. Sent(p) = Sent(q) <=> a(p) = a(q) /\ b(p) = b(q) BY <1>1, <1>2
<1> QED BY <1>3 DEF a, b

LEMMA SentBetween ==
  ASSUME NEW p, NEW q, NEW r, Grown(p, q), Grown(q, r), Sent(p) = Sent(r)
  PROVE  Sent(p) = Sent(q) /\ Sent(q) = Sent(r)
<1>1. /\ {n \in p.notes : n.from = Owner} = {n \in r.notes : n.from = Owner}
      /\ {n \in p.nulls : n.to = Owner} = {n \in r.nulls : n.to = Owner}
  BY SentSays
<1>2. p.notes \subseteq q.notes /\ q.notes \subseteq r.notes /\ p.nulls \subseteq q.nulls /\ q.nulls \subseteq r.nulls
  BY DEF Grown
<1>3. /\ {n \in p.notes : n.from = Owner} = {n \in q.notes : n.from = Owner}
      /\ {n \in p.nulls : n.to = Owner} = {n \in q.nulls : n.to = Owner}
  BY <1>1, <1>2
<1>4. Sent(p) = Sent(q) BY <1>3, SentSays
<1> QED BY <1>4

LEMMA SteadyHoldings ==
  ASSUME NEW p, NEW q, Steady(p, q), NEW t
  PROVE  /\ \A n \in Holding(p, Owner, t) : n \in Holding(q, Owner, t)
         /\ \A n \in Holding(q, Owner, t) : n \in p.notes \/ n.from # Sender => n \in Holding(p, Owner, t)
<1>1. /\ p.notes \subseteq q.notes /\ p.nulls \subseteq q.nulls
      /\ \A n \in q.notes : n \in p.notes \/ n.from \in {Owner, Sender}
  BY DEF Steady, Grown, NewByUsers, Users
<1>2. /\ {n \in p.notes : n.from = Owner} = {n \in q.notes : n.from = Owner}
      /\ {n \in p.nulls : n.to = Owner} = {n \in q.nulls : n.to = Owner}
  BY SentSays DEF Steady
<1>3. \A x, n : n \in Holding(x, Owner, t) <=> n \in x.notes /\ n \notin x.nulls /\ n.to = Owner /\ n.token = t
  BY DEF Holding, Unspent
<1>4. ASSUME NEW n \in Holding(p, Owner, t) PROVE n \in Holding(q, Owner, t)
  <2>1. n \in q.notes /\ n.to = Owner /\ n.token = t /\ n \notin p.nulls BY <1>1, <1>3
  <2>2. n \notin q.nulls BY <1>2, <2>1
  <2> QED BY <1>3, <2>1, <2>2
<1>5. ASSUME NEW n \in Holding(q, Owner, t), n \in p.notes \/ n.from # Sender PROVE n \in Holding(p, Owner, t)
  <2>1. n \in q.notes /\ n \notin q.nulls /\ n.to = Owner /\ n.token = t BY <1>3
  <2>2. n \in p.notes BY <1>1, <1>2, <1>5, <2>1
  <2>3. n \notin p.nulls BY <1>1, <2>1
  <2> QED BY <1>3, <2>1, <2>2, <2>3
<1> QED BY <1>4, <1>5

\* The incoming channels, each once.
SendersTo(p) == {c.from : c \in {d \in p.chans : d.to = Owner}}

LEMMA IncomingFacts ==
  ASSUME NEW p, WellFormed(p), NEW from, from = Incoming(p)
  PROVE  /\ Len(from) \in Nat /\ DOMAIN from = 1..Len(from)
         /\ {from[j] : j \in 1..Len(from)} = SendersTo(p)
         /\ \A j, k \in 1..Len(from) : from[j] = from[k] => j = k
<1> DEFINE C == {d \in p.chans : d.to = Owner}
           m == Cardinality(C)
           at(i) == CHOOSE c \in C : c.place = i - 1
           P == {d.place : d \in C}
<1>1. IsFiniteSet(C) /\ m \in Nat
  <2>1. IsFiniteSet(p.chans) /\ C \subseteq p.chans BY DEF WellFormed
  <2> QED BY <2>1, FS_Subset, FS_CardinalityType
<1>2. from = [i \in 1..m |-> at(i).from] BY DEF Incoming
<1>3. P = 0..(m - 1)
  <2>1. CASE C = {}
    <3>1. m = 0 BY <2>1, FS_EmptySet
    <3>2. P = {} BY <2>1
    <3> QED BY <3>1, <3>2
  <2>2. CASE C # {}
    <3>1. PICK c \in p.chans : c.to = Owner BY <2>2
    <3>2. LET incoming == {d \in p.chans : d.to = c.to}
          IN  {d.place : d \in incoming} = 0..(Cardinality(incoming) - 1)
      BY <3>1 DEF WellFormed
    <3> QED BY <3>1, <3>2
  <2> QED BY <2>1, <2>2
<1>4. \A c, d \in C : c.from = d.from => c = d BY DEF WellFormed
<1>5. \A c, d \in C : c.place = d.place => c = d
  <2> DEFINE f == [c \in C |-> c.place]
  <2>1. f \in Surjection(C, P) BY DEF Surjection
  <2>2. Cardinality(P) = m
    <3>1. Cardinality(0..(m - 1)) = m BY <1>1, FS_Interval
    <3> QED BY <1>3, <3>1
  <2> HIDE DEF P, m, C
  <2>3. f \in Injection(C, P) BY <1>1, <2>1, <2>2, FS_Surjection DEF m
  <2>4. \A c, d \in C : f[c] = f[d] => c = d BY <2>3 DEF Injection, IsInjective
  <2> QED BY <2>4
<1> HIDE DEF C, m
<1>6. \A i \in 1..m : at(i) \in C /\ at(i).place = i - 1
  <2> TAKE i \in 1..m
  <2>1. i - 1 \in 0..(m - 1) BY <1>1
  <2>2. i - 1 \in P BY <1>3, <2>1
  <2> QED BY <2>2
<1> HIDE DEF P, at
<1>7. /\ Len(from) = m /\ Len(from) \in Nat /\ DOMAIN from = 1..Len(from)
      /\ \A i \in 1..m : from[i] = at(i).from
  BY <1>1, <1>2
<1>8. \A j, k \in 1..Len(from) : from[j] = from[k] => j = k
  <2> SUFFICES ASSUME NEW j \in 1..m, NEW k \in 1..m, from[j] = from[k] PROVE j = k BY <1>7
  <2>1. at(j) = at(k) BY <1>4, <1>6, <1>7
  <2>2. j - 1 = k - 1 BY <1>6, <2>1
  <2> QED BY <1>1, <2>2
<1>9. SendersTo(p) = {c.from : c \in C} BY DEF SendersTo, C
<1>10. ASSUME NEW c \in C PROVE \E j \in 1..Len(from) : from[j] = c.from
  <2>1. c.place \in 0..(m - 1) BY <1>3 DEF P
  <2>2. c.place + 1 \in 1..m /\ (c.place + 1) - 1 = c.place BY <1>1, <2>1
  <2>3. at(c.place + 1) = c BY <1>5, <1>6, <2>2
  <2> QED BY <1>7, <2>2, <2>3
<1>11. \A j \in 1..Len(from) : from[j] \in {c.from : c \in C} BY <1>6, <1>7
<1>12. {from[j] : j \in 1..Len(from)} = {c.from : c \in C} BY <1>10, <1>11
<1> QED BY <1>7, <1>8, <1>9, <1>12

\* What a scan has counted: of the senders it is through with, and of the one it is at.
CountedBefore(h, D) == {n \in Holding(h, Owner, FeeToken) : n.from \in D}

CountedNow(l, s, k) == {n \in Holding(l, Owner, FeeToken) : n.from = s /\ n.index < k}

Counted(h, l, D, s, k) == CountedBefore(h, D) \cup CountedNow(l, s, k)

SlotsFrom(l, s) == Slots(NotesOf(l, s, Owner, FeeToken))

\* The first empty slot of a sender's notes.
EndsAt(l, s, k) == k \in Nat /\ 0..(k - 1) \subseteq SlotsFrom(l, s) /\ k \notin SlotsFrom(l, s)

LEMMA HoldingSays ==
  ASSUME NEW p
  PROVE  \A n : n \in Holding(p, Owner, FeeToken) <=>
                   n \in p.notes /\ n \notin p.nulls /\ n.to = Owner /\ n.token = FeeToken
BY DEF Holding, Unspent

LEMMA HoldingFacts ==
  ASSUME NEW p, WellFormed(p)
  PROVE  /\ IsFiniteSet(Holding(p, Owner, FeeToken))
         /\ \A n \in Holding(p, Owner, FeeToken) : n.amount \in Nat /\ n.index \in Nat
<1>1. IsFiniteSet(p.notes) /\ \A n \in p.notes : n.amount \in Nat BY DEF WellFormed
<1>2. Holding(p, Owner, FeeToken) \subseteq p.notes BY HoldingSays
<1>3. IsFiniteSet(Holding(p, Owner, FeeToken)) BY <1>1, <1>2, FS_Subset
<1>4. ASSUME NEW n \in Holding(p, Owner, FeeToken) PROVE n.index \in Nat
  <2> DEFINE S == NotesOf(p, n.from, n.to, n.token)
  <2>1. IsFiniteSet(S) /\ Dense(S) BY WellFormedLists
  <2>2. n \in S BY <1>2 DEF NotesOf
  <2> HIDE DEF S
  <2>3. n.index \in 0..(Cardinality(S) - 1) BY <2>1, <2>2 DEF Dense, Slots
  <2> QED BY <2>3
<1> QED BY <1>1, <1>2, <1>3, <1>4

LEMMA NothingCountedYet ==
  ASSUME NEW p, WellFormed(p), NEW s
  PROVE  CountedNow(p, s, 0) = {}
<1>1. \A n \in Holding(p, Owner, FeeToken) : n.index \in Nat BY HoldingFacts
<1>2. \A n \in Holding(p, Owner, FeeToken) : ~(n.index < 0)
  <2> TAKE n \in Holding(p, Owner, FeeToken)
  <2>1. n.index \in Nat BY <1>1
  <2> QED BY <2>1
<1> QED BY <1>2 DEF CountedNow

\* One more slot read: its note is counted when it is not spent.
LEMMA OneMoreSlot ==
  ASSUME NEW h, WellFormed(h), NEW l, WellFormed(l), NEW D, NEW s, s \notin D, NEW k \in Nat,
         NEW slot, slot = {n \in NotesOf(l, s, Owner, FeeToken) : n.index = k}
  PROVE  TotalOf(Counted(h, l, D, s, k + 1)) = TotalOf(Counted(h, l, D, s, k)) + TotalOf(Unspent(l, slot))
<1> DEFINE A == CountedBefore(h, D) \cup CountedNow(l, s, k)
           B == Unspent(l, slot)
<1>1. /\ \A n : n \in CountedBefore(h, D) <=> n \in Holding(h, Owner, FeeToken) /\ n.from \in D
      /\ \A n, m : n \in CountedNow(l, s, m) <=> n \in Holding(l, Owner, FeeToken) /\ n.from = s /\ n.index < m
  BY DEF CountedBefore, CountedNow
<1>2. \A n : n \in B <=> n \in Holding(l, Owner, FeeToken) /\ n.from = s /\ n.index = k
  BY HoldingSays DEF Unspent, NotesOf
<1>3. /\ IsFiniteSet(Holding(h, Owner, FeeToken)) /\ IsFiniteSet(Holding(l, Owner, FeeToken))
      /\ \A n \in Holding(h, Owner, FeeToken) \cup Holding(l, Owner, FeeToken) : n.amount \in Nat
      /\ \A n \in Holding(l, Owner, FeeToken) : n.index \in Nat
  BY HoldingFacts
<1>4. IsFiniteSet(A)
  <2>1. IsFiniteSet(CountedBefore(h, D)) BY <1>1, <1>3, FS_Subset
  <2>2. IsFiniteSet(CountedNow(l, s, k)) BY <1>1, <1>3, FS_Subset
  <2> QED BY <2>1, <2>2, FS_Union
<1>5. IsFiniteSet(B) BY <1>2, <1>3, FS_Subset
<1>6. A \cap B = {}
  <2>1. ASSUME NEW n \in A, n \in B PROVE FALSE
    <3>1. n.from = s /\ n.index = k BY <1>2, <2>1
    <3>2. n \notin CountedBefore(h, D) BY <1>1, <3>1
    <3>3. n.index < k BY <1>1, <2>1, <3>2
    <3> QED BY <3>1, <3>3
  <2> QED BY <2>1
<1>7. \A n \in A \cup B : n.amount \in Nat BY <1>1, <1>2, <1>3
<1>8. CountedBefore(h, D) \cup CountedNow(l, s, k + 1) = A \cup B
  <2>1. ASSUME NEW n PROVE n \in CountedNow(l, s, k + 1) <=> n \in CountedNow(l, s, k) \/ n \in B
    <3>1. CASE n \in Holding(l, Owner, FeeToken) /\ n.from = s
      <4>1. n.index \in Nat BY <1>3, <3>1
      <4>2. n.index < k + 1 <=> n.index < k \/ n.index = k BY <4>1
      <4> QED BY <1>1, <1>2, <3>1, <4>2
    <3>2. CASE ~(n \in Holding(l, Owner, FeeToken) /\ n.from = s) BY <1>1, <1>2, <3>2
    <3> QED BY <3>1, <3>2
  <2> QED BY <2>1
<1> HIDE DEF A, B
<1>9. TotalOf(A \cup B) = TotalOf(A) + TotalOf(B) BY <1>4, <1>5, <1>6, <1>7, TotalOfUnion
<1> QED BY <1>8, <1>9 DEF A, B, Counted

\* An empty slot is the end of a sender's notes.
LEMMA EndOfNotes ==
  ASSUME NEW l, WellFormed(l), NEW s, NEW k, EndsAt(l, s, k)
  PROVE  \A n : n \in CountedNow(l, s, k) <=> n \in Holding(l, Owner, FeeToken) /\ n.from = s
<1> DEFINE S == NotesOf(l, s, Owner, FeeToken)
           m == Cardinality(S)
<1>0. k \in Nat /\ 0..(k - 1) \subseteq SlotsFrom(l, s) /\ k \notin SlotsFrom(l, s) BY DEF EndsAt
<1>1. IsFiniteSet(S) /\ Slots(S) = 0..(m - 1) /\ m \in Nat
  <2>1. IsFiniteSet(S) /\ Dense(S) BY WellFormedLists
  <2> QED BY <2>1, FS_CardinalityType DEF Dense
<1>2. SlotsFrom(l, s) = Slots(S) BY DEF SlotsFrom
<1> HIDE DEF m
<1>3. k = m
  <2>1. k \notin 0..(m - 1) BY <1>0, <1>1, <1>2
  <2>2. k >= m BY <1>0, <1>1, <2>1
  <2>3. m \notin 0..(k - 1) BY <1>0, <1>1, <1>2
  <2> QED BY <1>0, <1>1, <2>2, <2>3
<1>4. ASSUME NEW n \in Holding(l, Owner, FeeToken), n.from = s PROVE n.index < k
  <2>1. n \in S BY <1>4, HoldingSays DEF NotesOf
  <2>2. n.index \in Slots(S) BY <2>1 DEF Slots
  <2>3. n.index \in 0..(m - 1) BY <1>1, <2>2
  <2> QED BY <1>1, <1>3, <2>3
<1> QED BY <1>4 DEF CountedNow

\* Through with a sender: what was counted is what some block held of the senders so far, in which only the sender
\* that may have paid meanwhile makes a difference.
LEMMA ThroughWith ==
  ASSUME NEW h, NEW l, Steady(h, l), NEW D, NEW s, s \notin D, NEW k, EndsAt(l, s, k),
         NEW E, E = D \cup {s}
  PROVE  /\ s = Sender => Counted(h, l, D, s, k) = CountedBefore(l, E)
         /\ s # Sender => Counted(h, l, D, s, k) = CountedBefore(h, E)
<1> DEFINE H == Holding(h, Owner, FeeToken)
           L == Holding(l, Owner, FeeToken)
<1>1. \A x, F, n : n \in CountedBefore(x, F) <=> n \in Holding(x, Owner, FeeToken) /\ n.from \in F
  BY DEF CountedBefore
<1>2. \A n : n \in CountedNow(l, s, k) <=> n \in L /\ n.from = s BY EndOfNotes DEF Steady
<1>3. /\ \A n \in H : n \in L
      /\ \A n \in L : n.from # Sender => n \in H
  BY SteadyHoldings
<1> HIDE DEF H, L
<1>4. CASE s = Sender
  <2>1. \A n : n \in H /\ n.from \in D <=> n \in L /\ n.from \in D BY <1>3, <1>4
  <2>2. \A n : n \in CountedBefore(h, D) \cup CountedNow(l, s, k) <=> n \in CountedBefore(l, E)
    BY <1>1, <1>2, <2>1 DEF H, L
  <2> QED BY <1>4, <2>2 DEF Counted
<1>5. CASE s # Sender
  <2>1. \A n : n \in L /\ n.from = s <=> n \in H /\ n.from = s BY <1>3, <1>5
  <2>2. \A n : n \in CountedBefore(h, D) \cup CountedNow(l, s, k) <=> n \in CountedBefore(h, E)
    BY <1>1, <1>2, <2>1 DEF H, L
  <2> QED BY <1>5, <2>2 DEF Counted
<1> QED BY <1>4, <1>5

\* A new block: the slots read hold what they held.
LEMMA ReadSlotsStay ==
  ASSUME NEW l, NEW q, Steady(l, q), NEW s, NEW k \in Nat, 0..(k - 1) \subseteq SlotsFrom(l, s)
  PROVE  CountedNow(q, s, k) = CountedNow(l, s, k)
<1>1. \A x, n : n \in CountedNow(x, s, k) <=> n \in Holding(x, Owner, FeeToken) /\ n.from = s /\ n.index < k
  BY DEF CountedNow
<1>2. WellFormed(q) /\ l.notes \subseteq q.notes BY DEF Steady, Grown
<1>3. ASSUME NEW n \in CountedNow(l, s, k) PROVE n \in CountedNow(q, s, k)
  <2>1. n \in Holding(q, Owner, FeeToken) BY <1>1, SteadyHoldings
  <2> QED BY <1>1, <2>1
<1>4. ASSUME NEW n \in CountedNow(q, s, k) PROVE n \in CountedNow(l, s, k)
  <2>1. n \in Holding(q, Owner, FeeToken) /\ n.from = s /\ n.index < k BY <1>1
  <2>2. n.index \in Nat BY <1>2, <2>1, HoldingFacts
  <2>3. n.index \in 0..(k - 1) BY <2>1, <2>2
  <2>4. n.index \in SlotsFrom(l, s) BY <2>3
  <2>5. PICK m \in NotesOf(l, s, Owner, FeeToken) : m.index = n.index BY <2>4 DEF SlotsFrom, Slots
  <2> DEFINE S == NotesOf(q, s, Owner, FeeToken)
  <2>6. IsFiniteSet(S) /\ Dense(S) BY <1>2, WellFormedLists
  <2>7. n \in S BY <2>1, HoldingSays DEF NotesOf
  <2>8. m \in S BY <1>2, <2>5 DEF NotesOf
  <2> HIDE DEF S
  <2>9. m = n BY <2>5, <2>6, <2>7, <2>8, DenseIsInjective
  <2>10. n \in l.notes BY <2>5, <2>9 DEF NotesOf
  <2>11. n \in Holding(l, Owner, FeeToken) BY <2>1, <2>10, SteadyHoldings
  <2> QED BY <1>1, <2>1, <2>11
<1> QED BY <1>3, <1>4

\* Through with all: only a block in which the sender pays can hold notes of somebody else than the first block's senders.
LEMMA ThroughWithAll ==
  ASSUME NEW p, NEW h, Steady(p, h), h = p \/ Sender \in SendersTo(p)
  PROVE  CountedBefore(h, SendersTo(p)) = Holding(h, Owner, FeeToken)
<1>1. ASSUME NEW n \in Holding(h, Owner, FeeToken) PROVE n.from \in SendersTo(p)
  <2>1. n \in h.notes /\ n.to = Owner BY HoldingSays
  <2>2. CASE n \in p.notes
    <3>1. PICK s \in SubsOf(p, n.from, n.to) : s.token = n.token BY <2>2 DEF Steady, WellFormed
    <3>2. HasChannel(p, n.from, n.to)
      <4>1. s \in p.subs /\ s.from = n.from /\ s.to = n.to BY <3>1 DEF SubsOf
      <4>2. HasChannel(p, s.from, s.to) BY <4>1 DEF Steady, WellFormed
      <4> QED BY <4>1, <4>2
    <3> QED BY <2>1, <3>2 DEF HasChannel, SendersTo
  <2>3. CASE n \notin p.notes
    <3>1. n.from \in {Owner, Sender} BY <2>1, <2>3 DEF Steady, NewByUsers, Users
    <3>2. {x \in p.notes : x.from = Owner} = {x \in h.notes : x.from = Owner} BY SentSays DEF Steady
    <3>3. n.from # Owner BY <2>1, <2>3, <3>2
    <3>4. h # p BY <2>1, <2>3
    <3> QED BY <3>1, <3>3, <3>4
  <2> QED BY <2>2, <2>3
<1> QED BY <1>1 DEF CountedBefore

\* Whatever notes a block has more than an earlier one, users have brought.
ByUsers(c) == \A j, k \in 1..Len(c) : j <= k => NewByUsers(c[j], c[k])

\* A step of the chain.
BlockMade == /\ chain' = Append(chain, Latest') /\ scan' = scan
             /\ Grown(Latest, Latest') /\ NewByUsers(Latest, Latest')

LEMMA AfterByUsers ==
  ASSUME NEW p, NEW u \in Users, NEW b
  PROVE  NewByUsers(p, After(p, u, b))
<1> DEFINE q == After(p, u, b)
<1>1. Effect(p, u, b, q) BY AfterFacts
<1> HIDE DEF q
<1>2. q.notes = p.notes \cup NotesBy(u, b.creates) BY <1>1 DEF Effect
<1>3. \A n \in NotesBy(u, b.creates) : n.from = u
  <2> DEFINE list == b.creates
  <2> HIDE DEF list
  <2>1. \A x \in NotesBy(u, list) : x.from = u BY NotesBrought
  <2> QED BY <2>1 DEF list
<1>4. NewByUsers(p, q) BY <1>2, <1>3 DEF NewByUsers
<1> QED BY <1>4 DEF q

LEMMA ElsewhereMakesBlock ==
  ASSUME Sound, NEW u \in Users, NEW i, IsIntent(i, AllTokens), Elsewhere(u, i)
  PROVE  BlockMade
<1>1. PICK b : Grown(Latest, Latest') /\ Latest' = After(Latest, u, b) BY ElsewhereFacts
<1>2. NewByUsers(Latest, Latest') BY <1>1, AfterByUsers
<1> DEFINE q == After(Latest, u, PlanBatch(u, DiscoverState(Latest, u, i), i))
<1>3. chain' = Append(chain, q) /\ scan' = scan BY DEF Elsewhere
<1> HIDE DEF q
<1>4. Latest' = q BY <1>3, LatestOfLonger DEF Sound
<1> QED BY <1>1, <1>2, <1>3, <1>4 DEF BlockMade

LEMMA LandMakesBlock ==
  ASSUME Sound, NEW r \in Requests, Land(r)
  PROVE  BlockMade
<1> DEFINE b == req[r].batch
<1>1. Grown(Latest, Latest') /\ Latest' = After(Latest, Owner, b) BY LandFacts
<1>2. chain' = Append(chain, After(Latest, Owner, b)) /\ scan' = scan BY DEF Land
<1> HIDE DEF b
<1>3. Owner \in Users BY DEF Users
<1>4. NewByUsers(Latest, After(Latest, Owner, b)) BY <1>3, AfterByUsers
<1> QED BY <1>1, <1>2, <1>4 DEF BlockMade

LEMMA MineMakesBlock ==
  ASSUME Sound, Mine
  PROVE  BlockMade
<1>1. chain' = Append(chain, Latest) /\ scan' = scan BY DEF Mine
<1>2. Latest' = Latest BY <1>1, LatestOfLonger DEF Sound
<1>3. Grown(Latest, Latest) /\ NewByUsers(Latest, Latest) BY GrownMore DEF NewByUsers
<1> QED BY <1>1, <1>2, <1>3 DEF BlockMade

LEMMA NextMakesBlock ==
  ASSUME Sound, [Next]_vars
  PROVE  \/ BlockMade
         \/ chain' = chain /\ (scan' = scan \/ BalancesBegin \/ BalancesRead)
<1>1. ASSUME NEW r \in Requests, Step(r) PROVE BlockMade \/ (chain' = chain /\ scan' = scan)
  <2>1. CASE Land(r) BY <2>1, LandMakesBlock
  <2>2. CASE ~Land(r)
    BY <1>1, <2>2 DEF Step, Begin, Recheck, GiveUp, Approve, Prove, Relay, Estimate, Submit, CallerSubmits, Drop
  <2> QED BY <2>1, <2>2
<1>2. CASE Mine BY <1>2, MineMakesBlock
<1>3. Owner \in Users /\ Sender \in Users BY DEF Users
<1>4. CASE OtherWallet
  <2>1. PICK i \in OtherIntents : Elsewhere(Owner, i) BY <1>4 DEF OtherWallet
  <2>2. IsIntent(i, AllTokens) BY AskedAreIntents
  <2> QED BY <1>3, <2>1, <2>2, ElsewhereMakesBlock
<1>5. CASE Gift
  <2>1. PICK t \in AllTokens, a \in Gifts : Elsewhere(Sender, GiftOf(t, a)) BY <1>5 DEF Gift, GiftOf
  <2>2. IsIntent(GiftOf(t, a), AllTokens) BY GiftsAreIntents
  <2> QED BY <1>3, <2>1, <2>2, ElsewhereMakesBlock
<1>6. CASE BalancesBegin BY <1>6 DEF BalancesBegin
<1>7. CASE BalancesRead BY <1>7 DEF BalancesRead
<1>8. CASE UNCHANGED vars BY <1>8 DEF vars
<1> QED BY <1>1, <1>2, <1>4, <1>5, <1>6, <1>7, <1>8 DEF Next

\* The chain before and after a step of it.
LEMMA LongerFacts ==
  ASSUME Sound, Sound', BlockMade
  PROVE  /\ Len(chain) \in Nat /\ Len(chain') = Len(chain) + 1
         /\ \A k \in 1..Len(chain) : chain'[k] = chain[k]
         /\ chain'[Len(chain')] = Latest' /\ Latest = chain[Len(chain)]
         /\ WellFormed(Latest) /\ WellFormed(Latest')
<1> DEFINE c == chain
           d == chain'
           q == Latest'
           X == ToSet(c) \cup {q}
<1>1. ChainOk(c) /\ ChainOk(d) BY DEF Sound
<1>2. d = Append(c, q) BY DEF BlockMade
<1>3. Len(c) \in Nat /\ Latest = c[Len(c)] /\ WellFormed(Latest) BY <1>1, ChainFacts
<1>4. d[Len(d)] = q BY DEF Latest
<1> HIDE DEF q
<1>5. c \in Seq(X) /\ q \in X
  <2>1. c \in Seq(ToSet(c)) /\ ToSet(c) \subseteq X BY <1>1 DEF ChainOk, IsList
  <2> QED BY <2>1
<1> HIDE DEF X
<1>6. Len(d) = Len(c) + 1 /\ \A k \in 1..Len(c) : d[k] = c[k] BY <1>2, <1>3, <1>5
<1>7. WellFormed(q)
  <2>1. Len(d) \in 1..Len(d) BY <1>3, <1>6
  <2>2. WellFormed(d[Len(d)]) BY <1>1, <2>1 DEF ChainOk
  <2> QED BY <1>4, <2>2
<1> QED BY <1>3, <1>4, <1>6, <1>7 DEF q

LEMMA ByUsersNext ==
  ASSUME Sound, Sound', ByUsers(chain), [Next]_vars
  PROVE  ByUsers(chain')
<1>1. CASE chain' = chain BY <1>1
<1>2. CASE BlockMade
  <2> DEFINE c == chain
             d == chain'
             n == Len(chain)
  <2>1. /\ n \in Nat /\ Len(d) = n + 1 /\ \A k \in 1..n : d[k] = c[k]
        /\ d[n + 1] = Latest' /\ Latest = c[n]
    BY <1>2, LongerFacts
  <2>2. NewByUsers(Latest, Latest') BY <1>2 DEF BlockMade
  <2> SUFFICES ASSUME NEW j \in 1..(n + 1), NEW k \in 1..(n + 1), j <= k PROVE NewByUsers(d[j], d[k])
    BY <2>1 DEF ByUsers
  <2> HIDE DEF c, d, n
  <2>3. CASE k \in 1..n
    <3>1. j \in 1..n BY <2>1, <2>3
    <3>2. NewByUsers(c[j], c[k]) BY <2>3, <3>1 DEF ByUsers, c, n
    <3> QED BY <2>1, <2>3, <3>1, <3>2
  <2>4. CASE k \notin 1..n /\ j \in 1..n
    <3>1. k = n + 1 /\ n \in 1..n /\ j <= n BY <2>1, <2>4
    <3>2. NewByUsers(c[j], Latest) BY <2>1, <2>4, <3>1 DEF ByUsers, c, n
    <3>3. NewByUsers(c[j], Latest') BY <2>2, <3>2 DEF NewByUsers
    <3> QED BY <2>1, <2>4, <3>1, <3>3
  <2>5. CASE k \notin 1..n /\ j \notin 1..n
    <3>1. d[j] = d[k] BY <2>1, <2>5
    <3> QED BY <3>1 DEF NewByUsers
  <2> QED BY <2>3, <2>4, <2>5
<1> QED BY <1>1, <1>2, NextMakesBlock

LEMMA ByUsersInit == Init => ByUsers(chain)
<1> SUFFICES ASSUME Init PROVE ByUsers(chain) OBVIOUS
<1>1. PICK p \in InitialPools : chain = [h \in 1..(Lag + 1) |-> p] BY DEF Init
<1>2. Lag + 1 \in Nat BY AmountsAssumption
<1>3. Len(chain) = Lag + 1 BY <1>1, <1>2
<1>4. \A k \in 1..Len(chain) : chain[k] = p BY <1>1, <1>3
<1> QED BY <1>4 DEF ByUsers, NewByUsers

\* A scan on its way: the senders it is through with, and the block whose balance its sum is so far.
Behind(sc) == {sc.from[j] : j \in 1..(sc.at - 1)}

Sum(l, h, sc) == TotalOf(Counted(h, l, Behind(sc), sc.from[sc.at], sc.index))

Tally(c, sc) == \E h \in (sc.since + 1)..Len(c) :
                   sc.sum = Sum(c[Len(c)], c[h], sc) /\ (h = sc.since + 1 \/ Sender \in Behind(sc))

ScanAt(c, sc) ==
    /\ DOMAIN sc = {"stage", "since", "at", "index", "sum", "from"}
    /\ sc.since \in 0..(Len(c) - 1)
    /\ sc.from = Incoming(c[sc.since + 1])
    /\ sc.at \in 1..(Len(sc.from) + 1) /\ sc.index \in Nat
    /\ 0..(sc.index - 1) \subseteq SlotsFrom(c[Len(c)], sc.from[sc.at])
    /\ sc.at > Len(sc.from) => sc.index = 0
    /\ sc.stage = "done" => sc.at > Len(sc.from)
    /\ Sent(c[sc.since + 1]) = Sent(c[Len(c)]) => Tally(c, sc)

LEMMA ChainSteady ==
  ASSUME NEW c, ChainOk(c), ByUsers(c), NEW j \in 1..Len(c), NEW k \in 1..Len(c), j <= k, Sent(c[j]) = Sent(c[k])
  PROVE  Steady(c[j], c[k])
BY DEF ChainOk, ByUsers, Steady

\* The blocks a scan is about: the first, the one it counts for, the last.
LEMMA ScanBlocks ==
  ASSUME NEW c, ChainOk(c), ByUsers(c), NEW s \in 0..(Len(c) - 1), NEW h \in (s + 1)..Len(c),
         Sent(c[s + 1]) = Sent(c[Len(c)])
  PROVE  /\ Len(c) \in Nat /\ s + 1 \in 1..Len(c) /\ h \in 1..Len(c) /\ Len(c) \in 1..Len(c)
         /\ Steady(c[s + 1], c[h]) /\ Steady(c[h], c[Len(c)])
<1>1. Len(c) \in Nat BY SeqFacts DEF ChainOk, IsList
<1>2. s + 1 \in 1..Len(c) /\ h \in 1..Len(c) /\ Len(c) \in 1..Len(c) /\ s + 1 <= h /\ h <= Len(c) BY <1>1
<1>3. Grown(c[s + 1], c[h]) /\ Grown(c[h], c[Len(c)]) BY <1>2 DEF ChainOk
<1>4. Sent(c[s + 1]) = Sent(c[h]) /\ Sent(c[h]) = Sent(c[Len(c)]) BY <1>3, SentBetween
<1>5. Steady(c[s + 1], c[h]) BY <1>2, <1>4, ChainSteady
<1>6. Steady(c[h], c[Len(c)]) BY <1>2, <1>4, ChainSteady
<1> QED BY <1>1, <1>2, <1>5, <1>6

LEMMA ScanFacts ==
  ASSUME NEW c, ChainOk(c), NEW sc, ScanAt(c, sc)
  PROVE  /\ Len(c) \in Nat /\ Len(c) \in 1..Len(c) /\ WellFormed(c[Len(c)])
         /\ sc.since + 1 \in 1..Len(c) /\ WellFormed(c[sc.since + 1])
         /\ Len(sc.from) \in Nat
         /\ {sc.from[j] : j \in 1..Len(sc.from)} = SendersTo(c[sc.since + 1])
         /\ \A j, k \in 1..Len(sc.from) : sc.from[j] = sc.from[k] => j = k
<1>1. Len(c) \in Nat /\ Len(c) >= 1 BY SeqFacts DEF ChainOk, IsList
<1>2. Len(c) \in 1..Len(c) /\ sc.since + 1 \in 1..Len(c) BY <1>1 DEF ScanAt
<1>3. WellFormed(c[Len(c)]) /\ WellFormed(c[sc.since + 1]) BY <1>2 DEF ChainOk
<1>4. sc.from = Incoming(c[sc.since + 1]) BY DEF ScanAt
<1> DEFINE from == sc.from
<1> HIDE DEF from
<1>5. /\ Len(from) \in Nat
      /\ {from[j] : j \in 1..Len(from)} = SendersTo(c[sc.since + 1])
      /\ \A j, k \in 1..Len(from) : from[j] = from[k] => j = k
  BY <1>3, <1>4, IncomingFacts DEF from
<1> QED BY <1>1, <1>2, <1>3, <1>5 DEF from

LEMMA ScanBegins ==
  ASSUME NEW c, ChainOk(c), NEW sc,
         sc = [stage |-> "scan", since |-> Len(c) - 1, at |-> 1, index |-> 0, sum |-> 0, from |-> Incoming(c[Len(c)])]
  PROVE  ScanAt(c, sc)
<1>1. Len(c) \in Nat /\ Len(c) >= 1 BY SeqFacts DEF ChainOk, IsList
<1>2. (Len(c) - 1) + 1 = Len(c) /\ Len(c) \in 1..Len(c) /\ Len(c) - 1 \in 0..(Len(c) - 1) BY <1>1
<1> DEFINE from == Incoming(c[Len(c)])
<1>3. WellFormed(c[Len(c)]) BY <1>2 DEF ChainOk
<1>4. Len(from) \in Nat BY <1>3, IncomingFacts
<1> HIDE DEF from
<1>5. /\ DOMAIN sc = {"stage", "since", "at", "index", "sum", "from"}
      /\ sc.stage = "scan" /\ sc.since = Len(c) - 1 /\ sc.at = 1 /\ sc.index = 0 /\ sc.sum = 0 /\ sc.from = from
  BY DEF from
<1>6. Behind(sc) = {} BY <1>5 DEF Behind
<1>7. CountedBefore(c[Len(c)], Behind(sc)) = {} BY <1>6 DEF CountedBefore
<1>8. CountedNow(c[Len(c)], sc.from[sc.at], 0) = {} BY <1>3, NothingCountedYet
<1>9. Sum(c[Len(c)], c[Len(c)], sc) = 0 BY <1>5, <1>7, <1>8, TotalOfEmpty DEF Sum, Counted
<1>10. Tally(c, sc)
  <2>1. Len(c) \in (sc.since + 1)..Len(c) /\ Len(c) = sc.since + 1 BY <1>1, <1>2, <1>5
  <2> QED BY <1>5, <1>9, <2>1 DEF Tally
<1>11. sc.at \in 1..(Len(sc.from) + 1) BY <1>4, <1>5
<1>12. 0..(sc.index - 1) \subseteq SlotsFrom(c[Len(c)], sc.from[sc.at]) BY <1>5
<1>13. sc.from = Incoming(c[sc.since + 1]) BY <1>2, <1>5 DEF from
<1> QED BY <1>1, <1>2, <1>5, <1>10, <1>11, <1>12, <1>13 DEF ScanAt

LEMMA ScanEnds ==
  ASSUME NEW c, ChainOk(c), NEW sc, ScanAt(c, sc), sc.at > Len(sc.from), NEW d, d = [sc EXCEPT !.stage = "done"]
  PROVE  ScanAt(c, d)
<1>1. /\ DOMAIN d = DOMAIN sc /\ d.since = sc.since /\ d.at = sc.at /\ d.index = sc.index /\ d.sum = sc.sum
      /\ d.from = sc.from
  BY DEF ScanAt
<1>2. Behind(d) = Behind(sc) BY <1>1 DEF Behind
<1>3. \A l, h : Sum(l, h, d) = Sum(l, h, sc) BY <1>1, <1>2 DEF Sum
<1>4. Tally(c, sc) => Tally(c, d) BY <1>1, <1>2, <1>3 DEF Tally
<1> QED BY <1>1, <1>4 DEF ScanAt

LEMMA ScanCounts ==
  ASSUME NEW c, ChainOk(c), ByUsers(c), NEW sc, ScanAt(c, sc), sc.stage = "scan", sc.at <= Len(sc.from),
         NEW slot, slot = {n \in NotesOf(c[Len(c)], sc.from[sc.at], Owner, FeeToken) : n.index = sc.index}, slot # {},
         NEW d, d = [sc EXCEPT !.index = @ + 1, !.sum = @ + TotalOf(Unspent(c[Len(c)], slot))]
  PROVE  ScanAt(c, d)
<1> DEFINE l == c[Len(c)]
           s == sc.from[sc.at]
           k == sc.index
<1>1. /\ DOMAIN d = DOMAIN sc /\ d.stage = sc.stage /\ d.since = sc.since /\ d.at = sc.at /\ d.index = k + 1
      /\ d.sum = sc.sum + TotalOf(Unspent(l, slot)) /\ d.from = sc.from
  BY DEF ScanAt
<1>2. k \in Nat /\ 0..(k - 1) \subseteq SlotsFrom(l, s) /\ sc.since \in 0..(Len(c) - 1) /\ sc.at \in 1..Len(sc.from)
  <2>1. Len(sc.from) \in Nat BY ScanFacts
  <2> QED BY <2>1 DEF ScanAt
<1>3. k \in SlotsFrom(l, s)
  <2>1. PICK n \in slot : TRUE OBVIOUS
  <2>2. n \in NotesOf(l, s, Owner, FeeToken) /\ n.index = k BY <2>1
  <2> QED BY <2>2 DEF SlotsFrom, Slots
<1>4. 0..(d.index - 1) \subseteq SlotsFrom(l, s)
  <2> HIDE DEF k
  <2>1. \A x \in 0..((k + 1) - 1) : x \in 0..(k - 1) \/ x = k BY <1>2
  <2> QED BY <1>1, <1>2, <1>3, <2>1
<1>5. Behind(d) = Behind(sc) BY <1>1 DEF Behind
<1>6. s \notin Behind(sc)
  <2>1. \A i, j \in 1..Len(sc.from) : sc.from[i] = sc.from[j] => i = j BY ScanFacts
  <2>2. ASSUME NEW j \in 1..(sc.at - 1), sc.from[j] = s PROVE FALSE
    <3>1. j \in 1..Len(sc.from) /\ j # sc.at BY <1>2
    <3> QED BY <1>2, <2>1, <2>2, <3>1
  <2> QED BY <2>2 DEF Behind
<1>7. ASSUME Tally(c, sc) PROVE Tally(c, d)
  <2>1. PICK h \in (sc.since + 1)..Len(c) :
              sc.sum = Sum(c[Len(c)], c[h], sc) /\ (h = sc.since + 1 \/ Sender \in Behind(sc))
    BY <1>7 DEF Tally
  <2>2. Len(c) \in Nat BY ScanFacts
  <2>3. h \in 1..Len(c) BY <1>2, <2>2
  <2>4. WellFormed(c[h]) /\ WellFormed(l) BY <2>3, ScanFacts DEF ChainOk
  <2> DEFINE D == Behind(sc)
             p == c[h]
  <2>5. slot = {n \in NotesOf(l, s, Owner, FeeToken) : n.index = k} OBVIOUS
  <2>6. sc.sum = TotalOf(Counted(p, l, D, s, k)) BY <2>1 DEF Sum
  <2>7. Sum(l, p, d) = TotalOf(Counted(p, l, D, s, k + 1)) BY <1>1, <1>5 DEF Sum
  <2>8. WellFormed(p) /\ WellFormed(l) /\ s \notin D /\ k \in Nat BY <1>2, <1>6, <2>4
  <2> HIDE DEF l, s, k, D, p
  <2>10. TotalOf(Counted(p, l, D, s, k + 1)) = TotalOf(Counted(p, l, D, s, k)) + TotalOf(Unspent(l, slot))
    BY <2>5, <2>8, OneMoreSlot
  <2>9. Sum(l, p, d) = d.sum BY <1>1, <2>6, <2>7, <2>10
  <2> QED BY <1>1, <1>5, <2>1, <2>9 DEF Tally, l, p
<1>8. Sent(c[d.since + 1]) = Sent(c[Len(c)]) => Tally(c, d) BY <1>1, <1>7 DEF ScanAt
<1>9. d.index \in Nat BY <1>1, <1>2
<1>10. d.at <= Len(d.from) BY <1>1
<1>11. 0..(d.index - 1) \subseteq SlotsFrom(c[Len(c)], d.from[d.at]) BY <1>1, <1>4
<1>12. DOMAIN sc = {"stage", "since", "at", "index", "sum", "from"} /\ sc.from = Incoming(c[sc.since + 1])
       /\ sc.at \in 1..(Len(sc.from) + 1)
  BY DEF ScanAt
<1>13. ~(d.at > Len(d.from)) BY <1>1, <1>2, ScanFacts
<1> HIDE DEF k
<1> QED BY <1>1, <1>2, <1>8, <1>9, <1>11, <1>12, <1>13 DEF ScanAt

LEMMA ScanPasses ==
  ASSUME NEW c, ChainOk(c), ByUsers(c), NEW sc, ScanAt(c, sc), sc.stage = "scan", sc.at <= Len(sc.from),
         sc.index \notin SlotsFrom(c[Len(c)], sc.from[sc.at]),
         NEW d, d = [sc EXCEPT !.at = @ + 1, !.index = 0]
  PROVE  ScanAt(c, d)
<1> DEFINE l == c[Len(c)]
           s == sc.from[sc.at]
           k == sc.index
           D == Behind(sc)
<1>1. /\ DOMAIN d = DOMAIN sc /\ d.stage = sc.stage /\ d.since = sc.since /\ d.at = sc.at + 1 /\ d.index = 0
      /\ d.sum = sc.sum /\ d.from = sc.from
  BY DEF ScanAt
<1>2. /\ k \in Nat /\ 0..(k - 1) \subseteq SlotsFrom(l, s) /\ k \notin SlotsFrom(l, s)
      /\ sc.since \in 0..(Len(c) - 1) /\ sc.at \in 1..Len(sc.from) /\ Len(sc.from) \in Nat
  <2>1. Len(sc.from) \in Nat BY ScanFacts
  <2> QED BY <2>1 DEF ScanAt
<1>3. Behind(d) = D \cup {s}
  <2> DEFINE n == sc.at
             from == sc.from
  <2>1. n \in Nat /\ n >= 1 BY <1>2
  <2>2. Behind(d) = {from[j] : j \in 1..((n + 1) - 1)} BY <1>1 DEF Behind
  <2>3. D = {from[j] : j \in 1..(n - 1)} BY DEF Behind
  <2>4. s = from[n] OBVIOUS
  <2> HIDE DEF n, from, s, D
  <2>5. \A j : j \in 1..((n + 1) - 1) <=> j \in 1..(n - 1) \/ j = n BY <2>1
  <2> QED BY <2>2, <2>3, <2>4, <2>5
<1>4. s \notin D
  <2>1. \A i, j \in 1..Len(sc.from) : sc.from[i] = sc.from[j] => i = j BY ScanFacts
  <2>2. ASSUME NEW j \in 1..(sc.at - 1), sc.from[j] = s PROVE FALSE
    <3>1. j \in 1..Len(sc.from) /\ j # sc.at BY <1>2
    <3> QED BY <1>2, <2>1, <2>2, <3>1
  <2> QED BY <2>2 DEF Behind
<1>5. ASSUME Sent(c[sc.since + 1]) = Sent(c[Len(c)]) PROVE Tally(c, d)
  <2>1. Tally(c, sc) BY <1>5 DEF ScanAt
  <2>2. PICK h \in (sc.since + 1)..Len(c) :
              sc.sum = Sum(c[Len(c)], c[h], sc) /\ (h = sc.since + 1 \/ Sender \in Behind(sc))
    BY <2>1 DEF Tally
  <2>3. /\ Len(c) \in Nat /\ Steady(c[h], l) /\ Len(c) \in (sc.since + 1)..Len(c)
    <3>1. Steady(c[h], c[Len(c)]) /\ Len(c) \in Nat BY <1>2, <1>5, <2>2, ScanBlocks
    <3> QED BY <1>2, <3>1
  <2> DEFINE p == c[h]
             g == IF s = Sender THEN Len(c) ELSE h
             E == Behind(d)
  <2>4. g \in (sc.since + 1)..Len(c) /\ c[g] = IF s = Sender THEN l ELSE p BY <2>2, <2>3
  <2>5. sc.sum = TotalOf(Counted(p, l, D, s, k)) BY <2>2 DEF Sum
  <2>6. WellFormed(l) BY ScanFacts
  <2>7. g = sc.since + 1 \/ Sender \in Behind(d)
    <3>1. CASE s = Sender BY <1>3, <3>1
    <3>2. CASE s # Sender BY <1>3, <2>2, <3>2
    <3> QED BY <3>1, <3>2
  <2>8. Sum(l, c[g], d) = TotalOf(CountedBefore(c[g], E))
    <3>1. CountedNow(l, d.from[d.at], 0) = {} BY <2>6, NothingCountedYet
    <3>2. CountedBefore(c[g], E) \cup {} = CountedBefore(c[g], E) OBVIOUS
    <3> QED BY <1>1, <3>1, <3>2 DEF Sum, Counted
  <2> HIDE DEF l, s, k, D, p, g, E
  <2>9. Steady(p, l) /\ EndsAt(l, s, k) /\ E = D \cup {s} BY <1>2, <1>3, <2>3 DEF p, EndsAt, E
  <2>10. /\ s = Sender => Counted(p, l, D, s, k) = CountedBefore(l, E)
         /\ s # Sender => Counted(p, l, D, s, k) = CountedBefore(p, E)
    BY <1>4, <2>9, ThroughWith
  <2>11. Sum(l, c[g], d) = d.sum BY <1>1, <2>4, <2>5, <2>8, <2>10
  <2> QED BY <1>1, <2>4, <2>7, <2>11 DEF Tally, l
<1>6. Sent(c[d.since + 1]) = Sent(c[Len(c)]) => Tally(c, d) BY <1>1, <1>5
<1>7. DOMAIN sc = {"stage", "since", "at", "index", "sum", "from"} /\ sc.from = Incoming(c[sc.since + 1])
  BY DEF ScanAt
<1>8. d.at \in 1..(Len(d.from) + 1) /\ d.index \in Nat /\ (d.at > Len(d.from) => d.index = 0) BY <1>1, <1>2
<1>9. 0..(d.index - 1) \subseteq SlotsFrom(c[Len(c)], d.from[d.at]) BY <1>1
<1>10. d.stage # "done" BY <1>1
<1> HIDE DEF l, s, k, D
<1> QED BY <1>1, <1>2, <1>6, <1>7, <1>8, <1>9, <1>10 DEF ScanAt

LEMMA ScanReads ==
  ASSUME Sound, ByUsers(chain), scan.stage # "idle" => ScanAt(chain, scan), BalancesRead
  PROVE  ScanAt(chain, scan')
<1> DEFINE c == chain
           sc == scan
           s == sc.from[sc.at]
           slot == {n \in NotesOf(c[Len(c)], s, Owner, FeeToken) : n.index = sc.index}
<1>1. ChainOk(c) /\ Latest = c[Len(c)] BY ChainFacts DEF Sound
<1>2. sc.stage = "scan" /\ ScanAt(c, sc) BY DEF BalancesRead
<1>3. WellFormed(c[Len(c)]) BY <1>1, <1>2, ScanFacts
<1>4. ReadNotes(Latest, s, Owner, FeeToken) = NotesOf(c[Len(c)], s, Owner, FeeToken) BY <1>1, <1>3, ReadsAll
<1>5. IF sc.at > Len(sc.from) THEN scan' = [sc EXCEPT !.stage = "done"]
      ELSE IF slot = {} THEN scan' = [sc EXCEPT !.at = @ + 1, !.index = 0]
      ELSE scan' = [sc EXCEPT !.index = @ + 1, !.sum = @ + TotalOf(Unspent(c[Len(c)], slot))]
  BY <1>1, <1>4 DEF BalancesRead
<1>6. slot = {} => sc.index \notin SlotsFrom(c[Len(c)], s) BY DEF SlotsFrom, Slots
<1>7. Len(sc.from) \in Nat /\ sc.at \in Nat
  <2>1. Len(sc.from) \in Nat BY <1>1, <1>2, ScanFacts
  <2> QED BY <1>2, <2>1 DEF ScanAt
<1>8. slot = {n \in NotesOf(c[Len(c)], sc.from[sc.at], Owner, FeeToken) : n.index = sc.index} OBVIOUS
<1> HIDE DEF slot, c, sc
<1>9. CASE sc.at > Len(sc.from) BY <1>1, <1>2, <1>5, <1>9, ScanEnds DEF c
<1>10. CASE ~(sc.at > Len(sc.from)) /\ slot = {}
  <2>1. sc.at <= Len(sc.from) BY <1>7, <1>10
  <2>2. sc.index \notin SlotsFrom(c[Len(c)], sc.from[sc.at]) BY <1>6, <1>10
  <2>3. scan' = [sc EXCEPT !.at = @ + 1, !.index = 0] BY <1>5, <1>10
  <2>4. ByUsers(c) BY DEF c
  <2>5. ScanAt(c, scan') BY <1>1, <1>2, <2>1, <2>2, <2>3, <2>4, ScanPasses
  <2> QED BY <2>5 DEF c
<1>11. CASE ~(sc.at > Len(sc.from)) /\ slot # {}
  <2>1. sc.at <= Len(sc.from) BY <1>7, <1>11
  <2>2. scan' = [sc EXCEPT !.index = @ + 1, !.sum = @ + TotalOf(Unspent(c[Len(c)], slot))] BY <1>5, <1>11
  <2>3. ByUsers(c) BY DEF c
  <2>4. ScanAt(c, scan') BY <1>1, <1>2, <1>8, <1>11, <2>1, <2>2, <2>3, ScanCounts
  <2> QED BY <2>4 DEF c
<1> QED BY <1>9, <1>10, <1>11

LEMMA ScanSeesBlock ==
  ASSUME Sound, Sound', ByUsers(chain), ByUsers(chain'), BlockMade, NEW sc, ScanAt(chain, sc)
  PROVE  ScanAt(chain', sc)
<1> DEFINE c == chain
           d == chain'
           n == Len(c)
           l == Latest
           q == Latest'
           s == sc.from[sc.at]
           k == sc.index
           D == Behind(sc)
<1>1. /\ n \in Nat /\ Len(d) = n + 1 /\ \A j \in 1..n : d[j] = c[j]
      /\ d[n + 1] = q /\ l = c[n] /\ WellFormed(l) /\ WellFormed(q)
  BY LongerFacts
<1>2. ChainOk(c) /\ ChainOk(d) /\ ByUsers(d) BY DEF Sound
<1>3. Grown(l, q) BY DEF BlockMade
<1> HIDE DEF l, q, c, d
<1>4. /\ DOMAIN sc = {"stage", "since", "at", "index", "sum", "from"} /\ sc.since \in 0..(n - 1)
      /\ sc.from = Incoming(c[sc.since + 1]) /\ sc.at \in 1..(Len(sc.from) + 1) /\ k \in Nat
      /\ 0..(k - 1) \subseteq SlotsFrom(l, s)
      /\ (sc.at > Len(sc.from) => k = 0) /\ (sc.stage = "done" => sc.at > Len(sc.from))
      /\ (Sent(c[sc.since + 1]) = Sent(l) => Tally(c, sc))
  BY <1>1 DEF ScanAt, c
<1> HIDE DEF n
<1>5. sc.since \in 0..((n + 1) - 1) /\ sc.since + 1 \in 1..n /\ d[sc.since + 1] = c[sc.since + 1] BY <1>1, <1>4
<1>6. SlotsFrom(l, s) \subseteq SlotsFrom(q, s)
  <2>1. l.notes \subseteq q.notes BY <1>3 DEF Grown
  <2> QED BY <2>1 DEF SlotsFrom, Slots, NotesOf
<1>7. ASSUME Sent(d[sc.since + 1]) = Sent(q) PROVE Tally(d, sc)
  <2>1. Grown(c[sc.since + 1], l)
    <3>1. sc.since + 1 \in 1..Len(c) /\ Len(c) \in 1..Len(c) /\ sc.since + 1 <= Len(c) BY <1>1, <1>5 DEF n
    <3> QED BY <1>1, <1>2, <3>1 DEF ChainOk, n
  <2>2. Sent(c[sc.since + 1]) = Sent(l) /\ Sent(l) = Sent(q) BY <1>3, <1>5, <1>7, <2>1, SentBetween
  <2>3. Steady(l, q)
    <3>1. n \in 1..Len(d) /\ n + 1 \in 1..Len(d) /\ n <= n + 1
      <4>1. n >= 1 BY <1>1, <1>4
      <4> QED BY <1>1, <4>1
    <3>2. d[n] = l /\ d[n + 1] = q
      <4>1. n \in 1..n BY <1>1, <1>5
      <4> QED BY <1>1, <4>1
    <3>3. Sent(d[n]) = Sent(d[n + 1]) BY <2>2, <3>2
    <3>4. Steady(d[n], d[n + 1]) BY <1>2, <3>1, <3>3, ChainSteady
    <3> QED BY <3>2, <3>4
  <2>4. PICK h \in (sc.since + 1)..Len(c) :
              sc.sum = Sum(c[Len(c)], c[h], sc) /\ (h = sc.since + 1 \/ Sender \in Behind(sc))
    BY <1>4, <2>2 DEF Tally
  <2>5. h \in (sc.since + 1)..Len(d) /\ h \in 1..n /\ d[h] = c[h] BY <1>1, <1>5, <2>4 DEF n
  <2> DEFINE p == c[h]
  <2>6. sc.sum = TotalOf(Counted(p, l, D, s, k)) BY <1>1, <2>4 DEF Sum, n
  <2> HIDE DEF s, k, D, p
  <2>7. CountedNow(q, s, k) = CountedNow(l, s, k) BY <1>4, <2>3, ReadSlotsStay
  <2>8. Counted(p, q, D, s, k) = Counted(p, l, D, s, k) BY <2>7 DEF Counted
  <2>9. sc.sum = TotalOf(Counted(p, q, D, s, k)) BY <2>6, <2>8
  <2>10. sc.sum = Sum(q, p, sc) BY <2>9 DEF Sum, D, s, k
  <2>11. d[Len(d)] = q BY <1>1
  <2> QED BY <2>4, <2>5, <2>10, <2>11 DEF Tally, p
<1>8. d[Len(d)] = q BY <1>1
<1>9. 0..(k - 1) \subseteq SlotsFrom(q, s) BY <1>4, <1>6
<1>10. sc.since \in 0..(Len(d) - 1) BY <1>1, <1>5
<1>11. ScanAt(d, sc) BY <1>4, <1>5, <1>7, <1>8, <1>9, <1>10 DEF ScanAt
<1> QED BY <1>11 DEF d

\* A scan that is done has counted what one block held.
LEMMA ScanDone ==
  ASSUME NEW c, ChainOk(c), ByUsers(c), NEW sc, ScanAt(c, sc), sc.stage = "done",
         Sent(c[sc.since + 1]) = Sent(c[Len(c)])
  PROVE  \E h \in (sc.since + 1)..Len(c) : sc.sum = Balance(c[h], Owner, FeeToken)
<1>1. PICK h \in (sc.since + 1)..Len(c) :
            sc.sum = Sum(c[Len(c)], c[h], sc) /\ (h = sc.since + 1 \/ Sender \in Behind(sc))
  BY DEF ScanAt, Tally
<1>2. sc.since \in 0..(Len(c) - 1) /\ sc.at \in 1..(Len(sc.from) + 1) /\ sc.at > Len(sc.from) /\ sc.index = 0
  BY DEF ScanAt
<1> DEFINE p == c[sc.since + 1]
           q == c[h]
           l == c[Len(c)]
<1>3. Steady(p, q) BY <1>1, <1>2, ScanBlocks
<1>4. /\ WellFormed(l) /\ Len(sc.from) \in Nat
      /\ {sc.from[j] : j \in 1..Len(sc.from)} = SendersTo(p)
  BY ScanFacts
<1>5. Behind(sc) = SendersTo(p)
  <2>1. sc.at - 1 = Len(sc.from) BY <1>2, <1>4
  <2> QED BY <1>4, <2>1 DEF Behind
<1>6. CountedNow(l, sc.from[sc.at], 0) = {} BY <1>4, NothingCountedYet
<1>7. Sum(l, q, sc) = TotalOf(CountedBefore(q, SendersTo(p)))
  <2>1. Counted(q, l, SendersTo(p), sc.from[sc.at], 0) = CountedBefore(q, SendersTo(p)) BY <1>6 DEF Counted
  <2> QED BY <1>2, <1>5, <2>1 DEF Sum
<1>8. q = p \/ Sender \in SendersTo(p) BY <1>1, <1>5
<1>9. sc.sum = Sum(l, q, sc) BY <1>1
<1> HIDE DEF p, q, l
<1>10. CountedBefore(q, SendersTo(p)) = Holding(q, Owner, FeeToken) BY <1>3, <1>8, ThroughWithAll
<1>11. Balance(q, Owner, FeeToken) = TotalOf(Holding(q, Owner, FeeToken)) BY DEF Balance, Holding
<1>12. sc.sum = Balance(q, Owner, FeeToken) BY <1>7, <1>9, <1>10, <1>11
<1> QED BY <1>12 DEF q

ScanOk == /\ Sound /\ ByUsers(chain)
          /\ scan.stage \in {"idle", "scan", "done"}
          /\ scan.stage # "idle" => ScanAt(chain, scan)

LEMMA ScanOkNext == ScanOk /\ [Next]_vars => ScanOk'
<1> SUFFICES ASSUME ScanOk, [Next]_vars PROVE ScanOk' OBVIOUS
<1>1. Sound /\ ByUsers(chain) BY DEF ScanOk
<1>2. Sound' BY <1>1, SoundNext
<1>3. ByUsers(chain') BY <1>1, <1>2, ByUsersNext
<1>4. CASE BlockMade
  <2>1. scan' = scan BY <1>4 DEF BlockMade
  <2>2. scan.stage # "idle" => ScanAt(chain', scan) BY <1>1, <1>2, <1>3, <1>4, ScanSeesBlock DEF ScanOk
  <2> QED BY <1>2, <1>3, <2>1, <2>2 DEF ScanOk
<1>5. CASE chain' = chain /\ scan' = scan BY <1>2, <1>3, <1>5 DEF ScanOk
<1>6. CASE chain' = chain /\ BalancesBegin
  <2>1. scan' = [stage |-> "scan", since |-> Height, at |-> 1, index |-> 0, sum |-> 0, from |-> Incoming(Latest)]
    BY <1>6 DEF BalancesBegin
  <2>2. ChainOk(chain) /\ Height = Len(chain) - 1 /\ Latest = chain[Len(chain)] BY <1>1, ChainFacts DEF Sound
  <2>3. ScanAt(chain, scan') BY <2>1, <2>2, ScanBegins
  <2>4. scan'.stage = "scan" BY <2>1
  <2> QED BY <1>2, <1>3, <1>6, <2>3, <2>4 DEF ScanOk
<1>7. CASE chain' = chain /\ BalancesRead
  <2>1. ScanAt(chain, scan') BY <1>1, <1>7, ScanReads DEF ScanOk
  <2>2. scan.stage = "scan" BY <1>7 DEF BalancesRead
  <2>3. scan'.stage \in {"scan", "done"}
    <3>1. ScanAt(chain, scan) BY <2>2 DEF ScanOk
    <3>2. DOMAIN scan = {"stage", "since", "at", "index", "sum", "from"} BY <3>1 DEF ScanAt
    <3>3. PICK x, y : \/ scan' = [scan EXCEPT !.stage = "done"]
                      \/ scan' = [scan EXCEPT !.at = x, !.index = 0]
                      \/ scan' = [scan EXCEPT !.index = x, !.sum = y]
      BY <1>7 DEF BalancesRead
    <3> QED BY <2>2, <3>2, <3>3
  <2> QED BY <1>2, <1>3, <1>7, <2>1, <2>3 DEF ScanOk
<1> QED BY <1>1, <1>4, <1>5, <1>6, <1>7, NextMakesBlock

LEMMA ScanOkInit == Init => ScanOk
<1>1. Init => scan.stage = "idle" BY DEF Init
<1> QED BY <1>1, SoundInit, ByUsersInit DEF ScanOk

LEMMA ScanOkIsOneBlock == ScanOk => BalanceOfOneBlock
<1> SUFFICES ASSUME ScanOk, scan.stage = "done", Sent(Latest) = Sent(Pool(scan.since))
             PROVE  \E h \in scan.since..Height : scan.sum = Balance(Pool(h), Owner, FeeToken)
  BY DEF BalanceOfOneBlock
<1>1. ScanAt(chain, scan) /\ ChainOk(chain) /\ ByUsers(chain) BY DEF ScanOk, Sound
<1>2. Latest = chain[Len(chain)] /\ Pool(scan.since) = chain[scan.since + 1] BY DEF Latest, Pool
<1>3. PICK h \in (scan.since + 1)..Len(chain) : scan.sum = Balance(chain[h], Owner, FeeToken)
  BY <1>1, <1>2, ScanDone
<1>4. Len(chain) \in Nat /\ Height = Len(chain) - 1 /\ scan.since \in Nat
  <2>1. Len(chain) \in Nat /\ Height = Len(chain) - 1 BY <1>1, ChainFacts
  <2>2. scan.since \in 0..(Len(chain) - 1) BY <1>1 DEF ScanAt
  <2> QED BY <2>1, <2>2
<1>5. h - 1 \in scan.since..Height /\ (h - 1) + 1 = h BY <1>4
<1>6. Pool(h - 1) = chain[h] BY <1>5 DEF Pool
<1> QED BY <1>3, <1>5, <1>6

\* The balance wallet_strk20Balances answers is the owner's balance in one block of the time the call took, as long as
\* the owner neither sends nor spends a note.  The sum so far is what that block held of the senders read so far: the
\* first block until the sender that may pay meanwhile has been read, then the block in which its last slot was read
\* (mod.rs, balances; discovery.rs, discover_notes).
THEOREM BalanceOfOneBlockHolds == Spec => []BalanceOfOneBlock
<1>1. Init => ScanOk BY ScanOkInit
<1>2. ScanOk /\ [Next]_vars => ScanOk' BY ScanOkNext
<1> QED BY <1>1, <1>2, ScanOkIsOneBlock, PTL DEF Spec
================================================================================
