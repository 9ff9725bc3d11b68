---------------------------- MODULE CommonLemmas ----------------------------
(***************************************************************************)
(* What the proofs about several components use.  Induction on natural     *)
(* numbers is stated about sets and functions, since the induction         *)
(* theorems of the library are about operators; sequences without          *)
(* repetition, the queues of the components; loops; and sums.              *)
(***************************************************************************)
EXTENDS Integers, Functions, FiniteSetTheorems, FunctionTheorems, SequenceTheorems,
        WellFoundedInduction, TLAPS

-----------------------------------------------------------------------------
(* Induction.                                                              *)

\* A set of naturals has a least element.
LEMMA NatLeast ==
  ASSUME NEW T \in SUBSET Nat, T # {}
  PROVE  \E i \in T : \A j \in T : i <= j
<1> DEFINE U == {0..i : i \in T}
<1>1. U # {} /\ U \subseteq FiniteSubsetsOf(Nat)
  <2>1. ASSUME NEW i \in T PROVE 0..i \in FiniteSubsetsOf(Nat)
    <3>1. IsFiniteSet(0..i)
      BY FS_Interval
    <3> QED
      BY <3>1 DEF FiniteSubsetsOf
  <2> QED
    BY <2>1
<1>2. IsWellFoundedOn(StrictSubsetOrdering(Nat), FiniteSubsetsOf(Nat))
  BY FS_StrictSubsetOrderingWellFounded
<1>3. PICK x \in U : \A y \in U : <<y, x>> \notin StrictSubsetOrdering(Nat)
  <2> HIDE DEF U
  <2> QED
    BY <1>1, <1>2, WFMin
<1>4. PICK i \in T : x = 0..i
  OBVIOUS
<1>5. ASSUME NEW j \in T, j < i PROVE FALSE
  <2>1. <<0..j, 0..i>> \in StrictSubsetOrdering(Nat)
    <3>1. 0..j \in SUBSET Nat /\ 0..i \in SUBSET Nat /\ 0..j \subseteq 0..i
      BY <1>5
    <3>2. i \in 0..i /\ i \notin 0..j
      BY <1>5
    <3> QED
      BY <3>1, <3>2 DEF StrictSubsetOrdering
  <2> QED
    BY <1>3, <1>4, <2>1
<1> QED
  BY <1>5

\* A set that has 0, and the successor of each natural it has, has every natural.
LEMMA NatInduct ==
  ASSUME NEW S, 0 \in S, \A n \in Nat : n \in S => n + 1 \in S
  PROVE  Nat \subseteq S
<1> SUFFICES ASSUME Nat \ S # {} PROVE FALSE
  OBVIOUS
<1>1. PICK i \in Nat \ S : \A j \in Nat \ S : i <= j
  BY NatLeast
<1>2. i - 1 \in Nat /\ i - 1 \in S
  BY <1>1
<1> QED
  BY <1>1, <1>2

\* A recursive definition on 0..N has a function that satisfies it.
Iterable(X, base, step, N) ==
  \E f \in [0..N -> X] : f[0] = base /\ \A n \in 1..N : f[n] = step[n][f[n - 1]]

LEMMA IterationExists ==
  ASSUME NEW X, NEW base \in X, NEW step \in [Nat -> [X -> X]], NEW N \in Nat
  PROVE  Iterable(X, base, step, N)
<1> DEFINE Iterates(n, f) == f[0] = base /\ \A m \in 1..n : f[m] = step[m][f[m - 1]]
           S == {n \in Nat : \E f \in [0..n -> X] : Iterates(n, f)}
<1>1. 0 \in S
  <2>1. [m \in 0..0 |-> base] \in [0..0 -> X] /\ Iterates(0, [m \in 0..0 |-> base])
    OBVIOUS
  <2> QED
    BY <2>1
<1>2. ASSUME NEW n \in Nat, n \in S PROVE n + 1 \in S
  <2>1. PICK f \in [0..n -> X] : Iterates(n, f)
    BY <1>2
  <2> DEFINE g == [m \in 0..(n + 1) |-> IF m = n + 1 THEN step[n + 1][f[n]] ELSE f[m]]
  <2>2. g \in [0..(n + 1) -> X]
    <3>1. f[n] \in X /\ step[n + 1][f[n]] \in X
      OBVIOUS
    <3> QED
      BY <3>1
  <2>3. Iterates(n + 1, g)
    <3>1. g[0] = base
      BY <2>1
    <3>2. ASSUME NEW m \in 1..(n + 1) PROVE g[m] = step[m][g[m - 1]]
      BY <2>1
    <3> QED
      BY <3>1, <3>2
  <2> HIDE DEF Iterates, g
  <2> QED
    BY <2>2, <2>3
<1>3. N \in S
  <2> HIDE DEF S
  <2> QED
    BY <1>1, <1>2, NatInduct
<1> QED
  BY <1>3 DEF Iterable

-----------------------------------------------------------------------------
(* Sequences without repetition.                                           *)

\* s has the elements of S, each once.
Enumerates(s, S) ==
  /\ \A i \in 1..Len(s) : s[i] \in S
  /\ \A c \in S : \E i \in 1..Len(s) : s[i] = c
  /\ \A i, j \in 1..Len(s) : s[i] = s[j] => i = j

\* Nothing has no elements.
LEMMA EmptyEnumerates == \A S : Enumerates(<< >>, S) <=> S = {}
  BY DEF Enumerates

\* A new element at the end of an enumeration.
LEMMA AppendEnumerates ==
  ASSUME NEW T, NEW s \in Seq(T), NEW S \in SUBSET T, NEW c \in T, c \notin S,
         Enumerates(s, S)
  PROVE  Append(s, c) \in Seq(T) /\ Enumerates(Append(s, c), S \cup {c})
<1>1. /\ Append(s, c) \in Seq(T) /\ Len(s) \in Nat
      /\ Len(Append(s, c)) = Len(s) + 1
      /\ \A i \in 1..Len(s) : Append(s, c)[i] = s[i]
      /\ Append(s, c)[Len(s) + 1] = c
  OBVIOUS
<1> DEFINE q == Append(s, c)
<1> HIDE DEF q
<1>2. \A i \in 1..(Len(s) + 1) : i \in 1..Len(s) \/ i = Len(s) + 1
  BY <1>1
<1>3. \A i \in 1..Len(q) : q[i] \in S \cup {c}
  BY <1>1, <1>2 DEF Enumerates, q
<1>4. ASSUME NEW d \in S \cup {c} PROVE \E i \in 1..Len(q) : q[i] = d
  <2>1. CASE d = c
    BY <1>1, <2>1 DEF q
  <2>2. CASE d \in S
    <3>1. PICK i \in 1..Len(s) : s[i] = d
      BY <2>2 DEF Enumerates
    <3>2. i \in 1..Len(q) /\ q[i] = d
      BY <1>1, <3>1 DEF q
    <3> QED
      BY <3>2
  <2> QED
    BY <2>1, <2>2
<1>5. ASSUME NEW i \in 1..Len(q), NEW j \in 1..Len(q), q[i] = q[j]
      PROVE  i = j
  BY <1>1, <1>2, <1>5 DEF Enumerates, q
<1> QED
  BY <1>1, <1>3, <1>4, <1>5 DEF Enumerates, q

\* What is left of an enumeration without its first element.
LEMMA TailEnumerates ==
  ASSUME NEW T, NEW s \in Seq(T), s # << >>, NEW S, Enumerates(s, S)
  PROVE  /\ Head(s) \in S /\ Head(s) \in T
         /\ Tail(s) \in Seq(T)
         /\ Enumerates(Tail(s), S \ {Head(s)})
<1>1. /\ Len(s) \in Nat \ {0} /\ Head(s) = s[1] /\ Head(s) \in T
      /\ Tail(s) \in Seq(T) /\ Len(Tail(s)) = Len(s) - 1
      /\ \A i \in 1..(Len(s) - 1) : Tail(s)[i] = s[i + 1]
  BY HeadTailProperties
<1> DEFINE q == Tail(s)
<1> HIDE DEF q
<1>2. 1 \in 1..Len(s) /\ \A i \in 1..Len(q) : i + 1 \in 1..Len(s) /\ i + 1 # 1
  BY <1>1 DEF q
<1>3. \A i \in 1..Len(q) : q[i] \in S \ {Head(s)}
  BY <1>1, <1>2 DEF Enumerates, q
<1>4. ASSUME NEW d \in S \ {Head(s)} PROVE \E i \in 1..Len(q) : q[i] = d
  <2>1. PICK i \in 1..Len(s) : s[i] = d
    BY DEF Enumerates
  <2>2. i - 1 \in 1..Len(q) /\ (i - 1) + 1 = i
    BY <1>1, <2>1 DEF q
  <2> QED
    BY <1>1, <2>1, <2>2 DEF q
<1>5. ASSUME NEW i \in 1..Len(q), NEW j \in 1..Len(q), q[i] = q[j]
      PROVE  i = j
  <2>1. i + 1 = j + 1
    BY <1>1, <1>2, <1>5 DEF Enumerates, q
  <2> QED
    BY <2>1
<1> QED
  BY <1>1, <1>2, <1>3, <1>4, <1>5 DEF Enumerates, q

\* As many elements as the sequence is long.
LEMMA EnumerationCounts ==
  ASSUME NEW S, NEW T, NEW s \in Seq(T), Enumerates(s, S)
  PROVE  Range(s) = S /\ Len(s) = Cardinality(S)
<1>1. DOMAIN s = 1..Len(s) /\ Len(s) \in Nat
  OBVIOUS
<1>2. s \in [1..Len(s) -> S]
  BY <1>1, LenProperties DEF Enumerates
<1>3. ExistsBijection(1..Len(s), S)
  <2>1. s \in Bijection(1..Len(s), S)
    BY <1>2, Fun_IsBij DEF Enumerates
  <2> QED
    BY <2>1, Fun_ExistsBij
<1>4. Len(s) = Cardinality(S)
  BY <1>1, <1>3, FS_CountingElements
<1> QED
  BY <1>1, <1>4 DEF Range, Enumerates

\* A new element at the end of a sequence that repeats nothing.
LEMMA AppendUnique ==
  ASSUME NEW T, NEW s \in Seq(T), NEW c \in T, c \notin Range(s), Enumerates(s, Range(s))
  PROVE  /\ Append(s, c) \in Seq(T)
         /\ Range(Append(s, c)) = Range(s) \cup {c}
         /\ Enumerates(Append(s, c), Range(Append(s, c)))
<1> DEFINE S == Range(s)
<1>1. S \in SUBSET T /\ c \notin S /\ Enumerates(s, S)
  BY DEF Range
<1> HIDE DEF S
<1>2. Append(s, c) \in Seq(T) /\ Enumerates(Append(s, c), S \cup {c})
  BY <1>1, AppendEnumerates
<1>3. Range(Append(s, c)) = S \cup {c}
  BY <1>2, EnumerationCounts
<1> QED
  BY <1>2, <1>3 DEF S

\* A sequence that repeats nothing without its first element.
LEMMA TailUnique ==
  ASSUME NEW T, NEW s \in Seq(T), s # << >>, Enumerates(s, Range(s))
  PROVE  /\ Head(s) \in T /\ Head(s) \in Range(s)
         /\ Tail(s) \in Seq(T)
         /\ Range(Tail(s)) = Range(s) \ {Head(s)}
         /\ Enumerates(Tail(s), Range(Tail(s)))
<1> DEFINE S == Range(s)
<1>1. Enumerates(s, S)
  OBVIOUS
<1> HIDE DEF S
<1>2. /\ Head(s) \in S /\ Head(s) \in T /\ Tail(s) \in Seq(T)
      /\ Enumerates(Tail(s), S \ {Head(s)})
  BY <1>1, TailEnumerates
<1>3. Range(Tail(s)) = S \ {Head(s)}
  BY <1>2, EnumerationCounts
<1> QED
  BY <1>2, <1>3 DEF S

-----------------------------------------------------------------------------
(* Loops: recursive functions on 0..N whose value at i is made from the    *)
(* value at i - 1.                                                         *)

\* What a loop starts with and each round keeps, it has throughout.
LEMMA LoopKeeps ==
  ASSUME NEW N \in Nat, NEW X, NEW f, f[0] \in X,
         \A i \in 1..N : f[i - 1] \in X => f[i] \in X
  PROVE  \A i \in 0..N : f[i] \in X
<1> DEFINE S == {i \in Nat : i \in 0..N => f[i] \in X}
<1>1. 0 \in S
  OBVIOUS
<1>2. ASSUME NEW i \in Nat, i \in S PROVE i + 1 \in S
  <2> SUFFICES ASSUME i + 1 \in 0..N PROVE f[i + 1] \in X
    OBVIOUS
  <2>1. i + 1 \in 1..N /\ (i + 1) - 1 = i /\ i \in 0..N
    OBVIOUS
  <2>2. f[(i + 1) - 1] \in X => f[i + 1] \in X
    BY <2>1
  <2> QED
    BY <1>2, <2>1, <2>2
<1> HIDE DEF S
<1>3. Nat \subseteq S
  BY <1>1, <1>2, NatInduct
<1> QED
  BY <1>3 DEF S

\* The same where what the loop has depends on the round.
LEMMA LoopProgresses ==
  ASSUME NEW N \in Nat, NEW X, NEW f, f[0] \in X[0],
         \A i \in 1..N : f[i - 1] \in X[i - 1] => f[i] \in X[i]
  PROVE  \A i \in 0..N : f[i] \in X[i]
<1> DEFINE S == {i \in Nat : i \in 0..N => f[i] \in X[i]}
<1>1. 0 \in S
  OBVIOUS
<1>2. ASSUME NEW i \in Nat, i \in S PROVE i + 1 \in S
  <2> SUFFICES ASSUME i + 1 \in 0..N PROVE f[i + 1] \in X[i + 1]
    OBVIOUS
  <2>1. i + 1 \in 1..N /\ (i + 1) - 1 = i /\ i \in 0..N
    OBVIOUS
  <2>2. f[(i + 1) - 1] \in X[(i + 1) - 1] => f[i + 1] \in X[i + 1]
    BY <2>1
  <2> QED
    BY <1>2, <2>1, <2>2
<1> HIDE DEF S
<1>3. Nat \subseteq S
  BY <1>1, <1>2, NatInduct
<1> QED
  BY <1>3 DEF S

\* The function that a loop defines exists when each round keeps X.
LEMMA LoopExists ==
  ASSUME NEW N \in Nat, NEW X, NEW base \in X, NEW op \in [1..N -> [X -> X]]
  PROVE  Iterable(X, base, op, N)
<1> DEFINE step == [n \in Nat |-> IF n \in 1..N THEN op[n] ELSE [x \in X |-> x]]
<1>1. step \in [Nat -> [X -> X]] /\ \A i \in 1..N : step[i] = op[i]
  OBVIOUS
<1> HIDE DEF step
<1>2. Iterable(X, base, step, N)
  BY <1>1, IterationExists
<1> QED
  BY <1>1, <1>2 DEF Iterable

\* The same where what each round makes depends on the round.
IterableIn(X, base, op, N) ==
  \E f : f[0] = base /\ \A i \in 1..N : f[i] = op[i][f[i - 1]] /\ f[i - 1] \in X[i - 1]

LEMMA LoopExistsIn ==
  ASSUME NEW N \in Nat, NEW X, NEW base \in X[0], NEW op,
         \A i \in 1..N : \A d \in X[i - 1] : op[i][d] \in X[i]
  PROVE  IterableIn(X, base, op, N)
<1> DEFINE U == UNION {X[i] : i \in 0..N}
           only == [i \in 1..N |-> [d \in U |-> IF d \in X[i - 1] THEN op[i][d] ELSE base]]
<1>1. base \in U /\ \A i \in 1..N : i \in 0..N /\ i - 1 \in 0..N
  OBVIOUS
<1>2. \A i \in 0..N : \A d \in X[i] : d \in U
  OBVIOUS
<1> HIDE DEF U
<1>3. only \in [1..N -> [U -> U]]
  BY <1>1, <1>2
<1>4. \A i \in 1..N : \A d \in X[i - 1] : only[i][d] = op[i][d]
  BY <1>1, <1>2
<1> HIDE DEF only
<1>5. Iterable(U, base, only, N)
  BY <1>1, <1>3, LoopExists
<1>6. PICK f \in [0..N -> U] : f[0] = base /\ \A i \in 1..N : f[i] = only[i][f[i - 1]]
  BY <1>5 DEF Iterable
<1>7. \A i \in 0..N : f[i] \in X[i]
  <2>1. \A i \in 1..N : f[i - 1] \in X[i - 1] => f[i] \in X[i]
    BY <1>4, <1>6
  <2> QED
    BY <1>6, <2>1, LoopProgresses
<1>8. \A i \in 1..N : f[i] = op[i][f[i - 1]] /\ f[i - 1] \in X[i - 1]
  BY <1>1, <1>4, <1>6, <1>7
<1> QED
  BY <1>6, <1>8 DEF IterableIn

-----------------------------------------------------------------------------
(* Sums over finite sets, which the library takes element after element.   *)

AnyOf(s) == CHOOSE x \in s : TRUE

\* A set that has {}, and a subset of S with what it has without one element, has them all.
LEMMA SubsetInduct ==
  ASSUME NEW S, IsFiniteSet(S), NEW Q, {} \in Q,
         \A s \in SUBSET S : s # {} /\ s \ {AnyOf(s)} \in Q => s \in Q
  PROVE  SUBSET S \subseteq Q
<1> DEFINE T == {n \in Nat : \A s \in SUBSET S : Cardinality(s) = n => s \in Q}
<1>1. \A s \in SUBSET S : IsFiniteSet(s) /\ Cardinality(s) \in Nat
  BY FS_Subset, FS_CardinalityType
<1>2. 0 \in T
  BY <1>1, FS_EmptySet
<1>3. ASSUME NEW n \in Nat, n \in T PROVE n + 1 \in T
  <2> SUFFICES ASSUME NEW s \in SUBSET S, Cardinality(s) = n + 1 PROVE s \in Q
    OBVIOUS
  <2>1. s # {}
    BY <1>1, FS_EmptySet
  <2>2. AnyOf(s) \in s
    BY <2>1 DEF AnyOf
  <2>3. s \ {AnyOf(s)} \in SUBSET S /\ Cardinality(s \ {AnyOf(s)}) = n
    BY <1>1, <2>2, FS_RemoveElement
  <2> QED
    BY <1>3, <2>1, <2>3
<1>4. Nat \subseteq T
  <2> HIDE DEF T
  <2> QED
    BY <1>2, <1>3, NatInduct
<1> QED
  BY <1>1, <1>4

\* it has the sums of f over the subsets of S.
Sums(it, f, S) ==
  /\ it \in [SUBSET S -> Nat] /\ it[{}] = 0 /\ it[S] = SumFunctionOnSet(f, S)
  /\ \A s \in SUBSET S : s # {} => it[s] = f[AnyOf(s)] + it[s \ {AnyOf(s)}]

LEMMA SumsExist ==
  ASSUME NEW S, IsFiniteSet(S), NEW f, \A x \in S : f[x] \in Nat
  PROVE  \E it : Sums(it, f, S)
<1> DEFINE Iterates(g) ==
             g = [s \in SUBSET S |-> IF s = {} THEN 0 ELSE f[AnyOf(s)] + g[s \ {AnyOf(s)}]]
           it == CHOOSE g : Iterates(g)
<1>1. SumFunctionOnSet(f, S) = it[S]
  BY DEF SumFunctionOnSet, FoldFunctionOnSet, MapThenFoldSet, AnyOf
<1> HIDE DEF it
<1>2. /\ Cardinality(S) \in Nat
      /\ \A s \in SUBSET S : Cardinality(s) \in Nat /\ Cardinality(s) <= Cardinality(S)
      /\ \A s \in SUBSET S : Cardinality(s) = 0 => s = {}
  BY FS_Subset, FS_CardinalityType, FS_EmptySet
<1>3. ASSUME NEW s \in SUBSET S, s # {}
      PROVE  /\ AnyOf(s) \in s /\ AnyOf(s) \in S /\ f[AnyOf(s)] \in Nat /\ s \ {AnyOf(s)} \in SUBSET S
             /\ Cardinality(s \ {AnyOf(s)}) = Cardinality(s) - 1
  <2>1. AnyOf(s) \in s
    BY <1>3 DEF AnyOf
  <2>2. IsFiniteSet(s)
    BY FS_Subset
  <2> HIDE DEF Iterates
  <2> QED
    BY <2>1, <2>2, FS_RemoveElement
<1> HIDE DEF Iterates
<1> DEFINE X == [SUBSET S -> Nat]
           N == Cardinality(S) + 1
           next == [g \in X |-> [s \in SUBSET S |->
                      IF s = {} THEN 0 ELSE f[AnyOf(s)] + g[s \ {AnyOf(s)}]]]
           base == [s \in SUBSET S |-> 0]
           step == [n \in Nat |-> next]
<1>4. N \in Nat /\ N - 1 \in Nat /\ N \in 1..N /\ \A s \in SUBSET S : Cardinality(s) <= N - 1
  BY <1>2
<1>5. base \in X /\ next \in [X -> X] /\ step \in [Nat -> [X -> X]]
  <2>1. ASSUME NEW g \in X PROVE next[g] \in X
    <3>1. ASSUME NEW s \in SUBSET S, s # {} PROVE f[AnyOf(s)] + g[s \ {AnyOf(s)}] \in Nat
      <4>1. g[s \ {AnyOf(s)}] \in Nat /\ f[AnyOf(s)] \in Nat
        BY <1>3, <3>1
      <4> QED
        BY <4>1
    <3> QED
      BY <3>1
  <2>2. next \in [X -> X] /\ base \in X
    BY <2>1
  <2> HIDE DEF next
  <2> QED
    BY <2>2
<1>6. PICK h \in [0..N -> X] : h[0] = base /\ \A n \in 1..N : h[n] = next[h[n - 1]]
  <2>1. \A n \in 1..N : step[n] = next
    BY <1>4
  <2> HIDE DEF X, N, base, step, next
  <2>2. Iterable(X, base, step, N)
    BY <1>4, <1>5, IterationExists
  <2> QED
    BY <2>1, <2>2 DEF Iterable
<1> DEFINE T == {n \in Nat : n + 1 \in 0..N =>
                   \A s \in SUBSET S : Cardinality(s) <= n => h[n][s] = h[n + 1][s]}
<1>7. \A n \in 0..N : n \in Nat /\ h[n] \in X /\ (n # 0 => n \in 1..N /\ n - 1 \in 0..N)
  <2> HIDE DEF X, N
  <2> QED
    BY <1>4
<1>8. \A n \in 1..N, s \in SUBSET S :
        h[n][s] = IF s = {} THEN 0 ELSE f[AnyOf(s)] + h[n - 1][s \ {AnyOf(s)}]
  <2> SUFFICES ASSUME NEW n \in 1..N PROVE
        \A s \in SUBSET S : h[n][s] = IF s = {} THEN 0 ELSE f[AnyOf(s)] + h[n - 1][s \ {AnyOf(s)}]
    OBVIOUS
  <2>1. n \in 0..N /\ h[n - 1] \in X
    <3> HIDE DEF X, N, next
    <3> QED
      BY <1>4, <1>7
  <2>2. h[n] = next[h[n - 1]]
    BY <1>6
  <2> QED
    BY <2>1, <2>2
<1> HIDE DEF N, X, next, base, step
<1>9. 0 \in T
  <2> SUFFICES ASSUME 1 \in 0..N, NEW s \in SUBSET S, Cardinality(s) <= 0 PROVE h[0][s] = h[1][s]
    OBVIOUS
  <2>1. s = {}
    BY <1>2
  <2>2. h[1][s] = 0
    <3>1. 1 \in 1..N /\ {} \in SUBSET S
      BY <1>4
    <3> QED
      BY <1>8, <2>1, <3>1
  <2> QED
    BY <1>6, <2>2 DEF base
<1>10. ASSUME NEW n \in Nat, n \in T PROVE n + 1 \in T
  <2> SUFFICES ASSUME (n + 1) + 1 \in 0..N, NEW s \in SUBSET S, Cardinality(s) <= n + 1
               PROVE  h[n + 1][s] = h[(n + 1) + 1][s]
    OBVIOUS
  <2>1. n + 1 \in 1..N /\ (n + 1) + 1 \in 1..N /\ n + 1 \in 0..N /\ (n + 1) - 1 = n /\ ((n + 1) + 1) - 1 = n + 1
    BY <1>4
  <2>2. h[n + 1][s] = IF s = {} THEN 0 ELSE f[AnyOf(s)] + h[n][s \ {AnyOf(s)}]
    BY <1>8, <2>1
  <2>3. h[(n + 1) + 1][s] = IF s = {} THEN 0 ELSE f[AnyOf(s)] + h[n + 1][s \ {AnyOf(s)}]
    BY <1>8, <2>1
  <2>4. s # {} => Cardinality(s \ {AnyOf(s)}) <= n
    <3> SUFFICES ASSUME s # {} PROVE Cardinality(s \ {AnyOf(s)}) <= n
      OBVIOUS
    <3>1. Cardinality(s \ {AnyOf(s)}) = Cardinality(s) - 1 /\ Cardinality(s) \in Nat
      BY <1>2, <1>3
    <3> QED
      BY <3>1
  <2>5. s # {} => h[n][s \ {AnyOf(s)}] = h[n + 1][s \ {AnyOf(s)}]
    BY <1>3, <1>10, <2>1, <2>4
  <2> QED
    BY <2>2, <2>3, <2>5
<1>11. Nat \subseteq T
  <2> HIDE DEF T
  <2> QED
    BY <1>9, <1>10, NatInduct
<1>12. \A s \in SUBSET S : h[N - 1][s] = h[N][s]
  BY <1>4, <1>11
<1>13. h[N] \in X /\ \A s \in SUBSET S :
         h[N][s] = IF s = {} THEN 0 ELSE f[AnyOf(s)] + h[N][s \ {AnyOf(s)}]
  <2>1. h[N] \in X /\ N \in 1..N
    BY <1>4, <1>7
  <2>2. ASSUME NEW s \in SUBSET S, s # {} PROVE h[N - 1][s \ {AnyOf(s)}] = h[N][s \ {AnyOf(s)}]
    BY <1>12, <1>3, <2>2
  <2>3. \A s \in SUBSET S : h[N][s] = IF s = {} THEN 0 ELSE f[AnyOf(s)] + h[N - 1][s \ {AnyOf(s)}]
    BY <1>8, <2>1
  <2> QED
    BY <2>1, <2>2, <2>3
<1>14. Iterates(h[N])
  BY <1>13 DEF X, Iterates
<1>15. Iterates(it)
  BY <1>14 DEF it
<1>16. \A s \in SUBSET S : it[s] = IF s = {} THEN 0 ELSE f[AnyOf(s)] + it[s \ {AnyOf(s)}]
  BY <1>15 DEF Iterates
<1> DEFINE Q == {s \in SUBSET S : it[s] \in Nat}
<1>17. SUBSET S \subseteq Q
  <2>1. {} \in Q /\ \A s \in SUBSET S : s # {} /\ s \ {AnyOf(s)} \in Q => s \in Q
    <3>1. {} \in Q
      <4>1. {} \in SUBSET S /\ it[{}] = 0
        BY <1>16
      <4> QED
        BY <4>1
    <3>2. ASSUME NEW s \in SUBSET S, s # {}, s \ {AnyOf(s)} \in Q PROVE s \in Q
      <4>1. it[s] = f[AnyOf(s)] + it[s \ {AnyOf(s)}]
        BY <1>16, <3>2
      <4>2. f[AnyOf(s)] \in Nat /\ it[s \ {AnyOf(s)}] \in Nat
        BY <1>3, <3>2
      <4> QED
        BY <4>1, <4>2
    <3> QED
      BY <3>1, <3>2
  <2> HIDE DEF Q
  <2> QED
    BY <2>1, SubsetInduct
<1>18. it \in [SUBSET S -> Nat]
  BY <1>15, <1>17 DEF Iterates
<1>19. Sums(it, f, S)
  BY <1>1, <1>16, <1>18 DEF Sums
<1> QED
  BY <1>19

LEMMA SumIsNat ==
  ASSUME NEW S, IsFiniteSet(S), NEW f, \A x \in S : f[x] \in Nat
  PROVE  SumFunctionOnSet(f, S) \in Nat
<1>1. PICK it : Sums(it, f, S)
  BY SumsExist
<1> QED
  BY <1>1 DEF Sums

\* A sum of smaller numbers is smaller.
LEMMA SumMonotone ==
  ASSUME NEW S, IsFiniteSet(S), NEW f, NEW g,
         \A x \in S : f[x] \in Nat /\ g[x] \in Nat /\ f[x] <= g[x]
  PROVE  SumFunctionOnSet(f, S) <= SumFunctionOnSet(g, S)
<1>1. PICK i : Sums(i, f, S)
  BY SumsExist
<1>2. PICK j : Sums(j, g, S)
  BY SumsExist
<1> DEFINE Q == {s \in SUBSET S : i[s] <= j[s]}
<1>3. {} \in Q
  BY <1>1, <1>2 DEF Sums
<1>4. ASSUME NEW s \in SUBSET S, s # {}, s \ {AnyOf(s)} \in Q PROVE s \in Q
  <2> DEFINE x == AnyOf(s)
             r == s \ {x}
  <2>1. x \in S /\ r \in SUBSET S
    BY <1>4 DEF AnyOf
  <2>2. i[s] = f[x] + i[r] /\ j[s] = g[x] + j[r]
    BY <1>1, <1>2, <1>4 DEF Sums
  <2>3. i[r] \in Nat /\ j[r] \in Nat /\ i[r] <= j[r]
    BY <1>1, <1>2, <1>4, <2>1 DEF Sums
  <2> HIDE DEF x, r
  <2> QED
    BY <2>1, <2>2, <2>3
<1>5. SUBSET S \subseteq Q
  <2> HIDE DEF Q
  <2> QED
    BY <1>3, <1>4, SubsetInduct
<1> QED
  BY <1>1, <1>2, <1>5 DEF Sums

\* No element is more than the sum.
LEMMA SumBounds ==
  ASSUME NEW S, IsFiniteSet(S), NEW f, \A x \in S : f[x] \in Nat, NEW x \in S
  PROVE  f[x] <= SumFunctionOnSet(f, S)
<1>1. PICK i : Sums(i, f, S)
  BY SumsExist
<1> DEFINE Q == {s \in SUBSET S : x \in s => f[x] <= i[s]}
<1>2. {} \in Q
  OBVIOUS
<1>3. ASSUME NEW s \in SUBSET S, s # {}, s \ {AnyOf(s)} \in Q PROVE s \in Q
  <2> DEFINE y == AnyOf(s)
             r == s \ {y}
  <2>1. y \in S /\ r \in SUBSET S /\ (x \in s => x = y \/ x \in r)
    BY <1>3 DEF AnyOf
  <2>2. i[s] = f[y] + i[r]
    BY <1>1, <1>3 DEF Sums
  <2>3. i[r] \in Nat /\ (x \in r => f[x] <= i[r])
    BY <1>1, <1>3, <2>1 DEF Sums
  <2> HIDE DEF y, r
  <2> QED
    BY <2>1, <2>2, <2>3
<1>4. SUBSET S \subseteq Q
  <2> HIDE DEF Q
  <2> QED
    BY <1>2, <1>3, SubsetInduct
<1> QED
  BY <1>1, <1>4 DEF Sums

LEMMA SumOfZeros ==
  ASSUME NEW S, IsFiniteSet(S), NEW f, \A x \in S : f[x] = 0
  PROVE  SumFunctionOnSet(f, S) = 0
<1>1. PICK i : Sums(i, f, S)
  BY SumsExist
<1> DEFINE Q == {s \in SUBSET S : i[s] = 0}
<1>2. {} \in Q
  BY <1>1 DEF Sums
<1>3. ASSUME NEW s \in SUBSET S, s # {}, s \ {AnyOf(s)} \in Q PROVE s \in Q
  <2>1. AnyOf(s) \in S /\ i[s] = f[AnyOf(s)] + i[s \ {AnyOf(s)}]
    BY <1>1, <1>3 DEF Sums, AnyOf
  <2> QED
    BY <1>3, <2>1
<1>4. SUBSET S \subseteq Q
  <2> HIDE DEF Q
  <2> QED
    BY <1>2, <1>3, SubsetInduct
<1> QED
  BY <1>1, <1>4 DEF Sums

\* One more at x is one more in the sum.
LEMMA SumIncrements ==
  ASSUME NEW S, IsFiniteSet(S), NEW f, NEW g, \A y \in S : f[y] \in Nat, NEW x \in S,
         g[x] = f[x] + 1, \A y \in S \ {x} : g[y] = f[y]
  PROVE  SumFunctionOnSet(g, S) = SumFunctionOnSet(f, S) + 1
<1>1. PICK i : Sums(i, f, S)
  BY SumsExist
<1>2. PICK j : Sums(j, g, S)
  <2>1. \A y \in S : g[y] \in Nat
    OBVIOUS
  <2> QED
    BY <2>1, SumsExist
<1> DEFINE Q == {s \in SUBSET S : j[s] = IF x \in s THEN i[s] + 1 ELSE i[s]}
<1>3. {} \in Q
  BY <1>1, <1>2 DEF Sums
<1>4. ASSUME NEW s \in SUBSET S, s # {}, s \ {AnyOf(s)} \in Q PROVE s \in Q
  <2> DEFINE y == AnyOf(s)
             r == s \ {y}
  <2>1. y \in S /\ y \in s /\ r \in SUBSET S /\ (x \in s <=> x = y \/ x \in r) /\ y \notin r
    BY <1>4 DEF AnyOf
  <2>2. i[s] = f[y] + i[r] /\ j[s] = g[y] + j[r]
    BY <1>1, <1>2, <1>4 DEF Sums
  <2>3. i[r] \in Nat /\ j[r] \in Nat /\ j[r] = IF x \in r THEN i[r] + 1 ELSE i[r]
    BY <1>1, <1>2, <1>4, <2>1 DEF Sums
  <2>4. f[y] \in Nat /\ g[y] = IF y = x THEN f[y] + 1 ELSE f[y]
    BY <2>1
  <2> HIDE DEF y, r
  <2> QED
    BY <2>1, <2>2, <2>3, <2>4
<1>5. SUBSET S \subseteq Q
  <2> HIDE DEF Q
  <2> QED
    BY <1>3, <1>4, SubsetInduct
<1> QED
  BY <1>1, <1>2, <1>5 DEF Sums



-----------------------------------------------------------------------------
(* Texts.                                                                  *)

\* A set that has 0, and the successor of what it has up to N, has all up to N.
LEMMA RoundsInduct ==
  ASSUME NEW N \in Nat, NEW S, 0 \in S, \A i \in 1..N : i - 1 \in S => i \in S
  PROVE  \A i \in 0..N : i \in S
<1> DEFINE f == [i \in 0..N |-> i]
<1>1. f[0] = 0 /\ \A i \in 1..N : f[i] = i /\ f[i - 1] = i - 1
  OBVIOUS
<1> HIDE DEF f
<1>2. \A i \in 0..N : f[i] \in S
  BY <1>1, LoopKeeps
<1> QED
  BY <1>1, <1>2

\* Two sequences, one after the other, at each place.
LEMMA ConcatIs ==
  ASSUME NEW T, NEW a \in Seq(T), NEW b \in Seq(T)
  PROVE  /\ a \o b \in Seq(T) /\ Len(a \o b) = Len(a) + Len(b)
         /\ Len(a) \in Nat /\ Len(b) \in Nat
         /\ \A i \in 1..Len(a) : (a \o b)[i] = a[i]
         /\ \A i \in 1..Len(b) : (a \o b)[Len(a) + i] = b[i]
<1> DEFINE c == a \o b
           n == Len(a)
           m == Len(b)
<1>1. n \in Nat /\ m \in Nat
  OBVIOUS
<1>2. /\ c \in Seq(T) /\ Len(c) = n + m
      /\ \A i \in 1..(n + m) : c[i] = IF i <= n THEN a[i] ELSE b[i - n]
  BY ConcatProperties
<1> HIDE DEF c, n, m
<1>3. \A i \in 1..m : n + i \in 1..(n + m) /\ ~(n + i <= n) /\ (n + i) - n = i
  BY <1>1
<1>4. \A i \in 1..n : i \in 1..(n + m) /\ i <= n
  BY <1>1
<1>5. \A i \in 1..n : c[i] = a[i]
  BY <1>2, <1>4
<1>6. \A i \in 1..m : c[n + i] = b[i]
  BY <1>2, <1>3
<1> QED
  BY <1>1, <1>2, <1>5, <1>6 DEF c, n, m

\* One sequence after the other, where it does not matter what they have at each place.
Joined(a, b) == a \o b

LEMMA JoinedIs ==
  ASSUME NEW T, NEW a \in Seq(T), NEW b \in Seq(T)
  PROVE  /\ Joined(a, b) \in Seq(T) /\ Len(Joined(a, b)) = Len(a) + Len(b)
         /\ \A i \in 1..Len(a) : Joined(a, b)[i] = a[i]
         /\ \A i \in 1..Len(b) : Joined(a, b)[Len(a) + i] = b[i]
  BY ConcatIs DEF Joined

LEMMA JoinedAssociative ==
  ASSUME NEW T, NEW a \in Seq(T), NEW b \in Seq(T), NEW c \in Seq(T)
  PROVE  Joined(Joined(a, b), c) = Joined(a, Joined(b, c))
<1>1. (a \o b) \o c = a \o (b \o c)
  OBVIOUS
<1> QED
  BY <1>1 DEF Joined

\* What stands in a sequence in front of a place, and behind it.
LEMMA PartsAre ==
  ASSUME NEW T, NEW s \in Seq(T), NEW p \in 1..(Len(s) + 1)
  PROVE  /\ SubSeq(s, 1, p - 1) \in Seq(T) /\ Len(SubSeq(s, 1, p - 1)) = p - 1
         /\ \A i \in 1..(p - 1) : SubSeq(s, 1, p - 1)[i] = s[i]
         /\ SubSeq(s, p + 1, Len(s)) \in Seq(T)
         /\ p <= Len(s) => Len(SubSeq(s, p + 1, Len(s))) = Len(s) - p
         /\ \A i \in 1..(Len(s) - p) : SubSeq(s, p + 1, Len(s))[i] = s[p + i]
<1> DEFINE u == SubSeq(s, 1, p - 1)
           b == SubSeq(s, p + 1, Len(s))
<1>1. Len(s) \in Nat /\ \A i \in 1..Len(s) : s[i] \in T
  OBVIOUS
<1>2. /\ u \in Seq(T) /\ Len(u) = (IF 1 <= p - 1 THEN (p - 1) - 1 + 1 ELSE 0)
      /\ \A i \in 1..((p - 1) - 1 + 1) : u[i] = s[1 + i - 1]
  <2>1. \A i \in 1..(p - 1) : s[i] \in T
    BY <1>1
  <2>2. 1 \in Int /\ p - 1 \in Int
    OBVIOUS
  <2> QED
    BY <2>1, <2>2, SubSeqProperties
<1>3. /\ b \in Seq(T)
      /\ Len(b) = (IF p + 1 <= Len(s) THEN Len(s) - (p + 1) + 1 ELSE 0)
      /\ \A i \in 1..(Len(s) - (p + 1) + 1) : b[i] = s[(p + 1) + i - 1]
  <2>1. \A i \in (p + 1)..Len(s) : s[i] \in T
    BY <1>1
  <2>2. p + 1 \in Int /\ Len(s) \in Int
    BY <1>1
  <2> QED
    BY <2>1, <2>2, SubSeqProperties
<1> HIDE DEF u, b
<1>4. (p - 1) - 1 + 1 = p - 1 /\ \A i \in 1..(p - 1) : 1 + i - 1 = i
  OBVIOUS
<1>5. Len(s) - (p + 1) + 1 = Len(s) - p /\ \A i \in 1..(Len(s) - p) : (p + 1) + i - 1 = p + i
  BY <1>1
<1>6. Len(u) = p - 1 /\ \A i \in 1..(p - 1) : u[i] = s[i]
  BY <1>2, <1>4
<1>7. \A i \in 1..(Len(s) - p) : b[i] = s[p + i]
  BY <1>3, <1>5
<1>8. p <= Len(s) => Len(b) = Len(s) - p
  BY <1>1, <1>3
<1> QED
  BY <1>2, <1>3, <1>6, <1>7, <1>8 DEF u, b

\* c is a and then b, at each place.
IsJoined(c, a, b, T) ==
  /\ c \in Seq(T) /\ Len(c) = Len(a) + Len(b)
  /\ \A i \in 1..Len(a) : c[i] = a[i]
  /\ \A i \in 1..Len(b) : c[Len(a) + i] = b[i]

LEMMA JoinedHere ==
  ASSUME NEW T, NEW a \in Seq(T), NEW b \in Seq(T)
  PROVE  IsJoined(Joined(a, b), a, b, T)
<1>1. /\ Joined(a, b) \in Seq(T) /\ Len(Joined(a, b)) = Len(a) + Len(b)
      /\ \A i \in 1..Len(a) : Joined(a, b)[i] = a[i]
      /\ \A i \in 1..Len(b) : Joined(a, b)[Len(a) + i] = b[i]
  BY ConcatIs DEF Joined
<1> QED
  BY <1>1 DEF IsJoined

=============================================================================
