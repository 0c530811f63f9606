------------------------------- MODULE SumFacts -------------------------------
(***************************************************************************)
(* Sums of natural numbers over finite sets, as Deliveries and Identity     *)
(* write them with SumFunctionOnSet: they do not depend on the order in     *)
(* which the fold picks the elements.  The facts about all finite sets are  *)
(* proved from a smallest set that would be a counterexample.               *)
(***************************************************************************)
EXTENDS Integers, Functions, FiniteSetTheorems, WellFoundedInduction, TLAPS

\* The element a fold takes out of a set first.
Pick(s) == CHOOSE x \in s : TRUE

\* g gives the sums of f over the sets of D.
Sums(g, f, D) == g = [s \in D |-> IF s = {} THEN 0 ELSE f[Pick(s)] + g[s \ {Pick(s)}]]

\* The subsets of at most n elements.
UpTo(S, n) == {s \in SUBSET S : Cardinality(s) <= n}

-----------------------------------------------------------------------------
\* What is taken out of a set is one of its elements.
LEMMA PickIn ==
  ASSUME NEW s, s # {}
  PROVE  Pick(s) \in s
BY DEF Pick

\* A set of natural numbers has a least one.
LEMMA Least ==
  ASSUME NEW N \in SUBSET Nat, N # {}
  PROVE  \E n \in N : \A m \in N : n <= m
<1>1. PICK n \in N : \A m \in N : ~(<<m, n>> \in OpToRel(<, Nat))
  BY NatLessThanWellFounded, WFMin, Zenon
<1>2. \A m \in N : ~(m < n)
  BY <1>1 DEF OpToRel
<1> QED BY <1>2

\* Among some subsets of a finite set there is one that has no smaller one among them.
LEMMA SmallestSet ==
  ASSUME NEW S, IsFiniteSet(S), NEW B \in SUBSET SUBSET S, B # {}
  PROVE  \E T \in B : /\ IsFiniteSet(T)
                      /\ \A U \in SUBSET T : U # T => U \notin B
<1>1. \A T \in SUBSET S : IsFiniteSet(T)
  BY FS_Subset
<1>2. B \subseteq FiniteSubsetsOf(S)
  BY <1>1 DEF FiniteSubsetsOf
<1>3. PICK T \in B : \A U \in B : ~(<<U, T>> \in StrictSubsetOrdering(S))
  BY <1>2, FS_StrictSubsetOrderingWellFounded, WFMin, Zenon
<1>4. ASSUME NEW U \in SUBSET T, U # T, U \in B PROVE FALSE
  BY <1>3, <1>4 DEF StrictSubsetOrdering
<1> QED BY <1>1, <1>3, <1>4

-----------------------------------------------------------------------------
(* The recursion of the fold                                                 *)

\* The sums over the sets of at most n elements can be written down ...
LEMMA SumsUpTo ==
  ASSUME NEW f, NEW S, IsFiniteSet(S), NEW n \in Nat,
         NEW g, Sums(g, f, UpTo(S, n))
  PROVE  \E h : Sums(h, f, UpTo(S, n + 1))
<1> DEFINE h == [s \in UpTo(S, n + 1) |-> IF s = {} THEN 0 ELSE f[Pick(s)] + g[s \ {Pick(s)}]]
<1>1. \A s \in SUBSET S : IsFiniteSet(s)
  BY FS_Subset
<1>2. \A s \in SUBSET S : Cardinality(s) \in Nat
  BY <1>1, FS_CardinalityType
<1>3. ASSUME NEW s \in UpTo(S, n + 1), s # {} PROVE s \ {Pick(s)} \in UpTo(S, n)
  <2>1. Pick(s) \in s
    BY <1>3, PickIn
  <2>2. Cardinality(s \ {Pick(s)}) = Cardinality(s) - 1
    BY <1>1, <2>1, FS_RemoveElement DEF UpTo
  <2> QED BY <1>2, <2>2 DEF UpTo
<1>4. ASSUME NEW s \in UpTo(S, n) PROVE s \in UpTo(S, n + 1) /\ h[s] = g[s]
  <2>1. s \in UpTo(S, n + 1)
    BY <1>2 DEF UpTo
  <2>2. g[s] = IF s = {} THEN 0 ELSE f[Pick(s)] + g[s \ {Pick(s)}]
    BY DEF Sums
  <2> QED BY <2>1, <2>2
<1>5. ASSUME NEW s \in UpTo(S, n + 1), s # {} PROVE h[s] = f[Pick(s)] + h[s \ {Pick(s)}]
  <2>1. h[s] = f[Pick(s)] + g[s \ {Pick(s)}]
    BY <1>5
  <2>2. h[s \ {Pick(s)}] = g[s \ {Pick(s)}]
    BY <1>3, <1>4, <1>5
  <2> QED BY <2>1, <2>2
<1>6. \A s \in UpTo(S, n + 1) : h[s] = IF s = {} THEN 0 ELSE f[Pick(s)] + h[s \ {Pick(s)}]
  BY <1>5
<1>7. h = [s \in UpTo(S, n + 1) |-> h[s]]
  OBVIOUS
<1> HIDE DEF h
<1>8. h = [s \in UpTo(S, n + 1) |-> IF s = {} THEN 0 ELSE f[Pick(s)] + h[s \ {Pick(s)}]]
  BY <1>6, <1>7
<1> QED BY <1>8 DEF Sums

\* ... so the sums over all subsets of a finite set can.
LEMMA SumsExist ==
  ASSUME NEW f, NEW S, IsFiniteSet(S)
  PROVE  \E g : Sums(g, f, SUBSET S)
<1> DEFINE N == {m \in Nat : ~\E g : Sums(g, f, UpTo(S, m))}
<1>1. \A s \in SUBSET S : IsFiniteSet(s) /\ Cardinality(s) <= Cardinality(S)
  BY FS_Subset
<1>2. UpTo(S, Cardinality(S)) = SUBSET S /\ Cardinality(S) \in Nat
  BY <1>1, FS_CardinalityType DEF UpTo
<1>3. CASE N = {}
  <2>1. \E g : Sums(g, f, UpTo(S, Cardinality(S)))
    BY <1>2, <1>3
  <2> QED BY <1>2, <2>1
<1>4. CASE N # {}
  <2>1. PICK n \in N : \A m \in N : n <= m
    <3>1. N \in SUBSET Nat
      OBVIOUS
    <3> HIDE DEF N
    <3> QED BY <1>4, <3>1, Least
  <2>2. n # 0
    <3>1. UpTo(S, 0) = {{}}
      <4>1. \A s \in SUBSET S : Cardinality(s) <= 0 => s = {}
        BY <1>1, FS_CardinalityType, FS_EmptySet
      <4>2. Cardinality({}) = 0
        BY FS_EmptySet
      <4> QED BY <4>1, <4>2 DEF UpTo
    <3> DEFINE g == [s \in {{}} |-> 0]
    <3>2. Sums(g, f, {{}})
      BY DEF Sums
    <3> QED BY <3>1, <3>2
  <2>3. PICK m \in Nat : n = m + 1
    <3> HIDE DEF N
    <3>1. n \in Nat
      BY DEF N
    <3> QED BY <2>2, <3>1
  <2>4. m \notin N
    <3> HIDE DEF N
    <3> QED BY <2>1, <2>3
  <2>5. PICK g : Sums(g, f, UpTo(S, m))
    BY <2>4
  <2>6. \E h : Sums(h, f, UpTo(S, m + 1))
    <3> HIDE DEF N
    <3> QED BY <2>3, <2>5, SumsUpTo
  <2> QED BY <2>1, <2>3, <2>6
<1> QED BY <1>3, <1>4

\* They are determined by their recursion.
LEMMA SumsUnique ==
  ASSUME NEW f, NEW S, IsFiniteSet(S), NEW g, NEW h, Sums(g, f, SUBSET S), Sums(h, f, SUBSET S)
  PROVE  g = h
<1> DEFINE B == {T \in SUBSET S : g[T] # h[T]}
<1>1. \A T \in SUBSET S : /\ g[T] = IF T = {} THEN 0 ELSE f[Pick(T)] + g[T \ {Pick(T)}]
                          /\ h[T] = IF T = {} THEN 0 ELSE f[Pick(T)] + h[T \ {Pick(T)}]
  BY DEF Sums
<1>2. B = {}
  <2> SUFFICES ASSUME B # {} PROVE FALSE
    OBVIOUS
  <2>1. B \in SUBSET SUBSET S
    OBVIOUS
  <2> HIDE DEF B
  <2>2. PICK T \in B : \A U \in SUBSET T : U # T => U \notin B
    BY <2>1, SmallestSet
  <2>3. T \in SUBSET S /\ g[T] # h[T] /\ T # {}
    BY <1>1 DEF B
  <2>4. Pick(T) \in T
    BY <2>3, PickIn
  <2>5. T \ {Pick(T)} \in SUBSET S /\ T \ {Pick(T)} \notin B
    BY <2>2, <2>3, <2>4
  <2>6. g[T \ {Pick(T)}] = h[T \ {Pick(T)}]
    BY <2>5 DEF B
  <2> QED BY <1>1, <2>3, <2>6
<1>3. g = [T \in SUBSET S |-> g[T]] /\ h = [T \in SUBSET S |-> h[T]]
  BY DEF Sums
<1> QED BY <1>2, <1>3

-----------------------------------------------------------------------------
(* What sums are                                                             *)

\* The fold is the recursion's value.
LEMMA SumIs ==
  ASSUME NEW f, NEW S, IsFiniteSet(S), NEW g, Sums(g, f, SUBSET S), NEW T \in SUBSET S
  PROVE  SumFunctionOnSet(f, T) = g[T]
<1> DEFINE h == [s \in SUBSET T |-> g[s]]
<1>1. IsFiniteSet(T)
  BY FS_Subset
<1>2. Sums(h, f, SUBSET T)
  <2>1. ASSUME NEW s \in SUBSET T PROVE h[s] = IF s = {} THEN 0 ELSE f[Pick(s)] + h[s \ {Pick(s)}]
    <3>1. s \in SUBSET S /\ s \ {Pick(s)} \in SUBSET T
      OBVIOUS
    <3>2. g[s] = IF s = {} THEN 0 ELSE f[Pick(s)] + g[s \ {Pick(s)}]
      BY <3>1 DEF Sums
    <3> QED BY <3>1, <3>2
  <2>2. h = [s \in SUBSET T |-> h[s]]
    OBVIOUS
  <2> HIDE DEF h
  <2> QED BY <2>1, <2>2 DEF Sums
<1>3. Sums(CHOOSE x : Sums(x, f, SUBSET T), f, SUBSET T)
  BY <1>2
<1>4. (CHOOSE x : Sums(x, f, SUBSET T)) = h
  <2> HIDE DEF h
  <2> QED BY <1>1, <1>2, <1>3, SumsUnique
<1>5. SumFunctionOnSet(f, T) = (CHOOSE x : Sums(x, f, SUBSET T))[T]
  BY DEF SumFunctionOnSet, FoldFunctionOnSet, MapThenFoldSet, Sums, Pick
<1> QED BY <1>4, <1>5

\* The sum over no element is zero.
LEMMA SumEmpty ==
  ASSUME NEW f
  PROVE  SumFunctionOnSet(f, {}) = 0
<1> DEFINE S == {}
<1>1. IsFiniteSet(S) /\ {} \in SUBSET S
  BY FS_EmptySet
<1> HIDE DEF S
<1>2. PICK g : Sums(g, f, SUBSET S)
  BY <1>1, SumsExist
<1>3. SumFunctionOnSet(f, {}) = g[{}]
  BY <1>1, <1>2, SumIs
<1> QED BY <1>1, <1>2, <1>3 DEF Sums

\* The fold takes one element out.
LEMMA SumPick ==
  ASSUME NEW f, NEW S, IsFiniteSet(S), S # {}
  PROVE  SumFunctionOnSet(f, S) = f[Pick(S)] + SumFunctionOnSet(f, S \ {Pick(S)})
<1>1. PICK g : Sums(g, f, SUBSET S)
  BY SumsExist
<1>2. SumFunctionOnSet(f, S) = g[S] /\ SumFunctionOnSet(f, S \ {Pick(S)}) = g[S \ {Pick(S)}]
  BY <1>1, SumIs
<1> QED BY <1>1, <1>2 DEF Sums

\* Sums of natural numbers are natural numbers.
LEMMA SumType ==
  ASSUME NEW f, NEW S, IsFiniteSet(S), \A x \in S : f[x] \in Nat
  PROVE  SumFunctionOnSet(f, S) \in Nat
<1> DEFINE B == {T \in SUBSET S : SumFunctionOnSet(f, T) \notin Nat}
<1>1. B = {}
  <2> SUFFICES ASSUME B # {} PROVE FALSE
    OBVIOUS
  <2>1. B \in SUBSET SUBSET S
    OBVIOUS
  <2> HIDE DEF B
  <2>2. PICK T \in B : IsFiniteSet(T) /\ \A U \in SUBSET T : U # T => U \notin B
    BY <2>1, SmallestSet
  <2>3. T \in SUBSET S /\ SumFunctionOnSet(f, T) \notin Nat /\ T # {}
    BY SumEmpty DEF B
  <2>4. Pick(T) \in T
    BY <2>3, PickIn
  <2>5. T \ {Pick(T)} \in SUBSET S /\ T \ {Pick(T)} \notin B
    BY <2>2, <2>3, <2>4
  <2>6. SumFunctionOnSet(f, T \ {Pick(T)}) \in Nat /\ f[Pick(T)] \in Nat
    BY <2>3, <2>4, <2>5 DEF B
  <2> QED BY <2>2, <2>3, <2>6, SumPick
<1> QED BY <1>1

\* Any element may be taken out, whichever the fold takes first.
LEMMA SumRemove ==
  ASSUME NEW f, NEW S, IsFiniteSet(S), \A x \in S : f[x] \in Nat, NEW x \in S
  PROVE  SumFunctionOnSet(f, S) = f[x] + SumFunctionOnSet(f, S \ {x})
<1> DEFINE B == {T \in SUBSET S : \E y \in T : SumFunctionOnSet(f, T) # f[y] + SumFunctionOnSet(f, T \ {y})}
<1>1. \A T \in SUBSET S : IsFiniteSet(T) /\ SumFunctionOnSet(f, T) \in Nat
  BY FS_Subset, SumType
<1>2. B = {}
  <2> SUFFICES ASSUME B # {} PROVE FALSE
    OBVIOUS
  <2>1. B \in SUBSET SUBSET S
    OBVIOUS
  <2> HIDE DEF B
  <2>2. PICK T \in B : \A U \in SUBSET T : U # T => U \notin B
    BY <2>1, SmallestSet
  <2>3. PICK y \in T : T \in SUBSET S /\ SumFunctionOnSet(f, T) # f[y] + SumFunctionOnSet(f, T \ {y})
    BY DEF B
  <2> DEFINE p == Pick(T)
  <2>4. p \in T /\ p \in S /\ y \in S
    BY <2>3, PickIn
  <2>5. SumFunctionOnSet(f, T) = f[p] + SumFunctionOnSet(f, T \ {p})
    BY <1>1, <2>3, SumPick
  <2>6. p # y
    BY <2>3, <2>5
  <2> HIDE DEF p
  <2>7. /\ T \ {p} \in SUBSET S /\ T \ {p} \notin B /\ y \in T \ {p}
        /\ T \ {y} \in SUBSET S /\ T \ {y} \notin B /\ p \in T \ {y}
    BY <2>2, <2>3, <2>4, <2>6
  <2>8. SumFunctionOnSet(f, T \ {p}) = f[y] + SumFunctionOnSet(f, (T \ {p}) \ {y})
    BY <2>7 DEF B
  <2>9. SumFunctionOnSet(f, T \ {y}) = f[p] + SumFunctionOnSet(f, (T \ {y}) \ {p})
    BY <2>7 DEF B
  <2>10. (T \ {p}) \ {y} = (T \ {y}) \ {p}
    OBVIOUS
  <2>11. /\ f[p] \in Nat /\ f[y] \in Nat /\ SumFunctionOnSet(f, (T \ {y}) \ {p}) \in Nat
    BY <1>1, <2>3, <2>4
  <2> QED BY <2>3, <2>5, <2>8, <2>9, <2>10, <2>11
<1> QED BY <1>2

\* What is summed elsewhere does not matter.
LEMMA SumSame ==
  ASSUME NEW f, NEW g, NEW S, IsFiniteSet(S), \A x \in S : f[x] = g[x]
  PROVE  SumFunctionOnSet(f, S) = SumFunctionOnSet(g, S)
<1> DEFINE B == {T \in SUBSET S : SumFunctionOnSet(f, T) # SumFunctionOnSet(g, T)}
<1>1. B = {}
  <2> SUFFICES ASSUME B # {} PROVE FALSE
    OBVIOUS
  <2>1. B \in SUBSET SUBSET S
    OBVIOUS
  <2> HIDE DEF B
  <2>2. PICK T \in B : IsFiniteSet(T) /\ \A U \in SUBSET T : U # T => U \notin B
    BY <2>1, SmallestSet
  <2>3. T \in SUBSET S /\ SumFunctionOnSet(f, T) # SumFunctionOnSet(g, T) /\ T # {}
    BY SumEmpty DEF B
  <2>4. Pick(T) \in T
    BY <2>3, PickIn
  <2>5. T \ {Pick(T)} \in SUBSET S /\ T \ {Pick(T)} \notin B
    BY <2>2, <2>3, <2>4
  <2>6. SumFunctionOnSet(f, T \ {Pick(T)}) = SumFunctionOnSet(g, T \ {Pick(T)}) /\ f[Pick(T)] = g[Pick(T)]
    BY <2>3, <2>4, <2>5 DEF B
  <2>7. SumFunctionOnSet(f, T) = f[Pick(T)] + SumFunctionOnSet(f, T \ {Pick(T)}) /\ SumFunctionOnSet(g, T) = g[Pick(T)] + SumFunctionOnSet(g, T \ {Pick(T)})
    BY <2>2, <2>3, SumPick
  <2> QED BY <2>3, <2>6, <2>7
<1> QED BY <1>1

\* Counting one value anew changes the sum by that.
LEMMA SumChange ==
  ASSUME NEW f, NEW g, NEW S, IsFiniteSet(S), \A x \in S : f[x] \in Nat /\ g[x] \in Nat,
         NEW x \in S, \A y \in S \ {x} : g[y] = f[y]
  PROVE  SumFunctionOnSet(g, S) = SumFunctionOnSet(f, S) - f[x] + g[x]
<1>1. IsFiniteSet(S \ {x})
  BY FS_RemoveElement
<1>2. SumFunctionOnSet(f, S) = f[x] + SumFunctionOnSet(f, S \ {x}) /\ SumFunctionOnSet(g, S) = g[x] + SumFunctionOnSet(g, S \ {x})
  BY SumRemove
<1>3. SumFunctionOnSet(f, S \ {x}) = SumFunctionOnSet(g, S \ {x})
  BY <1>1, SumSame
<1>4. SumFunctionOnSet(f, S \ {x}) \in Nat /\ f[x] \in Nat /\ g[x] \in Nat
  BY <1>1, SumType
<1> QED BY <1>2, <1>3, <1>4

\* A sum of natural numbers is zero only if each of them is.
LEMMA SumZero ==
  ASSUME NEW f, NEW S, IsFiniteSet(S), \A x \in S : f[x] \in Nat, SumFunctionOnSet(f, S) = 0, NEW x \in S
  PROVE  f[x] = 0
<1>1. SumFunctionOnSet(f, S) = f[x] + SumFunctionOnSet(f, S \ {x}) /\ f[x] \in Nat
  BY SumRemove
<1>2. SumFunctionOnSet(f, S \ {x}) \in Nat
  BY SumType, FS_RemoveElement
<1> QED BY <1>1, <1>2

\* Sums of two counts add up.
LEMMA SumPlus ==
  ASSUME NEW f, NEW g, NEW h, NEW S, IsFiniteSet(S),
         \A x \in S : f[x] \in Nat /\ g[x] \in Nat /\ h[x] = f[x] + g[x]
  PROVE  SumFunctionOnSet(h, S) = SumFunctionOnSet(f, S) + SumFunctionOnSet(g, S)
<1> DEFINE B == {T \in SUBSET S : SumFunctionOnSet(h, T) # SumFunctionOnSet(f, T) + SumFunctionOnSet(g, T)}
<1>1. \A T \in SUBSET S : IsFiniteSet(T) /\ SumFunctionOnSet(f, T) \in Nat /\ SumFunctionOnSet(g, T) \in Nat
  BY FS_Subset, SumType
<1>2. B = {}
  <2> SUFFICES ASSUME B # {} PROVE FALSE
    OBVIOUS
  <2>1. B \in SUBSET SUBSET S
    OBVIOUS
  <2> HIDE DEF B
  <2>2. PICK T \in B : IsFiniteSet(T) /\ \A U \in SUBSET T : U # T => U \notin B
    BY <2>1, SmallestSet
  <2>3. T \in SUBSET S /\ SumFunctionOnSet(h, T) # SumFunctionOnSet(f, T) + SumFunctionOnSet(g, T) /\ T # {}
    <3>1. T \in SUBSET S /\ SumFunctionOnSet(h, T) # SumFunctionOnSet(f, T) + SumFunctionOnSet(g, T)
      BY DEF B
    <3>2. SumFunctionOnSet(h, {}) = 0 /\ SumFunctionOnSet(f, {}) = 0 /\ SumFunctionOnSet(g, {}) = 0
      BY SumEmpty
    <3>3. SumFunctionOnSet(h, {}) = SumFunctionOnSet(f, {}) + SumFunctionOnSet(g, {})
      BY <3>2
    <3>4. ASSUME T = {} PROVE FALSE
      <4>1. SumFunctionOnSet(h, {}) # SumFunctionOnSet(f, {}) + SumFunctionOnSet(g, {})
        BY <3>1, <3>4, Zenon
      <4> QED BY <3>3, <4>1, Zenon
    <3> QED BY <3>1, <3>4, Zenon
  <2>4. Pick(T) \in T
    BY <2>3, PickIn
  <2>5. T \ {Pick(T)} \in SUBSET S /\ T \ {Pick(T)} \notin B
    BY <2>2, <2>3, <2>4
  <2> DEFINE R == T \ {Pick(T)}
  <2>6. /\ SumFunctionOnSet(h, R) = SumFunctionOnSet(f, R) + SumFunctionOnSet(g, R)
        /\ h[Pick(T)] = f[Pick(T)] + g[Pick(T)] /\ f[Pick(T)] \in Nat /\ g[Pick(T)] \in Nat
        /\ SumFunctionOnSet(f, R) \in Nat /\ SumFunctionOnSet(g, R) \in Nat
    BY <1>1, <2>3, <2>4, <2>5 DEF B
  <2>7. /\ SumFunctionOnSet(f, T) = f[Pick(T)] + SumFunctionOnSet(f, R)
        /\ SumFunctionOnSet(g, T) = g[Pick(T)] + SumFunctionOnSet(g, R)
        /\ SumFunctionOnSet(h, T) = h[Pick(T)] + SumFunctionOnSet(h, R)
    BY <2>2, <2>3, SumPick
  <2> HIDE DEF R
  <2> QED BY <2>3, <2>6, <2>7
<1> QED BY <1>2

\* All of the elements in some finite sets.
Together(B, S) == UNION {B[x] : x \in S}

\* There are no more of them than there are in the sets counted one by one.
LEMMA SumOfParts ==
  ASSUME NEW B, NEW f, NEW S, IsFiniteSet(S), \A x \in S : IsFiniteSet(B[x]) /\ f[x] = Cardinality(B[x])
  PROVE  /\ IsFiniteSet(Together(B, S))
         /\ Cardinality(Together(B, S)) <= SumFunctionOnSet(f, S)
<1> DEFINE Bad == {T \in SUBSET S : ~(/\ IsFiniteSet(Together(B, T))
                                     /\ Cardinality(Together(B, T)) <= SumFunctionOnSet(f, T))}
<1>1. \A x \in S : f[x] \in Nat
  BY FS_CardinalityType
<1>2. \A T \in SUBSET S : IsFiniteSet(T) /\ SumFunctionOnSet(f, T) \in Nat
  BY <1>1, FS_Subset, SumType
<1>3. Bad = {}
  <2> SUFFICES ASSUME Bad # {} PROVE FALSE
    OBVIOUS
  <2>1. Bad \in SUBSET SUBSET S
    OBVIOUS
  <2> HIDE DEF Bad
  <2>2. PICK T \in Bad : IsFiniteSet(T) /\ \A U \in SUBSET T : U # T => U \notin Bad
    BY <2>1, SmallestSet
  <2>3. T \in SUBSET S /\ ~(IsFiniteSet(Together(B, T)) /\ Cardinality(Together(B, T)) <= SumFunctionOnSet(f, T))
    BY DEF Bad
  <2>4. T # {}
    <3>1. Together(B, {}) = {}
      BY DEF Together
    <3>2. IsFiniteSet({}) /\ Cardinality({}) <= 0 /\ SumFunctionOnSet(f, {}) = 0
      BY FS_EmptySet, SumEmpty
    <3> QED BY <2>3, <3>1, <3>2
  <2>5. PICK p : p = Pick(T) /\ p \in T
    BY <2>4, PickIn
  <2>6. PICK R : R = T \ {p}
    OBVIOUS
  <2>7. R \in SUBSET S /\ R \notin Bad
    BY <2>2, <2>3, <2>5, <2>6
  <2>8. IsFiniteSet(Together(B, R)) /\ Cardinality(Together(B, R)) <= SumFunctionOnSet(f, R)
    BY <2>7 DEF Bad
  <2>9. IsFiniteSet(B[p]) /\ f[p] = Cardinality(B[p])
    BY <2>3, <2>5
  <2>10. Together(B, T) = Together(B, R) \cup B[p]
    BY <2>5, <2>6 DEF Together
  <2>11. /\ IsFiniteSet(Together(B, R) \cup B[p]) /\ IsFiniteSet(Together(B, R) \cap B[p])
         /\ Cardinality(Together(B, R) \cup B[p])
              = Cardinality(Together(B, R)) + Cardinality(B[p]) - Cardinality(Together(B, R) \cap B[p])
    <3>1. Together(B, R) \cap B[p] \subseteq B[p]
      OBVIOUS
    <3>2. IsFiniteSet(Together(B, R) \cap B[p])
      BY <2>9, <3>1, FS_Subset, Zenon
    <3> QED BY <2>8, <2>9, <3>2, FS_Union
  <2>12. /\ Cardinality(Together(B, R)) \in Nat /\ Cardinality(B[p]) \in Nat
         /\ Cardinality(Together(B, R) \cap B[p]) \in Nat
    BY <2>8, <2>9, <2>11, FS_CardinalityType
  <2>13. SumFunctionOnSet(f, T) = f[p] + SumFunctionOnSet(f, R) /\ SumFunctionOnSet(f, R) \in Nat
    BY <1>2, <2>2, <2>4, <2>5, <2>6, <2>7, SumPick
  <2> QED BY <2>3, <2>8, <2>9, <2>10, <2>11, <2>12, <2>13
<1> QED BY <1>3
=============================================================================
