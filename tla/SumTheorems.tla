----------------------------- MODULE SumTheorems -----------------------------
(***************************************************************************)
(* Theorems about the sums of the community module Functions:              *)
(* SumFunctionOnSet(w, S) for naturals w over a finite set S.  The module  *)
(* defines them by a recursion over CHOOSE, one element at a time; what is *)
(* needed is that the order of the elements does not matter.  Every proof  *)
(* takes a smallest counterexample, a least natural or a minimal subset:   *)
(* the theorems on induction of the library have an operator as parameter, *)
(* which the provers do not instantiate.                                   *)
(***************************************************************************)
EXTENDS Integers, FiniteSets, Functions, FiniteSetTheorems, WellFoundedInduction, TLAPS

\* The order of the natural numbers, as the set of pairs that the theorems
\* on well-founded relations speak of.
NatOrder == OpToRel(<, Nat)

\* A non-empty set of naturals has a least element.
LEMMA LeastNatural ==
    ASSUME NEW T \in SUBSET Nat, T # {}
    PROVE  \E x \in T : \A y \in T : x <= y
  <1>1. IsWellFoundedOn(NatOrder, Nat)
    BY NatLessThanWellFounded DEF NatOrder
  <1>2. \E x \in T : \A y \in T : ~(<<y, x>> \in NatOrder)
    BY <1>1, WFMin
  <1>3. \A x, y \in Nat : y < x => <<y, x>> \in NatOrder
    BY DEF NatOrder, OpToRel
  <1>4. \A x, y \in Nat : ~(y < x) => x <= y
    OBVIOUS
  <1> QED BY <1>2, <1>3, <1>4

\* Induction on a set: a set of naturals that holds zero and every successor is Nat.
LEMMA SetInduction ==
    ASSUME NEW T \in SUBSET Nat, 0 \in T,
           \A n \in Nat : n \in T => n + 1 \in T
    PROVE  T = Nat
  <1> SUFFICES ASSUME Nat \ T # {} PROVE FALSE
    OBVIOUS
  <1>1. PICK x \in Nat \ T : \A y \in Nat \ T : x <= y
    BY LeastNatural
  <1>2. x # 0 /\ x - 1 \in Nat /\ ~(x <= x - 1)
    BY <1>1
  <1>3. x - 1 \in T
    BY <1>1, <1>2
  <1>4. (x - 1) + 1 = x
    BY <1>1
  <1> QED BY <1>1, <1>2, <1>3, <1>4

\* A non-empty family of subsets of a finite set has a minimal member.
LEMMA LeastSubset ==
    ASSUME NEW S, IsFiniteSet(S), NEW T \in SUBSET SUBSET S, T # {}
    PROVE  \E A \in T : \A B \in T : ~(B \subseteq A /\ B # A)
  <1>1. T \subseteq FiniteSubsetsOf(S)
    BY FS_Subset DEF FiniteSubsetsOf
  <1>2. \E A \in T : \A B \in T : ~(<<B, A>> \in StrictSubsetOrdering(S))
    BY <1>1, FS_StrictSubsetOrderingWellFounded, WFMin
  <1> QED BY <1>2 DEF StrictSubsetOrdering

\* The recursion that FoldFunctionOnSet(+, 0, w, S) is defined by.
SumsUpTo(f, w, S) ==
    f = [A \in SUBSET S |-> IF A = {} THEN 0
            ELSE w[CHOOSE x \in A : TRUE] + f[A \ {CHOOSE x \in A : TRUE}]]

\* SumFunctionOnSet is the value of a function that satisfies the recursion.
LEMMA SumUnfold ==
    ASSUME NEW w, NEW S, NEW f, SumsUpTo(f, w, S)
    PROVE  \E g : SumsUpTo(g, w, S) /\ SumFunctionOnSet(w, S) = g[S]
  BY Zenon DEF SumFunctionOnSet, FoldFunctionOnSet, MapThenFoldSet, SumsUpTo

\* The subsets of S of at most n elements, and the first values of the
\* recursion: a function that satisfies it on those.
Small(S, n) == {A \in SUBSET S : Cardinality(A) <= n}
SumsOn(f, w, D) ==
    \A A \in D : f[A] = IF A = {} THEN 0
            ELSE w[CHOOSE x \in A : TRUE] + f[A \ {CHOOSE x \in A : TRUE}]
Summable(w, S, n) == \E f \in [Small(S, n) -> Nat] : SumsOn(f, w, Small(S, n))

\* Without its chosen element a set is smaller.
LEMMA SmallRest ==
    ASSUME NEW S, IsFiniteSet(S), NEW n \in Nat, NEW A \in Small(S, n + 1), A # {}
    PROVE  /\ (CHOOSE x \in A : TRUE) \in S
           /\ A \ {CHOOSE x \in A : TRUE} \in Small(S, n)
           /\ A \ {CHOOSE x \in A : TRUE} \in Small(S, n + 1)
  <1> DEFINE c == CHOOSE x \in A : TRUE
  <1>1. c \in A
    OBVIOUS
  <1> HIDE DEF c
  <1>2. IsFiniteSet(A) /\ Cardinality(A) \in Nat /\ Cardinality(A) <= n + 1
    BY FS_Subset, FS_CardinalityType DEF Small
  <1>3. Cardinality(A \ {c}) = Cardinality(A) - 1
    BY <1>1, <1>2, FS_RemoveElement
  <1>4. Cardinality(A \ {c}) <= n /\ Cardinality(A \ {c}) <= n + 1
    BY <1>2, <1>3
  <1>5. c \in S /\ A \ {c} \in Small(S, n) /\ A \ {c} \in Small(S, n + 1)
    BY <1>1, <1>4 DEF Small
  <1> QED BY <1>5 DEF c

\* The recursion reaches one more element.
LEMMA SummableNext ==
    ASSUME NEW S, IsFiniteSet(S), NEW w, \A x \in S : w[x] \in Nat,
           NEW n \in Nat, Summable(w, S, n)
    PROVE  Summable(w, S, n + 1)
  <1> DEFINE c(A) == CHOOSE x \in A : TRUE
  <1>1. PICK f \in [Small(S, n) -> Nat] : SumsOn(f, w, Small(S, n))
    BY DEF Summable
  <1> DEFINE g == [A \in Small(S, n + 1) |->
                      IF A = {} THEN 0 ELSE w[c(A)] + f[A \ {c(A)}]]
  <1>2. \A A \in Small(S, n + 1) : A # {} =>
           c(A) \in S /\ A \ {c(A)} \in Small(S, n) /\ A \ {c(A)} \in Small(S, n + 1)
    BY SmallRest
  <1>3. Small(S, n) \subseteq Small(S, n + 1)
    BY FS_Subset, FS_CardinalityType DEF Small
  <1>4. \A A \in Small(S, n) : f[A] = IF A = {} THEN 0 ELSE w[c(A)] + f[A \ {c(A)}]
    BY <1>1 DEF SumsOn
  <1> HIDE DEF c
  <1>5. g \in [Small(S, n + 1) -> Nat]
    BY <1>2
  <1>6. \A A \in Small(S, n) : g[A] = f[A]
    BY <1>3, <1>4
  <1>7. \A A \in Small(S, n + 1) :
           g[A] = IF A = {} THEN 0 ELSE w[c(A)] + g[A \ {c(A)}]
    BY <1>2, <1>6
  <1> HIDE DEF g
  <1>8. SumsOn(g, w, Small(S, n + 1))
    BY <1>7 DEF SumsOn, c
  <1> QED BY <1>5, <1>8 DEF Summable

\* The recursion has a solution in the naturals.
LEMMA SumDefined ==
    ASSUME NEW S, IsFiniteSet(S), NEW w, \A x \in S : w[x] \in Nat
    PROVE  \E f \in [SUBSET S -> Nat] : SumsUpTo(f, w, S)
  <1> DEFINE T == {n \in Nat : Summable(w, S, n)}
  <1>1. Summable(w, S, 0)
    <2> DEFINE f == [A \in Small(S, 0) |-> 0]
    <2>1. \A A \in Small(S, 0) : A = {}
      BY FS_Subset, FS_CardinalityType, FS_EmptySet DEF Small
    <2>2. f \in [Small(S, 0) -> Nat] /\ \A A \in Small(S, 0) : f[A] = 0
      OBVIOUS
    <2> QED BY <2>1, <2>2 DEF Summable, SumsOn
  <1>2. T \in SUBSET Nat /\ 0 \in T /\ \A n \in Nat : n \in T => n + 1 \in T
    BY <1>1, SummableNext
  <1>3. T = Nat
    BY <1>2, SetInduction
  <1>4. Cardinality(S) \in Nat
    BY FS_CardinalityType
  <1>5. Summable(w, S, Cardinality(S))
    BY <1>3, <1>4
  <1>6. Small(S, Cardinality(S)) = SUBSET S
    BY FS_Subset DEF Small
  <1>7. PICK f \in [SUBSET S -> Nat] : SumsOn(f, w, SUBSET S)
    BY <1>5, <1>6 DEF Summable
  <1> QED BY <1>7 DEF SumsUpTo, SumsOn

\* The recursion has one solution.
LEMMA SumUnique ==
    ASSUME NEW S, IsFiniteSet(S), NEW w, \A x \in S : w[x] \in Nat,
           NEW f, NEW g, SumsUpTo(f, w, S), SumsUpTo(g, w, S)
    PROVE  \A A \in SUBSET S : f[A] = g[A]
  <1> DEFINE T == {A \in SUBSET S : f[A] # g[A]}
             c(A) == CHOOSE x \in A : TRUE
  <1> SUFFICES ASSUME T # {} PROVE FALSE
    OBVIOUS
  <1>0. T \in SUBSET SUBSET S
    OBVIOUS
  <1> HIDE DEF T
  <1>1. PICK A \in T : \A B \in T : ~(B \subseteq A /\ B # A)
    BY <1>0, LeastSubset
  <1> USE DEF T
  <1>2. /\ f[A] = IF A = {} THEN 0 ELSE w[c(A)] + f[A \ {c(A)}]
        /\ g[A] = IF A = {} THEN 0 ELSE w[c(A)] + g[A \ {c(A)}]
    BY DEF SumsUpTo
  <1>3. A # {}
    BY <1>2
  <1>4. c(A) \in A
    BY <1>3
  <1> HIDE DEF c
  <1>5. f[A \ {c(A)}] = g[A \ {c(A)}]
    BY <1>1, <1>4
  <1> QED BY <1>2, <1>3, <1>5

\* The sum is the value of any solution, and a natural number.
LEMMA SumIs ==
    ASSUME NEW S, IsFiniteSet(S), NEW w, \A x \in S : w[x] \in Nat,
           NEW f, SumsUpTo(f, w, S)
    PROVE  SumFunctionOnSet(w, S) = f[S]
  BY SumUnfold, SumUnique

\* A sum of naturals over a finite set is a natural.
THEOREM SumType ==
    ASSUME NEW S, IsFiniteSet(S), NEW w, \A x \in S : w[x] \in Nat
    PROVE  SumFunctionOnSet(w, S) \in Nat
  <1>1. PICK f \in [SUBSET S -> Nat] : SumsUpTo(f, w, S)
    BY SumDefined
  <1>2. f[S] \in Nat
    OBVIOUS
  <1> QED BY <1>1, <1>2, SumIs

\* The sum over nothing is zero.
THEOREM SumEmpty ==
    ASSUME NEW w
    PROVE  SumFunctionOnSet(w, {}) = 0
  <1>1. PICK f \in [SUBSET {} -> Nat] : SumsUpTo(f, w, {})
    BY SumDefined, FS_EmptySet
  <1>2. f[{}] = 0
    BY <1>1 DEF SumsUpTo
  <1>3. SumFunctionOnSet(w, {}) = f[{}]
    BY <1>1, SumIs, FS_EmptySet
  <1> QED BY <1>2, <1>3

\* What the definition says: the chosen element and the rest.
LEMMA SumChosen ==
    ASSUME NEW S, IsFiniteSet(S), S # {}, NEW w, \A x \in S : w[x] \in Nat
    PROVE  \E c \in S : SumFunctionOnSet(w, S) = w[c] + SumFunctionOnSet(w, S \ {c})
  <1> DEFINE c == CHOOSE x \in S : TRUE
  <1>1. PICK f \in [SUBSET S -> Nat] : SumsUpTo(f, w, S)
    BY SumDefined
  <1>2. c \in S
    OBVIOUS
  <1>3. f[S] = w[c] + f[S \ {c}]
    BY <1>1 DEF SumsUpTo
  <1> HIDE DEF c
  <1> DEFINE g == [A \in SUBSET (S \ {c}) |-> f[A]]
  <1>4. SumsUpTo(g, w, S \ {c})
    <2>1. \A A \in SUBSET (S \ {c}) : f[A] = IF A = {} THEN 0
             ELSE w[CHOOSE x \in A : TRUE] + f[A \ {CHOOSE x \in A : TRUE}]
      BY <1>1 DEF SumsUpTo
    <2>2. \A A \in SUBSET (S \ {c}) :
             g[A] = f[A] /\ g[A \ {CHOOSE x \in A : TRUE}] = f[A \ {CHOOSE x \in A : TRUE}]
      OBVIOUS
    <2>3. g = [A \in SUBSET (S \ {c}) |-> IF A = {} THEN 0
             ELSE w[CHOOSE x \in A : TRUE] + g[A \ {CHOOSE x \in A : TRUE}]]
      BY <2>1, <2>2
    <2> QED BY <2>3 DEF SumsUpTo
  <1>5. IsFiniteSet(S \ {c})
    BY FS_RemoveElement
  <1>6. SumFunctionOnSet(w, S \ {c}) = g[S \ {c}]
    BY <1>4, <1>5, SumIs
  <1>7. SumFunctionOnSet(w, S) = f[S]
    BY <1>1, SumIs
  <1> QED BY <1>2, <1>3, <1>6, <1>7

\* Any element may be taken out first.
THEOREM SumRemove ==
    ASSUME NEW S, IsFiniteSet(S), NEW w, \A x \in S : w[x] \in Nat, NEW x \in S
    PROVE  SumFunctionOnSet(w, S) = w[x] + SumFunctionOnSet(w, S \ {x})
  <1> DEFINE F == [A \in SUBSET S |-> SumFunctionOnSet(w, A)]
             T == {A \in SUBSET S : \E y \in A : F[A] # w[y] + F[A \ {y}]}
  <1>1. \A A \in SUBSET S : F[A] \in Nat
    BY FS_Subset, SumType
  <1>2. \A A \in SUBSET S : A # {} => \E c \in A : F[A] = w[c] + F[A \ {c}]
    <2> SUFFICES ASSUME NEW A \in SUBSET S, A # {}
                 PROVE  \E c \in A : F[A] = w[c] + F[A \ {c}]
      OBVIOUS
    <2>1. IsFiniteSet(A) /\ \A z \in A : w[z] \in Nat
      BY FS_Subset
    <2>2. \E c \in A : SumFunctionOnSet(w, A) = w[c] + SumFunctionOnSet(w, A \ {c})
      BY <2>1, SumChosen
    <2> QED BY <2>2
  <1> HIDE DEF F
  <1>3. ASSUME T # {} PROVE FALSE
    <2>0. T \in SUBSET SUBSET S
      OBVIOUS
    <2> HIDE DEF T
    <2>1. PICK A \in T : \A B \in T : ~(B \subseteq A /\ B # A)
      BY <1>3, <2>0, LeastSubset
    <2> USE DEF T
    <2>2. PICK y \in A : F[A] # w[y] + F[A \ {y}]
      OBVIOUS
    <2>3. PICK c \in A : F[A] = w[c] + F[A \ {c}]
      BY <1>2
    <2>4. c # y
      BY <2>2, <2>3
    <2>5. A \ {c} \notin T /\ A \ {y} \notin T
      BY <2>1, <2>2, <2>3
    <2>6. F[A \ {c}] = w[y] + F[(A \ {c}) \ {y}]
      BY <2>2, <2>4, <2>5
    <2>7. F[A \ {y}] = w[c] + F[(A \ {y}) \ {c}]
      BY <2>3, <2>4, <2>5
    <2>8. (A \ {c}) \ {y} = (A \ {y}) \ {c}
      OBVIOUS
    <2>9. F[(A \ {y}) \ {c}] \in Nat /\ w[c] \in Nat /\ w[y] \in Nat
      BY <1>1
    <2>10. F[A \ {c}] = w[y] + F[(A \ {y}) \ {c}]
      BY <2>6, <2>8
    <2> QED BY <2>2, <2>3, <2>7, <2>9, <2>10
  <1>4. F[S] = w[x] + F[S \ {x}]
    BY <1>3
  <1> QED BY <1>4 DEF F

\* Only the values on the set count.
THEOREM SumSame ==
    ASSUME NEW S, IsFiniteSet(S), NEW w, \A x \in S : w[x] \in Nat,
           NEW v, \A x \in S : v[x] = w[x]
    PROVE  SumFunctionOnSet(v, S) = SumFunctionOnSet(w, S)
  <1>1. PICK f \in [SUBSET S -> Nat] : SumsUpTo(f, w, S)
    BY SumDefined
  <1>2. \A A \in SUBSET S : A # {} => v[CHOOSE x \in A : TRUE] = w[CHOOSE x \in A : TRUE]
    OBVIOUS
  <1>3. SumsUpTo(f, v, S)
    BY <1>1, <1>2 DEF SumsUpTo
  <1>4. \A x \in S : v[x] \in Nat
    OBVIOUS
  <1>5. SumFunctionOnSet(w, S) = f[S]
    BY <1>1, SumIs
  <1>6. SumFunctionOnSet(v, S) = f[S]
    BY <1>3, <1>4, SumIs
  <1> QED BY <1>5, <1>6

\* A set falls into a part and the rest.
THEOREM SumSplit ==
    ASSUME NEW S, IsFiniteSet(S), NEW w, \A x \in S : w[x] \in Nat, NEW R \in SUBSET S
    PROVE  SumFunctionOnSet(w, S) = SumFunctionOnSet(w, R) + SumFunctionOnSet(w, S \ R)
  <1> DEFINE F == [A \in SUBSET S |-> SumFunctionOnSet(w, A)]
             T == {A \in SUBSET S : F[S] # F[A] + F[S \ A]}
  <1>1. \A A \in SUBSET S : F[A] \in Nat
    BY FS_Subset, SumType
  <1>2. F[{}] = 0
    BY SumEmpty
  <1>3. \A A \in SUBSET S : \A x \in A : F[A] = w[x] + F[A \ {x}]
    BY FS_Subset, SumRemove
  <1> HIDE DEF F
  <1>4. ASSUME T # {} PROVE FALSE
    <2>1. T \in SUBSET SUBSET S
      OBVIOUS
    <2> HIDE DEF T
    <2>2. PICK A \in T : \A B \in T : ~(B \subseteq A /\ B # A)
      BY <1>4, <2>1, LeastSubset
    <2> USE DEF T
    <2>3. A # {}
      <3>1. S \ {} = S
        OBVIOUS
      <3>2. F[S] = F[{}] + F[S \ {}]
        BY <1>1, <1>2, <3>1
      <3> QED BY <3>2
    <2>4. PICK x \in A : TRUE
      BY <2>3
    <2>5. A \ {x} \in SUBSET S /\ A \ {x} \notin T
      BY <2>2
    <2>6. F[S] = F[A \ {x}] + F[S \ (A \ {x})]
      BY <2>5
    <2>7. F[A] = w[x] + F[A \ {x}]
      BY <1>3
    <2>8. S \ (A \ {x}) \in SUBSET S /\ x \in S \ (A \ {x})
      OBVIOUS
    <2>9. F[S \ (A \ {x})] = w[x] + F[(S \ (A \ {x})) \ {x}]
      BY <1>3, <2>8
    <2>10. (S \ (A \ {x})) \ {x} = S \ A
      OBVIOUS
    <2>11. F[S \ (A \ {x})] = w[x] + F[S \ A]
      BY <2>9, <2>10
    <2>12. F[A \ {x}] \in Nat /\ F[S \ A] \in Nat /\ w[x] \in Nat
      BY <1>1
    <2>13. F[S] # F[A] + F[S \ A]
      OBVIOUS
    <2> HIDE DEF T
    <2> QED BY <2>6, <2>7, <2>11, <2>12, <2>13
  <1>5. F[S] = F[R] + F[S \ R]
    BY <1>4
  <1> QED BY <1>5 DEF F

\* Sums are added term by term.
THEOREM SumPlus ==
    ASSUME NEW S, IsFiniteSet(S), NEW u, NEW v, NEW w,
           \A x \in S : u[x] \in Nat /\ v[x] \in Nat /\ w[x] = u[x] + v[x]
    PROVE  SumFunctionOnSet(w, S) = SumFunctionOnSet(u, S) + SumFunctionOnSet(v, S)
  <1> DEFINE U == [A \in SUBSET S |-> SumFunctionOnSet(u, A)]
             V == [A \in SUBSET S |-> SumFunctionOnSet(v, A)]
             W == [A \in SUBSET S |-> SumFunctionOnSet(w, A)]
             T == {A \in SUBSET S : W[A] # U[A] + V[A]}
  <1>0. \A x \in S : w[x] \in Nat
    OBVIOUS
  <1>1. \A A \in SUBSET S : U[A] \in Nat /\ V[A] \in Nat
    BY FS_Subset, SumType
  <1>2. U[{}] = 0 /\ V[{}] = 0 /\ W[{}] = 0
    BY SumEmpty
  <1>3. \A A \in SUBSET S : \A x \in A : U[A] = u[x] + U[A \ {x}]
    BY FS_Subset, SumRemove
  <1>4. \A A \in SUBSET S : \A x \in A : V[A] = v[x] + V[A \ {x}]
    BY FS_Subset, SumRemove
  <1>5. \A A \in SUBSET S : \A x \in A : W[A] = w[x] + W[A \ {x}]
    BY <1>0, FS_Subset, SumRemove
  <1> HIDE DEF U, V, W
  <1>6. ASSUME T # {} PROVE FALSE
    <2>1. T \in SUBSET SUBSET S
      OBVIOUS
    <2> HIDE DEF T
    <2>2. PICK A \in T : \A B \in T : ~(B \subseteq A /\ B # A)
      BY <1>6, <2>1, LeastSubset
    <2> USE DEF T
    <2>0. A # {}
      <3>1. W[{}] = U[{}] + V[{}]
        BY <1>2
      <3> QED BY <3>1
    <2>3. PICK x \in A : TRUE
      BY <2>0
    <2>4. A \ {x} \in SUBSET S /\ A \ {x} \notin T
      BY <2>2
    <2>5. W[A \ {x}] = U[A \ {x}] + V[A \ {x}]
      BY <2>4
    <2>6. W[A] # U[A] + V[A] /\ x \in S /\ A \in SUBSET S
      OBVIOUS
    <2> HIDE DEF T
    <2>7. /\ U[A] = u[x] + U[A \ {x}] /\ V[A] = v[x] + V[A \ {x}]
          /\ W[A] = w[x] + W[A \ {x}]
      BY <1>3, <1>4, <1>5, <2>6
    <2>8. U[A \ {x}] \in Nat /\ V[A \ {x}] \in Nat
      BY <1>1, <2>4
    <2>9. u[x] \in Nat /\ v[x] \in Nat /\ w[x] = u[x] + v[x]
      BY <2>6
    <2> QED BY <2>5, <2>6, <2>7, <2>8, <2>9
  <1>7. W[S] = U[S] + V[S]
    BY <1>6
  <1> QED BY <1>7 DEF U, V, W

\* The terms of a sum may be numbered from anywhere.
THEOREM SumShift ==
    ASSUME NEW k \in Nat, NEW n \in Nat, NEW w, \A i \in (k + 1)..(k + n) : w[i] \in Nat,
           NEW v, \A i \in 1..n : v[i] = w[i + k]
    PROVE  SumFunctionOnSet(v, 1..n) = SumFunctionOnSet(w, (k + 1)..(k + n))
  <1> DEFINE V == [m \in Nat |-> SumFunctionOnSet(v, 1..m)]
             W == [m \in Nat |-> SumFunctionOnSet(w, (k + 1)..(k + m))]
             T == {m \in Nat : m <= n => V[m] = W[m]}
  <1>0. /\ \A m \in Nat : V[m] = SumFunctionOnSet(v, 1..m)
        /\ \A m \in Nat : W[m] = SumFunctionOnSet(w, (k + 1)..(k + m))
    OBVIOUS
  <1> HIDE DEF V, W
  <1>1. V[0] = 0 /\ W[0] = 0
    <2>1. 1..0 = {} /\ (k + 1)..(k + 0) = {}
      OBVIOUS
    <2>2. V[0] = SumFunctionOnSet(v, {}) /\ W[0] = SumFunctionOnSet(w, {})
      BY <1>0, <2>1
    <2> QED BY <2>2, SumEmpty
  <1>2. ASSUME NEW m \in Nat, m + 1 <= n
        PROVE  V[m + 1] = v[m + 1] + V[m]
    <2>1. IsFiniteSet(1..(m + 1)) /\ m + 1 \in 1..(m + 1)
      BY FS_Interval
    <2>2. (1..(m + 1)) \ {m + 1} = 1..m
      OBVIOUS
    <2>3. \A i \in 1..(m + 1) : v[i] \in Nat
      BY <1>2
    <2>4. SumFunctionOnSet(v, 1..(m + 1))
             = v[m + 1] + SumFunctionOnSet(v, (1..(m + 1)) \ {m + 1})
      BY <2>1, <2>3, SumRemove
    <2>5. /\ V[m + 1] = SumFunctionOnSet(v, 1..(m + 1))
          /\ V[m] = SumFunctionOnSet(v, 1..m)
      BY <1>0
    <2>6. V[m] = SumFunctionOnSet(v, (1..(m + 1)) \ {m + 1})
      BY <2>2, <2>5, Zenon
    <2> QED BY <2>4, <2>5, <2>6
  <1>3. ASSUME NEW m \in Nat, m + 1 <= n
        PROVE  W[m + 1] = w[k + (m + 1)] + W[m]
    <2>1. IsFiniteSet((k + 1)..(k + (m + 1))) /\ k + (m + 1) \in (k + 1)..(k + (m + 1))
      BY FS_Interval
    <2>2. ((k + 1)..(k + (m + 1))) \ {k + (m + 1)} = (k + 1)..(k + m)
      OBVIOUS
    <2>3. \A i \in (k + 1)..(k + (m + 1)) : w[i] \in Nat
      BY <1>3
    <2>4. SumFunctionOnSet(w, (k + 1)..(k + (m + 1)))
             = w[k + (m + 1)]
               + SumFunctionOnSet(w, ((k + 1)..(k + (m + 1))) \ {k + (m + 1)})
      BY <2>1, <2>3, SumRemove
    <2>5. /\ W[m + 1] = SumFunctionOnSet(w, (k + 1)..(k + (m + 1)))
          /\ W[m] = SumFunctionOnSet(w, (k + 1)..(k + m))
      BY <1>0
    <2>6. W[m] = SumFunctionOnSet(w, ((k + 1)..(k + (m + 1))) \ {k + (m + 1)})
      BY <2>2, <2>5, Zenon
    <2> QED BY <2>4, <2>5, <2>6
  <1>4. 0 \in T
    BY <1>1
  <1>5. ASSUME NEW m \in Nat, m \in T PROVE m + 1 \in T
    <2> SUFFICES ASSUME m + 1 <= n PROVE V[m + 1] = W[m + 1]
      OBVIOUS
    <2>1. m + 1 \in 1..n /\ m <= n
      OBVIOUS
    <2>2. v[m + 1] = w[k + (m + 1)]
      BY <2>1
    <2> QED BY <1>2, <1>3, <1>5, <2>1, <2>2
  <1>6. T = Nat
    <2>1. T \in SUBSET Nat
      OBVIOUS
    <2> HIDE DEF T
    <2> QED BY <1>4, <1>5, <2>1, SetInduction
  <1>7. V[n] = W[n]
    BY <1>6
  <1> QED BY <1>0, <1>7
=============================================================================
