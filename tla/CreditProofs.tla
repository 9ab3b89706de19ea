---------------------------- MODULE CreditProofs ----------------------------
(***************************************************************************)
(* Theorems about ResellerCredit, for any number of resellers, codes and   *)
(* handlers.                                                               *)
(***************************************************************************)
EXTENDS ResellerCredit, FiniteSetTheorems, TLAPS

-----------------------------------------------------------------------------
(* Sums over finite sets.  What a sum is for every set is a matter of      *)
(* induction, and that follows from the least of its counterexamples.      *)

(* Of some subsets of a finite set, one has none of them below it.         *)
LEMMA SomeIsSmallest ==
  ASSUME NEW S, IsFiniteSet(S), NEW Bad \in SUBSET SUBSET S, Bad # {}
  PROVE  \E T \in Bad : \A U \in SUBSET T : U # T => U \notin Bad
<1> DEFINE R == StrictSubsetOrdering(S)
<1>1. FiniteSubsetsOf(S) = SUBSET S BY FS_FiniteSubsetsOfFinite
<1>2. IsWellFoundedOn(R, SUBSET S)
  BY <1>1, FS_StrictSubsetOrderingWellFounded
<1>3. \A T, U \in SUBSET S : U \subseteq T /\ U # T => <<U, T>> \in R
  BY DEF StrictSubsetOrdering
<1> HIDE DEF R
<1>4. PICK T \in Bad : \A U \in Bad : ~(<<U, T>> \in R)
  BY <1>2, WFMin
<1> QED BY <1>3, <1>4

Pick(s) == CHOOSE x \in s : TRUE

LEMMA PickIn == ASSUME NEW s, s # {} PROVE Pick(s) \in s
  BY DEF Pick

(* g sums f over every subset of S.                                        *)
Sums(g, f, S) ==
  g = [s \in SUBSET S |-> IF s = {} THEN 0 ELSE f[Pick(s)] + g[s \ {Pick(s)}]]

LEMMA SumIsChosen ==
  ASSUME NEW f, NEW S
  PROVE  SumOf(f, S) = (CHOOSE g : Sums(g, f, S))[S]
  BY DEF SumOf, FoldFunctionOnSet, MapThenFoldSet, Sums, Pick

LEMMA SumsUnfold ==
  ASSUME NEW f, NEW S, NEW g, Sums(g, f, S), NEW s \in SUBSET S, s # {}
  PROVE  g[s] = f[Pick(s)] + g[s \ {Pick(s)}]
<1> DEFINE G == [t \in SUBSET S |-> IF t = {} THEN 0 ELSE f[Pick(t)] + g[t \ {Pick(t)}]]
<1>1. g = G BY DEF Sums
<1>2. G[s] = f[Pick(s)] + g[s \ {Pick(s)}] OBVIOUS
<1> HIDE DEF G
<1> QED BY <1>1, <1>2

(* There is one sum over each subset.                                      *)
LEMMA SumsAgree ==
  ASSUME NEW f, NEW S, IsFiniteSet(S), NEW T \in SUBSET S, NEW g, NEW h,
         Sums(g, f, S), Sums(h, f, T)
  PROVE  \A s \in SUBSET T : g[s] = h[s]
<1> DEFINE Bad == {s \in SUBSET T : g[s] # h[s]}
<1> SUFFICES ASSUME Bad # {} PROVE FALSE OBVIOUS
<1>0. IsFiniteSet(T) BY FS_Subset
<1>1. PICK s \in Bad : \A U \in SUBSET s : U # s => U \notin Bad
  <2>1. Bad \in SUBSET SUBSET T OBVIOUS
  <2> HIDE DEF Bad
  <2> QED BY <1>0, <2>1, SomeIsSmallest
<1>2. s # {} BY <1>1 DEF Sums
<1> DEFINE x == Pick(s)
<1>3. x \in s BY <1>2, PickIn
<1>4. g[s] = f[x] + g[s \ {x}] /\ h[s] = f[x] + h[s \ {x}]
  <2>1. s \in SUBSET S /\ s \in SUBSET T OBVIOUS
  <2> HIDE DEF Bad
  <2> QED BY <1>2, <2>1, SumsUnfold
<1>5. s \ {x} \notin Bad BY <1>1, <1>3
<1> QED BY <1>4, <1>5

LEMMA SumsExist ==
  ASSUME NEW f, NEW S, IsFiniteSet(S)
  PROVE  Sums(CHOOSE g : Sums(g, f, S), f, S)
<1> DEFINE Bad == {s \in SUBSET S : ~\E g : Sums(g, f, s)}
<1> SUFFICES ASSUME Bad # {} PROVE FALSE OBVIOUS
<1>1. PICK T \in Bad : \A U \in SUBSET T : U # T => U \notin Bad
  <2>1. Bad \in SUBSET SUBSET S OBVIOUS
  <2> HIDE DEF Bad
  <2> QED BY <2>1, SomeIsSmallest
<1> DEFINE of(s) == CHOOSE g : Sums(g, f, s)
           top == f[Pick(T)] + of(T \ {Pick(T)})[T \ {Pick(T)}]
           g == [s \in SUBSET T |-> IF s = {} THEN 0 ELSE IF s = T THEN top ELSE of(s)[s]]
           G == [s \in SUBSET T |-> IF s = {} THEN 0 ELSE f[Pick(s)] + g[s \ {Pick(s)}]]
<1>0. \A s \in SUBSET T : IsFiniteSet(s) BY FS_Subset
<1>2. \A s \in SUBSET T : s # T => Sums(of(s), f, s)
  BY <1>1
<1>3. \A s \in SUBSET T : s # {} => Pick(s) \in s /\ s \ {Pick(s)} # T /\ s \ {Pick(s)} \in SUBSET T
  BY PickIn
<1>4. \A s \in SUBSET T : s # T => g[s] = of(s)[s]
  <2> TAKE s \in SUBSET T
  <2> HAVE s # T
  <2>1. CASE s = {}
    <3>1. Sums(of(s), f, s) BY <1>2
    <3> HIDE DEF of
    <3>2. of(s)[s] = 0 BY <3>1, <2>1 DEF Sums
    <3> QED BY <3>2, <2>1
  <2>2. CASE s # {} BY <2>2
  <2> QED BY <2>1, <2>2
<1>5. \A s \in SUBSET T : g[s] = G[s]
  <2> TAKE s \in SUBSET T
  <2>1. CASE s = {} BY <2>1
  <2>2. CASE s # {} /\ s = T
    <3>1. g[s] = top BY <2>2
    <3>2. G[s] = f[Pick(s)] + g[s \ {Pick(s)}] BY <2>2
    <3>3. g[s \ {Pick(s)}] = of(s \ {Pick(s)})[s \ {Pick(s)}]
      <4> HIDE DEF g, of
      <4> QED BY <1>3, <1>4, <2>2
    <3> HIDE DEF g, G, of
    <3> QED BY <3>1, <3>2, <3>3, <2>2
  <2>3. CASE s # {} /\ s # T
    <3> DEFINE u == s \ {Pick(s)}
    <3>0. u \in SUBSET s /\ u \in SUBSET T /\ u # T BY <1>3, <2>3
    <3>1. g[s] = of(s)[s] BY <2>3
    <3>2. G[s] = f[Pick(s)] + g[u] BY <2>3
    <3>3. g[u] = of(u)[u]
      <4> HIDE DEF g, of, u
      <4> QED BY <1>4, <3>0
    <3>4. Sums(of(s), f, s) /\ Sums(of(u), f, u)
      <4> HIDE DEF of, u
      <4> QED BY <1>2, <3>0, <2>3
    <3>5. of(s)[u] = of(u)[u]
      <4> HIDE DEF of, u
      <4> QED BY <1>0, <3>0, <3>4, SumsAgree
    <3>6. of(s)[s] = f[Pick(s)] + of(s)[u]
      <4> HIDE DEF of
      <4>1. \A h : Sums(h, f, s) => h[s] = f[Pick(s)] + h[s \ {Pick(s)}]
        BY <2>3, SumsUnfold
      <4> QED BY <3>4, <4>1
    <3> HIDE DEF g, G, of, u
    <3> QED BY <3>1, <3>2, <3>3, <3>5, <3>6
  <2> QED BY <2>1, <2>2, <2>3
<1>6. g = G
  <2>1. g = [s \in SUBSET T |-> g[s]] OBVIOUS
  <2>2. G = [s \in SUBSET T |-> G[s]] OBVIOUS
  <2> HIDE DEF g, G
  <2> QED BY <1>5, <2>1, <2>2
<1>7. Sums(g, f, T)
  <2> HIDE DEF g
  <2> QED BY <1>6 DEF Sums
<1> QED BY <1>1, <1>7

LEMMA SumOfNone == ASSUME NEW f PROVE SumOf(f, {}) = 0
<1> DEFINE g == CHOOSE g : Sums(g, f, {})
<1>1. Sums(g, f, {})
  <2> HIDE DEF g
  <2>1. IsFiniteSet({}) BY FS_EmptySet
  <2>2. Sums(CHOOSE h : Sums(h, f, {}), f, {}) BY <2>1, SumsExist
  <2> QED BY <2>2 DEF g
<1>2. SumOf(f, {}) = g[{}] BY SumIsChosen
<1> HIDE DEF g
<1> QED BY <1>1, <1>2 DEF Sums

LEMMA SumOfPicked ==
  ASSUME NEW f, NEW S, IsFiniteSet(S), S # {}
  PROVE  SumOf(f, S) = f[Pick(S)] + SumOf(f, S \ {Pick(S)})
<1> DEFINE T == S \ {Pick(S)}
           g == CHOOSE g : Sums(g, f, S)
           h == CHOOSE h : Sums(h, f, T)
<1>1. IsFiniteSet(T) /\ T \in SUBSET S BY FS_Subset
<1>2. SumOf(f, S) = g[S] /\ SumOf(f, T) = h[T] BY SumIsChosen
<1>3. Sums(g, f, S) BY SumsExist
<1>4. Sums(h, f, T)
  <2> HIDE DEF T
  <2> QED BY <1>1, SumsExist
<1> HIDE DEF g, h
<1>5. g[S] = f[Pick(S)] + g[T] BY <1>3, SumsUnfold
<1>6. g[T] = h[T]
  <2> HIDE DEF T
  <2> QED BY <1>1, <1>3, <1>4, SumsAgree
<1> QED BY <1>2, <1>5, <1>6

LEMMA SumType ==
  ASSUME NEW f, NEW S, IsFiniteSet(S), \A x \in S : f[x] \in Int
  PROVE  SumOf(f, S) \in Int
<1> DEFINE Bad == {s \in SUBSET S : SumOf(f, s) \notin Int}
<1> SUFFICES ASSUME Bad # {} PROVE FALSE OBVIOUS
<1>1. PICK T \in Bad : \A U \in SUBSET T : U # T => U \notin Bad
  <2>1. Bad \in SUBSET SUBSET S OBVIOUS
  <2> HIDE DEF Bad
  <2> QED BY <2>1, SomeIsSmallest
<1>2. T # {} BY SumOfNone
<1>3. IsFiniteSet(T) BY FS_Subset
<1>4. Pick(T) \in T BY <1>2, PickIn
<1>5. SumOf(f, T \ {Pick(T)}) \in Int BY <1>1, <1>4
<1>6. SumOf(f, T) = f[Pick(T)] + SumOf(f, T \ {Pick(T)}) BY <1>2, <1>3, SumOfPicked
<1> QED BY <1>4, <1>5, <1>6

(* Any one element may be taken out.                                       *)
LEMMA SumWithout ==
  ASSUME NEW f, NEW S, IsFiniteSet(S), \A x \in S : f[x] \in Int, NEW e \in S
  PROVE  SumOf(f, S) = SumOf(f, S \ {e}) + f[e]
<1> DEFINE Bad == {s \in SUBSET S : \E d \in s : SumOf(f, s) # SumOf(f, s \ {d}) + f[d]}
<1> SUFFICES ASSUME Bad # {} PROVE FALSE OBVIOUS
<1>1. PICK T \in Bad : \A U \in SUBSET T : U # T => U \notin Bad
  <2>1. Bad \in SUBSET SUBSET S OBVIOUS
  <2> HIDE DEF Bad
  <2> QED BY <2>1, SomeIsSmallest
<1>2. PICK d \in T : SumOf(f, T) # SumOf(f, T \ {d}) + f[d]
  BY <1>1
<1> DEFINE x == Pick(T)
<1>3. x \in T BY PickIn
<1>4. \A s \in SUBSET T : IsFiniteSet(s) /\ SumOf(f, s) \in Int
  <2> TAKE s \in SUBSET T
  <2>1. IsFiniteSet(s) BY FS_Subset
  <2> QED BY <2>1, SumType
<1>5. SumOf(f, T) = f[x] + SumOf(f, T \ {x}) BY <1>3, <1>4, SumOfPicked
<1>6. x # d
  <2>1. f[x] \in Int /\ SumOf(f, T \ {x}) \in Int BY <1>3, <1>4
  <2> QED BY <1>2, <1>5, <2>1
<1>7. \A U \in SUBSET T, c \in T : U # T /\ c \in U => SumOf(f, U) = SumOf(f, U \ {c}) + f[c]
  BY <1>1
<1> HIDE DEF x, Bad
<1> DEFINE both == (T \ {x}) \ {d}
<1>8. SumOf(f, T \ {x}) = SumOf(f, both) + f[d]
  BY <1>2, <1>3, <1>6, <1>7
<1>9. SumOf(f, T \ {d}) = SumOf(f, both) + f[x]
  <2>1. (T \ {d}) \ {x} = both OBVIOUS
  <2> HIDE DEF both
  <2> QED BY <2>1, <1>3, <1>6, <1>7
<1>10. SumOf(f, both) \in Int BY <1>4
<1>11. f[x] \in Int /\ f[d] \in Int BY <1>2, <1>3 DEF Bad
<1> HIDE DEF both
<1> QED BY <1>2, <1>5, <1>8, <1>9, <1>10, <1>11

(* Two functions that agree have the same sum.                             *)
LEMMA SumSame ==
  ASSUME NEW f, NEW g, NEW S, IsFiniteSet(S), \A x \in S : f[x] = g[x]
  PROVE  SumOf(f, S) = SumOf(g, S)
<1> DEFINE Bad == {s \in SUBSET S : SumOf(f, s) # SumOf(g, s)}
<1> SUFFICES ASSUME Bad # {} PROVE FALSE OBVIOUS
<1>1. PICK T \in Bad : \A U \in SUBSET T : U # T => U \notin Bad
  <2>1. Bad \in SUBSET SUBSET S OBVIOUS
  <2> HIDE DEF Bad
  <2> QED BY <2>1, SomeIsSmallest
<1>2. T # {} BY SumOfNone
<1>3. IsFiniteSet(T) BY FS_Subset
<1>4. Pick(T) \in T BY <1>2, PickIn
<1>5. SumOf(f, T \ {Pick(T)}) = SumOf(g, T \ {Pick(T)}) BY <1>1, <1>4
<1>6. /\ SumOf(f, T) = f[Pick(T)] + SumOf(f, T \ {Pick(T)})
      /\ SumOf(g, T) = g[Pick(T)] + SumOf(g, T \ {Pick(T)})
  BY <1>2, <1>3, SumOfPicked
<1> QED BY <1>4, <1>5, <1>6

(* A function that differs at one place only.                              *)
LEMMA SumChanges ==
  ASSUME NEW f, NEW g, NEW S, IsFiniteSet(S), NEW e \in S,
         \A x \in S : f[x] \in Int /\ g[x] \in Int,
         \A x \in S \ {e} : g[x] = f[x]
  PROVE  SumOf(g, S) = SumOf(f, S) - f[e] + g[e]
<1>1. IsFiniteSet(S \ {e}) BY FS_Subset
<1>2. SumOf(f, S) = SumOf(f, S \ {e}) + f[e] BY SumWithout
<1>3. SumOf(g, S) = SumOf(g, S \ {e}) + g[e] BY SumWithout
<1>4. SumOf(g, S \ {e}) = SumOf(f, S \ {e}) BY <1>1, SumSame
<1>5. SumOf(f, S \ {e}) \in Int BY <1>1, SumType
<1> QED BY <1>2, <1>3, <1>4, <1>5

(* A function that is larger by the same amount on a set.                  *)
LEMMA SumShifts ==
  ASSUME NEW f, NEW g, NEW S, IsFiniteSet(S), NEW A \in SUBSET S, NEW d \in Int,
         \A x \in S : f[x] \in Int,
         \A x \in S : g[x] = IF x \in A THEN f[x] + d ELSE f[x]
  PROVE  SumOf(g, S) = SumOf(f, S) + d * Cardinality(A)
<1> DEFINE Bad == {s \in SUBSET S : SumOf(g, s) # SumOf(f, s) + d * Cardinality(A \cap s)}
<1>0. \A x \in S : g[x] \in Int OBVIOUS
<1>1. \A s \in SUBSET S : /\ IsFiniteSet(s) /\ SumOf(f, s) \in Int /\ SumOf(g, s) \in Int
                          /\ IsFiniteSet(A \cap s) /\ Cardinality(A \cap s) \in Nat
  <2> TAKE s \in SUBSET S
  <2>1. IsFiniteSet(s) /\ IsFiniteSet(A \cap s) BY FS_Subset
  <2> QED BY <1>0, <2>1, SumType, FS_CardinalityType
<1>2. A \cap S = A OBVIOUS
<1> SUFFICES ASSUME Bad # {} PROVE FALSE BY <1>2
<1>3. PICK T \in Bad : \A U \in SUBSET T : U # T => U \notin Bad
  <2>1. Bad \in SUBSET SUBSET S OBVIOUS
  <2> HIDE DEF Bad
  <2> QED BY <2>1, SomeIsSmallest
<1>4. SumOf(g, T) # SumOf(f, T) + d * Cardinality(A \cap T) BY <1>3
<1>5. T # {}
  <2> HIDE DEF Bad
  <2> SUFFICES ASSUME T = {} PROVE FALSE OBVIOUS
  <2>1. A \cap T = {} OBVIOUS
  <2>2. SumOf(g, {}) = 0 /\ SumOf(f, {}) = 0 BY SumOfNone
  <2>3. Cardinality({}) = 0 BY FS_EmptySet
  <2>4. d * 0 = 0 OBVIOUS
  <2>5. d * Cardinality(A \cap T) = 0 BY <2>1, <2>3, <2>4
  <2> QED BY <1>4, <2>2, <2>5
<1> DEFINE x == Pick(T)
           U == T \ {x}
<1>6. x \in T BY <1>5, PickIn
<1>7. SumOf(g, U) = SumOf(f, U) + d * Cardinality(A \cap U) BY <1>3, <1>6
<1>8. SumOf(g, T) = g[x] + SumOf(g, U) /\ SumOf(f, T) = f[x] + SumOf(f, U)
  BY <1>1, <1>5, SumOfPicked
<1>9. Cardinality(A \cap T) = IF x \in A THEN Cardinality(A \cap U) + 1 ELSE Cardinality(A \cap U)
  <2>1. A \cap T = IF x \in A THEN (A \cap U) \cup {x} ELSE A \cap U BY <1>6
  <2>2. x \notin A \cap U OBVIOUS
  <2>3. IsFiniteSet(A \cap U) BY <1>1, <1>3
  <2>4. Cardinality((A \cap U) \cup {x}) = Cardinality(A \cap U) + 1
    BY <2>2, <2>3, FS_AddElement
  <2> QED BY <2>1, <2>4
<1>10. /\ SumOf(f, U) \in Int /\ Cardinality(A \cap U) \in Nat /\ f[x] \in Int
       /\ g[x] = IF x \in A THEN f[x] + d ELSE f[x]
  BY <1>1, <1>3, <1>6
<1> HIDE DEF x, U, Bad
<1> DEFINE n == Cardinality(A \cap U)
<1>11. d * (n + 1) = d * n + d BY <1>10
<1>12. d * n \in Int BY <1>10
<1> QED BY <1>4, <1>7, <1>8, <1>9, <1>10, <1>11, <1>12

LEMMA SumOfZeros ==
  ASSUME NEW f, NEW S, IsFiniteSet(S), \A x \in S : f[x] = 0
  PROVE  SumOf(f, S) = 0
<1> DEFINE Bad == {s \in SUBSET S : SumOf(f, s) # 0}
<1> SUFFICES ASSUME Bad # {} PROVE FALSE OBVIOUS
<1>1. PICK T \in Bad : \A U \in SUBSET T : U # T => U \notin Bad
  <2>1. Bad \in SUBSET SUBSET S OBVIOUS
  <2> HIDE DEF Bad
  <2> QED BY <2>1, SomeIsSmallest
<1>2. T # {} BY SumOfNone
<1>3. IsFiniteSet(T) BY FS_Subset
<1>4. Pick(T) \in T BY <1>2, PickIn
<1>5. SumOf(f, T \ {Pick(T)}) = 0 BY <1>1, <1>4
<1>6. SumOf(f, T) = f[Pick(T)] + SumOf(f, T \ {Pick(T)}) BY <1>2, <1>3, SumOfPicked
<1> QED BY <1>4, <1>5, <1>6

(* A sum of naturals is one, and no less than any of them.                 *)
LEMMA SumIsNatural ==
  ASSUME NEW f, NEW S, IsFiniteSet(S), \A x \in S : f[x] \in Nat
  PROVE  SumOf(f, S) \in Nat
<1> DEFINE Bad == {s \in SUBSET S : SumOf(f, s) \notin Nat}
<1> SUFFICES ASSUME Bad # {} PROVE FALSE OBVIOUS
<1>1. PICK T \in Bad : \A U \in SUBSET T : U # T => U \notin Bad
  <2>1. Bad \in SUBSET SUBSET S OBVIOUS
  <2> HIDE DEF Bad
  <2> QED BY <2>1, SomeIsSmallest
<1>2. T # {} BY SumOfNone
<1>3. IsFiniteSet(T) BY FS_Subset
<1>4. Pick(T) \in T BY <1>2, PickIn
<1>5. SumOf(f, T \ {Pick(T)}) \in Nat BY <1>1, <1>4
<1>6. SumOf(f, T) = f[Pick(T)] + SumOf(f, T \ {Pick(T)}) BY <1>2, <1>3, SumOfPicked
<1> QED BY <1>4, <1>5, <1>6

-----------------------------------------------------------------------------
(* Numbers and lists.                                                      *)

(* Below each member of a set of codes is the least of them, and above it  *)
(* the last.                                                               *)
LEMMA SomeIsLeast ==
  ASSUME NEW S, S \subseteq Nat, IsFiniteSet(S), S # {}
  PROVE  \E i \in S : \A k \in S : i <= k
<1> DEFINE Below(i) == {k \in S : k <= i}
           Bad == {Below(i) : i \in S}
<1>1. PICK T \in Bad : \A U \in SUBSET T : U # T => U \notin Bad
  <2>1. Bad \in SUBSET SUBSET S /\ Bad # {} OBVIOUS
  <2> HIDE DEF Bad
  <2> QED BY <2>1, SomeIsSmallest
<1>2. PICK i \in S : T = Below(i) BY <1>1
<1>3. \A k \in S : k < i => Below(k) \subseteq T /\ Below(k) # T
  <2> SUFFICES ASSUME NEW k \in S, k < i
               PROVE  Below(k) \subseteq Below(i) /\ i \in Below(i) /\ i \notin Below(k)
    BY <1>2
  <2>1. k \in Int /\ i \in Int OBVIOUS
  <2>2. i \notin Below(k) BY <2>1
  <2>3. i \in Below(i) BY <2>1
  <2>4. Below(k) \subseteq Below(i)
    <3>1. \A x \in S : x \in Int OBVIOUS
    <3>2. \A x \in S : x <= k => x <= i BY <2>1, <3>1
    <3> QED BY <3>2
  <2> QED BY <2>2, <2>3, <2>4
<1>4. \A k \in S : Below(k) \in Bad OBVIOUS
<1> HIDE DEF Bad, Below
<1> QED BY <1>1, <1>3, <1>4

LEMMA SomeIsLast ==
  ASSUME NEW S, S \subseteq Nat, IsFiniteSet(S), S # {}
  PROVE  \E i \in S : \A k \in S : k <= i
<1> DEFINE Above(i) == {k \in S : i <= k}
           Bad == {Above(i) : i \in S}
<1>1. PICK T \in Bad : \A U \in SUBSET T : U # T => U \notin Bad
  <2>1. Bad \in SUBSET SUBSET S /\ Bad # {} OBVIOUS
  <2> HIDE DEF Bad
  <2> QED BY <2>1, SomeIsSmallest
<1>2. PICK i \in S : T = Above(i) BY <1>1
<1>3. \A k \in S : i < k => Above(k) \subseteq T /\ Above(k) # T
  <2> SUFFICES ASSUME NEW k \in S, i < k
               PROVE  Above(k) \subseteq Above(i) /\ i \in Above(i) /\ i \notin Above(k)
    BY <1>2
  <2>1. k \in Int /\ i \in Int OBVIOUS
  <2>2. i \notin Above(k) BY <2>1
  <2>3. i \in Above(i) BY <2>1
  <2>4. Above(k) \subseteq Above(i)
    <3>1. \A x \in S : x \in Int OBVIOUS
    <3>2. \A x \in S : k <= x => i <= x BY <2>1, <3>1
    <3> QED BY <3>2
  <2> QED BY <2>2, <2>3, <2>4
<1>4. \A k \in S : Above(k) \in Bad OBVIOUS
<1> HIDE DEF Bad, Above
<1> QED BY <1>1, <1>3, <1>4

(* The first n codes of a set of at least n are n.                         *)
LEMMA FirstAreCounted ==
  ASSUME NEW S, S \subseteq Nat, IsFiniteSet(S), NEW n \in Nat, n <= Cardinality(S)
  PROVE  Cardinality({c \in S : Cardinality({d \in S : d < c}) < n}) = n
<1> DEFINE First(U) == {c \in U : Cardinality({d \in U : d < c}) < n}
           Bad == {U \in SUBSET S : n <= Cardinality(U) /\ Cardinality(First(U)) # n}
<1> SUFFICES ASSUME Bad # {} PROVE FALSE OBVIOUS
<1>1. PICK T \in Bad : \A U \in SUBSET T : U # T => U \notin Bad
  <2>1. Bad \in SUBSET SUBSET S OBVIOUS
  <2> HIDE DEF Bad
  <2> QED BY <2>1, SomeIsSmallest
<1>2. T \subseteq Nat /\ T \in SUBSET S /\ n <= Cardinality(T) /\ Cardinality(First(T)) # n
  BY <1>1
<1>3. \A U \in SUBSET S : IsFiniteSet(U) /\ Cardinality(U) \in Nat
  BY FS_Subset, FS_CardinalityType
<1>4. T # {}
  <2> SUFFICES ASSUME T = {} PROVE FALSE OBVIOUS
  <2>1. First(T) = {} OBVIOUS
  <2>2. Cardinality({}) = 0 BY FS_EmptySet
  <2> HIDE DEF First, Bad
  <2> QED BY <1>2, <2>1, <2>2
<1>5. PICK m \in T : \A k \in T : k <= m BY <1>2, <1>3, <1>4, SomeIsLast
<1> DEFINE U == T \ {m}
<1>6. Cardinality(U) = Cardinality(T) - 1 BY <1>2, <1>3, FS_RemoveElement
<1>7. \A c \in T : {d \in T : d < c} = {d \in U : d < c}
  <2>1. \A c, d \in T : d < c => d # m BY <1>2, <1>5
  <2> QED BY <2>1
<1>8. {d \in T : d < m} = U
  <2>1. \A d \in T : d < m <=> d # m BY <1>2, <1>5
  <2> QED BY <2>1
<1>9. CASE n < Cardinality(T)
  <2>1. First(T) = First(U)
    <3>1. ~(Cardinality({d \in T : d < m}) < n)
      BY <1>2, <1>3, <1>6, <1>8, <1>9
    <3> QED BY <1>7, <3>1
  <2>2. n <= Cardinality(U) BY <1>2, <1>3, <1>6, <1>9
  <2>3. U \in SUBSET T /\ U # T OBVIOUS
  <2>4. U \notin Bad BY <1>1, <2>3
  <2> HIDE DEF First
  <2>5. Cardinality(First(U)) = n BY <1>2, <2>2, <2>3, <2>4
  <2> QED BY <1>2, <2>1, <2>5
<1>10. CASE n = Cardinality(T)
  <2>1. \A c \in T : {d \in T : d < c} \in SUBSET U BY <1>2, <1>5
  <2>2. \A c \in T : Cardinality({d \in T : d < c}) <= Cardinality(U)
    <3> TAKE c \in T
    <3> DEFINE V == {d \in T : d < c}
    <3>1. V \in SUBSET U BY <2>1
    <3>2. IsFiniteSet(U) BY <1>2, <1>3
    <3> HIDE DEF V, U
    <3> QED BY <3>1, <3>2, FS_Subset DEF V
  <2>3. \A c \in T : Cardinality({d \in T : d < c}) \in Nat BY <1>2, <1>3
  <2>4. First(T) = T
    <3>1. Cardinality(U) < n /\ Cardinality(U) \in Nat BY <1>2, <1>3, <1>6, <1>10
    <3> HIDE DEF U
    <3>2. \A c \in T : Cardinality({d \in T : d < c}) < n BY <2>2, <2>3, <3>1
    <3> QED BY <3>2
  <2> HIDE DEF First
  <2> QED BY <1>2, <1>10, <2>4
<1> QED BY <1>2, <1>3, <1>9, <1>10

LEMMA CodesAreFinite ==
  ASSUME NEW S, S \subseteq Code
  PROVE  IsFiniteSet(S) /\ Cardinality(S) \in Nat
<1>1. IsFiniteSet(Code) BY BoundsAssumption, FS_Interval DEF Code
<1> QED BY <1>1, FS_Subset, FS_CardinalityType

LEMMA DomainIsFinite ==
  ASSUME NEW list \in Seq(Int)
  PROVE  IsFiniteSet(DOMAIN list) /\ DOMAIN list = 1 .. Len(list) /\ Len(list) \in Nat
<1>1. DOMAIN list = 1 .. Len(list) /\ Len(list) \in Nat OBVIOUS
<1> QED BY <1>1, FS_Interval

LEMMA TotalType ==
  ASSUME NEW list \in Seq(Nat)
  PROVE  Total(list) \in Nat
<1>1. IsFiniteSet(DOMAIN list) /\ \A i \in DOMAIN list : list[i] \in Nat
  BY DomainIsFinite
<1> QED BY <1>1, SumIsNatural DEF Total

LEMMA TotalOfNone == Total(<<>>) = 0
<1>1. DOMAIN <<>> = {} OBVIOUS
<1> QED BY <1>1, SumOfNone DEF Total

LEMMA TotalOfOne ==
  ASSUME NEW q \in Nat PROVE Total(<<q>>) = q
<1> DEFINE list == <<q>>
<1>1. DOMAIN list = {1} /\ list[1] = q OBVIOUS
<1>2. IsFiniteSet({1}) BY FS_Singleton
<1> HIDE DEF list
<1>3. SumOf(list, {1}) = SumOf(list, {1} \ {1}) + list[1]
  BY <1>1, <1>2, SumWithout
<1>4. {1} \ {1} = {} OBVIOUS
<1>5. Total(list) = q BY <1>1, <1>3, <1>4, SumOfNone DEF Total
<1> QED BY <1>5 DEF list

LEMMA TotalAdded ==
  ASSUME NEW list \in Seq(Nat), list # <<>>, NEW n \in Nat
  PROVE  /\ Added(list, n) \in Seq(Nat) /\ Added(list, n) # <<>>
         /\ Total(Added(list, n)) = Total(list) + n
<1> DEFINE more == Added(list, n)
<1>1. 1 \in DOMAIN list /\ \A i \in DOMAIN list : list[i] \in Nat OBVIOUS
<1>2. more \in Seq(Nat) /\ more # <<>> BY <1>1 DEF Added
<1>3. DOMAIN more = DOMAIN list /\ more[1] = list[1] + n BY <1>1 DEF Added
<1>4. \A i \in DOMAIN list \ {1} : more[i] = list[i] BY DEF Added
<1>5. \A i \in DOMAIN list : list[i] \in Int /\ more[i] \in Int BY <1>1, <1>3, <1>4
<1>6. IsFiniteSet(DOMAIN list) BY DomainIsFinite
<1> HIDE DEF more
<1>7. SumOf(more, DOMAIN list) = SumOf(list, DOMAIN list) - list[1] + more[1]
  BY <1>1, <1>4, <1>5, <1>6, SumChanges
<1>8. SumOf(list, DOMAIN list) \in Int BY <1>5, <1>6, SumType
<1>9. Total(more) = Total(list) + n BY <1>1, <1>3, <1>7, <1>8 DEF Total
<1> QED BY <1>2, <1>9 DEF more

LEMMA TotalAppended ==
  ASSUME NEW list \in Seq(Nat), NEW n \in Nat
  PROVE  /\ Append(list, n) \in Seq(Nat) /\ Append(list, n) # <<>>
         /\ Total(Append(list, n)) = Total(list) + n
<1> DEFINE more == Append(list, n)
           last == Len(list) + 1
<1>1. more \in Seq(Nat) /\ more # <<>>
  <2>1. more \in Seq(Nat) /\ Len(more) = Len(list) + 1 /\ Len(list) \in Nat OBVIOUS
  <2> QED BY <2>1
<1>2. DOMAIN more = 1 .. last /\ last \in DOMAIN more /\ more[last] = n OBVIOUS
<1>3. DOMAIN more \ {last} = DOMAIN list
  <2>1. DOMAIN list = 1 .. Len(list) /\ Len(list) \in Nat OBVIOUS
  <2>2. (1 .. last) \ {last} = 1 .. Len(list) BY <2>1
  <2> QED BY <1>2, <2>1, <2>2
<1>4. \A i \in DOMAIN list : more[i] = list[i] /\ list[i] \in Int OBVIOUS
<1>5. IsFiniteSet(DOMAIN list) /\ IsFiniteSet(DOMAIN more)
  <2>1. list \in Seq(Int) /\ more \in Seq(Int) OBVIOUS
  <2> HIDE DEF more
  <2> QED BY <2>1, DomainIsFinite
<1>6. \A i \in DOMAIN more : more[i] \in Int BY <1>1
<1> HIDE DEF more, last
<1>7. SumOf(more, DOMAIN more) = SumOf(more, DOMAIN list) + more[last]
  BY <1>2, <1>3, <1>5, <1>6, SumWithout
<1>8. SumOf(more, DOMAIN list) = SumOf(list, DOMAIN list) BY <1>4, <1>5, SumSame
<1> QED BY <1>1, <1>2, <1>7, <1>8 DEF Total, more

LEMMA TotalTaken ==
  ASSUME NEW list \in Seq(Nat), NEW n \in Nat, Enough(list, n) # {}
  PROVE  /\ Taken(list, n) \in Seq(Nat) /\ Taken(list, n) # <<>>
         /\ Len(Taken(list, n)) = Len(list)
         /\ Total(Taken(list, n)) = Total(list) - n
<1> DEFINE IsFirst(i) == i \in Enough(list, n) /\ \A k \in Enough(list, n) : i <= k
           e == CHOOSE i \in Enough(list, n) : \A k \in Enough(list, n) : i <= k
           less == Taken(list, n)
<1>1. IsFiniteSet(DOMAIN list) /\ DOMAIN list \subseteq Nat BY DomainIsFinite
<1>2. Enough(list, n) \subseteq DOMAIN list BY DEF Enough
<1>3. \E i \in Enough(list, n) : \A k \in Enough(list, n) : i <= k
  <2>1. IsFiniteSet(Enough(list, n)) BY <1>1, <1>2, FS_Subset
  <2> QED BY <1>1, <1>2, <2>1, SomeIsLeast
<1>4. e \in Enough(list, n) BY <1>3
<1>5. less = [list EXCEPT ![e] = @ - n] BY DEF Taken
<1> HIDE DEF e, less
<1>6. e \in DOMAIN list /\ list[e] >= n BY <1>4 DEF Enough
<1>7. \A i \in DOMAIN list : list[i] \in Nat OBVIOUS
<1>8. DOMAIN less = DOMAIN list /\ less[e] = list[e] - n BY <1>5, <1>6
<1>9. \A i \in DOMAIN list \ {e} : less[i] = list[i] BY <1>5
<1>10. \A i \in DOMAIN list : less[i] \in Nat BY <1>6, <1>7, <1>8, <1>9
<1>11. less \in Seq(Nat) /\ Len(less) = Len(list) /\ less # <<>>
  BY <1>5, <1>6, <1>8, <1>10
<1>12. SumOf(less, DOMAIN list) = SumOf(list, DOMAIN list) - list[e] + less[e]
  BY <1>1, <1>6, <1>7, <1>9, <1>10, SumChanges
<1>13. SumOf(list, DOMAIN list) \in Int BY <1>1, <1>7, SumType
<1>14. Total(less) = Total(list) - n BY <1>6, <1>7, <1>8, <1>12, <1>13 DEF Total
<1> QED BY <1>11, <1>14 DEF less

-----------------------------------------------------------------------------
(* Credit goes back once.                                                  *)

USE NoOneAssumption, BoundsAssumption, KindsAssumption

(* The shape of the variables that say where a code's credit is.           *)
Shapes ==
  /\ status \in [Code -> CodeStatus]
  /\ holder \in [Code -> Reseller \cup {NoOne}]
  /\ lapsed \subseteq Code /\ flipped \subseteq Code
  /\ claim \in [Code -> {"none", "held", "late"}]
  /\ DOMAIN job = Job
  /\ \A j \in Job :
       /\ DOMAIN job[j] = {"kind", "at", "by", "to", "n", "ids"}
       /\ job[j].by \in Reseller \cup {NoOne} /\ job[j].ids \subseteq Code
  /\ DOMAIN sweep = {"at", "ids", "unpaid", "paid"}
  /\ sweep.ids \subseteq Code
  /\ returned \in [Code -> Nat]

(* A claimed code is ACTIVATING; a reseller's code exists, and so does one *)
(* that was taken out of use.                                              *)
CodesMakeSense ==
  \A c \in Code :
    /\ claim[c] # "none" => status[c] = "ACTIVATING"
    /\ holder[c] # NoOne \/ c \in flipped => status[c] # "NONE"

Returning(j) == job[j].kind = "return" /\ InFlight(j)

(* What a return may rely on for the codes it works on: they are its       *)
(* reseller's, only the daily task can have paid for them before it counts *)
(* them, and those it has counted are dead and unpaid.                     *)
ReturnHas ==
  \A j \in Job : Returning(j) =>
    /\ job[j].by # NoOne
    /\ job[j].at \in {"read", "flipped", "counted", "push", "log"}
    /\ \A c \in job[j].ids :
         /\ holder[c] = job[j].by
         /\ job[j].at \in {"read", "flipped"} /\ returned[c] > 0 => status[c] = "EXPIRED"
         /\ job[j].at \in {"counted", "push"} => status[c] = "REVOKED" /\ returned[c] = 0

(* Two returns are of two resellers, hence of different codes.             *)
ReturnsApart ==
  \A i, j \in Job : Returning(i) /\ Returning(j) /\ job[i].by = job[j].by => i = j

(* The same for the daily task, which pays one reseller after the other.   *)
SweepHas ==
  /\ sweep.at \in {"idle", "recovered"} => sweep.ids = {}
  /\ sweep.at \in {"push", "log"} => sweep.paid \in sweep.unpaid
  /\ NoOne \notin sweep.unpaid
  /\ \A c \in sweep.ids :
       /\ sweep.at \in {"read", "flipped"} /\ returned[c] > 0 => status[c] = "REVOKED"
       /\ sweep.at \in {"paying", "push", "log"} =>
            /\ status[c] = "EXPIRED"
            /\ holder[c] \in sweep.unpaid /\ (sweep.at = "log" => holder[c] # sweep.paid) =>
                 returned[c] = 0

OnceInv ==
  Shapes /\ CodesMakeSense /\ ReturnHas /\ ReturnsApart /\ SweepHas /\ ReturnedOnce

OnceCalm == Hazards \cap {"overlap", "restorePaid", "adminRace"} = {}

LEMMA NextAreUnminted ==
  ASSUME NEW n PROVE NextCodes(n) \subseteq {c \in Code : status[c] = "NONE"}
  BY DEF NextCodes, Unminted

(* Codes that are minted were nobody's business before.                    *)
LEMMA MintKeeps ==
  ASSUME OnceInv, NEW j \in Job, job[j].kind = "generate", NEW to \in Running \cup {"done"},
         NEW cs, cs \subseteq {c \in Code : status[c] = "NONE"}, NEW r \in Reseller \cup {NoOne},
         Mint(cs, r), job' = [job EXCEPT ![j].at = to],
         UNCHANGED <<lapsed, claim, sweep, returned, flipped>>
  PROVE  OnceInv'
<1> USE DEF OnceInv, Shapes, CodesMakeSense, ReturnHas, ReturnsApart, SweepHas,
            ReturnedOnce, Returning, InFlight, CodeStatus, Dead, Mint
<1>1. \A i \in Job : /\ job'[i].kind = job[i].kind /\ job'[i].by = job[i].by
                     /\ job'[i].ids = job[i].ids /\ (i # j => job'[i].at = job[i].at)
  OBVIOUS
<1>2. \A c \in cs : holder[c] = NoOne /\ c \notin flipped /\ claim[c] = "none" /\ returned[c] = 0
  OBVIOUS
<1>3. Shapes' OBVIOUS
<1>4. CodesMakeSense' BY <1>2
<1>5. \A i \in Job : Returning(i)' => Returning(i) /\ i # j BY <1>1
<1>6. ReturnHas' BY <1>1, <1>2, <1>5
<1>7. ReturnsApart' BY <1>1, <1>5
<1>8. SweepHas' BY <1>2
<1>9. ReturnedOnce' BY <1>2
<1> QED BY <1>3, <1>4, <1>6, <1>7, <1>8, <1>9

(* A return that pays for the codes it has counted.                        *)
LEMMA PayKeeps ==
  ASSUME OnceInv, NEW j \in Job, job[j].kind = "return", job[j].at \in {"counted", "push"},
         job' = [job EXCEPT ![j].at = "log"], CountReturned(job[j].ids),
         UNCHANGED <<status, holder, lapsed, claim, sweep, flipped>>
  PROVE  OnceInv'
<1> USE DEF OnceInv, Shapes, CodesMakeSense, ReturnHas, ReturnsApart, SweepHas,
            ReturnedOnce, Returning, InFlight, Running, CodeStatus, Dead, CountReturned
<1>1. \A i \in Job : /\ job'[i].kind = job[i].kind /\ job'[i].by = job[i].by
                     /\ job'[i].ids = job[i].ids /\ (i # j => job'[i].at = job[i].at)
                     /\ DOMAIN job'[i] = DOMAIN job[i]
  OBVIOUS
<1>2. job'[j].at = "log" OBVIOUS
<1>3. \A c \in Code : c \notin job[j].ids => returned'[c] = returned[c]
  OBVIOUS
<1>4. \A c \in job[j].ids : status[c] = "REVOKED" /\ returned'[c] = 1
  OBVIOUS
<1>5. Shapes' BY <1>1
<1>6. \A i \in Job : Returning(i)' <=> Returning(i) BY <1>1, <1>2
<1>7. \A i \in Job \ {j} : Returning(i) => job[i].ids \cap job[j].ids = {}
  OBVIOUS
<1>8. ReturnHas'
  <2> SUFFICES ASSUME NEW i \in Job, Returning(i)', NEW c \in job'[i].ids
               PROVE  /\ holder[c] = job[i].by
                      /\ job'[i].at \in {"read", "flipped"} /\ returned'[c] > 0 => status[c] = "EXPIRED"
                      /\ job'[i].at \in {"counted", "push"} => status[c] = "REVOKED" /\ returned'[c] = 0
    BY <1>1, <1>2, <1>6
  <2>1. CASE i = j BY <1>1, <1>2, <2>1
  <2>2. CASE i # j BY <1>1, <1>3, <1>6, <1>7, <2>2
  <2> QED BY <2>1, <2>2
<1>9. ReturnsApart' BY <1>1, <1>6
<1>10. SweepHas' BY <1>3, <1>4
<1>11. ReturnedOnce' BY <1>3, <1>4
<1>12. CodesMakeSense' OBVIOUS
<1> QED BY <1>5, <1>8, <1>9, <1>10, <1>11, <1>12

LEMMA OnceStep ==
  ASSUME OnceCalm, OnceInv, [Next]_vars
  PROVE  OnceInv'
<1> USE DEF OnceCalm, OnceInv, Shapes, CodesMakeSense, ReturnHas, ReturnsApart, SweepHas,
            ReturnedOnce, Returning, InFlight, Running, CodeStatus, Dead, Goto
<1>1. ASSUME NEW j \in Job, Request(j) PROVE OnceInv'
  <2>1. ASSUME NEW k \in Spend, NEW r \in Reseller, NEW to, NEW n, Deduct(j, k, r, to, n)
        PROVE  OnceInv'
    BY <2>1 DEF Deduct, codeVars, history, counts, Spend
  <2>2. ASSUME NEW r \in Reseller, NEW ids \in SUBSET Code, ReturnRead(j, r, ids)
        PROVE  OnceInv'
    BY <2>2 DEF ReturnRead, codeVars, history, counts, Free
  <2>3. ASSUME NEW r \in Reseller, EditRead(j, r) PROVE OnceInv'
    BY <2>3 DEF EditRead, codeVars, history, counts, Free
  <2>4. CASE AdminGenerate(j)
    BY <2>4 DEF AdminGenerate, history, counts, Mint, NextCodes, Unminted
  <2> QED BY <1>1, <2>1, <2>2, <2>3, <2>4 DEF Request
<1>2. ASSUME NEW j \in Job, Step(j) PROVE OnceInv'
  <2>1. CASE Generate(j)
    <3>1. NextCodes(job[j].n) \subseteq {c \in Code : status[c] = "NONE"}
      BY NextAreUnminted
    <3> QED BY <2>1, <3>1, MintKeeps DEF Generate, history, counts
  <2>2. CASE SpendCredit(j)
    BY <2>2 DEF SpendCredit, Perform, Renew, CreditRecipient, Allot, codeVars
  <2>3. CASE FindNoEntry(j)
    BY <2>3 DEF FindNoEntry, codeVars, history, counts
  <2>4. CASE Refund(j)
    BY <2>4 DEF Refund, codeVars, history, counts
  <2>5. CASE ReturnFlip(j)
    BY <2>5 DEF ReturnFlip, Flip
  <2>6. CASE ReturnRecount(j)
    <3> DEFINE ids == Revoked(job[j].ids)
    <3>1. /\ job[j].kind = "return" /\ job[j].at = "flipped"
          /\ job' = [job EXCEPT ![j].ids = ids, ![j].n = Cardinality(ids),
                                ![j].at = IF ids = {} THEN "done" ELSE "counted"]
          /\ UNCHANGED <<status, holder, lapsed, claim, sweep, returned, flipped>>
      BY <2>6 DEF ReturnRecount, codeVars, history, counts
    <3>2. ids \subseteq job[j].ids /\ \A c \in ids : status[c] = "REVOKED"
      BY DEF Revoked
    <3> HIDE DEF ids
    <3>3. \A i \in Job : /\ job'[i].kind = job[i].kind /\ job'[i].by = job[i].by
                         /\ i # j => job'[i].at = job[i].at /\ job'[i].ids = job[i].ids
                         /\ DOMAIN job'[i] = DOMAIN job[i]
      BY <3>1
    <3>4. job'[j].ids = ids /\ job'[j].at \in {"counted", "done"} BY <3>1
    <3>5. Shapes' BY <3>1, <3>2, <3>3, <3>4
    <3>6. ReturnHas' BY <3>1, <3>2, <3>3, <3>4
    <3>7. ReturnsApart' BY <3>1, <3>3, <3>4
    <3> QED BY <3>1, <3>5, <3>6, <3>7
  <2>7. CASE ReturnPay(j)
    <3>1. /\ job[j].kind = "return" /\ job[j].at = "counted"
          /\ UNCHANGED <<status, holder, lapsed, claim, sweep, flipped>>
      BY <2>7 DEF ReturnPay, codeVars
    <3>2. CASE job' = [job EXCEPT ![j].at = "push"] /\ UNCHANGED returned
      BY <3>1, <3>2
    <3>3. CASE job' = [job EXCEPT ![j].at = "log"] /\ CountReturned(job[j].ids)
      BY <3>1, <3>3, PayKeeps
    <3> QED BY <2>7, <3>2, <3>3 DEF ReturnPay
  <2>8. CASE ReturnPush(j)
    BY <2>8, PayKeeps DEF ReturnPush, codeVars
  <2>9. ASSUME NEW list, EditWrite(j, list) PROVE OnceInv'
    BY <2>9 DEF EditWrite, codeVars
  <2>10. CASE Log(j)
    BY <2>10 DEF Log, codeVars, history, counts
  <2> QED BY <1>2, <2>1, <2>2, <2>3, <2>4, <2>5, <2>6, <2>7, <2>8, <2>9, <2>10 DEF Step
<1>3. ASSUME NEW j \in Job, Fault(j) PROVE OnceInv'
  <2>1. CASE GeneratePartly(j)
    <3>1. PICK n \in 1 .. job[j].n : Mint(NextCodes(n), job[j].by)
      BY <2>1 DEF GeneratePartly
    <3>2. NextCodes(n) \subseteq {c \in Code : status[c] = "NONE"}
      BY NextAreUnminted
    <3> QED BY <2>1, <3>1, <3>2, MintKeeps DEF GeneratePartly, counts
  <2>2. CASE SpendAndThrow(j)
    BY <2>2 DEF SpendAndThrow, Perform, Renew, CreditRecipient, Allot, codeVars
  <2>3. CASE Throw(j)
    BY <2>3 DEF Throw, codeVars, history, counts, Spend
  <2>4. CASE RefundThrows(j) \/ ReturnThrows(j) \/ Crash(j)
    BY <2>4 DEF RefundThrows, ReturnThrows, Crash, codeVars, counts
  <2> QED BY <1>3, <2>1, <2>2, <2>3, <2>4 DEF Fault
<1>4. ASSUME SweepNext \/ SweepFails PROVE OnceInv'
  <2>1. CASE SweepRecover
    BY <2>1 DEF SweepRecover, history, counts
  <2>2. CASE SweepRead
    BY <2>2 DEF SweepRead, Asleep, codeVars, history, counts
  <2>3. CASE SweepFlip
    BY <2>3 DEF SweepFlip, Flip
  <2>4. CASE SweepRecount
    BY <2>4 DEF SweepRecount, Expired, codeVars, history, counts
  <2>5. ASSUME NEW r \in Reseller, SweepPay(r) PROVE OnceInv'
    <3>1. /\ sweep.at = "paying" /\ r \in sweep.unpaid
          /\ UNCHANGED <<status, holder, lapsed, claim, job, flipped>>
      BY <2>5 DEF SweepPay, codeVars
    <3>2. CASE sweep' = [sweep EXCEPT !.at = "push", !.paid = r] /\ UNCHANGED returned
      BY <3>1, <3>2
    <3>3. CASE sweep' = [sweep EXCEPT !.at = "log", !.paid = r] /\ CountReturned(CodesOf(r))
      BY <3>1, <3>3 DEF CodesOf, CountReturned
    <3> QED BY <2>5, <3>2, <3>3 DEF SweepPay
  <2>6. CASE SweepPush
    BY <2>6 DEF SweepPush, CodesOf, CountReturned, codeVars
  <2>7. CASE SweepLog
    BY <2>7 DEF SweepLog, codeVars, history, counts
  <2>8. CASE SweepEnd \/ SweepFails
    BY <2>8 DEF SweepEnd, SweepFails, Asleep, codeVars, history, counts
  <2> QED BY <1>4, <2>1, <2>2, <2>3, <2>4, <2>5, <2>6, <2>7, <2>8 DEF SweepNext
<1>5. ASSUME NEW c \in Code, CodeNext(c) PROVE OnceInv'
  <2>1. CASE Claim(c)
    BY <2>1 DEF Claim, counts
  <2>2. ASSUME NEW st \in {"ACTIVATED", "UNUSED", "EXPIRED"}, EndClaim(c, st) PROVE OnceInv'
    BY <2>2 DEF EndClaim, history, counts
  <2>3. CASE RedeemDies(c)
    BY <2>3 DEF RedeemDies, counts
  <2>4. CASE Lapse(c)
    BY <2>4 DEF Lapse, history, counts
  <2>5. CASE BulkRevoke(c)
    BY <2>5 DEF BulkRevoke, MayWrite, Working, Flip, history, counts
  <2>6. CASE BulkRestore(c)
    BY <2>6 DEF BulkRestore, MayWrite, Working, Flip, history, counts
  <2> QED BY <1>5, <2>1, <2>2, <2>3, <2>4, <2>5, <2>6 DEF CodeNext
<1>6. CASE ListExpire
  BY <1>6 DEF ListExpire, Flip, counts
<1>7. CASE UNCHANGED vars
  BY <1>7 DEF vars, codeVars, history, counts
<1> QED BY <1>1, <1>2, <1>3, <1>4, <1>5, <1>6, <1>7 DEF Next

-----------------------------------------------------------------------------
(* Who still owes the credit of a code that was taken out of use: a return *)
(* that has not paid yet, or the daily task.                               *)
OwedByReturn(c) ==
  /\ status[c] = "REVOKED"
  /\ \E j \in Job : /\ job[j].kind = "return" /\ job[j].at \in {"flipped", "counted", "push"}
                   /\ c \in job[j].ids

OwedBySweep(c) ==
  /\ status[c] = "EXPIRED" /\ c \in sweep.ids
  /\ \/ sweep.at = "flipped"
     \/ /\ sweep.at \in {"paying", "push", "log"} /\ holder[c] \in sweep.unpaid
        /\ sweep.at = "log" => holder[c] # sweep.paid

Owed ==
  \A c \in flipped :
    holder[c] # NoOne /\ returned[c] = 0 => OwedByReturn(c) \/ OwedBySweep(c)

PaysCalm == OnceCalm /\ Hazards \cap {"returnFails", "crash"} = {}

LEMMA OwedStep ==
  ASSUME PaysCalm, OnceInv, Owed, [Next]_vars
  PROVE  Owed'
<1> USE DEF PaysCalm, OnceCalm, OnceInv, Shapes, CodesMakeSense, Owed, OwedByReturn, OwedBySweep,
            ReturnedOnce, CodeStatus, Dead, Goto
<1>1. ASSUME NEW j \in Job, Request(j) PROVE Owed'
  <2>1. ASSUME NEW k \in Spend, NEW r \in Reseller, NEW to, NEW n, Deduct(j, k, r, to, n)
        PROVE  Owed'
    BY <2>1 DEF Deduct, codeVars, history, counts, Spend
  <2>2. ASSUME NEW r \in Reseller, NEW ids \in SUBSET Code, ReturnRead(j, r, ids)
        PROVE  Owed'
    BY <2>2 DEF ReturnRead, codeVars, history, counts, Free
  <2>3. ASSUME NEW r \in Reseller, EditRead(j, r) PROVE Owed'
    BY <2>3 DEF EditRead, codeVars, history, counts, Free
  <2>4. CASE AdminGenerate(j)
    BY <2>4, NextAreUnminted DEF AdminGenerate, history, counts, Mint
  <2> QED BY <1>1, <2>1, <2>2, <2>3, <2>4 DEF Request
<1>2. ASSUME NEW j \in Job, Step(j) PROVE Owed'
  <2>1. CASE Generate(j)
    BY <2>1, NextAreUnminted DEF Generate, Mint, history, counts
  <2>2. CASE SpendCredit(j)
    BY <2>2 DEF SpendCredit, Perform, Renew, CreditRecipient, Allot, codeVars
  <2>3. CASE FindNoEntry(j)
    BY <2>3 DEF FindNoEntry, codeVars, history, counts
  <2>4. CASE Refund(j)
    BY <2>4 DEF Refund, codeVars, history, counts
  <2>5. CASE ReturnFlip(j)
    BY <2>5 DEF ReturnFlip, Flip
  <2>6. CASE ReturnRecount(j)
    <3> DEFINE ids == Revoked(job[j].ids)
    <3>1. /\ job[j].kind = "return" /\ job[j].at = "flipped"
          /\ job' = [job EXCEPT ![j].ids = ids, ![j].n = Cardinality(ids),
                                ![j].at = IF ids = {} THEN "done" ELSE "counted"]
          /\ UNCHANGED <<status, holder, sweep, returned, flipped>>
      BY <2>6 DEF ReturnRecount, codeVars, history, counts
    <3>2. \A c \in job[j].ids : status[c] = "REVOKED" => c \in ids
      BY DEF Revoked
    <3> HIDE DEF ids
    <3>3. /\ \A i \in Job \ {j} : job'[i] = job[i]
          /\ job'[j].kind = "return" /\ job'[j].ids = ids
          /\ ids # {} => job'[j].at = "counted"
      BY <3>1
    <3>4. \A c \in Code : OwedByReturn(c) => OwedByReturn(c)'
      BY <3>1, <3>2, <3>3
    <3>5. \A c \in Code : OwedBySweep(c) => OwedBySweep(c)'
      BY <3>1
    <3> QED BY <3>1, <3>4, <3>5
  <2>7. CASE ReturnPay(j)
    <3>1. /\ job[j].kind = "return" /\ job[j].at = "counted"
          /\ UNCHANGED <<status, holder, sweep, flipped>>
      BY <2>7 DEF ReturnPay, codeVars
    <3>2. CASE job' = [job EXCEPT ![j].at = "push"] /\ UNCHANGED returned
      BY <3>1, <3>2
    <3>3. CASE job' = [job EXCEPT ![j].at = "log"] /\ CountReturned(job[j].ids)
      BY <3>1, <3>3 DEF CountReturned
    <3> QED BY <2>7, <3>2, <3>3 DEF ReturnPay
  <2>8. CASE ReturnPush(j)
    BY <2>8 DEF ReturnPush, CountReturned, codeVars
  <2>9. ASSUME NEW list, EditWrite(j, list) PROVE Owed'
    BY <2>9 DEF EditWrite, codeVars
  <2>10. CASE Log(j)
    BY <2>10 DEF Log, codeVars, history, counts
  <2> QED BY <1>2, <2>1, <2>2, <2>3, <2>4, <2>5, <2>6, <2>7, <2>8, <2>9, <2>10 DEF Step
<1>3. ASSUME NEW j \in Job, Fault(j) PROVE Owed'
  <2>1. CASE GeneratePartly(j)
    BY <2>1, NextAreUnminted DEF GeneratePartly, Mint, counts
  <2>2. CASE SpendAndThrow(j)
    BY <2>2 DEF SpendAndThrow, Perform, Renew, CreditRecipient, Allot, codeVars
  <2>3. CASE Throw(j)
    BY <2>3 DEF Throw, codeVars, history, counts, Spend
  <2>4. CASE RefundThrows(j)
    BY <2>4 DEF RefundThrows, codeVars, counts
  <2> QED BY <1>3, <2>1, <2>2, <2>3, <2>4 DEF Fault, ReturnThrows, Crash
<1>4. ASSUME SweepNext \/ SweepFails PROVE Owed'
  <2>1. CASE SweepRecover
    BY <2>1 DEF SweepRecover, history, counts
  <2>2. CASE SweepRead
    BY <2>2 DEF SweepRead, Asleep, codeVars, history, counts
  <2>3. CASE SweepFlip
    BY <2>3 DEF SweepFlip, Flip
  <2>4. CASE SweepRecount
    BY <2>4 DEF SweepRecount, Expired, codeVars, history, counts
  <2>5. ASSUME NEW r \in Reseller, SweepPay(r) PROVE Owed'
    <3>1. /\ sweep.at = "paying" /\ r \in sweep.unpaid
          /\ UNCHANGED <<status, holder, job, flipped>>
      BY <2>5 DEF SweepPay, codeVars
    <3>2. CASE sweep' = [sweep EXCEPT !.at = "push", !.paid = r] /\ UNCHANGED returned
      BY <3>1, <3>2
    <3>3. CASE sweep' = [sweep EXCEPT !.at = "log", !.paid = r] /\ CountReturned(CodesOf(r))
      BY <3>1, <3>3 DEF CodesOf, CountReturned
    <3> QED BY <2>5, <3>2, <3>3 DEF SweepPay
  <2>6. CASE SweepPush
    BY <2>6 DEF SweepPush, CodesOf, CountReturned, codeVars
  <2>7. CASE SweepLog
    BY <2>7 DEF SweepLog, codeVars, history, counts
  <2>8. CASE SweepEnd
    BY <2>8 DEF SweepEnd, Asleep, codeVars, history, counts
  <2> QED BY <1>4, <2>1, <2>2, <2>3, <2>4, <2>5, <2>6, <2>7, <2>8 DEF SweepNext, SweepFails
<1>5. ASSUME NEW c \in Code, CodeNext(c) PROVE Owed'
  <2>1. CASE Claim(c)
    BY <2>1 DEF Claim, counts
  <2>2. ASSUME NEW st \in {"ACTIVATED", "UNUSED", "EXPIRED"}, EndClaim(c, st) PROVE Owed'
    BY <2>2 DEF EndClaim, history, counts
  <2>3. CASE RedeemDies(c)
    BY <2>3 DEF RedeemDies, counts
  <2>4. CASE Lapse(c)
    BY <2>4 DEF Lapse, history, counts
  <2>5. CASE BulkRevoke(c)
    BY <2>5 DEF BulkRevoke, MayWrite, Working, InFlight, Running, Flip, history, counts
  <2>6. CASE BulkRestore(c)
    BY <2>6 DEF BulkRestore, MayWrite, Working, InFlight, Running, Flip, history, counts
  <2> QED BY <1>5, <2>1, <2>2, <2>3, <2>4, <2>5, <2>6 DEF CodeNext
<1>6. CASE ListExpire
  BY <1>6 DEF ListExpire, Flip, counts
<1>7. CASE UNCHANGED vars
  BY <1>7 DEF vars, codeVars, history, counts
<1> QED BY <1>1, <1>2, <1>3, <1>4, <1>5, <1>6, <1>7 DEF Next

LEMMA OnceStarts == Init => OnceInv
  BY DEF Init, OnceInv, Shapes, CodesMakeSense, ReturnHas, ReturnsApart, SweepHas, ReturnedOnce,
         Returning, InFlight, Running, Free, Asleep, CodeStatus, Dead

(* Unless two returns of one reseller overlap or an admin writes codes     *)
(* that are worked on or paid back, no matter what fails, dies or is       *)
(* edited: the credit of a code goes back once, and the code stays dead.   *)
THEOREM CreditGoesBackOnce ==
  ASSUME OnceCalm PROVE Spec => []ReturnedOnce
<1>2. OnceInv /\ [Next]_vars => OnceInv'
  BY OnceStep
<1>3. OnceInv => ReturnedOnce
  BY DEF OnceInv
<1> QED BY OnceStarts, <1>2, <1>3, PTL DEF Spec

(* When, besides, no return and no run of the daily task fails: every code *)
(* of a reseller that they took out of use has been paid for by the time   *)
(* they are done with it.                                                  *)
THEOREM NoneForgotten ==
  ASSUME PaysCalm PROVE Spec => []FlippedIsPaid
<1>1. Init => OnceInv /\ Owed
  BY OnceStarts DEF Init, Owed
<1>2. OnceInv /\ Owed /\ [Next]_vars => OnceInv' /\ Owed'
  BY OnceStep, OwedStep DEF PaysCalm
<1>3. OnceInv /\ Owed => FlippedIsPaid
  <2> SUFFICES ASSUME OnceInv, Owed, NEW c \in flipped, holder[c] # NoOne, ~Working(c)
               PROVE  returned[c] > 0
    BY DEF FlippedIsPaid
  <2>1. ~OwedByReturn(c) /\ ~OwedBySweep(c)
    BY DEF Working, InFlight, Running, OwedByReturn, OwedBySweep
  <2>2. returned[c] \in Nat
    BY DEF OnceInv, Shapes
  <2> QED BY <2>1, <2>2 DEF Owed
<1> QED BY <1>1, <1>2, <1>3, PTL DEF Spec

-----------------------------------------------------------------------------
(* The shape of every variable.                                            *)

JobRecord ==
  [kind : Kinds \cup {"none"}, at : Running \cup {"idle", "done", "failed"},
   by : Reseller \cup {NoOne}, to : Reseller \cup {NoOne}, n : Int, ids : SUBSET Code]

(* What the place of a job in its handler says of its other fields.        *)
Fits(rec, made) ==
  /\ rec.at = "idle" => rec.kind = "none"
  /\ rec.kind # "edit" => rec.n \in Nat
  /\ rec.kind = "renew" => rec.n = 1
  /\ rec.kind = "transfer" => rec.to \in made \ {rec.by}
  /\ rec.kind = "allot" => rec.to \in Reseller
  /\ rec.at \in Running => rec.by \in made /\ rec.kind \in Spend \cup {"return", "edit"}
  /\ rec.at \in {"deducted", "refund"} => rec.kind \in Spend
  /\ rec.at = "push" => rec.kind \in {"transfer", "return"}
  /\ rec.at \in {"flipped", "counted"} => rec.kind = "return"
  /\ rec.at = "read" => rec.kind \in {"return", "edit"}
  /\ rec.kind = "return" /\ rec.at \in {"counted", "push"} => rec.n = Cardinality(rec.ids)

JobsFit == job \in [Job -> JobRecord] /\ \A j \in Job : Fits(job[j], created)

(* Credit and codes are those of accounts that exist.                      *)
EntriesFit ==
  /\ created \subseteq Reseller
  /\ entries \in [Reseller -> Seq(Nat)]
  /\ \A r \in Reseller \ created : entries[r] = <<>>

CodesFit ==
  /\ status \in [Code -> CodeStatus]
  /\ holder \in [Code -> created \cup {NoOne}]
  /\ lapsed \subseteq Code /\ flipped \subseteq Code
  /\ claim \in [Code -> {"none", "held", "late"}]
  /\ returned \in [Code -> Nat]

SweepFits ==
  /\ sweep \in [at : {"idle", "recovered", "read", "flipped", "paying", "push", "log"},
                ids : SUBSET Code, unpaid : SUBSET created, paid : created \cup {NoOne}]
  /\ sweep.at \in {"push", "log"} => sweep.paid \in sweep.unpaid
  /\ \A c \in sweep.ids : status[c] # "NONE"

SumsFit ==
  /\ ledger \in [Reseller -> Int] /\ unwritten \in [Reseller -> Int]
  /\ renewals \in Nat /\ granted \in Int
  /\ trouble \in {"none", "half", "loss"}

Accounts == JobsFit /\ EntriesFit /\ CodesFit /\ SweepFits /\ SumsFit

LEMMA AccountsAreTyped == Accounts => TypeOK
  BY DEF Accounts, JobsFit, JobRecord, EntriesFit, CodesFit, SweepFits, SumsFit, TypeOK

LEMMA FreshRecord ==
  ASSUME NEW k \in Kinds, NEW r \in Reseller, NEW at \in Running
  PROVE  /\ \A ids \in SUBSET Code :
              [Free EXCEPT !.kind = k, !.at = at, !.by = r, !.ids = ids] \in JobRecord
         /\ \A n \in Int : [Free EXCEPT !.kind = k, !.at = at, !.by = r, !.n = n] \in JobRecord
<1>1. Free \in JobRecord BY DEF Free, JobRecord
<1>2. [Free EXCEPT !.kind = k] \in JobRecord BY <1>1 DEF JobRecord
<1>3. [Free EXCEPT !.kind = k, !.at = at] \in JobRecord BY <1>2 DEF JobRecord
<1>4. [Free EXCEPT !.kind = k, !.at = at, !.by = r] \in JobRecord BY <1>3 DEF JobRecord
<1> HIDE DEF Free
<1> QED BY <1>4 DEF JobRecord

LEMMA RecordKept ==
  ASSUME NEW rec \in JobRecord, NEW ids \in SUBSET Code, NEW n \in Int,
         NEW at \in Running \cup {"done"}
  PROVE  [rec EXCEPT !.ids = ids, !.n = n, !.at = at] \in JobRecord
<1>1. [rec EXCEPT !.ids = ids] \in JobRecord BY DEF JobRecord
<1>2. [rec EXCEPT !.ids = ids, !.n = n] \in JobRecord BY <1>1 DEF JobRecord
<1> QED BY <1>2 DEF JobRecord

(* A handler goes on.                                                      *)
LEMMA JobMoves ==
  ASSUME JobsFit, EntriesFit, created \subseteq created', NEW j \in Job, NEW rec \in JobRecord,
         Fits(rec, created'), job' = [job EXCEPT ![j] = rec]
  PROVE  JobsFit' /\ job'[j] = rec /\ \A i \in Job \ {j} : job'[i] = job[i]
<1>1. job' \in [Job -> JobRecord] /\ job'[j] = rec /\ \A i \in Job \ {j} : job'[i] = job[i]
  BY DEF JobsFit
<1>2. \A i \in Job \ {j} : Fits(job[i], created') BY DEF JobsFit, Fits
<1> QED BY <1>1, <1>2 DEF JobsFit

LEMMA JobGoes ==
  ASSUME JobsFit, EntriesFit, created \subseteq created', NEW j \in Job,
         NEW to \in Running \cup {"done", "failed"}, Goto(j, to),
         to \in Running => job[j].at \in Running,
         to \in {"deducted", "refund"} => job[j].kind \in Spend,
         to = "push" => \/ job[j].kind = "transfer"
                        \/ job[j].kind = "return" /\ job[j].at = "counted",
         to \in {"flipped", "counted"} => job[j].kind = "return" /\ to = "flipped",
         to = "read" => job[j].kind \in {"return", "edit"}
  PROVE  /\ JobsFit' /\ job'[j] = [job[j] EXCEPT !.at = to]
         /\ \A i \in Job \ {j} : job'[i] = job[i]
<1> DEFINE rec == [job[j] EXCEPT !.at = to]
<1>1. rec \in JobRecord BY DEF JobsFit, JobRecord
<1>2. Fits(job[j], created) BY DEF JobsFit
<1>3. /\ rec.at = to /\ rec.kind = job[j].kind /\ rec.by = job[j].by /\ rec.to = job[j].to
      /\ rec.n = job[j].n /\ rec.ids = job[j].ids
  BY DEF JobsFit, JobRecord
<1>4. job' = [job EXCEPT ![j] = rec] BY DEF Goto
<1>5. Fits(rec, created')
  <2> HIDE DEF rec
  <2> QED BY <1>2, <1>3 DEF Fits, Running
<1> QED BY <1>1, <1>4, <1>5, JobMoves

LEMMA EntryAdded ==
  ASSUME EntriesFit, created' = created, NEW r \in created, entries[r] # <<>>, NEW n \in Nat, Inc(r, n)
  PROVE  EntriesFit'
<1>1. entries[r] \in Seq(Nat) /\ r \in Reseller BY DEF EntriesFit
<1>2. Added(entries[r], n) \in Seq(Nat) BY <1>1, TotalAdded
<1> QED BY <1>1, <1>2 DEF EntriesFit, Inc

LEMMA EntryPushed ==
  ASSUME EntriesFit, created' = created, NEW r \in created, NEW n \in Nat, Push(r, n)
  PROVE  EntriesFit'
<1>1. entries[r] \in Seq(Nat) /\ r \in Reseller BY DEF EntriesFit
<1>2. Append(entries[r], n) \in Seq(Nat) BY <1>1, TotalAppended
<1> QED BY <1>1, <1>2 DEF EntriesFit, Push

(* The writes that credit is spent on.                                     *)
LEMMA PerformKeeps ==
  ASSUME Accounts, NEW j \in Job, NEW next \in {"log", "refund"}, Perform(j, next)
  PROVE  /\ JobsFit' /\ EntriesFit' /\ created \subseteq created' /\ renewals' \in Nat
         /\ job[j].kind \in Spend /\ job[j].at \in {"deducted", "push"}
<1> USE DEF Accounts
<1>0. Fits(job[j], created) /\ job[j] \in JobRecord BY DEF JobsFit
<1>1. CASE Renew(j)
  <2>1. JobsFit' BY <1>1, JobGoes DEF Perform, Renew, Running, Spend
  <2> QED BY <1>1, <2>1 DEF Renew, EntriesFit, SumsFit, Spend
<1>2. CASE CreditRecipient(j)
  <2>1. JobsFit' BY <1>2, JobGoes DEF Perform, CreditRecipient, Running, Spend
  <2>2. job[j].to \in created /\ job[j].n \in Nat BY <1>0, <1>2 DEF CreditRecipient, Fits
  <2>3. EntriesFit'
    BY <1>2, <2>2, EntryAdded, EntryPushed DEF CreditRecipient
  <2> QED BY <1>2, <2>1, <2>3 DEF CreditRecipient, SumsFit, Spend
<1>3. CASE Allot(j)
  <2>1. job[j].to \in Reseller /\ job[j].n \in Nat BY <1>0, <1>3 DEF Allot, Fits
  <2>2. created \subseteq created' /\ created' \subseteq Reseller
    BY <1>3, <2>1 DEF Allot, EntriesFit
  <2>3. JobsFit' BY <1>3, <2>2, JobGoes DEF Perform, Allot, Running, Spend
  <2>4. <<job[j].n>> \in Seq(Nat) BY <2>1
  <2>5. EntriesFit' BY <1>3, <2>1, <2>2, <2>4 DEF Allot, EntriesFit
  <2> QED BY <1>3, <2>2, <2>3, <2>5 DEF Allot, SumsFit, Spend
<1> QED BY <1>1, <1>2, <1>3 DEF Perform

LEMMA HeldType ==
  ASSUME NEW list \in {<<>>} \cup {<<q>> : q \in 0 .. MaxQty}
  PROVE  list \in Seq(Nat) /\ Held(list) \in Nat /\ Len(list) <= 1 /\ Total(list) = Held(list)
<1>1. CASE list = <<>>
  <2>1. <<>> \in Seq(Nat) /\ Held(<<>>) = 0 /\ Len(<<>>) = 0 BY DEF Held
  <2> QED BY <1>1, <2>1, TotalOfNone
<1>2. ASSUME NEW q \in Nat, list = <<q>> PROVE list \in Seq(Nat) /\ Held(list) \in Nat /\ Len(list) <= 1 /\ Total(list) = Held(list)
  <2>1. <<q>> \in Seq(Nat) /\ Held(<<q>>) = q /\ Len(<<q>>) = 1 BY DEF Held
  <2> QED BY <1>2, <2>1, TotalOfOne
<1> QED BY <1>1, <1>2

LEMMA AccountsStep ==
  ASSUME Accounts, [Next]_vars
  PROVE  Accounts'
<1> USE DEF Accounts
<1>0. \A c \in Code : status[c] \in CodeStatus BY DEF CodesFit
<1>1. ASSUME NEW j \in Job, Request(j) PROVE Accounts'
  <2>1. ASSUME NEW k \in Kinds \cap Spend, NEW r \in Reseller, NEW to \in Reseller \cup {NoOne},
               NEW n \in 1 .. MaxQty, Deduct(j, k, r, to, n)
        PROVE  Accounts'
    <3> DEFINE rec == [kind |-> k, at |-> "deducted", by |-> r, to |-> to, n |-> n, ids |-> {}]
    <3>1. rec \in JobRecord BY DEF JobRecord, Running
    <3>2. Fits(rec, created)
      <4>1. /\ r \in created /\ n \in Nat /\ k \in Spend
            /\ k = "renew" => n = 1
            /\ k = "transfer" => to \in created \ {r}
            /\ k = "allot" => to \in Reseller
        <5>1. r \in created /\ n \in Nat /\ k \in Spend /\ MayRequest(k, r, to, n)
          BY <2>1 DEF Deduct
        <5>2. k = "renew" => n = 1 BY <5>1 DEF MayRequest
        <5>3. k = "transfer" => to \in created \ {r} BY <5>1 DEF MayRequest
        <5>4. k = "allot" => to \in Reseller BY <5>1, SubAssumption DEF MayRequest
        <5> QED BY <5>1, <5>2, <5>3, <5>4
      <4> QED BY <4>1 DEF Fits, Running, Spend
    <3>3. job' = [job EXCEPT ![j] = rec] /\ created' = created BY <2>1 DEF Deduct
    <3> HIDE DEF rec
    <3>4. JobsFit' BY <3>1, <3>2, <3>3, JobMoves
    <3>5. EntriesFit'
      <4>1. entries[r] \in Seq(Nat) /\ n \in Nat BY DEF EntriesFit
      <4>2. Taken(entries[r], n) \in Seq(Nat) BY <2>1, <4>1, TotalTaken DEF Deduct
      <4> QED BY <2>1, <4>2 DEF Deduct, EntriesFit
    <3> QED BY <2>1, <3>4, <3>5 DEF Deduct, codeVars, history, counts, CodesFit, SweepFits, SumsFit
  <2>2. ASSUME NEW r \in Reseller, NEW ids \in SUBSET Code, ReturnRead(j, r, ids)
        PROVE  Accounts'
    <3> DEFINE rec == [Free EXCEPT !.kind = "return", !.at = "read", !.by = r, !.ids = ids]
    <3>1. rec \in JobRecord
      <4>1. "return" \in Kinds BY <2>2 DEF ReturnRead
      <4> QED BY <4>1, FreshRecord DEF Running
    <3>2. Fits(rec, created) BY <2>2 DEF ReturnRead, Fits, Running, Free
    <3>3. job' = [job EXCEPT ![j] = rec] /\ created' = created BY <2>2 DEF ReturnRead
    <3> HIDE DEF rec
    <3>4. JobsFit' BY <3>1, <3>2, <3>3, JobMoves
    <3> QED BY <2>2, <3>4
        DEF ReturnRead, codeVars, history, counts, EntriesFit, CodesFit, SweepFits, SumsFit
  <2>3. ASSUME NEW r \in Reseller, EditRead(j, r) PROVE Accounts'
    <3> DEFINE rec == [Free EXCEPT !.kind = "edit", !.at = "read", !.by = r, !.n = Held(entries[r])]
    <3>1. rec \in JobRecord
      <4>1. "edit" \in Kinds BY <2>3 DEF EditRead
      <4>2. Held(entries[r]) \in Int BY DEF Held, EntriesFit
      <4> QED BY <4>1, <4>2, FreshRecord DEF Running
    <3>2. Fits(rec, created) BY <2>3 DEF EditRead, Fits, Running, Free
    <3>3. job' = [job EXCEPT ![j] = rec] /\ created' = created BY <2>3 DEF EditRead
    <3> HIDE DEF rec
    <3>4. JobsFit' BY <3>1, <3>2, <3>3, JobMoves
    <3> QED BY <2>3, <3>4
        DEF EditRead, codeVars, history, counts, EntriesFit, CodesFit, SweepFits, SumsFit
  <2>4. CASE AdminGenerate(j)
    <3> DEFINE rec == [job[j] EXCEPT !.kind = "adminGenerate", !.at = "done"]
    <3>1. rec \in JobRecord BY <2>4 DEF JobRecord, JobsFit, AdminGenerate
    <3>2. Fits(rec, created) BY <2>4 DEF AdminGenerate, Fits, Running, JobsFit, JobRecord
    <3>3. job' = [job EXCEPT ![j] = rec] /\ created' = created BY <2>4 DEF AdminGenerate
    <3> HIDE DEF rec
    <3>4. JobsFit' BY <3>1, <3>2, <3>3, JobMoves
    <3>5. CodesFit' /\ SweepFits'
      BY <2>4, NextAreUnminted
      DEF AdminGenerate, Mint, CodesFit, SweepFits, CodeStatus, history, counts
    <3> QED BY <2>4, <3>4, <3>5
        DEF AdminGenerate, history, counts, EntriesFit, SumsFit
  <2> QED BY <1>1, <2>1, <2>2, <2>3, <2>4 DEF Request
<1>2. ASSUME NEW j \in Job, Step(j) PROVE Accounts'
  <2>0. Fits(job[j], created) /\ job[j] \in JobRecord BY DEF JobsFit
  <2>1. CASE Generate(j)
    <3>1. JobsFit'
      BY <2>1, JobGoes DEF Generate, Running
    <3>2. job[j].by \in created
      BY <2>0, <2>1 DEF Generate, Fits, Running
    <3>3. CodesFit' /\ SweepFits'
      BY <2>1, <3>2, NextAreUnminted
      DEF Generate, Mint, CodesFit, SweepFits, CodeStatus, history, counts
    <3> QED BY <2>1, <3>1, <3>3 DEF Generate, history, counts, EntriesFit, SumsFit
  <2>2. CASE SpendCredit(j)
    <3>1. Perform(j, "log") BY <2>2 DEF SpendCredit
    <3> QED BY <2>2, <3>1, PerformKeeps DEF SpendCredit, codeVars, CodesFit, SweepFits, SumsFit
  <2>3. CASE FindNoEntry(j)
    <3>0. /\ job[j].at = "deducted" /\ job[j].kind = "transfer" /\ Goto(j, "push")
          /\ created' = created
      BY <2>3 DEF FindNoEntry
    <3>1. JobsFit' BY <3>0, JobGoes DEF Running
    <3> QED BY <2>3, <3>1
        DEF FindNoEntry, codeVars, history, counts, EntriesFit, CodesFit, SweepFits, SumsFit
  <2>4. CASE Refund(j)
    <3>1. JobsFit' BY <2>4, JobGoes DEF Refund, Running
    <3>2. EntriesFit'
      <4>1. job[j].by \in created /\ job[j].n \in Nat
        BY <2>0, <2>4 DEF Refund, Fits, Running, Spend
      <4> QED BY <2>4, <4>1, EntryAdded DEF Refund, EntriesFit
    <3> QED BY <2>4, <3>1, <3>2
        DEF Refund, codeVars, history, counts, CodesFit, SweepFits, SumsFit
  <2>5. CASE ReturnFlip(j)
    <3>1. JobsFit' BY <2>5, JobGoes DEF ReturnFlip, Running
    <3>2. CodesFit' /\ SweepFits'
      BY <2>0, <2>5 DEF ReturnFlip, Flip, CodesFit, SweepFits, JobRecord, CodeStatus
    <3> QED BY <2>5, <3>1, <3>2 DEF ReturnFlip, EntriesFit, SumsFit
  <2>6. CASE ReturnRecount(j)
    <3> DEFINE ids == Revoked(job[j].ids)
               rec == [job[j] EXCEPT !.ids = ids, !.n = Cardinality(ids),
                                     !.at = IF ids = {} THEN "done" ELSE "counted"]
    <3>0. ids \in SUBSET Code /\ Cardinality(ids) \in Nat
      BY <2>0, CodesAreFinite DEF Revoked, JobRecord
    <3>3. job' = [job EXCEPT ![j] = rec] /\ created' = created
      BY <2>6 DEF ReturnRecount
    <3>1. rec \in JobRecord
      <4> HIDE DEF ids
      <4> DEFINE at == IF ids = {} THEN "done" ELSE "counted"
      <4>1. at \in Running \cup {"done"} BY DEF Running
      <4>2. Cardinality(ids) \in Int BY <3>0
      <4> HIDE DEF at
      <4>3. [job[j] EXCEPT !.ids = ids, !.n = Cardinality(ids), !.at = at] \in JobRecord
        BY <2>0, <3>0, <4>1, <4>2, RecordKept
      <4> QED BY <4>3 DEF at
    <3>2. Fits(rec, created)
      <4> HIDE DEF ids
      <4> QED BY <2>0, <2>6, <3>0 DEF Fits, Running, JobRecord, ReturnRecount
    <3> HIDE DEF rec
    <3>4. JobsFit' BY <3>1, <3>2, <3>3, JobMoves
    <3> QED BY <2>6, <3>4
        DEF ReturnRecount, codeVars, history, counts, EntriesFit, CodesFit, SweepFits, SumsFit
  <2>7. CASE ReturnPay(j)
    <3>1. JobsFit'
      <4>1. CASE Goto(j, "push") BY <2>7, <4>1, JobGoes DEF ReturnPay, Running
      <4>2. CASE Goto(j, "log") BY <2>7, <4>2, JobGoes DEF ReturnPay, Running
      <4> QED BY <2>7, <4>1, <4>2 DEF ReturnPay
    <3>2. EntriesFit'
      <4>1. job[j].by \in created /\ job[j].n \in Nat
        BY <2>0, <2>7 DEF ReturnPay, Fits, Running, Spend
      <4> QED BY <2>7, <4>1, EntryAdded DEF ReturnPay, EntriesFit
    <3>3. CodesFit' BY <2>7 DEF ReturnPay, CountReturned, CodesFit, codeVars
    <3> QED BY <2>7, <3>1, <3>2, <3>3 DEF ReturnPay, codeVars, SweepFits, SumsFit
  <2>8. CASE ReturnPush(j)
    <3>1. JobsFit' BY <2>8, JobGoes DEF ReturnPush, Running
    <3>2. EntriesFit'
      <4>1. job[j].by \in created /\ job[j].n \in Nat
        BY <2>0, <2>8 DEF ReturnPush, Fits, Running, Spend
      <4> QED BY <2>8, <4>1, EntryPushed DEF ReturnPush, EntriesFit
    <3>3. CodesFit' BY <2>8 DEF ReturnPush, CountReturned, CodesFit, codeVars
    <3> QED BY <2>8, <3>1, <3>2, <3>3 DEF ReturnPush, codeVars, SweepFits, SumsFit
  <2>9. ASSUME NEW list \in {<<>>} \cup {<<q>> : q \in 0 .. MaxQty}, EditWrite(j, list) PROVE Accounts'
    <3> DEFINE rec == [job[j] EXCEPT !.at = "log", !.n = Held(list) - @]
    <3>0. list \in Seq(Nat) /\ Held(list) \in Nat BY HeldType
    <3>1. rec \in JobRecord
      <4>1. [job[j] EXCEPT !.at = "log"] \in JobRecord BY <2>0 DEF JobRecord, Running
      <4>2. Held(list) - [job[j] EXCEPT !.at = "log"].n \in Int BY <3>0, <4>1 DEF JobRecord
      <4> QED BY <4>1, <4>2 DEF JobRecord
    <3>2. Fits(rec, created)
      BY <2>0, <2>9, <3>0 DEF EditWrite, Fits, Running, JobRecord
    <3>3. job' = [job EXCEPT ![j] = rec] /\ created' = created BY <2>9 DEF EditWrite
    <3> HIDE DEF rec
    <3>4. JobsFit' BY <3>1, <3>2, <3>3, JobMoves
    <3>5. job[j].by \in created /\ job[j].n \in Int
      BY <2>0, <2>9 DEF EditWrite, Fits, Running, JobRecord
    <3>6. EntriesFit' BY <2>9, <3>0, <3>5 DEF EditWrite, EntriesFit
    <3>7. SumsFit' BY <2>9, <3>0, <3>5 DEF EditWrite, SumsFit
    <3> QED BY <2>9, <3>4, <3>6, <3>7 DEF EditWrite, codeVars, CodesFit, SweepFits
  <2>10. CASE Log(j)
    <3>1. JobsFit' BY <2>10, JobGoes DEF Log, Running
    <3>2. SumsFit'
      <4>1. \A r \in Reseller : Row(j, r) \in Int BY <2>0 DEF Row, JobRecord
      <4> QED BY <2>10, <4>1 DEF Log, Record, SumsFit
    <3> QED BY <2>10, <3>1, <3>2
        DEF Log, codeVars, history, counts, EntriesFit, CodesFit, SweepFits
  <2> QED BY <1>2, <2>1, <2>2, <2>3, <2>4, <2>5, <2>6, <2>7, <2>8, <2>9, <2>10 DEF Step
<1>3. ASSUME NEW j \in Job, Fault(j) PROVE Accounts'
  <2>0. Fits(job[j], created) /\ job[j] \in JobRecord BY DEF JobsFit
  <2>1. CASE GeneratePartly(j)
    <3>1. JobsFit'
      BY <2>1, JobGoes DEF GeneratePartly, Running, Spend
    <3>2. job[j].by \in created
      BY <2>0, <2>1 DEF GeneratePartly, Fits, Running
    <3>3. PICK n \in 1 .. job[j].n : Mint(NextCodes(n), job[j].by)
      BY <2>1 DEF GeneratePartly
    <3>4. CodesFit' /\ SweepFits'
      BY <2>1, <3>2, <3>3, NextAreUnminted
      DEF GeneratePartly, Mint, CodesFit, SweepFits, CodeStatus, counts
    <3> QED BY <2>1, <3>1, <3>4 DEF GeneratePartly, counts, EntriesFit, SumsFit, Meet
  <2>2. CASE SpendAndThrow(j)
    <3>1. Perform(j, "refund") BY <2>2 DEF SpendAndThrow
    <3> QED BY <2>2, <3>1, PerformKeeps
        DEF SpendAndThrow, codeVars, CodesFit, SweepFits, SumsFit, Meet
  <2>3. CASE Throw(j)
    <3>1. JobsFit' BY <2>3, JobGoes DEF Throw, Running
    <3> QED BY <2>3, <3>1
        DEF Throw, codeVars, history, counts, EntriesFit, CodesFit, SweepFits, SumsFit
  <2>4. CASE RefundThrows(j) \/ ReturnThrows(j) \/ Crash(j)
    <3>1. JobsFit'
      <4>1. Goto(j, "failed") BY <2>4 DEF RefundThrows, ReturnThrows, Crash
      <4> QED BY <2>4, <4>1, JobGoes DEF RefundThrows, ReturnThrows, Crash, Running
    <3> QED BY <2>4, <3>1
        DEF RefundThrows, ReturnThrows, Crash, codeVars, counts, EntriesFit, CodesFit, SweepFits,
            SumsFit, Meet
  <2> QED BY <1>3, <2>1, <2>2, <2>3, <2>4 DEF Fault
<1>4. ASSUME SweepNext \/ SweepFails PROVE Accounts'
  <2> USE DEF SweepFits, CodesFit, SumsFit
  <2>1. CASE SweepRecover
    BY <2>1 DEF SweepRecover, history, counts, JobsFit, EntriesFit, CodeStatus
  <2>2. CASE SweepRead
    BY <2>2 DEF SweepRead, Asleep, codeVars, history, counts, JobsFit, EntriesFit
  <2>3. CASE SweepFlip
    BY <2>3 DEF SweepFlip, Flip, JobsFit, EntriesFit, CodeStatus
  <2>4. CASE SweepRecount
    <3>1. {holder[c] : c \in Expired(sweep.ids)} \ {NoOne} \in SUBSET created
      BY DEF Expired
    <3>2. Expired(sweep.ids) \in SUBSET sweep.ids BY DEF Expired
    <3> QED BY <2>4, <3>1, <3>2
        DEF SweepRecount, codeVars, history, counts, JobsFit, EntriesFit
  <2>5. ASSUME NEW r \in Reseller, SweepPay(r) PROVE Accounts'
    <3>1. EntriesFit'
      <4>1. r \in created BY <2>5 DEF SweepPay
      <4>2. Cardinality(CodesOf(r)) \in Nat BY CodesAreFinite DEF CodesOf
      <4> QED BY <2>5, <4>1, <4>2, EntryAdded DEF SweepPay, EntriesFit
    <3>2. CodesFit'
      <4>1. returned' \in [Code -> Nat]
        <5>1. returned \in [Code -> Nat] BY DEF CodesFit
        <5>2. returned' = returned \/ CountReturned(CodesOf(r)) BY <2>5 DEF SweepPay
        <5>3. \A cs : CountReturned(cs) => returned' \in [Code -> Nat]
          BY <5>1 DEF CountReturned
        <5> QED BY <5>1, <5>2, <5>3
      <4>2. UNCHANGED <<created, status, holder, lapsed, claim, flipped>>
        BY <2>5 DEF SweepPay, codeVars
      <4> QED BY <4>1, <4>2 DEF CodesFit
    <3> QED BY <2>5, <3>1, <3>2 DEF SweepPay, codeVars, JobsFit
  <2>6. CASE SweepPush
    <3>1. EntriesFit'
      <4>1. sweep.paid \in created BY <2>6 DEF SweepPush
      <4>2. Cardinality(CodesOf(sweep.paid)) \in Nat BY CodesAreFinite DEF CodesOf
      <4> QED BY <2>6, <4>1, <4>2, EntryPushed DEF SweepPush
    <3>2. CodesFit' BY <2>6 DEF SweepPush, CountReturned, codeVars
    <3> QED BY <2>6, <3>1, <3>2 DEF SweepPush, codeVars, JobsFit
  <2>7. CASE SweepLog
    <3>1. Cardinality(CodesOf(sweep.paid)) \in Nat BY CodesAreFinite DEF CodesOf
    <3>2. SumsFit' BY <2>7, <3>1 DEF SweepLog, Record, SumsFit
    <3>3. SweepFits' BY <2>7 DEF SweepLog, codeVars
    <3> QED BY <2>7, <3>2, <3>3 DEF SweepLog, codeVars, history, counts, JobsFit, EntriesFit
  <2>8. CASE SweepEnd \/ SweepFails
    BY <2>8 DEF SweepEnd, SweepFails, Asleep, codeVars, history, counts, JobsFit, EntriesFit, Meet
  <2> QED BY <1>4, <2>1, <2>2, <2>3, <2>4, <2>5, <2>6, <2>7, <2>8 DEF SweepNext
<1>5. ASSUME NEW c \in Code, CodeNext(c) PROVE Accounts'
  <2> USE DEF CodesFit, SumsFit, SweepFits, JobsFit, EntriesFit, CodeStatus
  <2>1. CASE Claim(c)
    BY <2>1 DEF Claim, counts, Meet
  <2>2. ASSUME NEW st \in {"ACTIVATED", "UNUSED", "EXPIRED"}, EndClaim(c, st) PROVE Accounts'
    BY <2>2 DEF EndClaim, history, counts
  <2>3. CASE RedeemDies(c)
    BY <2>3 DEF RedeemDies, counts, Meet
  <2>4. CASE Lapse(c)
    BY <2>4 DEF Lapse, history, counts
  <2>5. CASE BulkRevoke(c)
    BY <2>5 DEF BulkRevoke, Flip, history, counts
  <2>6. CASE BulkRestore(c)
    BY <2>6 DEF BulkRestore, Flip, history, counts
  <2> QED BY <1>5, <2>1, <2>2, <2>3, <2>4, <2>5, <2>6 DEF CodeNext
<1>6. CASE ListExpire
  BY <1>6 DEF ListExpire, Flip, counts, Meet, CodesFit, SumsFit, SweepFits, JobsFit, EntriesFit, CodeStatus
<1>7. CASE UNCHANGED vars
  BY <1>7 DEF vars, codeVars, history, counts, JobsFit, EntriesFit, CodesFit, SweepFits, SumsFit
<1> QED BY <1>1, <1>2, <1>3, <1>4, <1>5, <1>6, <1>7 DEF Next

LEMMA CreditStarts == Init => Accounts
<1> SUFFICES ASSUME Init PROVE Accounts OBVIOUS
<1>1. SumOf(Initial, Reseller) \in Int
  BY InitialAssumption, FiniteAssumption, SumType
<1>2. Free \in JobRecord /\ Fits(Free, created)
  BY DEF Free, JobRecord, Fits, Running, Spend
<1>3. JobsFit BY <1>2 DEF Init, JobsFit
<1>4. EntriesFit
  <2>1. \A r \in Reseller : Initial[r] \in Nat BY InitialAssumption
  <2>2. \A r \in Reseller : r \notin created => Initial[r] = 0 BY SubAssumption DEF Init
  <2> QED BY <2>1, <2>2 DEF Init, EntriesFit
<1>5. CodesFit /\ SweepFits
  BY DEF Init, CodesFit, SweepFits, Asleep, CodeStatus
<1>6. SumsFit BY <1>1, InitialAssumption DEF Init, SumsFit
<1> QED BY <1>3, <1>4, <1>5, <1>6 DEF Accounts

(* Whatever fails, dies or overlaps: no account's credit falls below zero. *)
THEOREM CreditIsTyped == Spec => []TypeOK
<1>1. Accounts /\ [Next]_vars => Accounts'
  BY AccountsStep
<1> QED BY <1>1, CreditStarts, AccountsAreTyped, PTL DEF Spec

-----------------------------------------------------------------------------
(* The credit entries.                                                     *)

(* An admin edits an account nobody else works on, and still knows what it *)
(* has read.                                                               *)
EditAlone ==
  \A e \in Job : job[e].kind = "edit" /\ InFlight(e) =>
    /\ \A i \in Job \ {e} : InFlight(i) => job[e].by \notin {job[i].by, job[i].to}
    /\ sweep.at \in {"push", "log"} => sweep.paid # job[e].by
    /\ job[e].at = "read" => job[e].n = Held(entries[job[e].by])

(* Who spends credit has an entry to put it back to.                       *)
SpenderHasEntry ==
  \A j \in Job : job[j].kind \in Spend /\ job[j].at \in {"deducted", "push", "refund"} =>
    entries[job[j].by] # <<>>

(* No account has two entries; one handler at a time pushes an account's   *)
(* first, and there is none until then.                                    *)
Recipient(j) == IF job[j].kind = "return" THEN job[j].by ELSE job[j].to

OneEntry ==
  /\ \A r \in Reseller : Len(entries[r]) <= 1 /\ (Pushing(r) => entries[r] = <<>>)
  /\ \A i, j \in Job :
       job[i].at = "push" /\ job[j].at = "push" /\ Recipient(i) = Recipient(j) => i = j
  /\ \A j \in Job : job[j].at = "push" /\ sweep.at = "push" => Recipient(j) # sweep.paid

EntryInv ==
  EditAlone /\ SpenderHasEntry /\ ("pushRace" \notin Hazards => OneEntry)

(* Handlers go on, and entries change only where an entry results, no      *)
(* edit has read the old one and nobody is about to push one.              *)
LEMMA EntriesKept ==
  ASSUME Accounts, EntryInv,
         \A i \in Job :
           /\ job'[i].kind = job[i].kind /\ job'[i].by = job[i].by /\ job'[i].to = job[i].to
           /\ \/ job'[i].at = job[i].at
              \/ InFlight(i) /\ job'[i].at \in {"done", "failed", "log", "flipped", "counted"}
              \/ job[i].at \in {"deducted", "push"} /\ job'[i].at = "refund"
           /\ job[i].kind = "edit" /\ job'[i].at = "read" => job'[i].n = job[i].n,
         \/ sweep'.at = sweep.at /\ sweep'.paid = sweep.paid
         \/ sweep'.at \notin {"push", "log"}
         \/ sweep.at = "push" /\ sweep'.at = "log" /\ sweep'.paid = sweep.paid,
         \A r \in Reseller :
           \/ entries'[r] = entries[r]
           \/ /\ entries'[r] # <<>>
              /\ \A e \in Job : ~(job[e].kind = "edit" /\ job[e].at = "read" /\ job[e].by = r)
              /\ "pushRace" \notin Hazards => Len(entries'[r]) <= 1 /\ (entries[r] # <<>> \/ ~Pushing(r)')
  PROVE  EntryInv'
<1>0. \A i \in Job : InFlight(i) => job[i].by \in Reseller
  BY DEF Accounts, JobsFit, Fits, InFlight, EntriesFit
<1>1. \A i \in Job : InFlight(i)' => InFlight(i)
  BY DEF InFlight, Running
<1>2. EditAlone'
  <2> SUFFICES ASSUME NEW e \in Job, (job[e].kind = "edit" /\ InFlight(e))'
               PROVE  /\ \A i \in Job \ {e} : InFlight(i)' => job'[e].by \notin {job'[i].by, job'[i].to}
                      /\ sweep'.at \in {"push", "log"} => sweep'.paid # job'[e].by
                      /\ job'[e].at = "read" => job'[e].n = Held(entries'[job'[e].by])
    BY DEF EditAlone
  <2>1. job[e].kind = "edit" /\ InFlight(e) BY <1>1
  <2>2. \A i \in Job \ {e} : InFlight(i)' => job'[e].by \notin {job'[i].by, job'[i].to}
    BY <1>1, <2>1 DEF EntryInv, EditAlone
  <2>3. sweep'.at \in {"push", "log"} => sweep'.paid # job'[e].by
    BY <2>1 DEF EntryInv, EditAlone
  <2>4. job'[e].at = "read" => job'[e].n = Held(entries'[job'[e].by])
    <3> SUFFICES ASSUME job'[e].at = "read" PROVE job'[e].n = Held(entries'[job'[e].by]) OBVIOUS
    <3>1. job[e].at = "read" OBVIOUS
    <3>2. entries'[job[e].by] = entries[job[e].by] BY <1>0, <2>1, <3>1
    <3> QED BY <2>1, <3>1, <3>2 DEF EntryInv, EditAlone
  <2> QED BY <2>2, <2>3, <2>4
<1>3. SpenderHasEntry'
  BY <1>0, <1>1 DEF EntryInv, SpenderHasEntry, InFlight, Running
<1>4. ASSUME "pushRace" \notin Hazards PROVE OneEntry'
  <2> USE DEF EntryInv, OneEntry
  <2>1. \A i \in Job : job'[i].at = "push" => job[i].at = "push" /\ Recipient(i)' = Recipient(i)
    BY DEF Recipient
  <2>2. sweep'.at = "push" => sweep.at = "push" /\ sweep'.paid = sweep.paid
    OBVIOUS
  <2>3. \A r \in Reseller : Pushing(r)' => Pushing(r)
    BY <2>1, <2>2 DEF Pushing, Recipient
  <2>4. \A r \in Reseller : Len(entries'[r]) <= 1 /\ (Pushing(r)' => entries'[r] = <<>>)
    BY <1>4, <2>3
  <2> QED BY <1>4, <2>1, <2>2, <2>4
<1> QED BY <1>2, <1>3, <1>4 DEF EntryInv

LEMMA GotoHas ==
  ASSUME JobsFit, NEW j \in Job, NEW to, Goto(j, to)
  PROVE  /\ \A i \in Job \ {j} : job'[i] = job[i]
         /\ job'[j].at = to /\ job'[j].kind = job[j].kind /\ job'[j].by = job[j].by
         /\ job'[j].to = job[j].to /\ job'[j].n = job[j].n /\ job'[j].ids = job[j].ids
  BY DEF JobsFit, JobRecord, Goto

(* The account a handler in flight works on is not being edited.           *)
LEMMA NotEdited ==
  ASSUME EntryInv, NEW j \in Job, InFlight(j), job[j].kind # "edit"
  PROVE  \A e \in Job : ~(job[e].kind = "edit" /\ job[e].at = "read"
                          /\ job[e].by \in {job[j].by, job[j].to})
<1> SUFFICES ASSUME NEW e \in Job, job[e].kind = "edit", job[e].at = "read"
             PROVE  job[e].by \notin {job[j].by, job[j].to}
  OBVIOUS
<1>1. InFlight(e) /\ e # j BY DEF InFlight, Running
<1> QED BY <1>1 DEF EntryInv, EditAlone

(* A handler that adds to an entry, or pushes the first one.               *)
LEMMA EntryGrows ==
  ASSUME Accounts, EntryInv, created' = created, NEW j \in Job, NEW to \in {"log", "failed", "refund"},
         Goto(j, to), InFlight(j), job[j].kind # "edit",
         to = "refund" => job[j].at \in {"deducted", "push"},
         NEW r \in created, r \in {job[j].by, job[j].to}, NEW n \in Nat, UNCHANGED sweep,
         \/ entries[r] # <<>> /\ Inc(r, n)
         \/ job[j].at = "push" /\ r = Recipient(j) /\ Push(r, n)
  PROVE  EntryInv'
<1>1. r \in Reseller /\ entries[r] \in Seq(Nat) BY DEF Accounts, EntriesFit
<1>2. \A i \in Reseller \ {r} : entries'[i] = entries[i]
  BY DEF Inc, Push, Accounts, EntriesFit
<1>3. \A e \in Job : ~(job[e].kind = "edit" /\ job[e].at = "read" /\ job[e].by = r)
  BY NotEdited
<1>4. /\ \A i \in Job \ {j} : job'[i] = job[i]
      /\ job'[j].at = to /\ job'[j].kind = job[j].kind /\ job'[j].by = job[j].by
      /\ job'[j].to = job[j].to /\ job'[j].n = job[j].n
  BY GotoHas DEF Accounts
<1>5. /\ entries'[r] # <<>>
      /\ "pushRace" \notin Hazards =>
           Len(entries'[r]) <= 1 /\ (entries[r] # <<>> \/ ~Pushing(r)')
  <2>1. CASE entries[r] # <<>> /\ Inc(r, n)
    <3>1. entries'[r] = Added(entries[r], n) BY <1>1, <2>1 DEF Inc, Accounts, EntriesFit
    <3>2. Added(entries[r], n) # <<>> BY <1>1, <2>1, TotalAdded
    <3>3. Len(Added(entries[r], n)) = Len(entries[r]) BY <1>1 DEF Added
    <3>4. "pushRace" \notin Hazards => Len(entries[r]) <= 1
      BY <1>1 DEF EntryInv, OneEntry
    <3> QED BY <2>1, <3>1, <3>2, <3>3, <3>4
  <2>2. CASE job[j].at = "push" /\ r = Recipient(j) /\ Push(r, n)
    <3>1. entries'[r] = Append(entries[r], n) BY <1>1, <2>2 DEF Push, Accounts, EntriesFit
    <3>2. Append(entries[r], n) # <<>> BY <1>1, TotalAppended
    <3>3. ASSUME "pushRace" \notin Hazards PROVE Len(entries'[r]) <= 1 /\ ~Pushing(r)'
      <4>1. OneEntry BY <3>3 DEF EntryInv
      <4>2. Pushing(r) BY <2>2 DEF Pushing, Recipient
      <4>3. entries[r] = <<>> BY <1>1, <4>1, <4>2 DEF OneEntry
      <4>4. Len(entries'[r]) = 1
        <5>1. Len(Append(<<>>, n)) = 1 OBVIOUS
        <5> QED BY <3>1, <4>3, <5>1
      <4>5. \A i \in Job \ {j} : job[i].at = "push" => Recipient(i) # r
        BY <2>2, <4>1 DEF OneEntry
      <4>6. ~(sweep.at = "push" /\ sweep.paid = r)
        BY <2>2, <4>1 DEF OneEntry
      <4>7. ~Pushing(r)' BY <1>4, <4>5, <4>6 DEF Pushing, Recipient
      <4> QED BY <4>4, <4>7
    <3> QED BY <3>1, <3>2, <3>3
  <2> QED BY <2>1, <2>2
<1> QED BY <1>2, <1>3, <1>4, <1>5, EntriesKept

(* A handler that goes on and leaves the entries alone.                    *)
LEMMA EntriesLeft ==
  ASSUME Accounts, EntryInv, NEW j \in Job, UNCHANGED <<entries, sweep>>,
         NEW to \in {"log", "done", "failed", "flipped", "counted", "refund"},
         Goto(j, to), InFlight(j), to = "refund" => job[j].at \in {"deducted", "push"}
  PROVE  EntryInv'
<1>1. /\ \A i \in Job \ {j} : job'[i] = job[i]
      /\ job'[j].at = to /\ job'[j].kind = job[j].kind /\ job'[j].by = job[j].by
      /\ job'[j].to = job[j].to /\ job'[j].n = job[j].n
  BY GotoHas DEF Accounts
<1> QED BY <1>1, EntriesKept

LEMMA PerformLeaves ==
  ASSUME Accounts, EntryInv, NEW j \in Job, NEW to \in {"log", "refund"}, Perform(j, to),
         UNCHANGED sweep
  PROVE  EntryInv'
<1>0. Fits(job[j], created) /\ job[j] \in JobRecord BY DEF Accounts, JobsFit
<1>1. CASE Renew(j)
  BY <1>1, EntriesLeft DEF Perform, Renew, InFlight, Running
<1>2. CASE CreditRecipient(j)
  <2>1. job[j].to \in created /\ job[j].n \in Nat BY <1>0, <1>2 DEF CreditRecipient, Fits
  <2>2. InFlight(j) /\ job[j].kind # "edit" /\ job[j].at \in {"deducted", "push"} /\ Recipient(j) = job[j].to
    BY <1>2 DEF CreditRecipient, InFlight, Running, Recipient
  <2>3. \/ entries[job[j].to] # <<>> /\ Inc(job[j].to, job[j].n)
        \/ job[j].at = "push" /\ Push(job[j].to, job[j].n)
    BY <1>2 DEF CreditRecipient
  <2>4. created' = created /\ Goto(j, to) BY <1>2 DEF CreditRecipient, Perform
  <2> QED BY <2>1, <2>2, <2>3, <2>4, EntryGrows
<1>3. CASE Allot(j)
  <2>0. PICK r \in Reseller : r = job[j].to BY <1>0, <1>3 DEF Allot, Fits
  <2>1. r \notin created /\ job[j].n \in Nat BY <1>0, <1>3, <2>0 DEF Allot, Fits
  <2>2. entries' = [entries EXCEPT ![r] = <<job[j].n>>] BY <1>3, <2>0 DEF Allot
  <2>3. entries'[r] = <<job[j].n>> /\ \A i \in Reseller \ {r} : entries'[i] = entries[i]
    BY <2>1, <2>2 DEF Accounts, EntriesFit
  <2>4. /\ \A i \in Job \ {j} : job'[i] = job[i]
        /\ job'[j].at = to /\ job'[j].kind = job[j].kind /\ job'[j].by = job[j].by
        /\ job'[j].to = job[j].to /\ job'[j].n = job[j].n
    BY GotoHas DEF Accounts, Perform
  <2>5. InFlight(j) /\ job[j].at = "deducted" /\ job[j].kind = "allot"
    BY <1>3 DEF Allot, InFlight, Running
  <2>6. \A e \in Job : ~(job[e].kind = "edit" /\ job[e].at = "read" /\ job[e].by = r)
    BY <2>0, <2>5, NotEdited
  <2>7. ~Pushing(r)'
    <3>1. ~(sweep.at = "push" /\ sweep.paid = r) BY <2>1 DEF Accounts, SweepFits
    <3>2. \A i \in Job : job[i].at = "push" => Recipient(i) \in created
      BY DEF Accounts, JobsFit, Fits, Recipient, Running
    <3> QED BY <2>1, <2>4, <3>1, <3>2 DEF Pushing, Recipient
  <2>8. entries'[r] # <<>> /\ Len(entries'[r]) <= 1 BY <2>3
  <2>9. \A i \in Reseller :
          \/ entries'[i] = entries[i]
          \/ /\ entries'[i] # <<>>
             /\ \A e \in Job : ~(job[e].kind = "edit" /\ job[e].at = "read" /\ job[e].by = i)
             /\ "pushRace" \notin Hazards =>
                  Len(entries'[i]) <= 1 /\ (entries[i] # <<>> \/ ~Pushing(i)')
    BY <2>3, <2>6, <2>7, <2>8
  <2>10. \A i \in Job :
           /\ job'[i].kind = job[i].kind /\ job'[i].by = job[i].by /\ job'[i].to = job[i].to
           /\ \/ job'[i].at = job[i].at
              \/ InFlight(i) /\ job'[i].at \in {"done", "failed", "log", "flipped", "counted"}
              \/ job[i].at \in {"deducted", "push"} /\ job'[i].at = "refund"
           /\ job[i].kind = "edit" /\ job'[i].at = "read" => job'[i].n = job[i].n
    BY <2>4, <2>5
  <2> QED BY <2>9, <2>10, EntriesKept
<1> QED BY <1>1, <1>2, <1>3 DEF Perform

LEMMA EntriesStart == Init => EntryInv
<1> SUFFICES ASSUME Init PROVE EntryInv OBVIOUS
<1>1. \A r \in Reseller : Len(entries[r]) <= 1 BY DEF Init
<1>2. \A j \in Job : job[j].at = "idle" BY DEF Init, Free
<1>3. sweep.at = "idle" BY DEF Init, Asleep
<1> QED BY <1>1, <1>2, <1>3
    DEF EntryInv, EditAlone, SpenderHasEntry, OneEntry, Pushing, InFlight, Running

EditWrites(j) == \E list \in {<<>>} \cup {<<q>> : q \in 0 .. MaxQty} : EditWrite(j, list)

LEMMA EntriesStep ==
  ASSUME Accounts, EntryInv, [Next]_vars, "editRace" \notin Hazards
  PROVE  EntryInv'
<1>0. \A j \in Job : Fits(job[j], created) /\ job[j] \in JobRecord BY DEF Accounts, JobsFit
<1>1. ASSUME NEW j \in Job, Request(j) PROVE EntryInv'
  <2>1. ASSUME NEW k \in Kinds \cap Spend, NEW r \in Reseller, NEW to \in Reseller \cup {NoOne},
               NEW n \in 1 .. MaxQty, Deduct(j, k, r, to, n)
        PROVE  EntryInv'
    <3>1. /\ job[j].at = "idle" /\ r \in created /\ Paused(r) /\ MayRequest(k, r, to, n)
          /\ Enough(entries[r], n) # {}
          /\ entries' = [entries EXCEPT ![r] = Taken(@, n)]
          /\ sweep' = sweep /\ created' = created
      BY <2>1 DEF Deduct
    <3>2. /\ \A i \in Job \ {j} : job'[i] = job[i]
          /\ job'[j].at = "deducted" /\ job'[j].kind = k /\ job'[j].by = r /\ job'[j].to = to
      BY <2>1 DEF Deduct, Accounts, JobsFit
    <3>3. entries[r] \in Seq(Nat) /\ n \in Nat BY DEF Accounts, EntriesFit
    <3>4. /\ Taken(entries[r], n) # <<>> /\ Len(Taken(entries[r], n)) = Len(entries[r])
          /\ entries[r] # <<>>
      BY <3>1, <3>3, TotalTaken DEF Enough
    <3>5. entries'[r] = Taken(entries[r], n) /\ \A i \in Reseller \ {r} : entries'[i] = entries[i]
      BY <3>1 DEF Accounts, EntriesFit
    <3>6. k \in Spend /\ (k = "transfer" => Paused(to)) /\ (k = "allot" => to \notin created)
          /\ (k \in {"generate", "renew"} => to = NoOne)
      BY <3>1 DEF MayRequest, Spend
    <3>7. \A e \in Job : job[e].kind = "edit" /\ InFlight(e) =>
            e # j /\ job[e].by # r /\ job[e].by # to
      <4> SUFFICES ASSUME NEW e \in Job, job[e].kind = "edit", InFlight(e)
                   PROVE  e # j /\ job[e].by # r /\ job[e].by # to
        OBVIOUS
      <4>1. job[e].by \in created /\ job[e].by # NoOne
        BY <1>0 DEF Fits, InFlight, Accounts, EntriesFit, Running
      <4>2. e # j BY <3>1 DEF InFlight, Running
      <4>3. job[e].by # r BY <3>1 DEF Paused
      <4> QED BY <3>6, <4>1, <4>2, <4>3 DEF Paused, Spend
    <3>8. EditAlone'
      BY <3>1, <3>2, <3>5, <3>6, <3>7 DEF EntryInv, EditAlone, InFlight, Spend
    <3>9. SpenderHasEntry'
      <4>1. \A i \in Job : job[i].at \in Running => job[i].by \in Reseller
        BY <1>0 DEF Fits, Accounts, EntriesFit
      <4> QED BY <3>2, <3>4, <3>5, <4>1 DEF EntryInv, SpenderHasEntry, Running
    <3>10. ASSUME "pushRace" \notin Hazards PROVE OneEntry'
      <4>1. OneEntry BY <3>10 DEF EntryInv
      <4>2. \A i \in Job : job'[i].at = "push" => i # j /\ job'[i] = job[i] BY <3>2
      <4>3. \A i \in Reseller : Pushing(i)' => Pushing(i)
        BY <3>1, <4>2 DEF Pushing
      <4>4. ~Pushing(r) BY <3>4, <4>1 DEF OneEntry
      <4>5. \A i \in Reseller : Len(entries'[i]) <= 1 /\ (Pushing(i)' => entries'[i] = <<>>)
        BY <3>4, <3>5, <4>1, <4>3, <4>4 DEF OneEntry
      <4> QED BY <3>1, <4>1, <4>2, <4>5 DEF OneEntry, Recipient
    <3> QED BY <3>8, <3>9, <3>10 DEF EntryInv
  <2>2. ASSUME NEW r \in Reseller, NEW ids \in SUBSET Code, ReturnRead(j, r, ids)
        PROVE  EntryInv'
    <3>1. /\ job[j].at = "idle" /\ r \in created /\ Paused(r)
          /\ entries' = entries /\ sweep' = sweep
      BY <2>2 DEF ReturnRead
    <3>2. /\ \A i \in Job \ {j} : job'[i] = job[i]
          /\ job'[j].at = "read" /\ job'[j].kind = "return" /\ job'[j].by = r /\ job'[j].to = NoOne
      BY <2>2 DEF ReturnRead, Accounts, JobsFit, Free
    <3>3. \A e \in Job : job[e].kind = "edit" /\ InFlight(e) => e # j /\ job[e].by \notin {r, NoOne}
      BY <1>0, <3>1 DEF InFlight, Running, Fits, Paused, Accounts, EntriesFit
    <3>4. EditAlone'
      BY <3>1, <3>2, <3>3 DEF EntryInv, EditAlone, InFlight
    <3>5. SpenderHasEntry'
      BY <3>1, <3>2 DEF EntryInv, SpenderHasEntry
    <3>6. OneEntry => OneEntry'
      BY <3>1, <3>2 DEF OneEntry, Recipient, Pushing
    <3> QED BY <3>4, <3>5, <3>6 DEF EntryInv
  <2>3. ASSUME NEW r \in Reseller, EditRead(j, r) PROVE EntryInv'
    <3>1. /\ job[j].at = "idle" /\ r \in created /\ sweep.at = "idle"
          /\ entries' = entries /\ sweep' = sweep
          /\ \A i \in Job : InFlight(i) => r \notin {job[i].by, job[i].to}
      BY <2>3 DEF EditRead
    <3>2. /\ \A i \in Job \ {j} : job'[i] = job[i]
          /\ job'[j].at = "read" /\ job'[j].kind = "edit" /\ job'[j].by = r /\ job'[j].to = NoOne
          /\ job'[j].n = Held(entries[r])
      BY <2>3 DEF EditRead, Accounts, JobsFit, Free
    <3>3. r # NoOne BY DEF Accounts, EntriesFit
    <3>4. EditAlone'
      <4> SUFFICES ASSUME NEW e \in Job, (job[e].kind = "edit" /\ InFlight(e))'
                   PROVE  /\ \A i \in Job \ {e} : InFlight(i)' => job'[e].by \notin {job'[i].by, job'[i].to}
                          /\ job'[e].at = "read" => job'[e].n = Held(entries'[job'[e].by])
        BY <3>1 DEF EditAlone
      <4>1. CASE e = j BY <3>1, <3>2, <4>1 DEF InFlight
      <4>2. CASE e # j
        <5>1. job[e].kind = "edit" /\ InFlight(e) /\ job'[e] = job[e] BY <3>2, <4>2 DEF InFlight
        <5>2. job[e].by # r /\ job[e].by # NoOne
          BY <1>0, <3>1, <5>1 DEF InFlight, Fits, Accounts, EntriesFit, Running
        <5> QED BY <3>1, <3>2, <5>1, <5>2 DEF EntryInv, EditAlone, InFlight
      <4> QED BY <4>1, <4>2
    <3>5. SpenderHasEntry'
      BY <3>1, <3>2 DEF EntryInv, SpenderHasEntry, Spend
    <3>6. OneEntry => OneEntry'
      BY <3>1, <3>2 DEF OneEntry, Recipient, Pushing
    <3> QED BY <3>4, <3>5, <3>6 DEF EntryInv
  <2>4. CASE AdminGenerate(j)
    <3>1. /\ job[j].at = "idle" /\ entries' = entries /\ sweep' = sweep
      BY <2>4 DEF AdminGenerate
    <3>2. /\ \A i \in Job \ {j} : job'[i] = job[i]
          /\ job'[j].at = "done"
      BY <2>4 DEF AdminGenerate, Accounts, JobsFit, JobRecord
    <3>4. EditAlone'
      BY <3>1, <3>2 DEF EntryInv, EditAlone, InFlight, Running
    <3>5. SpenderHasEntry'
      BY <3>1, <3>2 DEF EntryInv, SpenderHasEntry
    <3>6. OneEntry => OneEntry'
      BY <3>1, <3>2 DEF OneEntry, Recipient, Pushing
    <3> QED BY <3>4, <3>5, <3>6 DEF EntryInv
  <2> QED BY <1>1, <2>1, <2>2, <2>3, <2>4 DEF Request
<1>2. ASSUME NEW j \in Job, Step(j) PROVE EntryInv'
  <2>1. CASE Generate(j)
    BY <2>1, EntriesLeft DEF Generate, InFlight, Running
  <2>2. CASE SpendCredit(j)
    BY <2>2, PerformLeaves DEF SpendCredit
  <2>3. CASE FindNoEntry(j) \/ (ReturnPay(j) /\ Goto(j, "push"))
    <3> DEFINE r == Recipient(j)
    <3>1. /\ \/ job[j].at = "deducted" /\ job[j].kind = "transfer"
             \/ job[j].at = "counted" /\ job[j].kind = "return"
          /\ MayPush(r) /\ Goto(j, "push") /\ sweep' = sweep
          /\ entries' = entries
      <4>1. CASE FindNoEntry(j) BY <4>1 DEF FindNoEntry, Recipient
      <4>2. CASE ReturnPay(j) /\ Goto(j, "push")
        <5>1. ~Goto(j, "log")
          <6>1. ASSUME Goto(j, "log") PROVE FALSE
            <7>1. job'[j].at = "push" /\ job'[j].at = "log"
              BY <4>2, <6>1, GotoHas DEF Accounts
            <7> QED BY <7>1
          <6> QED BY <6>1
        <5> QED BY <4>2, <5>1 DEF ReturnPay, Recipient
      <4> QED BY <2>3, <4>1, <4>2
    <3>2. /\ \A i \in Job \ {j} : job'[i] = job[i]
          /\ job'[j].at = "push" /\ job'[j].kind = job[j].kind /\ job'[j].by = job[j].by
          /\ job'[j].to = job[j].to /\ job'[j].n = job[j].n
      BY <3>1, GotoHas DEF Accounts
    <3>3. InFlight(j) /\ job[j].kind # "edit" BY <3>1 DEF InFlight, Running
    <3>4. EditAlone'
      BY <3>1, <3>2, <3>3 DEF EntryInv, EditAlone, InFlight
    <3>5. SpenderHasEntry'
      BY <3>1, <3>2 DEF EntryInv, SpenderHasEntry, Spend
    <3>6. ASSUME "pushRace" \notin Hazards PROVE OneEntry'
      <4>1. OneEntry BY <3>6 DEF EntryInv
      <4>2. entries[r] = <<>> /\ ~Pushing(r) BY <3>1, <3>6 DEF MayPush
      <4>3. Recipient(j)' = r /\ \A i \in Job \ {j} : Recipient(i)' = Recipient(i)
        BY <3>2 DEF Recipient
      <4> HIDE DEF r
      <4>4. \A i \in Job \ {j} : job[i].at = "push" => Recipient(i) # r
        BY <4>2 DEF Pushing, Recipient
      <4>5. ~(sweep.at = "push" /\ sweep.paid = r) BY <4>2 DEF Pushing
      <4>6. \A i \in Reseller : Pushing(i)' => Pushing(i) \/ i = r
        BY <3>1, <3>2, <4>3 DEF Pushing, Recipient
      <4> QED BY <3>1, <3>2, <4>1, <4>2, <4>3, <4>4, <4>5, <4>6 DEF OneEntry
    <3> QED BY <3>4, <3>5, <3>6 DEF EntryInv
  <2>4. CASE Refund(j)
    <3>1. job[j].by \in created /\ job[j].n \in Nat /\ InFlight(j) /\ job[j].kind # "edit"
      BY <1>0, <2>4 DEF Refund, Fits, InFlight, Running, Spend
    <3>2. CASE entries[job[j].by] = <<>>
      BY <2>4, <3>1, <3>2, EntriesLeft DEF Refund
    <3>3. CASE entries[job[j].by] # <<>>
      BY <2>4, <3>1, <3>3, EntryGrows DEF Refund
    <3> QED BY <3>2, <3>3
  <2>5. CASE ReturnFlip(j)
    BY <2>5, EntriesLeft DEF ReturnFlip, InFlight, Running
  <2>6. CASE ReturnRecount(j)
    <3> DEFINE at == IF Revoked(job[j].ids) = {} THEN "done" ELSE "counted"
    <3>1. /\ job[j].kind = "return" /\ InFlight(j) /\ entries' = entries /\ sweep' = sweep
          /\ \A i \in Job \ {j} : job'[i] = job[i]
          /\ job'[j].at = at /\ job'[j].kind = job[j].kind /\ job'[j].by = job[j].by
          /\ job'[j].to = job[j].to
      BY <2>6 DEF ReturnRecount, Accounts, JobsFit, JobRecord, InFlight, Running
    <3>2. at \in {"done", "counted"} OBVIOUS
    <3> HIDE DEF at
    <3> QED BY <3>1, <3>2, EntriesKept
  <2>7. CASE ReturnPay(j) /\ ~Goto(j, "push")
    <3>1. job[j].by \in created /\ job[j].n \in Nat /\ InFlight(j) /\ job[j].kind # "edit"
      BY <1>0, <2>7 DEF ReturnPay, Fits, InFlight, Running
    <3> QED BY <2>7, <3>1, EntryGrows DEF ReturnPay
  <2>8. CASE ReturnPush(j)
    <3>1. job[j].by \in created /\ job[j].n \in Nat /\ InFlight(j) /\ job[j].kind # "edit"
          /\ Recipient(j) = job[j].by
      BY <1>0, <2>8 DEF ReturnPush, Fits, InFlight, Running, Recipient
    <3> QED BY <2>8, <3>1, EntryGrows DEF ReturnPush
  <2>9. ASSUME NEW list \in {<<>>} \cup {<<q>> : q \in 0 .. MaxQty}, EditWrite(j, list) PROVE EntryInv'
    <3>0. job[j].by \in created /\ job[j].by \in Reseller
      BY <1>0, <2>9 DEF EditWrite, Fits, Running, Accounts, EntriesFit
    <3> PICK r \in created : r = job[j].by BY <3>0
    <3>1. /\ job[j].kind = "edit" /\ job[j].at = "read" /\ InFlight(j) /\ r \in Reseller
      BY <2>9, <3>0 DEF EditWrite, InFlight, Running
    <3>2. /\ \A i \in Job \ {j} : job'[i] = job[i]
          /\ job'[j].at = "log" /\ job'[j].kind = job[j].kind /\ job'[j].by = job[j].by
          /\ job'[j].to = job[j].to
      BY <2>9 DEF EditWrite, Accounts, JobsFit, JobRecord
    <3>3. /\ entries'[r] = list /\ \A i \in Reseller \ {r} : entries'[i] = entries[i]
          /\ sweep' = sweep
      BY <2>9, <3>1 DEF EditWrite, Accounts, EntriesFit
    <3>4. /\ \A i \in Job \ {j} : InFlight(i) => r \notin {job[i].by, job[i].to}
          /\ sweep.at \in {"push", "log"} => sweep.paid # r
      BY <3>1 DEF EntryInv, EditAlone
    <3>5. EditAlone'
      <4> SUFFICES ASSUME NEW e \in Job, (job[e].kind = "edit" /\ InFlight(e))'
                   PROVE  /\ \A i \in Job \ {e} : InFlight(i)' => job'[e].by \notin {job'[i].by, job'[i].to}
                          /\ sweep'.at \in {"push", "log"} => sweep'.paid # job'[e].by
                          /\ job'[e].at = "read" => job'[e].n = Held(entries'[job'[e].by])
        BY DEF EditAlone
      <4>1. CASE e = j BY <3>2, <3>3, <3>4, <4>1 DEF InFlight
      <4>2. CASE e # j
        <5>1. job[e].kind = "edit" /\ InFlight(e) /\ job'[e] = job[e] BY <3>2, <4>2 DEF InFlight
        <5>2. job[e].by # r /\ job[e].by \in Reseller
          BY <1>0, <3>4, <4>2, <5>1 DEF InFlight, Fits, Accounts, EntriesFit
        <5> QED BY <3>1, <3>2, <3>3, <5>1, <5>2 DEF EntryInv, EditAlone, InFlight
      <4> QED BY <4>1, <4>2
    <3>6. SpenderHasEntry'
      <4>1. \A i \in Job : job[i].at \in Running => job[i].by \in Reseller
        BY <1>0 DEF Fits, Accounts, EntriesFit
      <4> QED BY <3>1, <3>2, <3>3, <3>4, <4>1 DEF EntryInv, SpenderHasEntry, InFlight, Running, Spend
    <3>7. ASSUME "pushRace" \notin Hazards PROVE OneEntry'
      <4>1. OneEntry BY <3>7 DEF EntryInv
      <4>2. \A i \in Job : job'[i].at = "push" => job[i].at = "push" /\ job'[i] = job[i] /\ i # j
        BY <3>2
      <4>3. \A i \in Reseller : Pushing(i)' => Pushing(i) BY <3>3, <4>2 DEF Pushing
      <4>4. ~Pushing(r)'
        <5>1. ~(sweep'.at = "push" /\ sweep'.paid = r) BY <3>3, <3>4
        <5>2. \A i \in Job : job'[i].at = "push" => Recipient(i)' # r
          BY <3>4, <4>2 DEF Recipient, InFlight, Running
        <5> QED BY <5>1, <5>2 DEF Pushing, Recipient
      <4>5. Len(list) <= 1 BY HeldType
      <4>6. \A i \in Reseller : Len(entries'[i]) <= 1 /\ (Pushing(i)' => entries'[i] = <<>>)
        BY <3>3, <4>1, <4>3, <4>4, <4>5 DEF OneEntry
      <4> QED BY <3>3, <4>1, <4>2, <4>6 DEF OneEntry, Recipient
    <3> QED BY <3>5, <3>6, <3>7 DEF EntryInv
  <2>10. CASE Log(j)
    BY <2>10, EntriesLeft DEF Log, InFlight, Running
  <2>11. EditWrites(j) => EntryInv' BY <2>9 DEF EditWrites
  <2> QED BY <1>2, <2>1, <2>2, <2>3, <2>4, <2>5, <2>6, <2>7, <2>8, <2>11, <2>10 DEF Step, EditWrites
<1>3. ASSUME NEW j \in Job, Fault(j) PROVE EntryInv'
  <2>1. CASE GeneratePartly(j)
    BY <2>1, EntriesLeft DEF GeneratePartly, InFlight, Running
  <2>2. CASE SpendAndThrow(j)
    BY <2>2, PerformLeaves DEF SpendAndThrow
  <2>3. CASE Throw(j)
    BY <2>3, EntriesLeft DEF Throw, InFlight, Running
  <2>4. CASE RefundThrows(j) \/ ReturnThrows(j) \/ Crash(j)
    BY <2>4, EntriesLeft DEF RefundThrows, ReturnThrows, Crash, InFlight, Running
  <2> QED BY <1>3, <2>1, <2>2, <2>3, <2>4 DEF Fault
<1>4. ASSUME SweepNext \/ SweepFails PROVE EntryInv'
  <2>1. CASE SweepRecover \/ SweepRead \/ SweepFlip \/ SweepRecount \/ SweepLog \/ SweepEnd \/ SweepFails
    <3>1. job' = job /\ entries' = entries /\ sweep'.at \notin {"push", "log"}
      <4> USE DEF Accounts, SweepFits, Asleep
      <4>1. CASE SweepRecover BY <4>1 DEF SweepRecover
      <4>2. CASE SweepRead BY <4>2 DEF SweepRead
      <4>3. CASE SweepFlip BY <4>3 DEF SweepFlip
      <4>4. CASE SweepRecount BY <4>4 DEF SweepRecount
      <4>5. CASE SweepLog BY <4>5 DEF SweepLog
      <4>6. CASE SweepEnd \/ SweepFails BY <4>6 DEF SweepEnd, SweepFails
      <4> QED BY <2>1, <4>1, <4>2, <4>3, <4>4, <4>5, <4>6
    <3> QED BY <3>1, EntriesKept
  <2>2. ASSUME NEW r \in Reseller, SweepPay(r) PROVE EntryInv'
    <3>1. /\ sweep.at = "paying" /\ Paused(r) /\ job' = job /\ r # NoOne
          /\ \A e \in Job : ~(job[e].kind = "edit" /\ InFlight(e) /\ job[e].by = r)
      BY <2>2 DEF SweepPay, Paused
    <3>2. CASE MayPush(r) /\ entries' = entries /\ sweep' = [sweep EXCEPT !.at = "push", !.paid = r]
      <4>1. sweep'.at = "push" /\ sweep'.paid = r BY <3>2 DEF Accounts, SweepFits
      <4>2. EditAlone' BY <3>1, <3>2, <4>1 DEF EntryInv, EditAlone, InFlight
      <4>3. SpenderHasEntry' BY <3>1, <3>2 DEF EntryInv, SpenderHasEntry
      <4>4. ASSUME "pushRace" \notin Hazards PROVE OneEntry'
        <5>1. OneEntry /\ entries[r] = <<>> /\ ~Pushing(r) BY <3>2, <4>4 DEF EntryInv, MayPush
        <5>2. \A j \in Job : job[j].at = "push" => Recipient(j) # r
          BY <5>1 DEF Pushing, Recipient
        <5>3. \A i \in Reseller : Pushing(i)' => Pushing(i) \/ i = r
          BY <3>1, <4>1 DEF Pushing
        <5> QED BY <3>1, <3>2, <4>1, <5>1, <5>2, <5>3 DEF OneEntry, Recipient
      <4> QED BY <4>2, <4>3, <4>4 DEF EntryInv
    <3>3. CASE /\ entries[r] # <<>> /\ Inc(r, Cardinality(CodesOf(r)))
               /\ sweep' = [sweep EXCEPT !.at = "log", !.paid = r]
      <4>1. sweep'.at = "log" /\ sweep'.paid = r BY <3>3 DEF Accounts, SweepFits
      <4>2. entries[r] \in Seq(Nat) /\ Cardinality(CodesOf(r)) \in Nat
        BY CodesAreFinite DEF Accounts, EntriesFit, SweepFits, CodesOf
      <4>3. /\ entries'[r] = Added(entries[r], Cardinality(CodesOf(r)))
            /\ \A i \in Reseller \ {r} : entries'[i] = entries[i]
        BY <3>3 DEF Inc, Accounts, EntriesFit
      <4>4. entries'[r] # <<>> /\ Len(entries'[r]) = Len(entries[r])
        BY <3>3, <4>2, <4>3, TotalAdded DEF Added
      <4>5. EditAlone'
        <5>1. \A e \in Job : InFlight(e) => job[e].by \in Reseller
          BY <1>0 DEF InFlight, Fits, Accounts, EntriesFit
        <5> QED BY <3>1, <4>1, <4>3, <5>1 DEF EntryInv, EditAlone, InFlight
      <4>6. SpenderHasEntry'
        <5>1. \A i \in Job : job[i].at \in Running => job[i].by \in Reseller
          BY <1>0 DEF Fits, Accounts, EntriesFit
        <5> QED BY <3>1, <4>3, <4>4, <5>1 DEF EntryInv, SpenderHasEntry, Running
      <4>7. OneEntry => OneEntry'
        <5>1. \A i \in Reseller : Pushing(i)' => Pushing(i) BY <3>1, <4>1 DEF Pushing
        <5> QED BY <3>1, <3>3, <4>1, <4>3, <4>4, <5>1 DEF OneEntry, Recipient
      <4> QED BY <4>5, <4>6, <4>7 DEF EntryInv
    <3> QED BY <2>2, <3>2, <3>3 DEF SweepPay
  <2>3. CASE SweepPush
    <3>0. sweep.paid \in Reseller BY <2>3 DEF SweepPush, Accounts, SweepFits, EntriesFit
    <3> PICK r \in Reseller : r = sweep.paid BY <3>0
    <3>1. /\ sweep.at = "push" /\ job' = job
          /\ Push(r, Cardinality(CodesOf(r)))
          /\ sweep'.at = "log" /\ sweep'.paid = r
      BY <2>3 DEF SweepPush, Accounts, SweepFits, EntriesFit
    <3>2. entries[r] \in Seq(Nat) /\ Cardinality(CodesOf(r)) \in Nat
      BY <3>1, CodesAreFinite DEF Accounts, EntriesFit, SweepFits, CodesOf
    <3>3. /\ entries'[r] = Append(entries[r], Cardinality(CodesOf(r)))
          /\ \A i \in Reseller \ {r} : entries'[i] = entries[i]
      BY <3>1 DEF Push, Accounts, EntriesFit
    <3>4. entries'[r] # <<>> BY <3>2, <3>3, TotalAppended
    <3>5. \A e \in Job : ~(job[e].kind = "edit" /\ job[e].at = "read" /\ job[e].by = r)
      BY <3>1 DEF EntryInv, EditAlone, InFlight, Running
    <3>6. ASSUME "pushRace" \notin Hazards PROVE Len(entries'[r]) <= 1 /\ ~Pushing(r)'
      <4>1. OneEntry BY <3>6 DEF EntryInv
      <4>2. Pushing(r) BY <3>1 DEF Pushing
      <4>3. entries[r] = <<>> BY <3>1, <4>1, <4>2 DEF OneEntry
      <4>4. Len(entries'[r]) = 1
        <5>1. Len(Append(<<>>, Cardinality(CodesOf(r)))) = 1 OBVIOUS
        <5> QED BY <3>3, <4>3, <5>1
      <4>5. \A i \in Job : job[i].at = "push" => Recipient(i) # r
        BY <3>1, <4>1 DEF OneEntry
      <4>7. ~Pushing(r)' BY <3>1, <4>5 DEF Pushing, Recipient
      <4> QED BY <4>4, <4>7
    <3>7. \A i \in Reseller :
          \/ entries'[i] = entries[i]
          \/ /\ entries'[i] # <<>>
             /\ \A e \in Job : ~(job[e].kind = "edit" /\ job[e].at = "read" /\ job[e].by = i)
             /\ "pushRace" \notin Hazards =>
                  Len(entries'[i]) <= 1 /\ (entries[i] # <<>> \/ ~Pushing(i)')
      BY <3>3, <3>4, <3>5, <3>6
    <3> QED BY <3>1, <3>7, EntriesKept
  <2> QED BY <1>4, <2>1, <2>2, <2>3 DEF SweepNext
<1>5. CASE (\E c \in Code : CodeNext(c)) \/ ListExpire \/ UNCHANGED vars
  <2>1. job' = job /\ entries' = entries /\ sweep' = sweep
    BY <1>5 DEF CodeNext, Claim, EndClaim, RedeemDies, Lapse, BulkRevoke, BulkRestore, ListExpire,
                vars, codeVars, history, counts
  <2> QED BY <2>1, EntriesKept
<1> QED BY <1>1, <1>2, <1>3, <1>4, <1>5 DEF Next

(* Unless an edit overlaps another handler or two push one entry: the      *)
(* credit an account shows is one entry, so all of it can be spent.        *)
THEOREM CreditStaysUsable ==
  ASSUME {"editRace", "pushRace"} \cap Hazards = {} PROVE Spec => []CreditUsable
<1>2. Accounts /\ EntryInv /\ [Next]_vars => Accounts' /\ EntryInv'
  BY AccountsStep, EntriesStep
<1>3. Accounts /\ EntryInv => CreditUsable
  <2> SUFFICES ASSUME Accounts, EntryInv, NEW r \in Reseller, NEW n \in 1 .. Total(entries[r])
               PROVE  Enough(entries[r], n) # {}
    BY DEF CreditUsable
  <2>1. entries[r] \in Seq(Nat) /\ Len(entries[r]) <= 1
    BY DEF Accounts, EntriesFit, EntryInv, OneEntry
  <2>2. CASE entries[r] = <<>> BY <2>2, TotalOfNone
  <2>3. CASE entries[r] # <<>>
    <3> DEFINE q == entries[r][1]
    <3>1. entries[r] = <<q>> /\ q \in Nat BY <2>1, <2>3
    <3>2. Total(entries[r]) = q
      <4> HIDE DEF q
      <4> QED BY <3>1, TotalOfOne
    <3>3. 1 \in Enough(entries[r], n)
      BY <2>1, <2>3, <3>1, <3>2 DEF Enough
    <3> QED BY <3>3
  <2> QED BY <2>2, <2>3
<1> QED BY <1>2, <1>3, CreditStarts, EntriesStart, PTL DEF Spec

-----------------------------------------------------------------------------
(* The ledger.                                                             *)

(* What the handlers in flight have done to an account's entries without a *)
(* ledger row yet.                                                         *)
Delta(j, r) ==
  IF job[j].at = "log" THEN Row(j, r)
  ELSE IF r = job[j].by /\ job[j].kind \in Spend /\ job[j].at \in {"deducted", "push", "refund"}
       THEN -job[j].n ELSE 0

Unlogged(r) == SumOf([j \in Job |-> Delta(j, r)], Job)

SweepDelta(r) ==
  IF sweep.at = "log" /\ sweep.paid = r THEN Cardinality(CodesOf(r)) ELSE 0

(* The rows of each account, created or not.                               *)
booked == [r \in Reseller |-> ledger[r] + unwritten[r]]

LedgerInv ==
  \A r \in Reseller : Total(entries[r]) = booked[r] + Unlogged(r) + SweepDelta(r)

LedgerCalm ==
  /\ {"editRace", "pushRace", "halfWrite", "refundFails", "returnFails", "crash"} \cap Hazards = {}
  /\ "allot" \notin Kinds

LedgerTyped ==
  \A r \in Reseller :
    /\ entries[r] \in Seq(Nat) /\ Total(entries[r]) \in Nat /\ booked[r] \in Int
    /\ \A j \in Job : Delta(j, r) \in Int
    /\ Unlogged(r) \in Int /\ SweepDelta(r) \in Int

LEMMA LedgerTypes == Accounts => LedgerTyped
<1> SUFFICES ASSUME Accounts, NEW r \in Reseller
             PROVE  /\ \A j \in Job : Delta(j, r) \in Int
                    /\ Unlogged(r) \in Int /\ SweepDelta(r) \in Int
  BY TotalType DEF LedgerTyped, Accounts, EntriesFit, SumsFit, booked
<1>1. \A j \in Job : job[j].n \in Int /\ (job[j].kind \in Spend => job[j].n \in Nat)
  BY DEF Accounts, JobsFit, JobRecord, Fits, Spend
<1>2. \A j \in Job : Row(j, r) \in Int
  BY <1>1 DEF Row
<1>3. \A j \in Job : Delta(j, r) \in Int BY <1>1, <1>2 DEF Delta
<1> DEFINE f == [j \in Job |-> Delta(j, r)]
<1>4. \A j \in Job : f[j] \in Int BY <1>3
<1> HIDE DEF f
<1>5. SumOf(f, Job) \in Int BY <1>4, FiniteAssumption, SumType
<1>6. Cardinality(CodesOf(r)) \in Nat BY CodesAreFinite DEF CodesOf, Accounts, SweepFits
<1> QED BY <1>2, <1>3, <1>5, <1>6 DEF Unlogged, SweepDelta, f

LEMMA UnloggedMoves ==
  ASSUME LedgerTyped, LedgerTyped', NEW j \in Job, \A i \in Job \ {j} : job'[i] = job[i],
         NEW r \in Reseller
  PROVE  Unlogged(r)' = Unlogged(r) - Delta(j, r) + Delta(j, r)'
<1> DEFINE f == [i \in Job |-> Delta(i, r)]
           g == [i \in Job |-> Delta(i, r)']
<1>1. \A i \in Job : f[i] \in Int /\ g[i] \in Int BY DEF LedgerTyped
<1>2. \A i \in Job \ {j} : g[i] = f[i] BY DEF Delta, Row
<1>3. Unlogged(r) = SumOf(f, Job) /\ Unlogged(r)' = SumOf(g, Job) BY DEF Unlogged
<1>4. f[j] = Delta(j, r) /\ g[j] = Delta(j, r)' OBVIOUS
<1> HIDE DEF f, g
<1>5. SumOf(g, Job) = SumOf(f, Job) - f[j] + g[j] BY <1>1, <1>2, FiniteAssumption, SumChanges
<1> QED BY <1>3, <1>4, <1>5

(* A handler moves an account's entries and what it has not logged alike.  *)
LEMMA LedgerKept ==
  ASSUME LedgerTyped, LedgerTyped', LedgerInv, NEW j \in Job, \A i \in Job \ {j} : job'[i] = job[i],
         \A r \in Reseller :
           /\ Total(entries'[r]) - Total(entries[r]) = Delta(j, r)' - Delta(j, r) + booked'[r] - booked[r]
           /\ SweepDelta(r)' = SweepDelta(r)
  PROVE  LedgerInv'
<1> SUFFICES ASSUME NEW r \in Reseller
             PROVE  Total(entries'[r]) = booked'[r] + Unlogged(r)' + SweepDelta(r)'
  BY DEF LedgerInv
<1>1. Unlogged(r)' = Unlogged(r) - Delta(j, r) + Delta(j, r)' BY UnloggedMoves
<1>2. Total(entries[r]) = booked[r] + Unlogged(r) + SweepDelta(r) BY DEF LedgerInv
<1>3. /\ Delta(j, r) \in Int /\ Unlogged(r) \in Int /\ SweepDelta(r) \in Int
      /\ Total(entries[r]) \in Int /\ booked[r] \in Int
      /\ Delta(j, r)' \in Int /\ Total(entries'[r]) \in Int /\ booked'[r] \in Int
  BY DEF LedgerTyped
<1> QED BY <1>1, <1>2, <1>3

LEMMA LedgerMoves ==
  ASSUME LedgerTyped, LedgerTyped', LedgerInv, NEW j \in Job, \A i \in Job \ {j} : job'[i] = job[i],
         NEW r \in Reseller, NEW d \in Int, Total(entries'[r]) = Total(entries[r]) + d,
         \A i \in Reseller \ {r} : entries'[i] = entries[i] /\ Delta(j, i)' = Delta(j, i),
         Delta(j, r)' = Delta(j, r) + d, booked' = booked,
         \A i \in Reseller : SweepDelta(i)' = SweepDelta(i)
  PROVE  LedgerInv'
<1>1. ASSUME NEW i \in Reseller
      PROVE  Total(entries'[i]) - Total(entries[i])
               = Delta(j, i)' - Delta(j, i) + booked'[i] - booked[i]
  <2>1. /\ Delta(j, i) \in Int /\ Delta(j, i)' \in Int /\ Total(entries[i]) \in Int
        /\ booked[i] \in Int
    BY DEF LedgerTyped
  <2>2. CASE i = r BY <2>1, <2>2
  <2>3. CASE i # r BY <2>1, <2>3
  <2> QED BY <2>2, <2>3
<1> QED BY <1>1, LedgerKept

(* The same for the daily task.                                            *)
LEMMA LedgerSwept ==
  ASSUME LedgerTyped, LedgerTyped', LedgerInv, job' = job,
         \A r \in Reseller :
           Total(entries'[r]) - Total(entries[r])
             = SweepDelta(r)' - SweepDelta(r) + booked'[r] - booked[r]
  PROVE  LedgerInv'
<1> SUFFICES ASSUME NEW r \in Reseller
             PROVE  Total(entries'[r]) = booked'[r] + Unlogged(r)' + SweepDelta(r)'
  BY DEF LedgerInv
<1>1. Unlogged(r)' = Unlogged(r) BY DEF Unlogged, Delta, Row
<1>2. Total(entries[r]) = booked[r] + Unlogged(r) + SweepDelta(r) BY DEF LedgerInv
<1>3. /\ Unlogged(r) \in Int /\ SweepDelta(r) \in Int
      /\ Total(entries[r]) \in Int /\ booked[r] \in Int
      /\ SweepDelta(r)' \in Int /\ Total(entries'[r]) \in Int /\ booked'[r] \in Int
  BY DEF LedgerTyped
<1> QED BY <1>1, <1>2, <1>3

(* The entries of one account change.                                      *)
LEMMA IncTotals ==
  ASSUME Accounts, NEW r \in Reseller, entries[r] # <<>>, NEW n \in Nat, Inc(r, n)
  PROVE  /\ Total(entries'[r]) = Total(entries[r]) + n
         /\ \A i \in Reseller \ {r} : entries'[i] = entries[i]
<1>1. entries[r] \in Seq(Nat) BY DEF Accounts, EntriesFit
<1>2. entries'[r] = Added(entries[r], n) /\ \A i \in Reseller \ {r} : entries'[i] = entries[i]
  BY DEF Inc, Accounts, EntriesFit
<1> QED BY <1>1, <1>2, TotalAdded

LEMMA PushTotals ==
  ASSUME Accounts, NEW r \in Reseller, NEW n \in Nat, Push(r, n)
  PROVE  /\ Total(entries'[r]) = Total(entries[r]) + n
         /\ \A i \in Reseller \ {r} : entries'[i] = entries[i]
<1>1. entries[r] \in Seq(Nat) BY DEF Accounts, EntriesFit
<1>2. entries'[r] = Append(entries[r], n) /\ \A i \in Reseller \ {r} : entries'[i] = entries[i]
  BY DEF Push, Accounts, EntriesFit
<1> QED BY <1>1, <1>2, TotalAppended

LEMMA DeductTotals ==
  ASSUME Accounts, NEW r \in Reseller, NEW n \in Nat, Enough(entries[r], n) # {},
         entries' = [entries EXCEPT ![r] = Taken(@, n)]
  PROVE  /\ Total(entries'[r]) = Total(entries[r]) - n
         /\ \A i \in Reseller \ {r} : entries'[i] = entries[i]
<1>1. entries[r] \in Seq(Nat) BY DEF Accounts, EntriesFit
<1>2. entries'[r] = Taken(entries[r], n) /\ \A i \in Reseller \ {r} : entries'[i] = entries[i]
  BY DEF Accounts, EntriesFit
<1> QED BY <1>1, <1>2, TotalTaken

(* With one entry, what an edit has read is all the account has.           *)
LEMMA HeldIsAll ==
  ASSUME NEW list \in Seq(Nat), Len(list) <= 1
  PROVE  Held(list) = Total(list)
<1>1. CASE list = <<>> BY <1>1, TotalOfNone DEF Held
<1>2. CASE list # <<>>
  <2> DEFINE q == list[1]
  <2>1. list = <<q>> /\ q \in Nat /\ Len(list) = 1
    <3>1. Len(list) = 1 BY <1>2
    <3>2. q \in Nat BY <3>1
    <3>3. list = <<q>> BY <3>1
    <3> QED BY <3>1, <3>2, <3>3
  <2>2. Total(list) = q
    <3> HIDE DEF q
    <3> QED BY <2>1, TotalOfOne
  <2> QED BY <1>2, <2>1, <2>2 DEF Held
<1> QED BY <1>1, <1>2

(* Every row of a record is among an account's rows, created or not.       *)
LEMMA RecordBooks ==
  ASSUME Accounts, NEW q, \A r \in Reseller : q[r] \in Int, NEW failed, Record(q, failed)
  PROVE  \A r \in Reseller : booked'[r] = booked[r] + q[r]
<1>1. /\ ledger \in [Reseller -> Int] /\ unwritten \in [Reseller -> Int]
      /\ ledger' = [r \in Reseller |-> ledger[r] + (IF r \in failed THEN 0 ELSE q[r])]
      /\ unwritten' = [r \in Reseller |-> unwritten[r] + (IF r \in failed THEN q[r] ELSE 0)]
  BY DEF Accounts, SumsFit, Record
<1> QED
  <2> SUFFICES ASSUME NEW r \in Reseller PROVE booked'[r] = booked[r] + q[r] OBVIOUS
  <2>1. ledger[r] \in Int /\ unwritten[r] \in Int /\ q[r] \in Int BY <1>1
  <2>2. booked'[r] = ledger'[r] + unwritten'[r] /\ booked[r] = ledger[r] + unwritten[r] BY DEF booked
  <2>3. CASE r \in failed
    <3>1. ledger'[r] = ledger[r] /\ unwritten'[r] = unwritten[r] + q[r] BY <1>1, <2>1, <2>3
    <3> QED BY <2>1, <2>2, <3>1
  <2>4. CASE r \notin failed
    <3>1. ledger'[r] = ledger[r] + q[r] /\ unwritten'[r] = unwritten[r] BY <1>1, <2>1, <2>4
    <3> QED BY <2>1, <2>2, <3>1
  <2> QED BY <2>3, <2>4

LEMMA LedgerStep ==
  ASSUME Accounts, Accounts', EntryInv, LedgerInv, [Next]_vars, LedgerCalm
  PROVE  LedgerInv'
<1>0. \A j \in Job : Fits(job[j], created) /\ job[j] \in JobRecord BY DEF Accounts, JobsFit
<1>t. LedgerTyped /\ LedgerTyped'
  <2>1. LedgerTyped BY LedgerTypes
  <2>2. LedgerTyped' BY LedgerTypes, PTL
  <2> QED BY <2>1, <2>2
<1>1. ASSUME NEW j \in Job, Request(j) PROVE LedgerInv'
  <2>1. ASSUME NEW k \in Kinds \cap Spend, NEW r \in Reseller, NEW to \in Reseller \cup {NoOne},
               NEW n \in 1 .. MaxQty, Deduct(j, k, r, to, n)
        PROVE  LedgerInv'
    <3>1. /\ job[j].at = "idle" /\ Enough(entries[r], n) # {} /\ n \in Nat
          /\ entries' = [entries EXCEPT ![r] = Taken(@, n)]
          /\ UNCHANGED <<sweep, booked, holder>>
      BY <2>1 DEF Deduct, codeVars, booked, history, counts
    <3>2. /\ \A i \in Job \ {j} : job'[i] = job[i]
          /\ job'[j].at = "deducted" /\ job'[j].kind = k /\ job'[j].by = r /\ job'[j].n = n
      BY <2>1 DEF Deduct, Accounts, JobsFit
    <3>3. /\ Total(entries'[r]) = Total(entries[r]) - n
          /\ \A i \in Reseller \ {r} : entries'[i] = entries[i]
      BY <3>1, DeductTotals
    <3>4. \A i \in Reseller : Delta(j, i) = 0 /\ Delta(j, i)' = IF i = r THEN -n ELSE 0
      BY <1>0, <3>1, <3>2 DEF Delta
    <3>5. \A i \in Reseller : SweepDelta(i)' = SweepDelta(i)
      BY <3>1 DEF SweepDelta, CodesOf
    <3>6. Total(entries'[r]) = Total(entries[r]) + (-n) BY <1>t, <3>1, <3>3 DEF LedgerTyped
    <3>7. /\ Delta(j, r)' = Delta(j, r) + (-n) /\ -n \in Int
          /\ \A i \in Reseller \ {r} : Delta(j, i)' = Delta(j, i)
      BY <3>1, <3>4
    <3> QED BY <1>t, <3>1, <3>2, <3>3, <3>5, <3>6, <3>7, LedgerMoves
  <2>2. CASE \/ \E r \in Reseller, ids \in SUBSET Code : ReturnRead(j, r, ids)
             \/ \E r \in Reseller : EditRead(j, r)
    <3>1. /\ job[j].at = "idle" /\ UNCHANGED <<entries, sweep, booked, holder>>
          /\ \A i \in Job \ {j} : job'[i] = job[i]
          /\ job'[j].at = "read"
      <4>1. ASSUME NEW r \in Reseller, NEW ids \in SUBSET Code, ReturnRead(j, r, ids)
            PROVE  /\ \A i \in Job \ {j} : job'[i] = job[i]
                   /\ job'[j].at = "read"
        BY <4>1 DEF ReturnRead, Accounts, JobsFit, Free
      <4>2. ASSUME NEW r \in Reseller, EditRead(j, r)
            PROVE  /\ \A i \in Job \ {j} : job'[i] = job[i]
                   /\ job'[j].at = "read"
        BY <4>2 DEF EditRead, Accounts, JobsFit, Free
      <4> QED BY <2>2, <4>1, <4>2 DEF ReturnRead, EditRead, codeVars, booked, history, counts
    <3>2. \A r \in Reseller : Delta(j, r) = 0 /\ Delta(j, r)' = 0
      BY <3>1 DEF Delta
    <3>3. \A r \in Reseller : SweepDelta(r)' = SweepDelta(r)
      BY <3>1 DEF SweepDelta, CodesOf
    <3> QED BY <1>t, <3>1, <3>2, <3>3, LedgerKept DEF LedgerTyped
  <2>3. CASE AdminGenerate(j)
    <3>1. /\ job[j].at = "idle" /\ UNCHANGED <<entries, sweep, booked>>
          /\ \A i \in Job \ {j} : job'[i] = job[i]
          /\ job'[j].at = "done"
      BY <2>3 DEF AdminGenerate, Accounts, JobsFit, JobRecord, booked, history, counts
    <3>2. \A r \in Reseller : Delta(j, r) = 0 /\ Delta(j, r)' = 0
      BY <3>1 DEF Delta
    <3>3. \A c \in sweep.ids : holder'[c] = holder[c]
      BY <2>3, NextAreUnminted DEF AdminGenerate, Mint, Accounts, SweepFits
    <3>4. \A r \in Reseller : SweepDelta(r)' = SweepDelta(r)
      BY <3>1, <3>3 DEF SweepDelta, CodesOf
    <3> QED BY <1>t, <3>1, <3>2, <3>4, LedgerKept DEF LedgerTyped
  <2> QED BY <1>1, <2>1, <2>2, <2>3 DEF Request
<1>2. ASSUME NEW j \in Job, Step(j) PROVE LedgerInv'
  <2>0. /\ job[j].n \in Int /\ (job[j].kind # "edit" => job[j].n \in Nat)
        /\ (InFlight(j) => job[j].by \in Reseller)
    BY <1>0 DEF JobRecord, Fits, InFlight, Accounts, EntriesFit
  <2>1. CASE Generate(j)
    <3>1. /\ job[j].at = "deducted" /\ job[j].kind = "generate" /\ Goto(j, "log")
          /\ UNCHANGED <<entries, sweep, booked>>
      BY <2>1 DEF Generate, booked, history, counts
    <3>2. /\ \A i \in Job \ {j} : job'[i] = job[i]
          /\ job'[j].at = "log" /\ job'[j].kind = job[j].kind /\ job'[j].by = job[j].by
          /\ job'[j].n = job[j].n
      BY <3>1, GotoHas DEF Accounts
    <3>3. \A r \in Reseller : Delta(j, r)' = Delta(j, r)
      BY <2>0, <3>1, <3>2 DEF Delta, Row, Spend
    <3>4. \A c \in sweep.ids : holder'[c] = holder[c]
      BY <2>1, NextAreUnminted DEF Generate, Mint, Accounts, SweepFits
    <3>5. \A r \in Reseller : SweepDelta(r)' = SweepDelta(r)
      BY <3>1, <3>4 DEF SweepDelta, CodesOf
    <3> QED BY <1>t, <3>1, <3>2, <3>3, <3>5, LedgerKept DEF LedgerTyped
  <2>2. CASE SpendCredit(j)
    <3>1. Goto(j, "log") /\ UNCHANGED <<booked, sweep, holder>>
      BY <2>2 DEF SpendCredit, Perform, codeVars, booked, history, counts
    <3>2. /\ \A i \in Job \ {j} : job'[i] = job[i]
          /\ job'[j].at = "log" /\ job'[j].kind = job[j].kind /\ job'[j].by = job[j].by
          /\ job'[j].to = job[j].to /\ job'[j].n = job[j].n
      BY <3>1, GotoHas DEF Accounts
    <3>3. \A r \in Reseller : SweepDelta(r)' = SweepDelta(r)
      BY <3>1 DEF SweepDelta, CodesOf
    <3>4. CASE Renew(j)
      <4>1. job[j].kind = "renew" /\ job[j].at = "deducted" /\ entries' = entries
        BY <3>4 DEF Renew
      <4>2. \A r \in Reseller : Delta(j, r)' = Delta(j, r)
        BY <2>0, <3>2, <4>1 DEF Delta, Row, Spend
      <4> QED BY <1>t, <3>1, <3>2, <3>3, <4>1, <4>2, LedgerKept DEF LedgerTyped
    <3>5. CASE CreditRecipient(j)
      <4>1. /\ job[j].kind = "transfer" /\ job[j].at \in {"deducted", "push"}
            /\ \/ entries[job[j].to] # <<>> /\ Inc(job[j].to, job[j].n)
               \/ Push(job[j].to, job[j].n)
        BY <3>5 DEF CreditRecipient
      <4>2. job[j].to \in Reseller /\ job[j].to # job[j].by /\ job[j].n \in Nat
        BY <1>0, <4>1 DEF Fits, Accounts, EntriesFit
      <4> PICK r \in Reseller : r = job[j].to BY <4>2
      <4>3. /\ Total(entries'[job[j].to]) = Total(entries[job[j].to]) + job[j].n
            /\ \A i \in Reseller \ {job[j].to} : entries'[i] = entries[i]
        BY <4>1, <4>2, IncTotals, PushTotals
      <4>4. \A i \in Reseller :
              /\ Delta(j, i) = IF i = job[j].by THEN -job[j].n ELSE 0
              /\ Delta(j, i)' = IF i = job[j].by THEN -job[j].n
                               ELSE IF i = job[j].to THEN job[j].n ELSE 0
        BY <3>2, <4>1 DEF Delta, Row, Spend
      <4>5. /\ Delta(j, r)' = Delta(j, r) + job[j].n /\ job[j].n \in Int
            /\ \A i \in Reseller \ {r} : Delta(j, i)' = Delta(j, i)
        BY <4>2, <4>4
      <4> QED BY <1>t, <3>1, <3>2, <3>3, <4>2, <4>3, <4>4, <4>5, LedgerMoves
    <3>6. ~Allot(j)
      BY <1>0 DEF Allot, LedgerCalm, JobRecord
    <3> QED BY <2>2, <3>4, <3>5, <3>6 DEF SpendCredit, Perform
  <2>3. CASE FindNoEntry(j)
    <3>1. /\ job[j].at = "deducted" /\ job[j].kind = "transfer" /\ Goto(j, "push")
          /\ UNCHANGED <<entries, sweep, booked, holder>>
      BY <2>3 DEF FindNoEntry, codeVars, booked, history, counts
    <3>2. /\ \A i \in Job \ {j} : job'[i] = job[i]
          /\ job'[j].at = "push" /\ job'[j].kind = job[j].kind /\ job'[j].by = job[j].by
          /\ job'[j].n = job[j].n
      BY <3>1, GotoHas DEF Accounts
    <3>3. \A r \in Reseller : Delta(j, r)' = Delta(j, r)
      BY <3>1, <3>2 DEF Delta, Spend
    <3>4. \A r \in Reseller : SweepDelta(r)' = SweepDelta(r)
      BY <3>1 DEF SweepDelta, CodesOf
    <3> QED BY <1>t, <3>1, <3>2, <3>3, <3>4, LedgerKept DEF LedgerTyped
  <2>4. CASE Refund(j)
    <3>1. /\ job[j].at = "refund" /\ job[j].kind \in Spend /\ Goto(j, "failed")
          /\ job[j].by \in Reseller /\ job[j].n \in Nat
          /\ UNCHANGED <<sweep, booked, holder>>
      BY <1>0, <2>0, <2>4 DEF Refund, codeVars, Fits, InFlight, Running, Spend, booked, history, counts
    <3>2. entries[job[j].by] # <<>> BY <3>1 DEF EntryInv, SpenderHasEntry
    <3> PICK r \in Reseller : r = job[j].by BY <3>1
    <3>3. /\ Total(entries'[job[j].by]) = Total(entries[job[j].by]) + job[j].n
          /\ \A i \in Reseller \ {job[j].by} : entries'[i] = entries[i]
      BY <2>4, <3>1, <3>2, IncTotals DEF Refund
    <3>4. /\ \A i \in Job \ {j} : job'[i] = job[i]
          /\ job'[j].at = "failed"
      BY <3>1, GotoHas DEF Accounts
    <3>5. \A i \in Reseller : /\ Delta(j, i) = IF i = job[j].by THEN -job[j].n ELSE 0
                              /\ Delta(j, i)' = 0
      BY <3>1, <3>4 DEF Delta
    <3>6. \A i \in Reseller : SweepDelta(i)' = SweepDelta(i)
      BY <3>1 DEF SweepDelta, CodesOf
    <3>7. /\ Delta(j, r)' = Delta(j, r) + job[j].n /\ job[j].n \in Int
          /\ \A i \in Reseller \ {r} : Delta(j, i)' = Delta(j, i)
      BY <3>1, <3>2, <3>5
    <3> QED BY <1>t, <3>1, <3>3, <3>4, <3>6, <3>7, LedgerMoves
  <2>5. CASE ReturnFlip(j) \/ ReturnRecount(j) \/ (ReturnPay(j) /\ Goto(j, "push"))
    <3>1. /\ job[j].kind = "return" /\ job[j].at \in {"read", "flipped", "counted"}
          /\ UNCHANGED <<booked, sweep, holder>>
      BY <2>5 DEF ReturnFlip, ReturnRecount, ReturnPay, codeVars, booked, history, counts
    <3>2. /\ \A i \in Job \ {j} : job'[i] = job[i]
          /\ job'[j].at # "log" /\ job'[j].kind = "return"
          /\ entries' = entries
      <4>1. CASE ReturnFlip(j)
        <5>1. Goto(j, "flipped") /\ entries' = entries BY <4>1 DEF ReturnFlip
        <5> QED BY <3>1, <5>1, GotoHas DEF Accounts
      <4>2. CASE ReturnRecount(j)
        BY <3>1, <4>2 DEF ReturnRecount, Accounts, JobsFit, JobRecord
      <4>3. CASE ReturnPay(j) /\ Goto(j, "push")
        <5>1. job'[j].at = "push" /\ job'[j].kind = "return" /\ \A i \in Job \ {j} : job'[i] = job[i]
          BY <3>1, <4>3, GotoHas DEF Accounts
        <5>2. ASSUME Goto(j, "log") PROVE FALSE
          <6>1. job'[j].at = "log" BY <5>2, GotoHas DEF Accounts
          <6> QED BY <5>1, <6>1
        <5> QED BY <4>3, <5>1, <5>2 DEF ReturnPay
      <4> QED BY <2>5, <4>1, <4>2, <4>3
    <3>3. \A r \in Reseller : Delta(j, r) = 0 /\ Delta(j, r)' = 0
      BY <3>1, <3>2 DEF Delta, Spend
    <3>4. \A r \in Reseller : SweepDelta(r)' = SweepDelta(r)
      BY <3>1 DEF SweepDelta, CodesOf
    <3> QED BY <1>t, <3>1, <3>2, <3>3, <3>4, LedgerKept DEF LedgerTyped
  <2>6. CASE (ReturnPay(j) /\ ~Goto(j, "push")) \/ ReturnPush(j)
    <3>1. /\ job[j].kind = "return" /\ job[j].at \in {"counted", "push"} /\ Goto(j, "log")
          /\ UNCHANGED <<booked, sweep, holder>>
          /\ \/ entries[job[j].by] # <<>> /\ Inc(job[j].by, job[j].n)
             \/ Push(job[j].by, job[j].n)
      BY <2>6 DEF ReturnPay, ReturnPush, codeVars, booked, history, counts
    <3>2. job[j].by \in Reseller /\ job[j].n \in Nat
      BY <2>0, <3>1 DEF InFlight, Running
    <3> PICK r \in Reseller : r = job[j].by BY <3>1, <3>2
    <3>3. /\ Total(entries'[job[j].by]) = Total(entries[job[j].by]) + job[j].n
          /\ \A i \in Reseller \ {job[j].by} : entries'[i] = entries[i]
      BY <3>1, <3>2, IncTotals, PushTotals
    <3>4. /\ \A i \in Job \ {j} : job'[i] = job[i]
          /\ job'[j].at = "log" /\ job'[j].kind = job[j].kind /\ job'[j].by = job[j].by
          /\ job'[j].n = job[j].n
      BY <3>1, GotoHas DEF Accounts
    <3>5. \A i \in Reseller : /\ Delta(j, i) = 0
                              /\ Delta(j, i)' = IF i = job[j].by THEN job[j].n ELSE 0
      BY <3>1, <3>4 DEF Delta, Row, Spend
    <3>6. \A i \in Reseller : SweepDelta(i)' = SweepDelta(i)
      BY <3>1 DEF SweepDelta, CodesOf
    <3>7. /\ Delta(j, r)' = Delta(j, r) + job[j].n /\ job[j].n \in Int
          /\ \A i \in Reseller \ {r} : Delta(j, i)' = Delta(j, i)
      BY <3>1, <3>2, <3>5
    <3> QED BY <1>t, <3>1, <3>3, <3>4, <3>6, <3>7, LedgerMoves
  <2>7. ASSUME NEW list \in {<<>>} \cup {<<q>> : q \in 0 .. MaxQty}, EditWrite(j, list)
        PROVE  LedgerInv'
    <3>0. job[j].by \in Reseller
      BY <2>0, <2>7 DEF EditWrite, InFlight, Running
    <3> PICK r \in Reseller : r = job[j].by BY <3>0
    <3>1. /\ job[j].kind = "edit" /\ job[j].at = "read" /\ UNCHANGED <<sweep, booked, holder>>
          /\ job[j].n = Held(entries[r]) /\ entries[r] \in Seq(Nat) /\ Len(entries[r]) <= 1
      BY <2>7 DEF EditWrite, codeVars, EntryInv, EditAlone, OneEntry, InFlight, Running, LedgerCalm, booked, history, counts,
                  Accounts, EntriesFit
    <3>2. /\ \A i \in Job \ {j} : job'[i] = job[i]
          /\ job'[j].at = "log" /\ job'[j].kind = "edit" /\ job'[j].by = r
          /\ job'[j].n = Held(list) - job[j].n
      BY <2>7 DEF EditWrite, Accounts, JobsFit, JobRecord
    <3>3. entries'[r] = list /\ \A i \in Reseller \ {r} : entries'[i] = entries[i]
      BY <2>7 DEF EditWrite, Accounts, EntriesFit
    <3>4. Total(list) = Held(list) /\ Held(list) \in Nat /\ Held(entries[r]) = Total(entries[r])
      BY <3>1, HeldType, HeldIsAll
    <3>5. \A i \in Reseller : /\ Delta(j, i) = 0
                              /\ Delta(j, i)' = IF i = r THEN Held(list) - job[j].n ELSE 0
      BY <3>1, <3>2 DEF Delta, Row, Spend
    <3>6. \A i \in Reseller : SweepDelta(i)' = SweepDelta(i)
      BY <3>1 DEF SweepDelta, CodesOf
    <3>7. /\ Delta(j, r)' = Delta(j, r) + (Held(list) - job[j].n) /\ Held(list) - job[j].n \in Int
          /\ \A i \in Reseller \ {r} : Delta(j, i)' = Delta(j, i)
      BY <2>0, <3>4, <3>5
    <3>8. Total(entries'[r]) = Total(entries[r]) + (Held(list) - job[j].n)
      BY <1>t, <3>1, <3>3, <3>4 DEF LedgerTyped
    <3> QED BY <1>t, <3>1, <3>2, <3>3, <3>6, <3>7, <3>8, LedgerMoves
  <2>8. CASE Log(j)
    <3>1. /\ job[j].at = "log" /\ Goto(j, "done") /\ UNCHANGED <<entries, sweep, holder>>
          /\ \A r \in Reseller : booked'[r] = booked[r] + Row(j, r)
      <4>1. PICK failed \in SUBSET Reseller : Record([r \in Reseller |-> Row(j, r)], failed)
        BY <2>8 DEF Log
      <4>2. \A r \in Reseller : Row(j, r) \in Int BY <2>0 DEF Row
      <4>3. \A r \in Reseller : booked'[r] = booked[r] + Row(j, r)
        BY <4>1, <4>2, RecordBooks
      <4> QED BY <2>8, <4>3 DEF Log, codeVars
    <3>2. /\ \A i \in Job \ {j} : job'[i] = job[i]
          /\ job'[j].at = "done"
      BY <3>1, GotoHas DEF Accounts
    <3>3. \A r \in Reseller : Delta(j, r) = Row(j, r) /\ Delta(j, r)' = 0
      BY <3>1, <3>2 DEF Delta
    <3>4. \A r \in Reseller : SweepDelta(r)' = SweepDelta(r)
      BY <3>1 DEF SweepDelta, CodesOf
    <3> QED BY <1>t, <3>1, <3>2, <3>3, <3>4, LedgerKept DEF LedgerTyped
  <2>9. EditWrites(j) => LedgerInv' BY <2>7 DEF EditWrites
  <2> QED BY <1>2, <2>1, <2>2, <2>3, <2>4, <2>5, <2>6, <2>8, <2>9 DEF Step, EditWrites
<1>3. ASSUME NEW j \in Job, Fault(j) PROVE LedgerInv'
  <2>1. Throw(j)
    BY <1>3 DEF Fault, LedgerCalm, GeneratePartly, SpendAndThrow, RefundThrows, ReturnThrows, Crash
  <2>2. /\ job[j].at \in {"deducted", "push"} /\ job[j].kind \in Spend /\ Goto(j, "refund")
        /\ UNCHANGED <<entries, sweep, booked, holder>>
    BY <2>1 DEF Throw, codeVars, booked, history, counts
  <2>3. /\ \A i \in Job \ {j} : job'[i] = job[i]
        /\ job'[j].at = "refund" /\ job'[j].kind = job[j].kind /\ job'[j].by = job[j].by
        /\ job'[j].n = job[j].n
    BY <2>2, GotoHas DEF Accounts
  <2>4. \A r \in Reseller : Delta(j, r)' = Delta(j, r)
    BY <2>2, <2>3 DEF Delta
  <2>5. \A r \in Reseller : SweepDelta(r)' = SweepDelta(r)
    BY <2>2 DEF SweepDelta, CodesOf
  <2> QED BY <1>t, <2>2, <2>3, <2>4, <2>5, LedgerKept DEF LedgerTyped
<1>4. ASSUME SweepNext PROVE LedgerInv'
  <2>0. /\ sweep.ids \subseteq Code /\ \A r : Cardinality(CodesOf(r)) \in Nat
        /\ sweep.at \in {"push", "log"} => sweep.paid \in Reseller
    BY CodesAreFinite DEF CodesOf, Accounts, SweepFits, EntriesFit
  <2>1. CASE SweepRecover \/ SweepRead \/ SweepFlip \/ SweepRecount \/ SweepEnd
    <3>1. /\ UNCHANGED <<job, entries, booked>>
          /\ sweep.at # "log" /\ sweep'.at # "log"
      <4> USE DEF Accounts, SweepFits, Asleep, booked, history, counts
      <4>1. CASE SweepRecover BY <4>1 DEF SweepRecover
      <4>2. CASE SweepRead BY <4>2 DEF SweepRead
      <4>3. CASE SweepFlip BY <4>3 DEF SweepFlip
      <4>4. CASE SweepRecount BY <4>4 DEF SweepRecount
      <4>5. CASE SweepEnd BY <4>5 DEF SweepEnd
      <4> QED BY <2>1, <4>1, <4>2, <4>3, <4>4, <4>5
    <3>2. \A r \in Reseller : SweepDelta(r)' = SweepDelta(r)
      BY <3>1 DEF SweepDelta
    <3> QED BY <1>t, <3>1, <3>2, LedgerSwept DEF LedgerTyped
  <2>2. CASE (\E r \in Reseller : SweepPay(r)) \/ SweepPush
    <3>1. ASSUME NEW r \in Reseller, job' = job, booked' = booked, sweep.at \in {"paying", "push"},
                 UNCHANGED <<entries, holder>>, sweep'.at = "push"
          PROVE  LedgerInv'
      <4>1. \A i \in Reseller : SweepDelta(i)' = SweepDelta(i) BY <3>1 DEF SweepDelta
      <4> QED BY <1>t, <3>1, <4>1, LedgerSwept DEF LedgerTyped
    <3>2. ASSUME NEW r \in Reseller, job' = job, booked' = booked, sweep.at \in {"paying", "push"},
                 holder' = holder, sweep'.at = "log", sweep'.paid = r, sweep'.ids = sweep.ids,
                 \/ entries[r] # <<>> /\ Inc(r, Cardinality(CodesOf(r)))
                 \/ Push(r, Cardinality(CodesOf(r)))
          PROVE  LedgerInv'
      <4>1. /\ Total(entries'[r]) = Total(entries[r]) + Cardinality(CodesOf(r))
            /\ \A i \in Reseller \ {r} : entries'[i] = entries[i]
        BY <2>0, <3>2, IncTotals, PushTotals
      <4>2. CodesOf(r)' = CodesOf(r) BY <3>2 DEF CodesOf
      <4>3. \A i \in Reseller : /\ SweepDelta(i) = 0
                                /\ SweepDelta(i)' = IF i = r THEN Cardinality(CodesOf(r)) ELSE 0
        BY <3>2, <4>2 DEF SweepDelta
      <4>4. ASSUME NEW i \in Reseller
            PROVE  Total(entries'[i]) - Total(entries[i])
                     = SweepDelta(i)' - SweepDelta(i) + booked'[i] - booked[i]
        <5>1. Total(entries[i]) \in Int /\ booked[i] \in Int /\ booked' = booked
          BY <1>t, <3>2 DEF LedgerTyped
        <5>2. CASE i = r BY <2>0, <4>1, <4>3, <5>1, <5>2
        <5>3. CASE i # r BY <4>1, <4>3, <5>1, <5>3
        <5> QED BY <5>2, <5>3
      <4> QED BY <1>t, <3>2, <4>4, LedgerSwept
    <3>3. ASSUME NEW r \in Reseller, SweepPay(r) PROVE LedgerInv'
      <4>1. job' = job /\ booked' = booked /\ sweep.at = "paying" /\ holder' = holder
        BY <3>3 DEF SweepPay, codeVars, booked, history, counts
      <4>2. CASE entries' = entries /\ sweep' = [sweep EXCEPT !.at = "push", !.paid = r]
        <5>1. sweep'.at = "push" BY <4>2 DEF Accounts, SweepFits
        <5> QED BY <3>1, <4>1, <4>2, <5>1
      <4>3. CASE /\ entries[r] # <<>> /\ Inc(r, Cardinality(CodesOf(r)))
                 /\ sweep' = [sweep EXCEPT !.at = "log", !.paid = r]
        <5>1. sweep'.at = "log" /\ sweep'.paid = r /\ sweep'.ids = sweep.ids
          BY <4>3 DEF Accounts, SweepFits
        <5> QED BY <3>2, <4>1, <4>3, <5>1
      <4> QED BY <3>3, <4>2, <4>3 DEF SweepPay
    <3>4. CASE SweepPush
      <4>1. PICK r \in Reseller : r = sweep.paid BY <2>0, <3>4 DEF SweepPush
      <4>2. /\ job' = job /\ booked' = booked /\ sweep.at = "push" /\ holder' = holder
            /\ Push(r, Cardinality(CodesOf(r)))
            /\ sweep'.at = "log" /\ sweep'.paid = r /\ sweep'.ids = sweep.ids
        BY <3>4, <4>1 DEF SweepPush, codeVars, Accounts, SweepFits, booked, history, counts
      <4> QED BY <3>2, <4>2
    <3> QED BY <2>2, <3>3, <3>4
  <2>3. CASE SweepLog
    <3>1. /\ sweep.at = "log" /\ UNCHANGED <<job, entries>> /\ sweep.paid \in Reseller
          /\ sweep'.at = "paying"
          /\ \A r \in Reseller :
               booked'[r] = booked[r] + (IF r = sweep.paid THEN Cardinality(CodesOf(r)) ELSE 0)
      <4> DEFINE q == [r \in Reseller |-> IF r = sweep.paid THEN Cardinality(CodesOf(r)) ELSE 0]
      <4>1. PICK failed \in SUBSET {sweep.paid} : Record(q, failed) BY <2>3 DEF SweepLog
      <4>2. \A r \in Reseller : q[r] \in Int BY <2>0
      <4>3. \A r \in Reseller : booked'[r] = booked[r] + q[r]
        <5> HIDE DEF q
        <5> QED BY <4>1, <4>2, RecordBooks
      <4> QED BY <2>0, <2>3, <4>3 DEF SweepLog, Accounts, SweepFits
    <3>2. \A r \in Reseller :
            /\ SweepDelta(r) = IF r = sweep.paid THEN Cardinality(CodesOf(r)) ELSE 0
            /\ SweepDelta(r)' = 0
            /\ booked'[r] = IF r = sweep.paid THEN booked[r] + Cardinality(CodesOf(r)) ELSE booked[r]
      BY <1>t, <3>1 DEF SweepDelta, LedgerTyped
    <3> QED BY <1>t, <2>0, <3>1, <3>2, LedgerSwept DEF LedgerTyped
  <2> QED BY <1>4, <2>1, <2>2, <2>3 DEF SweepNext
<1>5. CASE (\E c \in Code : CodeNext(c)) \/ ListExpire \/ UNCHANGED vars
  <2>1. UNCHANGED <<job, entries, sweep, booked, holder>>
    BY <1>5 DEF CodeNext, Claim, EndClaim, RedeemDies, Lapse, BulkRevoke, BulkRestore, ListExpire,
                vars, codeVars, history, counts, booked
  <2>2. \A r \in Reseller : SweepDelta(r)' = SweepDelta(r)
    BY <2>1 DEF SweepDelta, CodesOf
  <2> QED BY <1>t, <2>1, <2>2, LedgerSwept DEF LedgerTyped
<1>6. ~SweepFails BY DEF SweepFails, LedgerCalm
<1> QED BY <1>1, <1>2, <1>3, <1>4, <1>5, <1>6 DEF Next

(* Unless an edit overlaps another handler, two handlers push one entry,   *)
(* or a call of a return or of a refund is lost: when nobody is at work,   *)
(* each account's rows add up to its credit, whatever rows recordCreditTx  *)
(* fails to create, but for these rows.                                    *)
THEOREM LedgerBalances ==
  ASSUME LedgerCalm PROVE Spec => []LedgerAddsUp
<1>1. Init => LedgerInv
  <2> SUFFICES ASSUME Init, NEW r \in Reseller
               PROVE  Total(entries[r]) = booked[r] + Unlogged(r) + SweepDelta(r)
    BY DEF LedgerInv
  <2>1. Initial[r] \in Nat BY InitialAssumption
  <2>2. Total(entries[r]) = Initial[r] /\ booked[r] = Initial[r]
    BY <2>1, TotalOfNone, TotalOfOne DEF Init, booked
  <2>3. SweepDelta(r) = 0 BY DEF Init, SweepDelta, Asleep
  <2>4. \A j \in Job : Delta(j, r) = 0 BY DEF Init, Delta, Free
  <2>5. Unlogged(r) = 0
    <3> DEFINE f == [j \in Job |-> Delta(j, r)]
    <3>1. \A j \in Job : f[j] = 0 BY <2>4
    <3> HIDE DEF f
    <3>2. SumOf(f, Job) = 0 BY <3>1, FiniteAssumption, SumOfZeros
    <3> QED BY <3>2 DEF Unlogged, f
  <2> QED BY <2>1, <2>2, <2>3, <2>5
<1>2. Accounts /\ Accounts' /\ EntryInv /\ LedgerInv /\ [Next]_vars => LedgerInv'
  BY LedgerStep
<1>3. Accounts /\ EntryInv /\ [Next]_vars => Accounts' /\ EntryInv'
  BY AccountsStep, EntriesStep DEF LedgerCalm
<1>4. Accounts /\ LedgerInv => LedgerAddsUp
  <2> SUFFICES ASSUME Accounts, LedgerInv, sweep.at = "idle", \A j \in Job : ~InFlight(j),
                      NEW r \in Reseller
               PROVE  booked[r] = Total(entries[r])
    BY DEF LedgerAddsUp, booked
  <2>1. SweepDelta(r) = 0 BY DEF SweepDelta
  <2>2. \A j \in Job : Delta(j, r) = 0 BY DEF Delta, InFlight, Running
  <2>3. Unlogged(r) = 0
    <3> DEFINE f == [j \in Job |-> Delta(j, r)]
    <3>1. \A j \in Job : f[j] = 0 BY <2>2
    <3> HIDE DEF f
    <3>2. SumOf(f, Job) = 0 BY <3>1, FiniteAssumption, SumOfZeros
    <3> QED BY <3>2 DEF Unlogged, f
  <2>4. booked[r] \in Int BY DEF Accounts, SumsFit, booked
  <2> QED BY <2>1, <2>3, <2>4 DEF LedgerInv
<1> QED BY <1>1, <1>2, <1>3, <1>4, CreditStarts, EntriesStart, PTL DEF Spec

-----------------------------------------------------------------------------
(* Where the credit is.                                                    *)

Credit == SumOf([r \in Reseller |-> Total(entries[r])], Reseller)
Coded == SumOf([c \in Code |-> Worth(c)], Code)
OnItsWay == SumOf([j \in Job |-> Reserved(j)], Job)

(* What is accounted for beyond what was granted.                          *)
Surplus == Credit + Coded + OnItsWay + renewals - granted

MoneyTyped ==
  /\ \A r \in Reseller : entries[r] \in Seq(Nat) /\ Total(entries[r]) \in Nat
  /\ \A c \in Code : Worth(c) \in Nat
  /\ \A j \in Job : Reserved(j) \in Nat /\ job[j].n \in Int
  /\ Credit \in Int /\ Coded \in Int /\ OnItsWay \in Int
  /\ renewals \in Int /\ granted \in Int /\ Surplus \in Int
  /\ Accounted - granted = Surplus

LEMMA MoneyTypes == Accounts => MoneyTyped
<1> SUFFICES ASSUME Accounts PROVE MoneyTyped OBVIOUS
<1>1. \A r \in Reseller : entries[r] \in Seq(Nat) /\ Total(entries[r]) \in Nat
  BY TotalType DEF Accounts, EntriesFit
<1>2. \A c \in Code : Worth(c) \in Nat BY DEF Worth
<1>3. \A j \in Job : Reserved(j) \in Nat /\ job[j].n \in Int
  BY DEF Accounts, JobsFit, JobRecord, Fits, Reserved, Spend
<1> DEFINE f == [r \in Reseller |-> Total(entries[r])]
           g == [c \in Code |-> Worth(c)]
           h == [j \in Job |-> Reserved(j)]
<1>4. \A r \in Reseller : f[r] \in Int BY <1>1
<1>5. \A c \in Code : g[c] \in Int BY <1>2
<1>6. \A j \in Job : h[j] \in Int BY <1>3
<1>7. IsFiniteSet(Code) BY CodesAreFinite
<1>8. Credit = SumOf(f, Reseller) /\ Coded = SumOf(g, Code) /\ OnItsWay = SumOf(h, Job)
  BY DEF Credit, Coded, OnItsWay
<1> HIDE DEF f, g, h
<1>9. Credit \in Int /\ Coded \in Int /\ OnItsWay \in Int
  BY <1>4, <1>5, <1>6, <1>7, <1>8, FiniteAssumption, SumType
<1>10. Accounted = Credit + Coded + OnItsWay + renewals
  BY DEF Accounted, Credit, Coded, OnItsWay
<1>11. renewals \in Int /\ granted \in Int BY DEF Accounts, SumsFit
<1> HIDE DEF Credit, Coded, OnItsWay
<1>12. Surplus \in Int /\ Accounted - granted = Surplus BY <1>9, <1>10, <1>11 DEF Surplus
<1> QED BY <1>1, <1>2, <1>3, <1>9, <1>11, <1>12 DEF MoneyTyped

LEMMA CreditMoves ==
  ASSUME MoneyTyped, MoneyTyped', NEW r \in Reseller, NEW d \in Int,
         Total(entries'[r]) = Total(entries[r]) + d,
         \A i \in Reseller \ {r} : entries'[i] = entries[i]
  PROVE  Credit' = Credit + d
<1> DEFINE f == [i \in Reseller |-> Total(entries[i])]
           g == [i \in Reseller |-> Total(entries'[i])]
<1>1. \A i \in Reseller : f[i] \in Int /\ g[i] \in Int BY DEF MoneyTyped
<1>2. \A i \in Reseller \ {r} : g[i] = f[i] OBVIOUS
<1>3. g[r] = f[r] + d OBVIOUS
<1>4. Credit = SumOf(f, Reseller) /\ Credit' = SumOf(g, Reseller) BY DEF Credit
<1> HIDE DEF f, g
<1>5. SumOf(g, Reseller) = SumOf(f, Reseller) - f[r] + g[r]
  BY <1>1, <1>2, FiniteAssumption, SumChanges
<1>6. Credit \in Int BY DEF MoneyTyped
<1> QED BY <1>1, <1>3, <1>4, <1>5, <1>6

LEMMA CreditStays == ASSUME entries' = entries PROVE Credit' = Credit
  BY DEF Credit

LEMMA ReservedMoves ==
  ASSUME MoneyTyped, MoneyTyped', NEW j \in Job, \A i \in Job \ {j} : job'[i] = job[i]
  PROVE  OnItsWay' = OnItsWay - Reserved(j) + Reserved(j)'
<1> DEFINE f == [i \in Job |-> Reserved(i)]
           g == [i \in Job |-> Reserved(i)']
<1>1. \A i \in Job : f[i] \in Int /\ g[i] \in Int BY DEF MoneyTyped
<1>2. \A i \in Job \ {j} : g[i] = f[i] BY DEF Reserved
<1>3. OnItsWay = SumOf(f, Job) /\ OnItsWay' = SumOf(g, Job) BY DEF OnItsWay
<1>4. f[j] = Reserved(j) /\ g[j] = Reserved(j)' OBVIOUS
<1> HIDE DEF f, g
<1>5. SumOf(g, Job) = SumOf(f, Job) - f[j] + g[j] BY <1>1, <1>2, FiniteAssumption, SumChanges
<1> QED BY <1>3, <1>4, <1>5

LEMMA ReservedStays == ASSUME job' = job PROVE OnItsWay' = OnItsWay
  BY DEF OnItsWay, Reserved

(* A code's worth changes only when it is minted or paid back.             *)
LEMMA CodesKept ==
  ASSUME Accounts, OnceInv, OnceInv', holder' = holder, returned' = returned
  PROVE  Coded' = Coded
<1> DEFINE f == [c \in Code |-> Worth(c)]
           g == [c \in Code |-> Worth(c)']
<1>1. \A c \in Code : f[c] = g[c]
  BY DEF OnceInv, ReturnedOnce, Worth
<1>2. Coded = SumOf(f, Code) /\ Coded' = SumOf(g, Code) BY DEF Coded
<1>3. IsFiniteSet(Code) BY CodesAreFinite
<1> HIDE DEF f, g
<1> QED BY <1>1, <1>2, <1>3, SumSame

LEMMA CodesPaid ==
  ASSUME MoneyTyped, OnceInv, OnceInv', holder' = holder, NEW S \in SUBSET Code, CountReturned(S),
         \A c \in S : holder[c] # NoOne /\ returned[c] = 0
  PROVE  Coded' = Coded - Cardinality(S)
<1> DEFINE f == [c \in Code |-> Worth(c)]
           g == [c \in Code |-> Worth(c)']
<1>0. \A c \in Code : returned[c] \in Nat BY DEF OnceInv, Shapes
<1>1. \A c \in Code : returned'[c] = IF c \in S THEN returned[c] + 1 ELSE returned[c]
  BY <1>0 DEF CountReturned
<1>2. \A c \in Code : g[c] = IF c \in S THEN f[c] + (-1) ELSE f[c]
  <2> SUFFICES ASSUME NEW c \in Code PROVE Worth(c)' = IF c \in S THEN Worth(c) + (-1) ELSE Worth(c)
    OBVIOUS
  <2>1. CASE c \in S
    <3>1. Worth(c) = 1 BY <2>1 DEF Worth
    <3>2. returned'[c] = 1 BY <1>1, <2>1
    <3>3. Worth(c)' = 0 BY <3>2 DEF Worth, OnceInv, ReturnedOnce
    <3> QED BY <2>1, <3>1, <3>3
  <2>2. CASE c \notin S
    BY <1>0, <1>1, <2>2 DEF Worth, OnceInv, ReturnedOnce
  <2> QED BY <2>1, <2>2
<1>3. Coded = SumOf(f, Code) /\ Coded' = SumOf(g, Code) BY DEF Coded
<1>4. IsFiniteSet(Code) /\ Cardinality(S) \in Nat BY CodesAreFinite
<1>5. \A c \in Code : f[c] \in Int BY DEF MoneyTyped
<1> HIDE DEF f, g
<1>6. SumOf(g, Code) = SumOf(f, Code) + (-1) * Cardinality(S)
  BY <1>2, <1>4, <1>5, SumShifts
<1>7. SumOf(f, Code) \in Int BY <1>3 DEF MoneyTyped
<1> QED BY <1>3, <1>4, <1>6, <1>7

LEMMA CodesMinted ==
  ASSUME MoneyTyped, OnceInv, OnceInv', returned' = returned, NEW r \in Reseller \cup {NoOne},
         NEW cs, cs \subseteq {c \in Code : status[c] = "NONE"}, Mint(cs, r)
  PROVE  Coded' = IF r = NoOne THEN Coded ELSE Coded + Cardinality(cs)
<1> DEFINE f == [c \in Code |-> Worth(c)]
           g == [c \in Code |-> Worth(c)']
           d == IF r = NoOne THEN 0 ELSE 1
<1>1. \A c \in cs : holder[c] = NoOne /\ returned[c] = 0
  BY DEF OnceInv, CodesMakeSense, ReturnedOnce, Dead, Shapes
<1>2. \A c \in Code : holder'[c] = IF c \in cs THEN r ELSE holder[c]
  BY DEF Mint
<1>3. \A c \in Code : g[c] = IF c \in cs THEN f[c] + d ELSE f[c]
  <2> SUFFICES ASSUME NEW c \in Code PROVE Worth(c)' = IF c \in cs THEN Worth(c) + d ELSE Worth(c)
    OBVIOUS
  <2>1. CASE c \in cs
    <3>1. Worth(c) = 0 BY <1>1, <2>1 DEF Worth
    <3>2. Worth(c)' = d BY <1>1, <1>2, <2>1 DEF Worth
    <3> QED BY <2>1, <3>1, <3>2
  <2>2. CASE c \notin cs
    BY <1>2, <2>2 DEF Worth, OnceInv, ReturnedOnce
  <2> QED BY <2>1, <2>2
<1>4. Coded = SumOf(f, Code) /\ Coded' = SumOf(g, Code) BY DEF Coded
<1>5. IsFiniteSet(Code) /\ cs \in SUBSET Code /\ Cardinality(cs) \in Nat BY CodesAreFinite
<1>6. \A c \in Code : f[c] \in Int BY DEF MoneyTyped
<1>7. d \in Int /\ d * Cardinality(cs) = IF r = NoOne THEN 0 ELSE Cardinality(cs)
  BY <1>5
<1> HIDE DEF f, g, d
<1>8. SumOf(g, Code) = SumOf(f, Code) + d * Cardinality(cs)
  BY <1>3, <1>5, <1>6, <1>7, SumShifts
<1>9. SumOf(f, Code) \in Int BY <1>4 DEF MoneyTyped
<1> QED BY <1>4, <1>7, <1>8, <1>9

-----------------------------------------------------------------------------
(* No request takes a code another one has paid for.                       *)
Booking(j) == IF job[j].kind = "generate" /\ job[j].at = "deducted" THEN job[j].n ELSE 0

Bookings == SumOf([j \in Job |-> Booking(j)], Job)

Booked == Bookings <= Cardinality(Unminted)

BookingsTyped ==
  (\A j \in Job : Booking(j) \in Nat) /\ Bookings \in Nat

LEMMA BookingTypes == Accounts => BookingsTyped
<1> SUFFICES ASSUME Accounts PROVE BookingsTyped OBVIOUS
<1>1. \A j \in Job : Booking(j) \in Nat BY DEF Accounts, JobsFit, Fits, Booking
<1> DEFINE f == [j \in Job |-> Booking(j)]
<1>2. \A j \in Job : f[j] \in Nat BY <1>1
<1>3. Bookings = SumOf(f, Job) BY DEF Bookings
<1> HIDE DEF f
<1>4. SumOf(f, Job) \in Nat BY <1>2, FiniteAssumption, SumIsNatural
<1> QED BY <1>1, <1>3, <1>4 DEF BookingsTyped

LEMMA BookingsMove ==
  ASSUME BookingsTyped, BookingsTyped', NEW j \in Job, \A i \in Job \ {j} : job'[i] = job[i]
  PROVE  Bookings' = Bookings - Booking(j) + Booking(j)'
<1> DEFINE f == [i \in Job |-> Booking(i)]
           g == [i \in Job |-> Booking(i)']
<1>1. \A i \in Job : f[i] \in Int /\ g[i] \in Int BY DEF BookingsTyped
<1>2. \A i \in Job \ {j} : g[i] = f[i] BY DEF Booking
<1>3. Bookings = SumOf(f, Job) /\ Bookings' = SumOf(g, Job) BY DEF Bookings
<1>4. f[j] = Booking(j) /\ g[j] = Booking(j)' OBVIOUS
<1> HIDE DEF f, g
<1>5. SumOf(g, Job) = SumOf(f, Job) - f[j] + g[j] BY <1>1, <1>2, FiniteAssumption, SumChanges
<1> QED BY <1>3, <1>4, <1>5

(* One request's booking is part of all of them.                           *)
LEMMA BookingFits ==
  ASSUME BookingsTyped, Booked, NEW j \in Job
  PROVE  Booking(j) <= Cardinality(Unminted)
<1> DEFINE f == [i \in Job |-> Booking(i)]
<1>1. \A i \in Job : f[i] \in Nat BY DEF BookingsTyped
<1>2. Bookings = SumOf(f, Job) BY DEF Bookings
<1>3. f[j] = Booking(j) OBVIOUS
<1> HIDE DEF f
<1>4. IsFiniteSet(Job) /\ IsFiniteSet(Job \ {j}) BY FiniteAssumption, FS_Subset
<1>5. SumOf(f, Job) = SumOf(f, Job \ {j}) + f[j] BY <1>1, <1>4, SumWithout
<1>6. SumOf(f, Job \ {j}) \in Nat BY <1>1, <1>4, SumIsNatural
<1>7. Cardinality(Unminted) \in Nat BY CodesAreFinite DEF Unminted
<1> QED BY <1>1, <1>2, <1>3, <1>5, <1>6, <1>7 DEF Booked

(* At most n codes are minted for n credits, and n when there are as many. *)
LEMMA NextAreCounted ==
  ASSUME NEW n \in Nat
  PROVE  /\ Cardinality(NextCodes(n)) \in Nat /\ Cardinality(NextCodes(n)) <= n
         /\ n <= Cardinality(Unminted) => Cardinality(NextCodes(n)) = n
<1>1. /\ Unminted \subseteq Nat /\ IsFiniteSet(Unminted) /\ Cardinality(Unminted) \in Nat
      /\ NextCodes(n) \subseteq Unminted
  BY CodesAreFinite DEF Unminted, Code, NextCodes
<1>2. n <= Cardinality(Unminted) => Cardinality(NextCodes(n)) = n
  BY <1>1, FirstAreCounted DEF NextCodes
<1>3. Cardinality(NextCodes(n)) \in Nat /\ Cardinality(NextCodes(n)) <= Cardinality(Unminted)
  BY <1>1, FS_Subset, FS_CardinalityType
<1> QED BY <1>1, <1>2, <1>3

-----------------------------------------------------------------------------
(* No step makes credit.                                                   *)

MoneyCalm == OnceCalm /\ "editRace" \notin Hazards

CostCalm ==
  MoneyCalm /\ {"pushRace", "halfWrite", "refundFails", "crash"} \cap Hazards = {}

(* A step that makes no credit, and loses none unless a failure does.      *)
NoneMade ==
  Surplus' <= Surplus /\ (CostCalm /\ Booked => Surplus' = Surplus)

LEMMA SurplusMoves ==
  ASSUME MoneyTyped, MoneyTyped', NEW a \in Int, NEW b \in Int, NEW d \in Int, NEW e \in Int,
         Credit' = Credit + a, Coded' = Coded + b, OnItsWay' = OnItsWay + d,
         renewals' + granted = renewals + granted' + e
  PROVE  /\ Surplus' = Surplus + (a + b + d + e)
         /\ a + b + d + e = 0 => NoneMade
<1> DEFINE t == a + b + d + e
<1>1. /\ Credit \in Int /\ Coded \in Int /\ OnItsWay \in Int /\ renewals \in Int /\ granted \in Int
      /\ Surplus \in Int
  BY DEF MoneyTyped
<1>0. /\ Credit' \in Int /\ Coded' \in Int /\ OnItsWay' \in Int /\ renewals' \in Int
       /\ granted' \in Int
  BY DEF MoneyTyped
<1>2. Surplus' = Credit' + Coded' + OnItsWay' + renewals' - granted' BY DEF Surplus
<1>3. Surplus = Credit + Coded + OnItsWay + renewals - granted BY DEF Surplus
<1>4. Surplus' = Surplus + t
  <2>1. Credit' + Coded' + OnItsWay' + renewals' - granted'
          = (Credit + Coded + OnItsWay + renewals - granted) + (a + b + d + e)
    <3>1. PICK v \in Int, w \in Int, x \in Int, y \in Int, z \in Int :
            v = Credit /\ w = Coded /\ x = OnItsWay /\ y = renewals /\ z = granted
      BY <1>1
    <3>2. PICK v1 \in Int, w1 \in Int, x1 \in Int, y1 \in Int, z1 \in Int :
            v1 = Credit' /\ w1 = Coded' /\ x1 = OnItsWay' /\ y1 = renewals' /\ z1 = granted'
      BY <1>0
    <3>3. v1 = v + a /\ w1 = w + b /\ x1 = x + d /\ y1 + z = y + z1 + e BY <3>1, <3>2
    <3>4. v1 + w1 + x1 + y1 - z1 = (v + w + x + y - z) + (a + b + d + e)
      BY <3>3
    <3> QED BY <3>1, <3>2, <3>4
  <2> QED BY <1>2, <1>3, <2>1
<1>5. t = 0 => NoneMade BY <1>1, <1>4 DEF NoneMade
<1> QED BY <1>4, <1>5

(* A handler goes on, and neither credit nor codes change.                 *)
LEMMA JobOnly ==
  ASSUME Accounts, Accounts', OnceInv, OnceInv', NEW j \in Job, \A i \in Job \ {j} : job'[i] = job[i],
         UNCHANGED <<entries, holder, returned, renewals, granted>>
  PROVE  /\ Surplus' = Surplus + (Reserved(j)' - Reserved(j))
         /\ Reserved(j)' = Reserved(j) => NoneMade
<1>1. MoneyTyped /\ MoneyTyped' BY MoneyTypes, PTL
<1>2. Credit' = Credit /\ Coded' = Coded BY CreditStays, CodesKept
<1>3. OnItsWay' = OnItsWay - Reserved(j) + Reserved(j)' BY <1>1, ReservedMoves
<1>4. Reserved(j) \in Int /\ Reserved(j)' \in Int BY <1>1 DEF MoneyTyped
<1>5. Credit \in Int /\ Coded \in Int /\ OnItsWay \in Int /\ renewals \in Int /\ granted \in Int
  BY <1>1 DEF MoneyTyped
<1> DEFINE d == Reserved(j)' - Reserved(j)
<1>6. d \in Int /\ OnItsWay' = OnItsWay + d BY <1>3, <1>4, <1>5
<1>7. Credit' = Credit + 0 /\ Coded' = Coded + 0 /\ renewals' + granted = renewals + granted' + 0
  BY <1>2, <1>5
<1>8. Reserved(j)' = Reserved(j) => d = 0 BY <1>4
<1> HIDE DEF d
<1>9. Surplus' = Surplus + (0 + 0 + d + 0) /\ (0 + 0 + d + 0 = 0 => NoneMade)
  BY <1>1, <1>6, <1>7, SurplusMoves
<1>10. 0 + 0 + d + 0 = d BY <1>6
<1> QED BY <1>8, <1>9, <1>10 DEF d

(* Neither handlers, credit nor the counts change: only codes' status may. *)
LEMMA NothingMoves ==
  ASSUME Accounts, Accounts', OnceInv, OnceInv',
         UNCHANGED <<job, entries, holder, returned, renewals, granted>>
  PROVE  NoneMade
<1>1. MoneyTyped /\ MoneyTyped' BY MoneyTypes, PTL
<1>2. Credit' = Credit /\ Coded' = Coded /\ OnItsWay' = OnItsWay
  BY CreditStays, CodesKept, ReservedStays
<1>3. Credit \in Int /\ Coded \in Int /\ OnItsWay \in Int /\ renewals \in Int /\ granted \in Int
  BY <1>1 DEF MoneyTyped
<1>4. /\ Credit' = Credit + 0 /\ Coded' = Coded + 0 /\ OnItsWay' = OnItsWay + 0
      /\ renewals' + granted = renewals + granted' + 0
  BY <1>2, <1>3
<1> HIDE DEF Credit, Coded, OnItsWay
<1>5. 0 + 0 + 0 + 0 = 0 => NoneMade BY <1>1, <1>4, SurplusMoves
<1> QED BY <1>5

(* Codes are paid for: the account gains what they were worth.             *)
LEMMA Repays ==
  ASSUME Accounts, Accounts', OnceInv, OnceInv', NEW S \in SUBSET Code, CountReturned(S),
         \A c \in S : holder[c] # NoOne /\ returned[c] = 0,
         NEW r \in Reseller,
         \/ entries[r] # <<>> /\ Inc(r, Cardinality(S))
         \/ Push(r, Cardinality(S)),
         OnItsWay' = OnItsWay,
         UNCHANGED <<holder, renewals, granted>>
  PROVE  NoneMade
<1>1. MoneyTyped /\ MoneyTyped' BY MoneyTypes, PTL
<1>2. Cardinality(S) \in Nat BY CodesAreFinite
<1>3. /\ Total(entries'[r]) = Total(entries[r]) + Cardinality(S)
      /\ \A i \in Reseller \ {r} : entries'[i] = entries[i]
  BY <1>2, IncTotals, PushTotals
<1>4. Credit' = Credit + Cardinality(S) BY <1>1, <1>2, <1>3, CreditMoves
<1>5. Coded' = Coded - Cardinality(S) BY <1>1, CodesPaid
<1>6. Credit \in Int /\ Coded \in Int /\ OnItsWay \in Int /\ renewals \in Int /\ granted \in Int
  BY <1>1 DEF MoneyTyped
<1> DEFINE n == Cardinality(S)
           m == 0 - n
<1>7. n \in Int /\ m \in Int /\ n + m + 0 + 0 = 0 BY <1>2
<1>8. /\ Credit' = Credit + n /\ Coded' = Coded + m /\ OnItsWay' = OnItsWay + 0
      /\ renewals' + granted = renewals + granted' + 0
  BY <1>2, <1>4, <1>5, <1>6
<1> HIDE DEF Credit, Coded, OnItsWay, n, m
<1> QED BY <1>1, <1>7, <1>8, SurplusMoves

(* What an account gains or loses is what a handler holds less or more.    *)
LEMMA Settles ==
  ASSUME Accounts, Accounts', OnceInv, OnceInv', NEW j \in Job, \A i \in Job \ {j} : job'[i] = job[i],
         NEW r \in Reseller, NEW n \in Int,
         Total(entries'[r]) = Total(entries[r]) + n, \A i \in Reseller \ {r} : entries'[i] = entries[i],
         Reserved(j)' = Reserved(j) - n,
         UNCHANGED <<holder, returned, renewals, granted>>
  PROVE  NoneMade
<1>1. MoneyTyped /\ MoneyTyped' BY MoneyTypes, PTL
<1>2. Credit' = Credit + n BY <1>1, CreditMoves
<1>3. Coded' = Coded BY CodesKept
<1>4. OnItsWay' = OnItsWay - Reserved(j) + Reserved(j)' BY <1>1, ReservedMoves
<1>5. Credit \in Int /\ Coded \in Int /\ OnItsWay \in Int /\ renewals \in Int /\ granted \in Int
  BY <1>1 DEF MoneyTyped
<1> DEFINE m == 0 - n
<1>6. m \in Int /\ n + 0 + m + 0 = 0 OBVIOUS
<1>6a. Reserved(j) \in Int BY <1>1 DEF MoneyTyped
<1>6b. OnItsWay' = OnItsWay + m BY <1>4, <1>5, <1>6a
<1>7. /\ Credit' = Credit + n /\ Coded' = Coded + 0 /\ OnItsWay' = OnItsWay + m
      /\ renewals' + granted = renewals + granted' + 0
  BY <1>2, <1>3, <1>5, <1>6b
<1> HIDE DEF m
<1>8. n + 0 + m + 0 = 0 => NoneMade BY <1>1, <1>6, <1>7, SurplusMoves
<1> QED BY <1>6, <1>8

(* A handler that is lost takes along what it holds.                       *)
LEMMA Loses ==
  ASSUME Accounts, Accounts', OnceInv, OnceInv', NEW j \in Job, \A i \in Job \ {j} : job'[i] = job[i],
         UNCHANGED <<entries, holder, returned, renewals, granted>>,
         Reserved(j)' = 0, ~CostCalm
  PROVE  NoneMade
<1>1. Surplus' = Surplus + (Reserved(j)' - Reserved(j)) BY JobOnly
<1>2. MoneyTyped BY MoneyTypes
<1>3. Surplus \in Int /\ Reserved(j) \in Nat BY <1>2 DEF MoneyTyped
<1> QED BY <1>1, <1>3 DEF NoneMade

(* An entry's last quantity is no more than the account holds.             *)
LEMMA HeldIsPart ==
  ASSUME NEW list \in Seq(Nat)
  PROVE  Held(list) \in Nat /\ Held(list) <= Total(list)
<1>0. Total(list) \in Nat BY TotalType
<1>1. CASE list = <<>> BY <1>0, <1>1 DEF Held
<1>2. CASE list # <<>>
  <2> DEFINE e == Len(list)
  <2>1. list \in Seq(Int) /\ \A i \in DOMAIN list : list[i] \in Nat OBVIOUS
  <2>2. IsFiniteSet(DOMAIN list) /\ DOMAIN list = 1 .. Len(list) /\ Len(list) \in Nat
    BY <2>1, DomainIsFinite
  <2>3. e \in DOMAIN list BY <1>2, <2>2
  <2>4. IsFiniteSet(DOMAIN list \ {e}) BY <2>2, FS_Subset
  <2>5. SumOf(list, DOMAIN list) = SumOf(list, DOMAIN list \ {e}) + list[e]
    <3> HIDE DEF e
    <3> QED BY <2>1, <2>2, <2>3, SumWithout
  <2>6. SumOf(list, DOMAIN list \ {e}) \in Nat
    <3> HIDE DEF e
    <3> QED BY <2>1, <2>4, SumIsNatural
  <2>7. Held(list) = list[e] BY <1>2 DEF Held
  <2> QED BY <2>1, <2>3, <2>5, <2>6, <2>7 DEF Total
<1> QED BY <1>1, <1>2
(* Codes are minted for credit a handler holds, one for one at the most.   *)
LEMMA Mints ==
  ASSUME Accounts, Accounts', OnceInv, OnceInv', NEW j \in Job, Generate(j)
  PROVE  NoneMade
<1>0. Fits(job[j], created) BY DEF Accounts, JobsFit
<1>1. MoneyTyped /\ MoneyTyped' BY MoneyTypes, PTL
<1> PICK n \in Nat : n = job[j].n BY <1>0 DEF Generate, Fits
<1> PICK r \in Reseller : r = job[j].by
  BY <1>0 DEF Generate, Fits, Running, Accounts, EntriesFit
<1> DEFINE k == Cardinality(NextCodes(n))
<1>2. /\ job[j].at = "deducted" /\ job[j].kind = "generate" /\ Goto(j, "log")
      /\ Mint(NextCodes(n), r)
      /\ UNCHANGED <<entries, returned, renewals, granted>>
  BY DEF Generate, history, counts
<1>3. k \in Nat /\ k <= n BY NextAreCounted
<1>4. Credit' = Credit BY <1>2, CreditStays
<1>5. Coded' = Coded + k
  <2>1. NextCodes(n) \subseteq {c \in Code : status[c] = "NONE"} BY NextAreUnminted
  <2>2. r # NoOne OBVIOUS
  <2> QED BY <1>1, <1>2, <2>1, <2>2, CodesMinted
<1>6. /\ \A i \in Job \ {j} : job'[i] = job[i]
      /\ job'[j].at = "log" /\ job'[j].kind = "generate"
  BY <1>2, GotoHas DEF Accounts
<1>7. Reserved(j) = n /\ Reserved(j)' = 0
  BY <1>2, <1>6 DEF Reserved, Spend
<1>8. OnItsWay' = OnItsWay - n + 0 BY <1>1, <1>6, <1>7, ReservedMoves
<1>9. /\ Credit \in Int /\ Coded \in Int /\ OnItsWay \in Int /\ renewals \in Int /\ granted \in Int
      /\ Surplus \in Int
  BY <1>1 DEF MoneyTyped
<1> DEFINE m == 0 - n
<1>10. k \in Int /\ m \in Int /\ 0 + k + m + 0 = k - n BY <1>3
<1>11. /\ Credit' = Credit + 0 /\ Coded' = Coded + k /\ OnItsWay' = OnItsWay + m
       /\ renewals' + granted = renewals + granted' + 0
  BY <1>2, <1>3, <1>4, <1>5, <1>8, <1>9
<1>12. Surplus' = Surplus + (k - n)
  <2> HIDE DEF m, k
  <2>1. Surplus' = Surplus + (0 + k + m + 0) BY <1>1, <1>10, <1>11, SurplusMoves
  <2> QED BY <1>10, <2>1
<1>13. Booked => k = n
  <2> SUFFICES ASSUME Booked PROVE k = n OBVIOUS
  <2>1. BookingsTyped BY BookingTypes
  <2>2. Booking(j) = n BY <1>2 DEF Booking
  <2>3. n <= Cardinality(Unminted) BY <2>1, <2>2, BookingFits
  <2> QED BY <2>3, NextAreCounted
<1> HIDE DEF k
<1> QED BY <1>3, <1>9, <1>12, <1>13 DEF NoneMade

(* What a renewal, a transfer and an allotment are charged for.            *)
LEMMA Pays ==
  ASSUME Accounts, Accounts', OnceInv, OnceInv', NEW j \in Job, Perform(j, "log"),
         UNCHANGED <<holder, returned, granted>>
  PROVE  NoneMade
<1>0. Fits(job[j], created) /\ job[j] \in JobRecord BY DEF Accounts, JobsFit
<1>1. MoneyTyped /\ MoneyTyped' BY MoneyTypes, PTL
<1>2. /\ \A i \in Job \ {j} : job'[i] = job[i]
      /\ job'[j].at = "log" /\ job'[j].kind = job[j].kind
  BY GotoHas DEF Accounts, Perform
<1>3. Reserved(j)' = 0 BY <1>2 DEF Reserved
<1>4. CASE Renew(j)
  <2>1. renewals' = renewals + 1 /\ entries' = entries /\ Reserved(j) = 1
    BY <1>0, <1>4 DEF Renew, Fits, Reserved, Spend
  <2>2. Credit' = Credit /\ Coded' = Coded BY <2>1, CreditStays, CodesKept
  <2>3. OnItsWay' = OnItsWay - 1 + 0 BY <1>1, <1>2, <1>3, <2>1, ReservedMoves
  <2>4. Credit \in Int /\ Coded \in Int /\ OnItsWay \in Int /\ renewals \in Int /\ granted \in Int
    BY <1>1 DEF MoneyTyped
  <2> DEFINE m == 0 - 1
  <2>5. m \in Int /\ 0 + 0 + m + 1 = 0 OBVIOUS
  <2>6. /\ Credit' = Credit + 0 /\ Coded' = Coded + 0 /\ OnItsWay' = OnItsWay + m
        /\ renewals' + granted = renewals + granted' + 1
    BY <2>1, <2>2, <2>3, <2>4
  <2> HIDE DEF m
  <2>7. 0 + 0 + m + 1 = 0 => NoneMade BY <1>1, <2>5, <2>6, SurplusMoves
  <2> QED BY <2>5, <2>7
<1>5. CASE CreditRecipient(j)
  <2>1. PICK n \in Nat : n = job[j].n BY <1>0, <1>5 DEF CreditRecipient, Fits
  <2>2. PICK r \in Reseller : r = job[j].to
    BY <1>0, <1>5 DEF CreditRecipient, Fits, Accounts, EntriesFit
  <2>3. /\ job[j].at \in {"deducted", "push"} /\ job[j].kind = "transfer" /\ renewals' = renewals
        /\ \/ entries[r] # <<>> /\ Inc(r, n)
           \/ Push(r, n)
    BY <1>5, <2>1, <2>2 DEF CreditRecipient
  <2>4. /\ Total(entries'[r]) = Total(entries[r]) + n
        /\ \A i \in Reseller \ {r} : entries'[i] = entries[i]
    BY <2>3, IncTotals, PushTotals
  <2>5. Reserved(j)' = Reserved(j) - n BY <1>3, <2>1, <2>3 DEF Reserved, Spend
  <2> QED BY <1>2, <2>3, <2>4, <2>5, Settles
<1>6. CASE Allot(j)
  <2>1. PICK n \in Nat : n = job[j].n BY <1>0, <1>6 DEF Allot, Fits
  <2>2. PICK r \in Reseller : r = job[j].to BY <1>0, <1>6 DEF Allot, Fits
  <2>3. /\ job[j].at = "deducted" /\ job[j].kind = "allot" /\ renewals' = renewals
        /\ r \notin created /\ entries' = [entries EXCEPT ![r] = <<n>>]
    BY <1>6, <2>1, <2>2 DEF Allot
  <2>4. entries[r] = <<>> /\ entries'[r] = <<n>> /\ \A i \in Reseller \ {r} : entries'[i] = entries[i]
    BY <2>3 DEF Accounts, EntriesFit
  <2>5. Total(entries'[r]) = Total(entries[r]) + n
    <3>1. Total(entries[r]) = 0 /\ Total(entries'[r]) = n BY <2>4, TotalOfNone, TotalOfOne
    <3> QED BY <3>1
  <2>6. Reserved(j)' = Reserved(j) - n BY <1>3, <2>1, <2>3 DEF Reserved, Spend
  <2> QED BY <1>2, <2>3, <2>4, <2>5, <2>6, Settles
<1> QED BY <1>4, <1>5, <1>6 DEF Perform

(* An edit grants the difference to what it read, which is not more than   *)
(* what the account held.                                                  *)
LEMMA Edits ==
  ASSUME Accounts, Accounts', OnceInv, OnceInv', EntryInv, NEW j \in Job,
         NEW list \in {<<>>} \cup {<<q>> : q \in 0 .. MaxQty}, EditWrite(j, list)
  PROVE  NoneMade
<1>0. Fits(job[j], created) /\ job[j] \in JobRecord BY DEF Accounts, JobsFit
<1>1. MoneyTyped /\ MoneyTyped' BY MoneyTypes, PTL
<1>2. PICK r \in Reseller : r = job[j].by
  BY <1>0 DEF EditWrite, Fits, Running, Accounts, EntriesFit
<1>3. /\ job[j].kind = "edit" /\ job[j].at = "read"
      /\ UNCHANGED <<holder, returned, renewals>>
      /\ job[j].n = Held(entries[r]) /\ entries[r] \in Seq(Nat)
  BY <1>2 DEF EditWrite, codeVars, EntryInv, EditAlone, InFlight, Running, Accounts, EntriesFit
<1>4. /\ \A i \in Job \ {j} : job'[i] = job[i]
      /\ job'[j].at = "log" /\ job'[j].kind = "edit"
  BY DEF EditWrite, Accounts, JobsFit, JobRecord
<1>5. entries'[r] = list /\ \A i \in Reseller \ {r} : entries'[i] = entries[i]
  BY <1>2 DEF EditWrite, Accounts, EntriesFit
<1> DEFINE new == Held(list)
           old == Held(entries[r])
           all == Total(entries[r])
           a == new - all
           e == old - new
<1>6. new \in Nat /\ Total(list) = new BY HeldType
<1>7. old \in Nat /\ all \in Nat /\ old <= all BY <1>3, HeldIsPart, TotalType
<1>8. a \in Int /\ e \in Int /\ a + 0 + 0 + e = old - all BY <1>6, <1>7
<1>9. granted' = granted + new - old BY <1>3 DEF EditWrite
<1>10. /\ Credit \in Int /\ Coded \in Int /\ OnItsWay \in Int /\ renewals \in Int /\ granted \in Int
       /\ Surplus \in Int
  BY <1>1 DEF MoneyTyped
<1>11. Total(entries'[r]) = Total(entries[r]) + a BY <1>5, <1>6, <1>7
<1>12. Credit' = Credit + a
  <2> HIDE DEF a
  <2> QED BY <1>1, <1>5, <1>8, <1>11, CreditMoves
<1>13. Coded' = Coded + 0
  <2>1. Coded' = Coded BY <1>3, CodesKept
  <2> QED BY <1>10, <2>1
<1>14. OnItsWay' = OnItsWay + 0
  <2>1. Reserved(j) = 0 /\ Reserved(j)' = 0 BY <1>3, <1>4 DEF Reserved, Spend
  <2>2. OnItsWay' = OnItsWay - 0 + 0 BY <1>1, <1>4, <2>1, ReservedMoves
  <2> QED BY <1>10, <2>2
<1>15. renewals' + granted = renewals + granted' + e BY <1>3, <1>6, <1>7, <1>9, <1>10
<1>16. Surplus' = Surplus + (old - all)
  <2> HIDE DEF new, old, all, a, e
  <2>1. Surplus' = Surplus + (a + 0 + 0 + e) BY <1>1, <1>8, <1>12, <1>13, <1>14, <1>15, SurplusMoves
  <2> QED BY <1>8, <2>1
<1>17. CostCalm => old = all
  BY <1>3, HeldIsAll DEF CostCalm, EntryInv, OneEntry
<1> HIDE DEF new, old, all
<1> QED BY <1>7, <1>10, <1>16, <1>17 DEF NoneMade

LEMMA MoneyStep ==
  ASSUME Accounts, Accounts', OnceInv, OnceInv', EntryInv, MoneyCalm, [Next]_vars, trouble' # "half"
  PROVE  NoneMade
<1>0. \A j \in Job : Fits(job[j], created) /\ job[j] \in JobRecord BY DEF Accounts, JobsFit
<1>1. ASSUME NEW j \in Job, Request(j) PROVE NoneMade
  <2>0. job[j].at = "idle" => job[j].kind = "none" /\ Reserved(j) = 0
    BY <1>0 DEF Fits, Reserved, Spend
  <2>1. ASSUME NEW k \in Kinds \cap Spend, NEW r \in Reseller, NEW to \in Reseller \cup {NoOne},
               NEW n \in 1 .. MaxQty, Deduct(j, k, r, to, n)
        PROVE  NoneMade
    <3> DEFINE m == 0 - n
    <3>1. /\ job[j].at = "idle" /\ Enough(entries[r], n) # {}
          /\ entries' = [entries EXCEPT ![r] = Taken(@, n)]
          /\ UNCHANGED <<holder, returned, renewals, granted>>
      BY <2>1 DEF Deduct, codeVars, history, counts
    <3>2. /\ \A i \in Job \ {j} : job'[i] = job[i]
          /\ job'[j].at = "deducted" /\ job'[j].kind = k /\ job'[j].n = n
      BY <2>1 DEF Deduct, Accounts, JobsFit
    <3>3. n \in Nat /\ m \in Int OBVIOUS
    <3>4. /\ Total(entries'[r]) = Total(entries[r]) - n
          /\ \A i \in Reseller \ {r} : entries'[i] = entries[i]
      BY <3>1, <3>3, DeductTotals
    <3>5. Total(entries[r]) \in Nat
      <4>1. MoneyTyped BY MoneyTypes
      <4> QED BY <4>1 DEF MoneyTyped
    <3>6. Total(entries'[r]) = Total(entries[r]) + m BY <3>3, <3>4, <3>5
    <3>7. Reserved(j)' = n BY <3>2 DEF Reserved
    <3>8. Reserved(j)' = Reserved(j) - m BY <2>0, <3>1, <3>3, <3>7
    <3> HIDE DEF m
    <3> QED BY <3>1, <3>2, <3>3, <3>4, <3>6, <3>8, Settles
  <2>2. ASSUME NEW r \in Reseller, NEW ids \in SUBSET Code, ReturnRead(j, r, ids)
        PROVE  NoneMade
    <3>1. /\ job[j].at = "idle"
          /\ UNCHANGED <<entries, holder, returned, renewals, granted>>
      BY <2>2 DEF ReturnRead, codeVars, history, counts
    <3>2. (\A i \in Job \ {j} : job'[i] = job[i]) /\ job'[j].kind = "return"
      BY <2>2 DEF ReturnRead, Accounts, JobsFit, Free
    <3>3. Reserved(j)' = 0 BY <3>2 DEF Reserved, Spend
    <3> QED BY <2>0, <3>1, <3>2, <3>3, JobOnly
  <2>3. ASSUME NEW r \in Reseller, EditRead(j, r) PROVE NoneMade
    <3>1. /\ job[j].at = "idle"
          /\ UNCHANGED <<entries, holder, returned, renewals, granted>>
      BY <2>3 DEF EditRead, codeVars, history, counts
    <3>2. (\A i \in Job \ {j} : job'[i] = job[i]) /\ job'[j].kind = "edit"
      BY <2>3 DEF EditRead, Accounts, JobsFit, Free
    <3>3. Reserved(j)' = 0 BY <3>2 DEF Reserved, Spend
    <3> QED BY <2>0, <3>1, <3>2, <3>3, JobOnly
  <2>4. CASE AdminGenerate(j)
    <3>1. /\ job[j].at = "idle" /\ Mint(NextCodes(1), NoOne)
          /\ UNCHANGED <<entries, returned, renewals, granted>>
      BY <2>4 DEF AdminGenerate, history, counts
    <3>2. (\A i \in Job \ {j} : job'[i] = job[i]) /\ job'[j].kind = "adminGenerate"
      BY <2>4 DEF AdminGenerate, Accounts, JobsFit, JobRecord
    <3>3. MoneyTyped /\ MoneyTyped' BY MoneyTypes, PTL
    <3>4. Credit' = Credit BY <3>1, CreditStays
    <3>5. Coded' = Coded
      <4>1. NextCodes(1) \subseteq {c \in Code : status[c] = "NONE"} BY NextAreUnminted
      <4> QED BY <3>1, <3>3, <4>1, CodesMinted
    <3>6. Reserved(j) = 0 /\ Reserved(j)' = 0 BY <2>0, <3>1, <3>2 DEF Reserved, Spend
    <3>7. OnItsWay' = OnItsWay - 0 + 0 BY <3>2, <3>3, <3>6, ReservedMoves
    <3>8. Credit \in Int /\ Coded \in Int /\ OnItsWay \in Int /\ renewals \in Int /\ granted \in Int
      BY <3>3 DEF MoneyTyped
    <3>9. /\ Credit' = Credit + 0 /\ Coded' = Coded + 0 /\ OnItsWay' = OnItsWay + 0
          /\ renewals' + granted = renewals + granted' + 0
      BY <3>1, <3>4, <3>5, <3>7, <3>8
    <3>10. 0 + 0 + 0 + 0 = 0 => NoneMade BY <3>3, <3>9, SurplusMoves
    <3> QED BY <3>10
  <2> QED BY <1>1, <2>1, <2>2, <2>3, <2>4 DEF Request
<1>2. ASSUME NEW j \in Job, Step(j) PROVE NoneMade
  <2>1. CASE Generate(j) BY <2>1, Mints
  <2>2. CASE SpendCredit(j)
    <3>1. Perform(j, "log") /\ UNCHANGED <<holder, returned, granted>>
      BY <2>2 DEF SpendCredit, codeVars
    <3> QED BY <3>1, Pays
  <2>3. CASE FindNoEntry(j)
    <3>1. /\ job[j].at = "deducted" /\ Goto(j, "push")
          /\ UNCHANGED <<entries, holder, returned, renewals, granted>>
      BY <2>3 DEF FindNoEntry, codeVars, history, counts
    <3>2. /\ \A i \in Job \ {j} : job'[i] = job[i]
          /\ job'[j].at = "push" /\ job'[j].kind = job[j].kind /\ job'[j].n = job[j].n
      BY <3>1, GotoHas DEF Accounts
    <3>3. Reserved(j)' = Reserved(j) BY <3>1, <3>2 DEF Reserved
    <3> QED BY <3>1, <3>2, <3>3, JobOnly
  <2>4. CASE Refund(j)
    <3>1. /\ job[j].at = "refund" /\ Goto(j, "failed")
          /\ UNCHANGED <<holder, returned, renewals, granted>>
      BY <2>4 DEF Refund, codeVars, history, counts
    <3>2. /\ \A i \in Job \ {j} : job'[i] = job[i]
          /\ job'[j].at = "failed"
      BY <3>1, GotoHas DEF Accounts
    <3>3. PICK r \in Reseller : r = job[j].by
      BY <1>0, <3>1 DEF Fits, Running, Accounts, EntriesFit
    <3>4. PICK n \in Nat : n = job[j].n BY <1>0, <3>1 DEF Fits, Spend
    <3>5. Reserved(j) = n /\ Reserved(j)' = 0
      BY <1>0, <3>1, <3>2, <3>4 DEF Reserved, Fits
    <3>6. CASE entries[r] = <<>>
      <4>1. job[j].kind \in Spend BY <1>0, <3>1 DEF Fits
      <4>2. FALSE BY <3>1, <3>3, <3>6, <4>1 DEF EntryInv, SpenderHasEntry
      <4> QED BY <4>2
    <3>7. CASE entries[r] # <<>>
      <4>1. Inc(r, n) BY <2>4, <3>3, <3>4, <3>7 DEF Refund
      <4>2. /\ Total(entries'[r]) = Total(entries[r]) + n
            /\ \A i \in Reseller \ {r} : entries'[i] = entries[i]
        BY <3>7, <4>1, IncTotals
      <4>3. Reserved(j)' = Reserved(j) - n BY <3>5
      <4> QED BY <3>1, <3>2, <4>2, <4>3, Settles
    <3> QED BY <3>6, <3>7
  <2>5. CASE ReturnFlip(j) \/ ReturnRecount(j) \/ (ReturnPay(j) /\ Goto(j, "push") /\ entries' = entries /\ returned' = returned) \/ Log(j)
    <3>1. /\ job[j].kind = "return" \/ job[j].at = "log"
          /\ UNCHANGED <<entries, holder, returned, renewals, granted>>
      BY <2>5 DEF ReturnFlip, ReturnRecount, ReturnPay, Log, codeVars, history, counts
    <3>2. /\ \A i \in Job \ {j} : job'[i] = job[i]
          /\ job'[j].kind = "return" \/ job'[j].at = "done"
      <4>1. CASE ReturnFlip(j)
        <5>1. Goto(j, "flipped") /\ job[j].kind = "return" BY <4>1 DEF ReturnFlip
        <5> QED BY <5>1, GotoHas DEF Accounts
      <4>2. CASE ReturnRecount(j)
        BY <4>2 DEF ReturnRecount, Accounts, JobsFit, JobRecord
      <4>3. CASE ReturnPay(j) /\ Goto(j, "push")
        BY <4>3, GotoHas DEF ReturnPay, Accounts
      <4>4. CASE Log(j)
        BY <4>4, GotoHas DEF Log, Accounts
      <4> QED BY <2>5, <4>1, <4>2, <4>3, <4>4
    <3>3. Reserved(j) = 0 /\ Reserved(j)' = 0 BY <3>1, <3>2 DEF Reserved, Spend
    <3> QED BY <3>1, <3>2, <3>3, JobOnly
  <2>6. CASE (ReturnPay(j) /\ Goto(j, "log") /\ entries[job[j].by] # <<>> /\ Inc(job[j].by, job[j].n) /\ CountReturned(job[j].ids)) \/ ReturnPush(j)
    <3>1. /\ job[j].kind = "return" /\ job[j].at \in {"counted", "push"} /\ Goto(j, "log")
          /\ UNCHANGED <<holder, renewals, granted>> /\ CountReturned(job[j].ids)
          /\ \/ entries[job[j].by] # <<>> /\ Inc(job[j].by, job[j].n)
             \/ Push(job[j].by, job[j].n)
      BY <2>6 DEF ReturnPay, ReturnPush, codeVars
    <3>2. PICK S \in SUBSET Code : S = job[j].ids BY <1>0 DEF JobRecord
    <3>3. PICK r \in Reseller : r = job[j].by
      BY <1>0, <3>1 DEF Fits, Running, Accounts, EntriesFit
    <3>4. job[j].n = Cardinality(S) BY <1>0, <3>1, <3>2 DEF Fits
    <3>5. \A c \in S : holder[c] # NoOne /\ returned[c] = 0
      BY <3>1, <3>2 DEF OnceInv, ReturnHas, Returning, InFlight, Running
    <3>6. /\ \A i \in Job \ {j} : job'[i] = job[i]
          /\ job'[j].kind = "return"
      BY <3>1, GotoHas DEF Accounts
    <3>7. OnItsWay' = OnItsWay
      <4>1. MoneyTyped /\ MoneyTyped' BY MoneyTypes, PTL
      <4>2. Reserved(j) = 0 /\ Reserved(j)' = 0 BY <3>1, <3>6 DEF Reserved, Spend
      <4>3. OnItsWay' = OnItsWay - 0 + 0 BY <3>6, <4>1, <4>2, ReservedMoves
      <4>4. OnItsWay \in Int BY <4>1 DEF MoneyTyped
      <4> QED BY <4>3, <4>4
    <3>8. CountReturned(S) BY <3>1, <3>2
    <3>9. \/ entries[r] # <<>> /\ Inc(r, Cardinality(S))
          \/ Push(r, Cardinality(S))
      BY <3>1, <3>3, <3>4
    <3> QED BY <3>1, <3>5, <3>7, <3>8, <3>9, Repays
  <2>7. CASE EditWrites(j) BY <2>7, Edits DEF EditWrites
  <2>8. ReturnPay(j) =>
          \/ Goto(j, "push") /\ entries' = entries /\ returned' = returned
          \/ /\ Goto(j, "log") /\ entries[job[j].by] # <<>> /\ Inc(job[j].by, job[j].n)
             /\ CountReturned(job[j].ids)
    BY DEF ReturnPay
  <2> QED BY <1>2, <2>1, <2>2, <2>3, <2>4, <2>5, <2>6, <2>7, <2>8 DEF Step, EditWrites
<1>3. ASSUME NEW j \in Job, Fault(j) PROVE NoneMade
  <2>1. ~GeneratePartly(j) /\ ~SpendAndThrow(j) BY DEF GeneratePartly, SpendAndThrow, Meet
  <2>2. CASE Throw(j)
    <3>1. /\ job[j].kind \in Spend /\ job[j].at \in {"deducted", "push"} /\ Goto(j, "refund")
          /\ UNCHANGED <<entries, holder, returned, renewals, granted>>
      BY <2>2 DEF Throw, codeVars, history, counts
    <3>2. /\ \A i \in Job \ {j} : job'[i] = job[i]
          /\ job'[j].at = "refund" /\ job'[j].kind = job[j].kind /\ job'[j].n = job[j].n
      BY <3>1, GotoHas DEF Accounts
    <3>3. Reserved(j)' = Reserved(j) BY <3>1, <3>2 DEF Reserved
    <3> QED BY <3>1, <3>2, <3>3, JobOnly
  <2>3. CASE ReturnThrows(j)
    <3>1. /\ job[j].kind = "return" /\ Goto(j, "failed")
          /\ UNCHANGED <<entries, holder, returned, renewals, granted>>
      BY <2>3 DEF ReturnThrows, codeVars, counts
    <3>2. /\ \A i \in Job \ {j} : job'[i] = job[i]
          /\ job'[j].at = "failed"
      BY <3>1, GotoHas DEF Accounts
    <3>3. Reserved(j) = 0 /\ Reserved(j)' = 0 BY <3>1, <3>2 DEF Reserved, Spend
    <3> QED BY <3>1, <3>2, <3>3, JobOnly
  <2>4. CASE RefundThrows(j) \/ Crash(j)
    <3>1. /\ Goto(j, "failed") /\ ~CostCalm
          /\ UNCHANGED <<entries, holder, returned, renewals, granted>>
      BY <2>4 DEF RefundThrows, Crash, codeVars, counts, CostCalm
    <3>2. /\ \A i \in Job \ {j} : job'[i] = job[i]
          /\ job'[j].at = "failed"
      BY <3>1, GotoHas DEF Accounts
    <3>3. Reserved(j)' = 0 BY <3>2 DEF Reserved
    <3> QED BY <3>1, <3>2, <3>3, Loses
  <2> QED BY <1>3, <2>1, <2>2, <2>3, <2>4 DEF Fault
<1>4. ASSUME SweepNext PROVE NoneMade
  <2>0. /\ \A r : CodesOf(r) \in SUBSET Code
        /\ sweep.at \in {"push", "log"} => sweep.paid \in Reseller
    BY DEF CodesOf, Accounts, SweepFits, EntriesFit
  <2>1. CASE SweepRecover \/ SweepRead \/ SweepFlip \/ SweepRecount \/ SweepEnd \/ SweepLog
    <3>1. UNCHANGED <<job, entries, holder, returned, renewals, granted>>
      BY <2>1 DEF SweepRecover, SweepRead, SweepFlip, SweepRecount, SweepEnd, SweepLog,
                  codeVars, history, counts
    <3> QED BY <3>1, NothingMoves
  <2>2. ASSUME NEW r \in Reseller, r \in sweep.unpaid, sweep.at \in {"paying", "push"},
               CountReturned(CodesOf(r)),
               UNCHANGED <<job, holder, renewals, granted>>,
               \/ entries[r] # <<>> /\ Inc(r, Cardinality(CodesOf(r)))
               \/ Push(r, Cardinality(CodesOf(r)))
        PROVE  NoneMade
    <3>1. \A c \in CodesOf(r) : holder[c] # NoOne /\ returned[c] = 0
      BY <2>2 DEF CodesOf, OnceInv, SweepHas
    <3>2. OnItsWay' = OnItsWay BY <2>2, ReservedStays
    <3>3. PICK S \in SUBSET Code : S = CodesOf(r) BY <2>0
    <3>4. \A c \in S : holder[c] # NoOne /\ returned[c] = 0 BY <3>1, <3>3
    <3>5. CountReturned(S) BY <2>2, <3>3
    <3>6. \/ entries[r] # <<>> /\ Inc(r, Cardinality(S))
          \/ Push(r, Cardinality(S))
      BY <2>2, <3>3
    <3> QED BY <2>2, <3>2, <3>4, <3>5, <3>6, Repays
  <2>3. ASSUME NEW r \in Reseller, SweepPay(r) PROVE NoneMade
    <3>1. /\ sweep.at = "paying" /\ r \in sweep.unpaid
          /\ UNCHANGED <<job, holder, renewals, granted>>
      BY <2>3 DEF SweepPay, codeVars
    <3>2. \/ UNCHANGED <<entries, returned>>
          \/ entries[r] # <<>> /\ Inc(r, Cardinality(CodesOf(r))) /\ CountReturned(CodesOf(r))
      BY <2>3 DEF SweepPay
    <3> QED BY <2>2, <3>1, <3>2, NothingMoves
  <2>4. CASE SweepPush
    <3>1. PICK r \in Reseller : r = sweep.paid BY <2>0, <2>4 DEF SweepPush
    <3>2. /\ sweep.at = "push" /\ r \in sweep.unpaid
          /\ UNCHANGED <<job, holder, renewals, granted>>
          /\ Push(r, Cardinality(CodesOf(r))) /\ CountReturned(CodesOf(r))
      BY <2>4, <3>1 DEF SweepPush, codeVars, Accounts, SweepFits
    <3> QED BY <2>2, <3>2
  <2> QED BY <1>4, <2>1, <2>3, <2>4 DEF SweepNext
<1>5. CASE SweepFails \/ (\E c \in Code : CodeNext(c)) \/ ListExpire \/ UNCHANGED vars
  <2>1. UNCHANGED <<job, entries, holder, returned, renewals, granted>>
    BY <1>5 DEF SweepFails, CodeNext, Claim, EndClaim, RedeemDies, Lapse, BulkRevoke, BulkRestore,
                ListExpire, vars, codeVars, history, counts
  <2> QED BY <2>1, NothingMoves
<1> QED BY <1>1, <1>2, <1>3, <1>4, <1>5 DEF Next

(* A code that exists goes on existing.                                    *)
LEMMA UnmintedStays ==
  ASSUME \A c \in Code : status'[c] = "NONE" <=> status[c] = "NONE"
  PROVE  Unminted' = Unminted
  BY DEF Unminted

(* A handler goes on that is not generating codes, or no longer is.        *)
LEMMA BookedKept ==
  ASSUME Accounts, Accounts', Booked, NEW j \in Job, \A i \in Job \ {j} : job'[i] = job[i],
         Booking(j)' <= Booking(j), Unminted' = Unminted
  PROVE  Booked'
<1>1. BookingsTyped /\ BookingsTyped' BY BookingTypes, PTL
<1>2. Bookings' = Bookings - Booking(j) + Booking(j)' BY <1>1, BookingsMove
<1>3. Booking(j) \in Nat /\ Booking(j)' \in Nat /\ Bookings \in Nat BY <1>1 DEF BookingsTyped
<1>4. Cardinality(Unminted) \in Nat BY CodesAreFinite DEF Unminted
<1>5. Bookings' <= Bookings BY <1>2, <1>3
<1>6. Bookings' \in Nat BY <1>1 DEF BookingsTyped
<1>7. Cardinality(Unminted)' = Cardinality(Unminted) OBVIOUS
<1>8. Bookings' <= Cardinality(Unminted) BY <1>3, <1>4, <1>5, <1>6 DEF Booked
<1> QED BY <1>7, <1>8 DEF Booked

(* A request in flight gets its codes, whole or in part.                   *)
LEMMA BookedMinted ==
  ASSUME Accounts, Accounts', Booked, NEW j \in Job, \A i \in Job \ {j} : job'[i] = job[i],
         Booking(j)' = 0, NEW n \in Nat, n <= Booking(j), NEW r, Mint(NextCodes(n), r)
  PROVE  Booked'
<1>1. BookingsTyped /\ BookingsTyped' BY BookingTypes, PTL
<1>2. Bookings' = Bookings - Booking(j) + Booking(j)' BY <1>1, BookingsMove
<1>3. Booking(j) \in Nat /\ Bookings \in Nat /\ Bookings' \in Nat BY <1>1 DEF BookingsTyped
<1>4. IsFiniteSet(Unminted) /\ Cardinality(Unminted) \in Nat BY CodesAreFinite DEF Unminted
<1>5. Booking(j) <= Cardinality(Unminted) BY <1>1, BookingFits
<1>6. Cardinality(NextCodes(n)) = n BY <1>3, <1>4, <1>5, NextAreCounted
<1>7. Unminted' = Unminted \ NextCodes(n)
  BY DEF Mint, Unminted
<1>8. Cardinality(Unminted') = Cardinality(Unminted) - n
  <2>1. NextCodes(n) \subseteq Unminted BY DEF NextCodes
  <2>2. Unminted \cap NextCodes(n) = NextCodes(n) BY <2>1
  <2>3. Cardinality(Unminted \ NextCodes(n))
          = Cardinality(Unminted) - Cardinality(Unminted \cap NextCodes(n))
    BY <1>4, FS_Difference
  <2> QED BY <1>6, <1>7, <2>2, <2>3
<1>9. Cardinality(Unminted)' = Cardinality(Unminted') OBVIOUS
<1>10. Bookings' = Bookings - Booking(j) BY <1>2, <1>3
<1>11. Bookings' <= Cardinality(Unminted) - n BY <1>3, <1>4, <1>10 DEF Booked
<1> QED BY <1>8, <1>9, <1>11 DEF Booked

LEMMA BookedStep ==
  ASSUME Accounts, Accounts', OnceInv, OnceInv', Booked, [Next]_vars
  PROVE  Booked'
<1>0. \A j \in Job : Fits(job[j], created) /\ job[j] \in JobRecord BY DEF Accounts, JobsFit
<1>t. BookingsTyped BY BookingTypes
<1>1. ASSUME NEW j \in Job, Request(j) PROVE Booked'
  <2>0. job[j].at = "idle" => Booking(j) = 0
    BY DEF Booking
  <2>1. ASSUME NEW k \in Kinds \cap Spend, NEW r \in Reseller, NEW to \in Reseller \cup {NoOne},
               NEW n \in 1 .. MaxQty, Deduct(j, k, r, to, n)
        PROVE  Booked'
    <3>1. /\ job[j].at = "idle" /\ MayRequest(k, r, to, n) /\ status' = status
          /\ \A i \in Job \ {j} : job'[i] = job[i]
          /\ job'[j].at = "deducted" /\ job'[j].kind = k /\ job'[j].n = n
      BY <2>1 DEF Deduct, codeVars, Accounts, JobsFit
    <3>2. Unminted' = Unminted BY <3>1, UnmintedStays
    <3>3. CASE k = "generate"
      <4>1. n + Bookings <= Cardinality(Unminted)
        BY <3>1, <3>3 DEF MayRequest, Bookings, Booking
      <4>2. BookingsTyped' BY BookingTypes, PTL
      <4>3. Bookings' = Bookings - Booking(j) + Booking(j)' BY <1>t, <3>1, <4>2, BookingsMove
      <4>4. Booking(j) = 0 /\ Booking(j)' = n BY <2>0, <3>1, <3>3 DEF Booking
      <4>5. Bookings \in Nat /\ n \in Nat BY <1>t DEF BookingsTyped
      <4>6. Bookings' = n + Bookings BY <4>3, <4>4, <4>5
      <4>7. Bookings' <= Cardinality(Unminted) BY <4>1, <4>6
      <4>8. Cardinality(Unminted)' = Cardinality(Unminted) BY <3>2
      <4> QED BY <4>7, <4>8 DEF Booked
    <3>4. CASE k # "generate"
      <4>1. Booking(j)' <= Booking(j) BY <2>0, <3>1, <3>4 DEF Booking
      <4> QED BY <3>1, <3>2, <4>1, BookedKept
    <3> QED BY <3>3, <3>4
  <2>2. ASSUME NEW r \in Reseller, NEW ids \in SUBSET Code, ReturnRead(j, r, ids)
        PROVE  Booked'
    <3>1. /\ job[j].at = "idle" /\ status' = status
          /\ (\A i \in Job \ {j} : job'[i] = job[i]) /\ job'[j].kind = "return"
      BY <2>2 DEF ReturnRead, codeVars, Accounts, JobsFit, Free
    <3>2. Booking(j)' <= Booking(j) BY <2>0, <3>1 DEF Booking
    <3> QED BY <3>1, <3>2, UnmintedStays, BookedKept
  <2>3. ASSUME NEW r \in Reseller, EditRead(j, r) PROVE Booked'
    <3>1. /\ job[j].at = "idle" /\ status' = status
          /\ (\A i \in Job \ {j} : job'[i] = job[i]) /\ job'[j].kind = "edit"
      BY <2>3 DEF EditRead, codeVars, Accounts, JobsFit, Free
    <3>2. Booking(j)' <= Booking(j) BY <2>0, <3>1 DEF Booking
    <3> QED BY <3>1, <3>2, UnmintedStays, BookedKept
  <2>4. CASE AdminGenerate(j)
    <3>1. (\A i \in Job \ {j} : job'[i] = job[i]) /\ job'[j].kind = "adminGenerate"
      BY <2>4 DEF AdminGenerate, Accounts, JobsFit, JobRecord
    <3>2. \A i \in Job : Booking(i)' = 0
      BY <2>4, <3>1 DEF AdminGenerate, Booking
    <3>3. Bookings' = 0
      <4> DEFINE f == [i \in Job |-> Booking(i)']
      <4>1. \A i \in Job : f[i] = 0 BY <3>2
      <4>2. Bookings' = SumOf(f, Job) BY DEF Bookings
      <4> HIDE DEF f
      <4> QED BY <4>1, <4>2, FiniteAssumption, SumOfZeros
    <3>4. Cardinality(Unminted') \in Nat
      <4>1. Unminted' \subseteq Code BY DEF Unminted
      <4> QED BY <4>1, CodesAreFinite
    <3>5. Cardinality(Unminted)' = Cardinality(Unminted') OBVIOUS
    <3> QED BY <3>3, <3>4, <3>5 DEF Booked
  <2> QED BY <1>1, <2>1, <2>2, <2>3, <2>4 DEF Request
<1>2. ASSUME NEW j \in Job, Generate(j) \/ GeneratePartly(j) PROVE Booked'
  <2>1. job[j].at = "deducted" /\ job[j].kind = "generate"
    BY <1>2 DEF Generate, GeneratePartly
  <2>2. Booking(j) = job[j].n /\ job[j].n \in Nat BY <1>0, <2>1 DEF Booking, Fits
  <2>3. PICK n \in Nat : n <= Booking(j) /\ Mint(NextCodes(n), job[j].by)
    <3>1. CASE Generate(j) BY <2>2, <3>1 DEF Generate
    <3>2. CASE GeneratePartly(j)
      <4>1. PICK n \in 1 .. job[j].n : Mint(NextCodes(n), job[j].by) BY <3>2 DEF GeneratePartly
      <4>2. n \in Nat /\ n <= job[j].n BY <2>2
      <4> QED BY <2>2, <4>1, <4>2
    <3> QED BY <1>2, <3>1, <3>2
  <2>4. PICK to \in {"log", "refund"} : Goto(j, to)
    BY <1>2 DEF Generate, GeneratePartly
  <2>5. (\A i \in Job \ {j} : job'[i] = job[i]) /\ job'[j].at = to
    BY <2>4, GotoHas DEF Accounts
  <2>6. Booking(j)' = 0 BY <2>5 DEF Booking
  <2> QED BY <2>3, <2>5, <2>6, BookedMinted
<1>3. ASSUME NEW j \in Job, Step(j) \/ Fault(j), ~Generate(j), ~GeneratePartly(j) PROVE Booked'
  <2>1. Unminted' = Unminted
    <3>1. \A c \in Code : status'[c] = "NONE" <=> status[c] = "NONE"
      <4>1. CASE ReturnFlip(j) BY <4>1 DEF ReturnFlip, Flip
      <4>2. CASE status' = status BY <4>2
      <4>3. ReturnFlip(j) \/ status' = status
        BY <1>3 DEF Step, Fault, SpendCredit, FindNoEntry, Refund, ReturnRecount, ReturnPay,
                    ReturnPush, EditWrite, Log, SpendAndThrow, Throw, RefundThrows, ReturnThrows,
                    Crash, codeVars
      <4> QED BY <4>1, <4>2, <4>3
    <3> QED BY <3>1, UnmintedStays
  <2>2. (\A i \in Job \ {j} : job'[i] = job[i]) /\ job'[j].at # "deducted"
    <3>1. CASE \E to \in {"log", "push", "failed", "flipped", "refund", "done"} : Goto(j, to)
      BY <3>1, GotoHas DEF Accounts
    <3>2. CASE ReturnRecount(j)
      BY <3>2 DEF ReturnRecount, Accounts, JobsFit, JobRecord
    <3>3. CASE EditWrites(j)
      BY <3>3 DEF EditWrites, EditWrite, Accounts, JobsFit, JobRecord
    <3>4. \/ \E to \in {"log", "push", "failed", "flipped", "refund", "done"} : Goto(j, to)
          \/ ReturnRecount(j) \/ EditWrites(j)
      BY <1>3 DEF Step, Fault, SpendCredit, Perform, FindNoEntry, Refund, ReturnFlip, ReturnPay,
                  ReturnPush, Log, SpendAndThrow, Throw, RefundThrows, ReturnThrows, Crash, EditWrites
    <3> QED BY <3>1, <3>2, <3>3, <3>4
  <2>3. Booking(j)' <= Booking(j)
    <3>1. Booking(j)' = 0 BY <2>2 DEF Booking
    <3>2. Booking(j) \in Nat BY <1>t DEF BookingsTyped
    <3> QED BY <3>1, <3>2
  <2> QED BY <2>1, <2>2, <2>3, BookedKept
<1>4. ASSUME SweepNext \/ SweepFails \/ (\E c \in Code : CodeNext(c)) \/ ListExpire \/ UNCHANGED vars
      PROVE  Booked'
  <2>1. job' = job
    BY <1>4 DEF SweepNext, SweepRecover, SweepRead, SweepFlip, SweepRecount, SweepPay, SweepPush,
                SweepLog, SweepEnd, SweepFails, CodeNext, Claim, EndClaim, RedeemDies, Lapse,
                BulkRevoke, BulkRestore, ListExpire, vars, codeVars
  <2>2. Unminted' = Unminted
    <3>1. CASE SweepNext \/ SweepFails \/ ListExpire \/ UNCHANGED vars
      <4>1. \A c \in Code : status'[c] = "NONE" <=> status[c] = "NONE"
        BY <3>1 DEF SweepNext, SweepRecover, SweepRead, SweepFlip, SweepRecount, SweepPay, SweepPush,
                    SweepLog, SweepEnd, SweepFails, ListExpire, vars, codeVars, Flip, Accounts, CodesFit
      <4> QED BY <4>1, UnmintedStays
    <3>2. ASSUME NEW c \in Code, CodeNext(c) PROVE Unminted' = Unminted
      <4>1. \A d \in Code : status'[d] = "NONE" <=> status[d] = "NONE"
        BY <3>2 DEF CodeNext, Claim, EndClaim, RedeemDies, Lapse, BulkRevoke, BulkRestore, Flip,
                    Accounts, CodesFit, OnceInv, CodesMakeSense
      <4> QED BY <4>1, UnmintedStays
    <3> QED BY <1>4, <3>1, <3>2
  <2>3. Bookings' = Bookings BY <2>1 DEF Bookings, Booking
  <2>4. Cardinality(Unminted)' = Cardinality(Unminted) BY <2>2
  <2> QED BY <2>3, <2>4 DEF Booked
<1> QED BY <1>1, <1>2, <1>3, <1>4 DEF Next, Step, Fault

(* At the start every reseller holds what it was created with.             *)
LEMMA MoneyStarts == Init => Surplus = 0 /\ Booked
<1> SUFFICES ASSUME Init PROVE Surplus = 0 /\ Booked OBVIOUS
<1>1. Accounts BY CreditStarts
<1>2. Credit = SumOf(Initial, Reseller)
  <2> DEFINE f == [r \in Reseller |-> Total(entries[r])]
  <2>1. \A r \in Reseller : f[r] = Initial[r]
    <3> SUFFICES ASSUME NEW r \in Reseller PROVE Total(entries[r]) = Initial[r] OBVIOUS
    <3>1. Initial[r] \in Nat BY InitialAssumption
    <3> QED BY <3>1, TotalOfNone, TotalOfOne DEF Init
  <2>2. Credit = SumOf(f, Reseller) BY DEF Credit
  <2> HIDE DEF f
  <2> QED BY <2>1, <2>2, FiniteAssumption, SumSame
<1>3. Coded = 0
  <2> DEFINE f == [c \in Code |-> Worth(c)]
  <2>1. \A c \in Code : f[c] = 0 BY DEF Worth, Init
  <2>2. Coded = SumOf(f, Code) /\ IsFiniteSet(Code) BY CodesAreFinite DEF Coded
  <2> HIDE DEF f
  <2> QED BY <2>1, <2>2, SumOfZeros
<1>4. OnItsWay = 0
  <2> DEFINE f == [j \in Job |-> Reserved(j)]
  <2>1. \A j \in Job : f[j] = 0 BY DEF Reserved, Init, Free
  <2>2. OnItsWay = SumOf(f, Job) BY DEF OnItsWay
  <2> HIDE DEF f
  <2> QED BY <2>1, <2>2, FiniteAssumption, SumOfZeros
<1>5. Surplus = 0
  <2>1. granted = Credit /\ renewals = 0 BY <1>2 DEF Init
  <2>2. Credit \in Int
    <3>1. MoneyTyped BY <1>1, MoneyTypes
    <3> QED BY <3>1 DEF MoneyTyped
  <2> QED BY <1>3, <1>4, <2>1, <2>2 DEF Surplus
<1>6. Booked
  <2> DEFINE f == [j \in Job |-> Booking(j)]
  <2>1. \A j \in Job : f[j] = 0 BY DEF Booking, Init, Free
  <2>2. Bookings = SumOf(f, Job) BY DEF Bookings
  <2> HIDE DEF f
  <2>3. Bookings = 0 BY <2>1, <2>2, FiniteAssumption, SumOfZeros
  <2>4. Cardinality(Unminted) \in Nat BY CodesAreFinite DEF Unminted
  <2> QED BY <2>3, <2>4 DEF Booked
<1> QED BY <1>5, <1>6

LEMMA HalfStays == [Next]_vars /\ trouble = "half" => trouble' = "half"
<1> SUFFICES ASSUME [Next]_vars, trouble = "half" PROVE trouble' = "half" OBVIOUS
<1> USE DEF Meet, history, counts
<1>1. ASSUME NEW j \in Job, Request(j) PROVE trouble' = "half"
  BY <1>1 DEF Request, Deduct, ReturnRead, EditRead, AdminGenerate
<1>2. ASSUME NEW j \in Job, Step(j) PROVE trouble' = "half"
  BY <1>2 DEF Step, Generate, SpendCredit, FindNoEntry, Refund, ReturnFlip, ReturnRecount,
              ReturnPay, ReturnPush, EditWrite, Log
<1>3. ASSUME NEW j \in Job, Fault(j) PROVE trouble' = "half"
  BY <1>3 DEF Fault, GeneratePartly, SpendAndThrow, Throw, RefundThrows, ReturnThrows, Crash
<1>4. CASE SweepNext \/ SweepFails
  BY <1>4 DEF SweepNext, SweepRecover, SweepRead, SweepFlip, SweepRecount, SweepPay, SweepPush,
              SweepLog, SweepEnd, SweepFails
<1>5. CASE (\E c \in Code : CodeNext(c)) \/ ListExpire \/ UNCHANGED vars
  BY <1>5 DEF CodeNext, Claim, EndClaim, RedeemDies, Lapse, BulkRevoke, BulkRestore, ListExpire, vars
<1> QED BY <1>1, <1>2, <1>3, <1>4, <1>5 DEF Next

LEMMA NeverHalf ==
  ASSUME "halfWrite" \notin Hazards, trouble # "half", [Next]_vars
  PROVE  trouble' # "half"
<1> USE DEF Meet, history, counts
<1>1. ASSUME NEW j \in Job, Request(j) PROVE trouble' # "half"
  BY <1>1 DEF Request, Deduct, ReturnRead, EditRead, AdminGenerate
<1>2. ASSUME NEW j \in Job, Step(j) PROVE trouble' # "half"
  BY <1>2 DEF Step, Generate, SpendCredit, FindNoEntry, Refund, ReturnFlip, ReturnRecount,
              ReturnPay, ReturnPush, EditWrite, Log
<1>3. ASSUME NEW j \in Job, Fault(j) PROVE trouble' # "half"
  BY <1>3 DEF Fault, GeneratePartly, SpendAndThrow, Throw, RefundThrows, ReturnThrows, Crash
<1>4. CASE SweepNext \/ SweepFails
  BY <1>4 DEF SweepNext, SweepRecover, SweepRead, SweepFlip, SweepRecount, SweepPay, SweepPush,
              SweepLog, SweepEnd, SweepFails
<1>5. CASE (\E c \in Code : CodeNext(c)) \/ ListExpire \/ UNCHANGED vars
  BY <1>5 DEF CodeNext, Claim, EndClaim, RedeemDies, Lapse, BulkRevoke, BulkRestore, ListExpire, vars
<1> QED BY <1>1, <1>2, <1>3, <1>4, <1>5 DEF Next

(* Whatever fails or dies in a handler, a return or the daily task, and    *)
(* however two handlers push an entry: no credit is made.                  *)
THEOREM CreditNeverMade ==
  ASSUME MoneyCalm PROVE Spec => []NoFreeCredit
<1> DEFINE Inv == trouble # "half" => Surplus <= 0
           All == Accounts /\ OnceInv /\ EntryInv
<1>1. Init => All /\ Inv
  BY CreditStarts, OnceStarts, EntriesStart, MoneyStarts
<1>2. All /\ [Next]_vars => All'
  BY AccountsStep, OnceStep, EntriesStep DEF MoneyCalm
<1>3. All /\ All' /\ Inv /\ [Next]_vars => Inv'
  <2> SUFFICES ASSUME All, All', Inv, [Next]_vars, trouble' # "half" PROVE Surplus' <= 0
    OBVIOUS
  <2>1. trouble # "half" BY HalfStays
  <2>2. Surplus' <= Surplus BY MoneyStep DEF NoneMade
  <2>3. Surplus \in Int /\ Surplus' \in Int
    <3>1. MoneyTyped /\ MoneyTyped' BY MoneyTypes, PTL
    <3> QED BY <3>1 DEF MoneyTyped
  <2> QED BY <2>1, <2>2, <2>3
<1>4. All /\ Inv => NoFreeCredit
  <2> SUFFICES ASSUME Accounts, Surplus <= 0 PROVE Accounted <= granted BY DEF NoFreeCredit
  <2>1. MoneyTyped BY MoneyTypes
  <2>2. Accounted - granted = Surplus /\ granted \in Int BY <2>1 DEF MoneyTyped
  <2>3. Accounted \in Int
    <3>1. Accounted = Credit + Coded + OnItsWay + renewals
      BY DEF Accounted, Credit, Coded, OnItsWay
    <3> QED BY <2>1, <3>1 DEF MoneyTyped
  <2> QED BY <2>2, <2>3
<1> HIDE DEF Inv, All
<1> QED BY <1>1, <1>2, <1>3, <1>4, PTL DEF Spec

(* Unless credit is lost with a handler, what was granted is held, was     *)
(* spent or is on its way, to the last credit.                             *)
THEOREM CreditIsConserved ==
  ASSUME CostCalm PROVE Spec => []Conserved
<1> DEFINE Inv == Surplus = 0 /\ Booked /\ trouble # "half"
           All == Accounts /\ OnceInv /\ EntryInv
<1>0. MoneyCalm BY DEF CostCalm
<1>1. Init => All /\ Inv
  <2>1. Init => trouble # "half" BY DEF Init
  <2> QED BY <2>1, CreditStarts, OnceStarts, EntriesStart, MoneyStarts
<1>2. All /\ [Next]_vars => All'
  BY <1>0, AccountsStep, OnceStep, EntriesStep DEF MoneyCalm
<1>3. All /\ All' /\ Inv /\ [Next]_vars => Inv'
  <2> SUFFICES ASSUME All, All', Inv, [Next]_vars PROVE Inv'
    OBVIOUS
  <2>1. trouble' # "half" BY NeverHalf DEF CostCalm
  <2>2. Surplus' = Surplus BY <1>0, <2>1, MoneyStep DEF NoneMade
  <2>3. Booked' BY BookedStep
  <2> QED BY <2>1, <2>2, <2>3
<1>4. All /\ Inv => Conserved
  <2> SUFFICES ASSUME Accounts, Surplus = 0 PROVE Accounted = granted BY DEF Conserved
  <2>1. MoneyTyped BY MoneyTypes
  <2>2. Accounted - granted = Surplus /\ granted \in Int BY <2>1 DEF MoneyTyped
  <2>3. Accounted \in Int
    <3>1. Accounted = Credit + Coded + OnItsWay + renewals
      BY DEF Accounted, Credit, Coded, OnItsWay
    <3> QED BY <2>1, <3>1 DEF MoneyTyped
  <2> QED BY <2>2, <2>3
<1> HIDE DEF Inv, All
<1> QED BY <1>1, <1>2, <1>3, <1>4, PTL DEF Spec
=============================================================================
