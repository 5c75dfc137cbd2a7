---------------------------- MODULE SumTheorems ----------------------------
(***************************************************************************)
(* What SumFunctionOnSet of the community modules computes on a finite set *)
(* of integers, whatever the function and the set.                         *)
(*                                                                         *)
(* The sum is defined by CHOOSE of a recursive function on the subsets of  *)
(* the set.  The proofs are by minimal counterexample: strict inclusion is *)
(* well-founded on the subsets of a finite set, so a statement that fails  *)
(* for some subset fails for a smallest one.                               *)
(***************************************************************************)
EXTENDS Integers, Functions, FiniteSetTheorems, TLAPS

(* A set of subsets of a finite set has a smallest member.                 *)
LEMMA MinimalSubset ==
  ASSUME NEW S, IsFiniteSet(S), NEW B \in SUBSET SUBSET S, B # {}
  PROVE  \E T \in B : \A U \in B : U \subseteq T => U = T
  <1>1. IsWellFoundedOn(StrictSubsetOrdering(S), SUBSET S)
    BY FS_StrictSubsetOrderingWellFounded, FS_FiniteSubsetsOfFinite
  <1>2. PICK T \in B : \A U \in B : <<U, T>> \notin StrictSubsetOrdering(S)
    BY <1>1, WFMin
  <1> QED
    BY <1>2 DEF StrictSubsetOrdering

(* The element the sum of T starts with.                                   *)
Pick(T) == CHOOSE x \in T : TRUE

(* One step of the recursion.                                              *)
Unrolled(F, f, T) == IF T = {} THEN 0 ELSE F[Pick(T)] + f[T \ {Pick(T)}]

(* f holds the sum of every subset of S.                                   *)
Sums(F, f, S) == f = [T \in SUBSET S |-> Unrolled(F, f, T)]

(* The definition of the sum, unfolded.                                    *)
LEMMA SumIs ==
  ASSUME NEW F, NEW S
  PROVE  SumFunctionOnSet(F, S) = (CHOOSE f : Sums(F, f, S))[S]
  BY DEF SumFunctionOnSet, FoldFunctionOnSet, MapThenFoldSet, Sums, Unrolled, Pick

LEMMA PickIn == \A T : T # {} => Pick(T) \in T
  BY DEF Pick

(* The sums computed on the way to two totals agree where both are defined.*)
LEMMA SumsAgree ==
  ASSUME NEW S, IsFiniteSet(S), NEW F, NEW T1 \in SUBSET S, NEW T2 \in SUBSET S,
         NEW f, Sums(F, f, T1), NEW g, Sums(F, g, T2), NEW U, U \subseteq T1, U \subseteq T2
  PROVE  f[U] = g[U]
  <1> DEFINE B == {V \in SUBSET S : V \subseteq T1 /\ V \subseteq T2 /\ f[V] # g[V]}
  <1> SUFFICES B = {}
    OBVIOUS
  <1> SUFFICES ASSUME B # {} PROVE FALSE
    OBVIOUS
  <1>0. B \in SUBSET SUBSET S
    OBVIOUS
  <1>1. PICK V \in B : \A W \in B : W \subseteq V => W = V
    <2> HIDE DEF B
    <2> QED
      BY <1>0, MinimalSubset
  <1>2. f[V] = Unrolled(F, f, V) /\ g[V] = Unrolled(F, g, V)
    BY DEF Sums
  <1>3. CASE V = {}
    BY <1>2, <1>3 DEF Unrolled
  <1>4. CASE V # {}
    <2> DEFINE W == V \ {Pick(V)}
    <2>1. W \subseteq V /\ W # V
      BY <1>4, PickIn
    <2>2. f[W] = g[W]
      BY <1>1, <2>1
    <2> QED
      BY <1>2, <1>4, <2>2 DEF Unrolled
  <1> QED
    BY <1>3, <1>4

(* There is a function that computes the sums of all subsets.              *)
LEMMA SumsExist ==
  ASSUME NEW S, IsFiniteSet(S), NEW F
  PROVE  \E f : Sums(F, f, S)
  <1> DEFINE B == {T \in SUBSET S : ~\E f : Sums(F, f, T)}
  <1> SUFFICES ASSUME S \in B PROVE FALSE
    OBVIOUS
  <1>1. B \in SUBSET SUBSET S
    OBVIOUS
  <1>2. PICK T \in B : \A U \in B : U \subseteq T => U = T
    <2> HIDE DEF B
    <2> QED
      BY <1>1, MinimalSubset
  <1> DEFINE part(U) == CHOOSE f : Sums(F, f, U)
             f == [U \in SUBSET T |->
                     IF U = {} THEN 0 ELSE F[Pick(U)] + part(U \ {Pick(U)})[U \ {Pick(U)}]]
  <1>3. \A U : U \subseteq T /\ U # T => Sums(F, part(U), U)
    BY <1>2
  <1>4. ASSUME NEW U \in SUBSET T PROVE f[U] = Unrolled(F, f, U)
    <2>1. CASE U = {}
      BY <2>1 DEF Unrolled
    <2>2. CASE U # {}
      <3> DEFINE W == U \ {Pick(U)}
                 X == W \ {Pick(W)}
      <3>1. W \subseteq T /\ W # T
        BY <2>2, PickIn
      <3>2. Sums(F, part(W), W)
        BY <1>3, <3>1
      <3>3. part(W)[W] = Unrolled(F, part(W), W)
        BY <3>2 DEF Sums
      <3>4. f[U] = F[Pick(U)] + part(W)[W]
        BY <2>2
      <3>5. f[W] = IF W = {} THEN 0 ELSE F[Pick(W)] + part(X)[X]
        BY <3>1
      <3>6. ASSUME W # {} PROVE part(W)[X] = part(X)[X]
        <4>1. X \subseteq T /\ X # T /\ X \subseteq W
          BY <3>1
        <4>2. Sums(F, part(X), X)
          BY <1>3, <4>1
        <4>3. W \in SUBSET S /\ X \in SUBSET S
          BY <3>1, <4>1
        <4> HIDE DEF part, X, W
        <4> QED
          BY <3>2, <4>1, <4>2, <4>3, SumsAgree
      <3>7. part(W)[W] = f[W]
        <4> HIDE DEF part, f
        <4> QED
          BY <3>3, <3>5, <3>6 DEF Unrolled
      <3> HIDE DEF part, f
      <3> QED
        BY <2>2, <3>4, <3>7 DEF Unrolled
    <2> QED
      BY <2>1, <2>2
  <1>5. Sums(F, f, T)
    <2>1. f = [U \in SUBSET T |-> f[U]]
      OBVIOUS
    <2> HIDE DEF f
    <2> QED
      BY <1>4, <2>1 DEF Sums
  <1> QED
    BY <1>2, <1>5

(* The recursive equation of the sum.                                      *)
LEMMA SumUnrolled ==
  ASSUME NEW S, IsFiniteSet(S), NEW F
  PROVE  SumFunctionOnSet(F, S) =
           IF S = {} THEN 0 ELSE F[Pick(S)] + SumFunctionOnSet(F, S \ {Pick(S)})
  <1> DEFINE f(T) == CHOOSE g : Sums(F, g, T)
             R == S \ {Pick(S)}
  <1>1. Sums(F, f(S), S)
    BY SumsExist
  <1>2. IsFiniteSet(R)
    BY FS_RemoveElement
  <1>3. Sums(F, f(R), R)
    BY <1>2, SumsExist
  <1>4. SumFunctionOnSet(F, S) = f(S)[S] /\ SumFunctionOnSet(F, R) = f(R)[R]
    BY SumIs
  <1>5. f(S)[S] = Unrolled(F, f(S), S)
    BY <1>1 DEF Sums
  <1>6. f(S)[R] = f(R)[R]
    <2> R \in SUBSET S /\ S \in SUBSET S
      OBVIOUS
    <2> HIDE DEF f, R
    <2> QED
      BY <1>1, <1>3, SumsAgree
  <1> HIDE DEF f
  <1> QED
    BY <1>4, <1>5, <1>6 DEF Unrolled

(* Nothing sums to zero.                                                   *)
LEMMA SumEmpty ==
  ASSUME NEW F
  PROVE  SumFunctionOnSet(F, {}) = 0
  BY SumUnrolled, FS_EmptySet

(* Integers sum to an integer.                                             *)
LEMMA SumType ==
  ASSUME NEW S, IsFiniteSet(S), NEW F, \A x \in S : F[x] \in Int
  PROVE  SumFunctionOnSet(F, S) \in Int
  <1> DEFINE B == {T \in SUBSET S : SumFunctionOnSet(F, T) \notin Int}
  <1> SUFFICES ASSUME S \in B PROVE FALSE
    OBVIOUS
  <1>1. B \in SUBSET SUBSET S
    OBVIOUS
  <1>2. PICK T \in B : \A U \in B : U \subseteq T => U = T
    <2> HIDE DEF B
    <2> QED
      BY <1>1, MinimalSubset
  <1>3. IsFiniteSet(T)
    BY FS_Subset
  <1>4. T # {}
    <2> SUFFICES ASSUME T = {} PROVE FALSE
      OBVIOUS
    <2>1. SumFunctionOnSet(F, T) \notin Int
      BY <1>2
    <2>2. SumFunctionOnSet(F, T) = 0
      BY SumEmpty
    <2> QED
      BY <2>1, <2>2
  <1> DEFINE U == T \ {Pick(T)}
  <1>5. SumFunctionOnSet(F, U) \in Int
    BY <1>2, <1>4, PickIn
  <1>6. SumFunctionOnSet(F, T) = F[Pick(T)] + SumFunctionOnSet(F, U)
    BY <1>3, <1>4, SumUnrolled
  <1>7. F[Pick(T)] \in Int
    BY <1>2, <1>4, PickIn
  <1> QED
    BY <1>2, <1>5, <1>6, <1>7

(* Any element can be taken out of a sum: the total is that element and    *)
(* the sum of the others, in whatever order the sum is computed.           *)
LEMMA SumRemove ==
  ASSUME NEW S, IsFiniteSet(S), NEW F, \A x \in S : F[x] \in Int, NEW x \in S
  PROVE  SumFunctionOnSet(F, S) = F[x] + SumFunctionOnSet(F, S \ {x})
  <1> DEFINE Bad(T, y) == SumFunctionOnSet(F, T) # F[y] + SumFunctionOnSet(F, T \ {y})
             B == {T \in SUBSET S : \E y \in T : Bad(T, y)}
  <1> SUFFICES ASSUME S \in B PROVE FALSE
    OBVIOUS
  <1>1. B \in SUBSET SUBSET S
    OBVIOUS
  <1>2. PICK T \in B : \A U \in B : U \subseteq T => U = T
    <2> HIDE DEF B
    <2> QED
      BY <1>1, MinimalSubset
  <1>3. PICK y \in T : Bad(T, y)
    OBVIOUS
  <1> DEFINE p == Pick(T)
  <1>4. p \in T /\ T \in SUBSET S
    BY <1>3, PickIn
  <1> HIDE DEF p
  <1>5. \A U \in SUBSET S : IsFiniteSet(U)
    BY FS_Subset
  <1>6. SumFunctionOnSet(F, T) = F[p] + SumFunctionOnSet(F, T \ {p})
    BY <1>3, <1>5, SumUnrolled DEF p
  <1>7. p # y
    BY <1>3, <1>6
  <1>8. T \ {p} \notin B /\ T \ {y} \notin B
    BY <1>2, <1>4
  <1>9. SumFunctionOnSet(F, T \ {p}) = F[y] + SumFunctionOnSet(F, (T \ {p}) \ {y})
    BY <1>4, <1>7, <1>8
  <1>10. SumFunctionOnSet(F, T \ {y}) = F[p] + SumFunctionOnSet(F, (T \ {y}) \ {p})
    BY <1>4, <1>7, <1>8
  <1>11. (T \ {p}) \ {y} = (T \ {y}) \ {p}
    OBVIOUS
  <1>12. F[p] \in Int /\ F[y] \in Int
    BY <1>4
  <1>13. SumFunctionOnSet(F, (T \ {p}) \ {y}) \in Int
    <2> DEFINE U == (T \ {p}) \ {y}
    <2>1. U \in SUBSET S
      BY <1>4
    <2> HIDE DEF U
    <2>2. SumFunctionOnSet(F, U) \in Int
      BY <1>5, <2>1, SumType
    <2> QED
      BY <2>2 DEF U
  <1> QED
    BY <1>3, <1>6, <1>9, <1>10, <1>11, <1>12, <1>13

(* Equal summands have equal sums.                                         *)
LEMMA SumEqual ==
  ASSUME NEW S, IsFiniteSet(S), NEW F, NEW G, \A x \in S : F[x] = G[x]
  PROVE  SumFunctionOnSet(F, S) = SumFunctionOnSet(G, S)
  <1> DEFINE B == {T \in SUBSET S : SumFunctionOnSet(F, T) # SumFunctionOnSet(G, T)}
  <1> SUFFICES ASSUME S \in B PROVE FALSE
    OBVIOUS
  <1>1. B \in SUBSET SUBSET S
    OBVIOUS
  <1>2. PICK T \in B : \A U \in B : U \subseteq T => U = T
    <2> HIDE DEF B
    <2> QED
      BY <1>1, MinimalSubset
  <1>3. IsFiniteSet(T)
    BY FS_Subset
  <1>4. T # {}
    BY <1>2, SumEmpty
  <1> DEFINE U == T \ {Pick(T)}
  <1>5. SumFunctionOnSet(F, U) = SumFunctionOnSet(G, U)
    BY <1>2, <1>4, PickIn
  <1>6. /\ SumFunctionOnSet(F, T) = F[Pick(T)] + SumFunctionOnSet(F, U)
        /\ SumFunctionOnSet(G, T) = G[Pick(T)] + SumFunctionOnSet(G, U)
    BY <1>3, <1>4, SumUnrolled
  <1>7. F[Pick(T)] = G[Pick(T)]
    BY <1>2, <1>4, PickIn
  <1> QED
    BY <1>2, <1>5, <1>6, <1>7

(* Zeros sum to zero.                                                      *)
LEMMA SumZero ==
  ASSUME NEW S, IsFiniteSet(S), NEW F, \A x \in S : F[x] = 0
  PROVE  SumFunctionOnSet(F, S) = 0
  <1> DEFINE B == {T \in SUBSET S : SumFunctionOnSet(F, T) # 0}
  <1> SUFFICES ASSUME S \in B PROVE FALSE
    OBVIOUS
  <1>1. B \in SUBSET SUBSET S
    OBVIOUS
  <1>2. PICK T \in B : \A U \in B : U \subseteq T => U = T
    <2> HIDE DEF B
    <2> QED
      BY <1>1, MinimalSubset
  <1>3. IsFiniteSet(T)
    BY FS_Subset
  <1>4. T # {}
    BY <1>2, SumEmpty
  <1> DEFINE U == T \ {Pick(T)}
  <1>5. SumFunctionOnSet(F, U) = 0 /\ F[Pick(T)] = 0
    BY <1>2, <1>4, PickIn
  <1>6. SumFunctionOnSet(F, T) = F[Pick(T)] + SumFunctionOnSet(F, U)
    BY <1>3, <1>4, SumUnrolled
  <1> QED
    BY <1>2, <1>5, <1>6

(* A change of one summand changes the total by the difference.            *)
LEMMA SumExcept ==
  ASSUME NEW S, IsFiniteSet(S), NEW F, NEW G, NEW x \in S,
         \A y \in S : F[y] \in Int /\ G[y] \in Int, \A y \in S \ {x} : F[y] = G[y]
  PROVE  SumFunctionOnSet(G, S) = SumFunctionOnSet(F, S) - F[x] + G[x]
  <1> DEFINE R == S \ {x}
  <1>1. IsFiniteSet(R)
    BY FS_RemoveElement
  <1>2. /\ SumFunctionOnSet(F, S) = F[x] + SumFunctionOnSet(F, R)
        /\ SumFunctionOnSet(G, S) = G[x] + SumFunctionOnSet(G, R)
    BY SumRemove
  <1>3. SumFunctionOnSet(F, R) = SumFunctionOnSet(G, R)
    <2> HIDE DEF R
    <2> QED
      BY <1>1, SumEqual DEF R
  <1>4. SumFunctionOnSet(F, R) \in Int
    BY <1>1, SumType
  <1> QED
    BY <1>2, <1>3, <1>4

(* Sums can be renumbered: p takes the elements of S to those of an image, *)
(* each to its own.                                                        *)
LEMMA SumRenumbered ==
  ASSUME NEW S, IsFiniteSet(S), NEW T, IsFiniteSet(T), NEW p \in Bijection(S, T),
         NEW F, NEW G, \A y \in T : F[y] \in Int, \A x \in S : G[x] = F[p[x]]
  PROVE  SumFunctionOnSet(G, S) = SumFunctionOnSet(F, T)
  <1> DEFINE Image(U) == {p[x] : x \in U}
             B == {U \in SUBSET S : SumFunctionOnSet(G, U) # SumFunctionOnSet(F, Image(U))}
  <1>1. /\ \A x \in S : p[x] \in T
        /\ \A x \in S, y \in S : p[x] = p[y] => x = y
        /\ \A y \in T : \E x \in S : p[x] = y
    BY DEF Bijection, Injection, IsInjective, Surjection
  <1>2. Image(S) = T
    BY <1>1
  <1> SUFFICES ASSUME S \in B PROVE FALSE
    BY <1>2
  <1>3. B \in SUBSET SUBSET S
    OBVIOUS
  <1>4. PICK U \in B : \A V \in B : V \subseteq U => V = U
    <2> HIDE DEF B
    <2> QED
      BY <1>3, MinimalSubset
  <1>5. IsFiniteSet(U) /\ Image(U) \in SUBSET T /\ IsFiniteSet(Image(U))
    <2>1. Image(U) \in SUBSET T
      BY <1>1
    <2> QED
      BY <2>1, FS_Subset
  <1>6. PICK x \in U : TRUE
    <2> SUFFICES ASSUME U = {} PROVE FALSE
      OBVIOUS
    <2>1. Image(U) = {}
      OBVIOUS
    <2> QED
      BY <1>4, <2>1, SumEmpty
  <1>7. Image(U \ {x}) = Image(U) \ {p[x]}
    BY <1>1, <1>6
  <1>8. SumFunctionOnSet(G, U \ {x}) = SumFunctionOnSet(F, Image(U) \ {p[x]})
    <2>1. U \ {x} \notin B
      BY <1>4, <1>6
    <2>2. U \ {x} \in SUBSET S
      OBVIOUS
    <2> QED
      BY <1>7, <2>1, <2>2
  <1>9. x \in S /\ p[x] \in Image(U) /\ G[x] = F[p[x]]
    BY <1>6
  <1>10. (\A z \in U : G[z] \in Int) /\ (\A z \in Image(U) : F[z] \in Int)
    BY <1>1, <1>5
  <1> DEFINE I == Image(U)
             y == p[x]
  <1>11. /\ SumFunctionOnSet(G, U) = G[x] + SumFunctionOnSet(G, U \ {x})
         /\ SumFunctionOnSet(F, I) = F[y] + SumFunctionOnSet(F, I \ {y})
    <2>1. IsFiniteSet(I) /\ y \in I /\ \A z \in I : F[z] \in Int
      BY <1>5, <1>9, <1>10
    <2> HIDE DEF I, y, B
    <2> QED
      BY <1>5, <1>6, <1>10, <2>1, SumRemove
  <1> QED
    BY <1>4, <1>8, <1>9, <1>11

(* A set without an element in common adds its own sum.                    *)
LEMMA SumUnion ==
  ASSUME NEW S, IsFiniteSet(S), NEW T, IsFiniteSet(T), S \intersect T = {},
         NEW F, \A x \in S \union T : F[x] \in Int
  PROVE  SumFunctionOnSet(F, S \union T) = SumFunctionOnSet(F, S) + SumFunctionOnSet(F, T)
  <1> DEFINE B == {U \in SUBSET S : SumFunctionOnSet(F, U \union T)
                                      # SumFunctionOnSet(F, U) + SumFunctionOnSet(F, T)}
  <1> SUFFICES ASSUME S \in B PROVE FALSE
    OBVIOUS
  <1>1. B \in SUBSET SUBSET S
    OBVIOUS
  <1>2. PICK U \in B : \A V \in B : V \subseteq U => V = U
    <2> HIDE DEF B
    <2> QED
      BY <1>1, MinimalSubset
  <1>3. IsFiniteSet(U) /\ IsFiniteSet(U \union T)
    BY FS_Subset, FS_Union
  <1>4. SumFunctionOnSet(F, T) \in Int
    BY SumType
  <1>5. PICK x \in U : TRUE
    <2> SUFFICES ASSUME U = {} PROVE FALSE
      OBVIOUS
    <2>1. U \union T = T
      OBVIOUS
    <2>2. SumFunctionOnSet(F, U) = 0
      BY SumEmpty
    <2> QED
      BY <1>2, <1>4, <2>1, <2>2
  <1> DEFINE V == U \ {x}
  <1>6. V \union T = (U \union T) \ {x}
    OBVIOUS
  <1>7. SumFunctionOnSet(F, V \union T) = SumFunctionOnSet(F, V) + SumFunctionOnSet(F, T)
    BY <1>2, <1>5
  <1>8. /\ SumFunctionOnSet(F, U \union T) = F[x] + SumFunctionOnSet(F, (U \union T) \ {x})
        /\ SumFunctionOnSet(F, U) = F[x] + SumFunctionOnSet(F, V)
    <2>1. x \in U \union T /\ (\A z \in U \union T : F[z] \in Int) /\ (\A z \in U : F[z] \in Int)
      BY <1>5
    <2> HIDE DEF B
    <2> QED
      BY <1>3, <1>5, <2>1, SumRemove
  <1>9. F[x] \in Int /\ SumFunctionOnSet(F, V) \in Int
    <2>1. IsFiniteSet(V) /\ \A z \in V : F[z] \in Int
      BY <1>3, FS_RemoveElement
    <2>2. F[x] \in Int
      BY <1>5
    <2>3. SumFunctionOnSet(F, V) \in Int
      <3> HIDE DEF V, B
      <3> QED
        BY <2>1, SumType
    <2> QED
      BY <2>2, <2>3
  <1> QED
    BY <1>2, <1>4, <1>6, <1>7, <1>8, <1>9

(* Natural numbers sum to a natural number.                                *)
LEMMA SumNat ==
  ASSUME NEW S, IsFiniteSet(S), NEW F, \A x \in S : F[x] \in Nat
  PROVE  SumFunctionOnSet(F, S) \in Nat
  <1> DEFINE B == {T \in SUBSET S : SumFunctionOnSet(F, T) \notin Nat}
  <1> SUFFICES ASSUME S \in B PROVE FALSE
    OBVIOUS
  <1>1. B \in SUBSET SUBSET S
    OBVIOUS
  <1>2. PICK T \in B : \A U \in B : U \subseteq T => U = T
    <2> HIDE DEF B
    <2> QED
      BY <1>1, MinimalSubset
  <1>3. IsFiniteSet(T)
    BY FS_Subset
  <1>4. T # {}
    <2> SUFFICES ASSUME T = {} PROVE FALSE
      OBVIOUS
    <2>1. SumFunctionOnSet(F, T) \notin Nat
      BY <1>2
    <2>2. SumFunctionOnSet(F, T) = 0
      BY SumEmpty
    <2> QED
      BY <2>1, <2>2
  <1> DEFINE U == T \ {Pick(T)}
  <1>5. SumFunctionOnSet(F, U) \in Nat
    BY <1>2, <1>4, PickIn
  <1>6. SumFunctionOnSet(F, T) = F[Pick(T)] + SumFunctionOnSet(F, U)
    BY <1>3, <1>4, SumUnrolled
  <1>7. F[Pick(T)] \in Nat
    BY <1>2, <1>4, PickIn
  <1> QED
    BY <1>2, <1>5, <1>6, <1>7

(* The sum of two functions is the sum of their sums.                      *)
LEMMA SumAdd ==
  ASSUME NEW S, IsFiniteSet(S), NEW F, NEW G, NEW H,
         \A x \in S : F[x] \in Int /\ G[x] \in Int /\ H[x] = F[x] + G[x]
  PROVE  SumFunctionOnSet(H, S) = SumFunctionOnSet(F, S) + SumFunctionOnSet(G, S)
  <1> DEFINE B == {T \in SUBSET S : SumFunctionOnSet(H, T)
                                      # SumFunctionOnSet(F, T) + SumFunctionOnSet(G, T)}
  <1> SUFFICES ASSUME S \in B PROVE FALSE
    OBVIOUS
  <1>1. B \in SUBSET SUBSET S
    OBVIOUS
  <1>2. PICK T \in B : \A U \in B : U \subseteq T => U = T
    <2> HIDE DEF B
    <2> QED
      BY <1>1, MinimalSubset
  <1>3. IsFiniteSet(T)
    BY FS_Subset
  <1>4. T # {}
    <2> SUFFICES ASSUME T = {} PROVE FALSE
      OBVIOUS
    <2> QED
      BY <1>2, SumEmpty
  <1> DEFINE U == T \ {Pick(T)}
             p == Pick(T)
  <1>5. p \in T /\ p \in S /\ F[p] \in Int /\ G[p] \in Int /\ H[p] = F[p] + G[p]
    BY <1>2, <1>4, PickIn
  <1>6. SumFunctionOnSet(H, U) = SumFunctionOnSet(F, U) + SumFunctionOnSet(G, U)
    BY <1>2, <1>5
  <1>7. /\ SumFunctionOnSet(F, T) = F[p] + SumFunctionOnSet(F, U)
        /\ SumFunctionOnSet(G, T) = G[p] + SumFunctionOnSet(G, U)
        /\ SumFunctionOnSet(H, T) = H[p] + SumFunctionOnSet(H, U)
    BY <1>3, <1>4, SumUnrolled
  <1>8. SumFunctionOnSet(F, U) \in Int /\ SumFunctionOnSet(G, U) \in Int
    <2>1. IsFiniteSet(U) /\ \A x \in U : F[x] \in Int /\ G[x] \in Int
      BY <1>3, FS_RemoveElement
    <2> HIDE DEF U, B
    <2> QED
      BY <2>1, SumType
  <1> HIDE DEF U, p
  <1> QED
    BY <1>2, <1>5, <1>6, <1>7, <1>8

(* A table adds up to the same by rows and by columns.                     *)
LEMMA SumExchange ==
  ASSUME NEW S, IsFiniteSet(S), NEW T, IsFiniteSet(T), NEW F,
         \A x \in S, y \in T : F[x][y] \in Int
  PROVE  SumFunctionOnSet([x \in S |-> SumFunctionOnSet([y \in T |-> F[x][y]], T)], S)
           = SumFunctionOnSet([y \in T |-> SumFunctionOnSet([x \in S |-> F[x][y]], S)], T)
  <1> DEFINE row(x) == [y \in T |-> F[x][y]]
             column(y) == [x \in S |-> F[x][y]]
             total(U) == [y \in T |-> SumFunctionOnSet(column(y), U)]
             rows == [x \in S |-> SumFunctionOnSet(row(x), T)]
             B == {U \in SUBSET S : SumFunctionOnSet(rows, U) # SumFunctionOnSet(total(U), T)}
  <1> SUFFICES ASSUME S \in B PROVE FALSE
    OBVIOUS
  <1>1. B \in SUBSET SUBSET S
    OBVIOUS
  <1>2. PICK U \in B : \A V \in B : V \subseteq U => V = U
    <2> HIDE DEF B
    <2> QED
      BY <1>1, MinimalSubset
  <1>3. IsFiniteSet(U)
    BY FS_Subset
  <1>4. U # {}
    <2> SUFFICES ASSUME U = {} PROVE FALSE
      OBVIOUS
    <2>1. \A y \in T : total(U)[y] = 0
      BY SumEmpty
    <2>2. SumFunctionOnSet(total(U), T) = 0
      <3> DEFINE G == total(U)
      <3> HIDE DEF G
      <3> QED
        BY <2>1, SumZero DEF G
    <2>3. SumFunctionOnSet(rows, U) = 0
      BY SumEmpty
    <2> QED
      BY <1>2, <2>2, <2>3
  <1> DEFINE p == Pick(U)
             V == U \ {p}
  <1>5. p \in U /\ p \in S /\ V \in SUBSET S /\ V # U /\ V \subseteq U
    BY <1>2, <1>4, PickIn
  <1>6. SumFunctionOnSet(rows, V) = SumFunctionOnSet(total(V), T)
    BY <1>2, <1>5
  <1>7. SumFunctionOnSet(rows, U) = rows[p] + SumFunctionOnSet(rows, V)
    BY <1>3, <1>4, SumUnrolled
  <1>8. IsFiniteSet(V)
    BY <1>5, FS_Subset
  <1>9. ASSUME NEW y \in T
        PROVE  /\ total(U)[y] = row(p)[y] + total(V)[y]
               /\ row(p)[y] \in Int /\ total(V)[y] \in Int
    <2> DEFINE C == column(y)
    <2>1. SumFunctionOnSet(C, U) = C[p] + SumFunctionOnSet(C, V)
      BY <1>3, <1>4, SumUnrolled
    <2>2. C[p] = row(p)[y] /\ C[p] \in Int /\ \A x \in V : C[x] \in Int
      BY <1>5
    <2>3. SumFunctionOnSet(C, V) \in Int
      <3> HIDE DEF C, V
      <3> QED
        BY <1>8, <2>2, SumType
    <2>4. total(U)[y] = SumFunctionOnSet(C, U) /\ total(V)[y] = SumFunctionOnSet(C, V)
      OBVIOUS
    <2> HIDE DEF C, V, total, row, p
    <2> QED
      BY <2>1, <2>2, <2>3, <2>4
  <1>10. SumFunctionOnSet(total(U), T) = SumFunctionOnSet(row(p), T) + SumFunctionOnSet(total(V), T)
    <2> DEFINE f == row(p)
               g == total(V)
               h == total(U)
    <2>1. \A y \in T : f[y] \in Int /\ g[y] \in Int /\ h[y] = f[y] + g[y]
      BY <1>9
    <2> HIDE DEF f, g, h
    <2>2. SumFunctionOnSet(h, T) = SumFunctionOnSet(f, T) + SumFunctionOnSet(g, T)
      BY <2>1, SumAdd
    <2> QED
      BY <2>2 DEF f, g, h
  <1>11. rows[p] = SumFunctionOnSet(row(p), T)
    BY <1>5
  <1>12. SumFunctionOnSet(rows, U) = SumFunctionOnSet(total(U), T)
    <2> HIDE DEF rows, total, row, V, p
    <2> QED
      BY <1>6, <1>7, <1>10, <1>11
  <1> QED
    BY <1>2, <1>12

(* One summand that is not zero is the sum.                                *)
LEMMA SumOne ==
  ASSUME NEW S, IsFiniteSet(S), NEW F, NEW x \in S, F[x] \in Int, \A y \in S \ {x} : F[y] = 0
  PROVE  SumFunctionOnSet(F, S) = F[x]
  <1> DEFINE R == S \ {x}
  <1>1. IsFiniteSet(R) /\ \A y \in S : F[y] \in Int
    BY FS_RemoveElement
  <1>2. SumFunctionOnSet(F, S) = F[x] + SumFunctionOnSet(F, R)
    BY <1>1, SumRemove
  <1>3. SumFunctionOnSet(F, R) = 0
    <2>1. \A y \in R : F[y] = 0
      OBVIOUS
    <2> HIDE DEF R
    <2> QED
      BY <1>1, <2>1, SumZero
  <1> HIDE DEF R
  <1> QED
    BY <1>2, <1>3
=============================================================================
