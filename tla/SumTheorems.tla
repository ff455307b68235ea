---------------------------- MODULE SumTheorems ----------------------------
(***************************************************************************)
(* What SumFunctionOnSet computes on every finite set, so that counters    *)
(* can be proved equal to the sums they stand for.                         *)
(*                                                                         *)
(* The library states induction over finite sets for an operator P(_);     *)
(* SetInduction states it for a set of sets instead, which any prover can  *)
(* instantiate, from the well-foundedness of strict inclusion.             *)
(***************************************************************************)
EXTENDS FiniteSetTheorems, TLAPS

(* A property of the subsets of a finite set, given as the set Q of those  *)
(* that have it, holds of all when each has it that all its strict subsets *)
(* give it to.                                                             *)
LEMMA SetInduction ==
  ASSUME NEW S, IsFiniteSet(S), NEW Q,
         \A T \in SUBSET S : (\A U \in SUBSET T : U # T => U \in Q) => T \in Q
  PROVE  \A T \in SUBSET S : T \in Q
<1> DEFINE Bad == {T \in SUBSET S : T \notin Q}
<1>1. SUFFICES ASSUME Bad # {} PROVE FALSE
  OBVIOUS
<1>2. IsWellFoundedOn(StrictSubsetOrdering(S), SUBSET S)
  BY FS_StrictSubsetOrderingWellFounded, FS_FiniteSubsetsOfFinite
<1>3. PICK T \in Bad : \A U \in Bad : ~(<<U, T>> \in StrictSubsetOrdering(S))
  <2>1. Bad \subseteq SUBSET S
    OBVIOUS
  <2> HIDE DEF Bad
  <2> QED
    BY <1>1, <1>2, <2>1, WFMin
<1>4. \A U \in SUBSET T : U # T => U \in Q
  BY <1>3 DEF StrictSubsetOrdering
<1> QED
  BY <1>3, <1>4
-----------------------------------------------------------------------------
(* The recursion behind SumFunctionOnSet has a solution on every finite    *)
(* set, and its solutions agree wherever two of them are defined.          *)
Picked(T) == CHOOSE x \in T : TRUE
IsSum(g, F, S) ==
  g = [T \in SUBSET S |-> IF T = {} THEN 0
                          ELSE F[Picked(T)] + g[T \ {Picked(T)}]]
Summing(F, S) == CHOOSE g : IsSum(g, F, S)

LEMMA SumUnfolds ==
  ASSUME NEW F, NEW S
  PROVE  SumFunctionOnSet(F, S) = Summing(F, S)[S]
BY DEF SumFunctionOnSet, FoldFunctionOnSet, MapThenFoldSet, Summing, IsSum, Picked

LEMMA SumStep ==
  ASSUME NEW F, NEW S, NEW g, IsSum(g, F, S), NEW T \in SUBSET S
  PROVE  g[T] = IF T = {} THEN 0 ELSE F[Picked(T)] + g[T \ {Picked(T)}]
BY DEF IsSum

LEMMA PickedIn ==
  ASSUME NEW T, T # {}
  PROVE  Picked(T) \in T
BY DEF Picked

LEMMA SumsAgree ==
  ASSUME NEW F, NEW S, NEW R, IsFiniteSet(S), R \subseteq S,
         NEW g, IsSum(g, F, S), NEW h, IsSum(h, F, R)
  PROVE  \A T \in SUBSET R : g[T] = h[T]
<1> DEFINE Q == {T \in SUBSET R : g[T] = h[T]}
<1>1. IsFiniteSet(R)
  BY FS_Subset
<1>2. ASSUME NEW T \in SUBSET R, \A U \in SUBSET T : U # T => U \in Q
      PROVE  T \in Q
  <2>1. CASE T = {}
    BY <2>1, SumStep
  <2>2. CASE T # {}
    <3>1. T \ {Picked(T)} \in SUBSET T /\ T \ {Picked(T)} # T
      BY <2>2, PickedIn
    <3>2. g[T \ {Picked(T)}] = h[T \ {Picked(T)}]
      BY <1>2, <3>1
    <3>3. g[T] = F[Picked(T)] + g[T \ {Picked(T)}]
      BY <2>2, SumStep
    <3>4. h[T] = F[Picked(T)] + h[T \ {Picked(T)}]
      BY <2>2, SumStep
    <3> QED
      BY <3>2, <3>3, <3>4
  <2> QED
    BY <2>1, <2>2
<1>3. \A T \in SUBSET R : T \in Q
  <2> HIDE DEF Q
  <2> QED
    BY <1>1, <1>2, SetInduction
<1> QED
  BY <1>3

LEMMA SumExists ==
  ASSUME NEW F, NEW S, IsFiniteSet(S)
  PROVE  \A T \in SUBSET S : IsSum(Summing(F, T), F, T)
<1> DEFINE Q == {T \in SUBSET S : IsSum(Summing(F, T), F, T)}
<1>1. ASSUME NEW T \in SUBSET S, \A U \in SUBSET T : U # T => U \in Q
      PROVE  T \in Q
  <2> DEFINE Rest(U) == U \ {Picked(U)}
             G == [U \in SUBSET T |-> IF U = {} THEN 0
                     ELSE F[Picked(U)] + Summing(F, Rest(U))[Rest(U)]]
  <2>1. ASSUME NEW U \in SUBSET T, U # {}
        PROVE  G[Rest(U)] = Summing(F, Rest(U))[Rest(U)]
    <3> DEFINE V == Rest(U)
    <3>1. V \in SUBSET T /\ V # T /\ IsFiniteSet(V)
      BY <2>1, PickedIn, FS_Subset
    <3>2. IsSum(Summing(F, V), F, V)
      BY <1>1, <3>1
    <3>3. CASE V = {}
      <4>1. Summing(F, V)[V] = 0
        <5> HIDE DEF V
        <5>1. V \in SUBSET V
          OBVIOUS
        <5> QED
          BY <3>2, <3>3, <5>1, SumStep
      <4> QED
        BY <3>1, <3>3, <4>1
    <3>4. CASE V # {}
      <4> DEFINE W == Rest(V)
      <4>1. W \in SUBSET V /\ W # V /\ W # T
        BY <3>1, <3>4, PickedIn
      <4>2. IsSum(Summing(F, W), F, W)
        BY <1>1, <3>1, <4>1
      <4>3. Summing(F, V)[W] = Summing(F, W)[W]
        <5> HIDE DEF V, W
        <5> QED
          BY <3>1, <3>2, <4>1, <4>2, SumsAgree
      <4>4. Summing(F, V)[V] = F[Picked(V)] + Summing(F, V)[W]
        <5> HIDE DEF V
        <5>1. V \in SUBSET V
          OBVIOUS
        <5> QED
          BY <3>2, <3>4, <5>1, SumStep
      <4>5. G[V] = F[Picked(V)] + Summing(F, W)[W]
        BY <3>1, <3>4
      <4> QED
        BY <4>3, <4>4, <4>5
    <3> QED
      BY <3>3, <3>4
  <2>2. IsSum(G, F, T)
    <3>1. G = [U \in SUBSET T |-> IF U = {} THEN 0
                 ELSE F[Picked(U)] + G[U \ {Picked(U)}]]
      BY <2>1
    <3> QED
      BY <3>1 DEF IsSum
  <2> HIDE DEF G
  <2>3. IsSum(Summing(F, T), F, T)
    BY <2>2, Zenon DEF Summing
  <2> QED
    BY <2>3
<1> HIDE DEF Q
<1>2. \A T \in SUBSET S : T \in Q
  BY <1>1, SetInduction
<1> QED
  BY <1>2 DEF Q
-----------------------------------------------------------------------------
(* What the sum over a finite set is.                                      *)
LEMMA SumPicked ==
  ASSUME NEW F, NEW S, IsFiniteSet(S), S # {}
  PROVE  SumFunctionOnSet(F, S)
           = F[Picked(S)] + SumFunctionOnSet(F, S \ {Picked(S)})
<1> DEFINE R == S \ {Picked(S)}
<1>1. IsSum(Summing(F, S), F, S) /\ IsSum(Summing(F, R), F, R)
  BY SumExists
<1>2. Summing(F, S)[R] = Summing(F, R)[R]
  <2>1. R \subseteq S
    OBVIOUS
  <2> HIDE DEF R
  <2> QED
    BY <1>1, <2>1, SumsAgree
<1>3. Summing(F, S)[S] = F[Picked(S)] + Summing(F, S)[R]
  BY <1>1, SumStep
<1> QED
  BY <1>2, <1>3, SumUnfolds

LEMMA SumEmpty ==
  ASSUME NEW F
  PROVE  SumFunctionOnSet(F, {}) = 0
<1>1. IsSum(Summing(F, {}), F, {})
  BY SumExists, FS_EmptySet
<1> QED
  BY <1>1, SumStep, SumUnfolds

LEMMA SumIsInt ==
  ASSUME NEW S, IsFiniteSet(S), NEW F, \A x \in S : F[x] \in Int
  PROVE  SumFunctionOnSet(F, S) \in Int
<1> DEFINE Q == {T \in SUBSET S : SumFunctionOnSet(F, T) \in Int}
<1>1. ASSUME NEW T \in SUBSET S, \A U \in SUBSET T : U # T => U \in Q
      PROVE  T \in Q
  <2>1. CASE T = {}
    BY <2>1, SumEmpty
  <2>2. CASE T # {}
    <3>1. Picked(T) \in T
      BY <2>2, PickedIn
    <3>2. SumFunctionOnSet(F, T \ {Picked(T)}) \in Int
      BY <1>1, <3>1
    <3>3. F[Picked(T)] \in Int
      BY <3>1
    <3>4. SumFunctionOnSet(F, T) = F[Picked(T)] + SumFunctionOnSet(F, T \ {Picked(T)})
      BY <2>2, SumPicked, FS_Subset
    <3> QED
      BY <3>2, <3>3, <3>4
  <2> QED
    BY <2>1, <2>2
<1> HIDE DEF Q
<1>2. S \in Q
  BY <1>1, SetInduction
<1> QED
  BY <1>2 DEF Q

(* Any member may be taken out of the sum first.                           *)
LEMMA SumRemove ==
  ASSUME NEW S, IsFiniteSet(S), NEW F, \A x \in S : F[x] \in Int, NEW a \in S
  PROVE  SumFunctionOnSet(F, S) = F[a] + SumFunctionOnSet(F, S \ {a})
<1> DEFINE Taken(T, x) ==
             SumFunctionOnSet(F, T) = F[x] + SumFunctionOnSet(F, T \ {x})
           Q == {T \in SUBSET S : \A x \in T : Taken(T, x)}
<1>1. ASSUME NEW T \in SUBSET S, \A U \in SUBSET T : U # T => U \in Q
      PROVE  T \in Q
  <2> SUFFICES ASSUME NEW x \in T PROVE Taken(T, x)
    OBVIOUS
  <2> DEFINE y == Picked(T)
  <2>1. y \in T /\ IsFiniteSet(T)
    BY PickedIn, FS_Subset
  <2>2. SumFunctionOnSet(F, T) = F[y] + SumFunctionOnSet(F, T \ {y})
    BY <2>1, SumPicked
  <2> HIDE DEF y
  <2>3. CASE x = y
    BY <2>2, <2>3
  <2>4. CASE x # y
    <3>1. SumFunctionOnSet(F, T \ {y}) = F[x] + SumFunctionOnSet(F, (T \ {y}) \ {x})
      BY <1>1, <2>1, <2>4
    <3>2. SumFunctionOnSet(F, T \ {x}) = F[y] + SumFunctionOnSet(F, (T \ {x}) \ {y})
      BY <1>1, <2>1, <2>4
    <3>3. (T \ {y}) \ {x} = (T \ {x}) \ {y}
      OBVIOUS
    <3>4. SumFunctionOnSet(F, (T \ {x}) \ {y}) \in Int
      BY <2>1, SumIsInt, FS_Subset
    <3>5. F[x] \in Int /\ F[y] \in Int
      BY <2>1
    <3> DEFINE r == SumFunctionOnSet(F, (T \ {x}) \ {y})
    <3>6. SumFunctionOnSet(F, T) = F[y] + (F[x] + r)
      BY <2>2, <3>1, <3>3
    <3>7. SumFunctionOnSet(F, T \ {x}) = F[y] + r
      BY <3>2
    <3> HIDE DEF r
    <3>8. r \in Int
      BY <3>4 DEF r
    <3>9. F[y] + (F[x] + r) = F[x] + (F[y] + r)
      BY <3>5, <3>8
    <3> QED
      BY <3>6, <3>7, <3>9
  <2> QED
    BY <2>3, <2>4
<1> HIDE DEF Q
<1>2. S \in Q
  BY <1>1, SetInduction
<1> QED
  BY <1>2 DEF Q

LEMMA SumAdd ==
  ASSUME NEW S, IsFiniteSet(S), NEW F, NEW a, a \notin S,
         \A x \in S \cup {a} : F[x] \in Int
  PROVE  SumFunctionOnSet(F, S \cup {a}) = F[a] + SumFunctionOnSet(F, S)
<1>1. (S \cup {a}) \ {a} = S /\ a \in S \cup {a}
  OBVIOUS
<1>2. IsFiniteSet(S \cup {a})
  BY FS_AddElement
<1> QED
  BY <1>1, <1>2, SumRemove

(* Only the values at the members matter.                                  *)
LEMMA SumSame ==
  ASSUME NEW S, IsFiniteSet(S), NEW F, NEW G, \A x \in S : F[x] = G[x]
  PROVE  SumFunctionOnSet(F, S) = SumFunctionOnSet(G, S)
<1> DEFINE Q == {T \in SUBSET S : SumFunctionOnSet(F, T) = SumFunctionOnSet(G, T)}
<1>1. ASSUME NEW T \in SUBSET S, \A U \in SUBSET T : U # T => U \in Q
      PROVE  T \in Q
  <2>1. CASE T = {}
    BY <2>1, SumEmpty
  <2>2. CASE T # {}
    <3>1. Picked(T) \in T /\ IsFiniteSet(T)
      BY <2>2, PickedIn, FS_Subset
    <3>2. SumFunctionOnSet(F, T \ {Picked(T)}) = SumFunctionOnSet(G, T \ {Picked(T)})
      BY <1>1, <3>1
    <3>3. F[Picked(T)] = G[Picked(T)]
      BY <3>1
    <3> QED
      BY <2>2, <3>1, <3>2, <3>3, SumPicked
  <2> QED
    BY <2>1, <2>2
<1> HIDE DEF Q
<1>2. S \in Q
  BY <1>1, SetInduction
<1> QED
  BY <1>2 DEF Q

(* A change of the value at one member changes the sum by as much.         *)
LEMMA SumUpdate ==
  ASSUME NEW S, IsFiniteSet(S), NEW F, NEW G, NEW a \in S,
         \A x \in S : F[x] \in Int, G[a] \in Int,
         \A x \in S : x # a => F[x] = G[x]
  PROVE  SumFunctionOnSet(G, S) = SumFunctionOnSet(F, S) + (G[a] - F[a])
<1>1. SumFunctionOnSet(F, S) = F[a] + SumFunctionOnSet(F, S \ {a})
  BY SumRemove
<1>2. \A x \in S : G[x] \in Int
  OBVIOUS
<1>3. SumFunctionOnSet(G, S) = G[a] + SumFunctionOnSet(G, S \ {a})
  BY <1>2, SumRemove
<1>4. IsFiniteSet(S \ {a})
  BY FS_RemoveElement
<1>5. SumFunctionOnSet(F, S \ {a}) = SumFunctionOnSet(G, S \ {a})
  BY <1>4, SumSame
<1>6. SumFunctionOnSet(F, S \ {a}) \in Int
  BY <1>4, SumIsInt
<1> QED
  BY <1>1, <1>3, <1>5, <1>6

(* A sum over a set is the sums over a part of it and over the rest.       *)
LEMMA SumSplit ==
  ASSUME NEW S, IsFiniteSet(S), NEW F, \A x \in S : F[x] \in Int,
         NEW R \in SUBSET S
  PROVE  SumFunctionOnSet(F, S)
           = SumFunctionOnSet(F, R) + SumFunctionOnSet(F, S \ R)
<1> DEFINE Split(T) == SumFunctionOnSet(F, S)
                         = SumFunctionOnSet(F, T) + SumFunctionOnSet(F, S \ T)
           Q == {T \in SUBSET R : Split(T)}
<1>1. ASSUME NEW T \in SUBSET R, \A U \in SUBSET T : U # T => U \in Q
      PROVE  T \in Q
  <2>0. SumFunctionOnSet(F, S) \in Int
    BY SumIsInt
  <2>1. CASE T = {}
    <3>1. S \ T = S
      BY <2>1
    <3> QED
      BY <2>0, <2>1, <3>1, SumEmpty
  <2>2. CASE T # {}
    <3> DEFINE x == Picked(T)
               U == T \ {x}
               V == S \ T
    <3>1. x \in T /\ IsFiniteSet(T) /\ IsFiniteSet(U) /\ IsFiniteSet(V)
      BY <2>2, PickedIn, FS_Subset
    <3>2. Split(U)
      BY <1>1, <3>1
    <3>3. S \ U = V \cup {x} /\ x \notin V /\ V \cup {x} \subseteq S
      BY <3>1
    <3>4. SumFunctionOnSet(F, T) = F[x] + SumFunctionOnSet(F, U)
      BY <2>2, <3>1, SumPicked
    <3> HIDE DEF x, U, V
    <3>5. SumFunctionOnSet(F, S \ U) = F[x] + SumFunctionOnSet(F, V)
      BY <3>1, <3>3, SumAdd
    <3>6. /\ F[x] \in Int /\ SumFunctionOnSet(F, U) \in Int
          /\ SumFunctionOnSet(F, V) \in Int
      <4>1. U \subseteq S /\ V \subseteq S
        BY DEF U, V
      <4> QED
        BY <3>1, <4>1, SumIsInt
    <3>7. Split(T)
      BY <3>2, <3>4, <3>5, <3>6 DEF V
    <3> QED
      BY <3>7
  <2> QED
    BY <2>1, <2>2
<1> HIDE DEF Q
<1>2. R \in Q
  <2>1. IsFiniteSet(R)
    BY FS_Subset
  <2> QED
    BY <1>1, <2>1, SetInduction
<1> QED
  BY <1>2 DEF Q

(* A sum over a part is the sum of what the part's members have.           *)
LEMMA SumFilter ==
  ASSUME NEW S, IsFiniteSet(S), NEW F, NEW R \in SUBSET S,
         \A x \in R : F[x] \in Int
  PROVE  SumFunctionOnSet(F, R)
           = SumFunctionOnSet([x \in S |-> IF x \in R THEN F[x] ELSE 0], S)
<1> DEFINE G == [x \in S |-> IF x \in R THEN F[x] ELSE 0]
           Q == {T \in SUBSET (S \ R) : SumFunctionOnSet(G, T) = 0}
<1>1. IsFiniteSet(R) /\ IsFiniteSet(S \ R)
  BY FS_Subset
<1>2. ASSUME NEW T \in SUBSET (S \ R), \A U \in SUBSET T : U # T => U \in Q
      PROVE  T \in Q
  <2>1. CASE T = {}
    BY <2>1, SumEmpty
  <2>2. CASE T # {}
    <3>1. Picked(T) \in T /\ IsFiniteSet(T)
      BY <1>1, <2>2, PickedIn, FS_Subset
    <3>2. SumFunctionOnSet(G, T \ {Picked(T)}) = 0
      BY <1>2, <3>1
    <3>3. G[Picked(T)] = 0
      BY <3>1
    <3> HIDE DEF G
    <3>4. SumFunctionOnSet(G, T) = 0 + 0
      BY <2>2, <3>1, <3>2, <3>3, SumPicked
    <3> QED
      BY <3>4
  <2> QED
    BY <2>1, <2>2
<1>3. S \ R \in Q
  <2> DEFINE Z == S \ R
  <2> HIDE DEF Q
  <2>1. \A T \in SUBSET Z : (\A U \in SUBSET T : U # T => U \in Q) => T \in Q
    BY <1>2
  <2>2. IsFiniteSet(Z)
    BY <1>1
  <2> HIDE DEF Z
  <2>3. \A T \in SUBSET Z : T \in Q
    BY <2>1, <2>2, SetInduction
  <2> QED
    BY <2>3 DEF Z
<1>4. \A x \in S : G[x] \in Int
  OBVIOUS
<1>5. SumFunctionOnSet(G, S \ R) = 0
  BY <1>3
<1>6. \A x \in R : F[x] = G[x]
  OBVIOUS
<1> HIDE DEF G, Q
<1>7. SumFunctionOnSet(G, S) = SumFunctionOnSet(G, R) + SumFunctionOnSet(G, S \ R)
  BY <1>4, SumSplit
<1>8. SumFunctionOnSet(F, R) = SumFunctionOnSet(G, R)
  BY <1>1, <1>6, SumSame
<1>9. SumFunctionOnSet(G, R) \in Int
  BY <1>1, <1>4, SumIsInt
<1> QED
  BY <1>5, <1>7, <1>8, <1>9 DEF G

(* A sum of naturals is one, and at least each of its parts.               *)
LEMMA SumIsNat ==
  ASSUME NEW S, IsFiniteSet(S), NEW F, \A x \in S : F[x] \in Nat
  PROVE  SumFunctionOnSet(F, S) \in Nat
<1> DEFINE Q == {T \in SUBSET S : SumFunctionOnSet(F, T) \in Nat}
<1>1. ASSUME NEW T \in SUBSET S, \A U \in SUBSET T : U # T => U \in Q
      PROVE  T \in Q
  <2>1. CASE T = {}
    BY <2>1, SumEmpty
  <2>2. CASE T # {}
    <3>1. Picked(T) \in T /\ IsFiniteSet(T)
      BY <2>2, PickedIn, FS_Subset
    <3>2. SumFunctionOnSet(F, T \ {Picked(T)}) \in Nat
      BY <1>1, <3>1
    <3>3. F[Picked(T)] \in Nat
      BY <3>1
    <3>4. SumFunctionOnSet(F, T) = F[Picked(T)] + SumFunctionOnSet(F, T \ {Picked(T)})
      BY <2>2, <3>1, SumPicked
    <3> QED
      BY <3>2, <3>3, <3>4
  <2> QED
    BY <2>1, <2>2
<1> HIDE DEF Q
<1>2. S \in Q
  BY <1>1, SetInduction
<1> QED
  BY <1>2 DEF Q

LEMMA SumAtLeastMember ==
  ASSUME NEW S, IsFiniteSet(S), NEW F, \A x \in S : F[x] \in Nat, NEW a \in S
  PROVE  F[a] <= SumFunctionOnSet(F, S)
<1>1. SumFunctionOnSet(F, S) = F[a] + SumFunctionOnSet(F, S \ {a})
  BY SumRemove
<1>2. SumFunctionOnSet(F, S \ {a}) \in Nat
  BY SumIsNat, FS_RemoveElement
<1>3. F[a] \in Nat
  OBVIOUS
<1> QED
  BY <1>1, <1>2, <1>3

LEMMA SumAtLeastPart ==
  ASSUME NEW S, IsFiniteSet(S), NEW F, \A x \in S : F[x] \in Nat,
         NEW R \in SUBSET S
  PROVE  SumFunctionOnSet(F, R) <= SumFunctionOnSet(F, S)
<1>1. SumFunctionOnSet(F, S) = SumFunctionOnSet(F, R) + SumFunctionOnSet(F, S \ R)
  BY SumSplit
<1>2. IsFiniteSet(R) /\ IsFiniteSet(S \ R)
  BY FS_Subset
<1>3. SumFunctionOnSet(F, R) \in Nat /\ SumFunctionOnSet(F, S \ R) \in Nat
  BY <1>2, SumIsNat
<1> QED
  BY <1>1, <1>3

(* A sum of zeros.                                                         *)
LEMMA SumZero ==
  ASSUME NEW S, IsFiniteSet(S), NEW F, \A x \in S : F[x] = 0
  PROVE  SumFunctionOnSet(F, S) = 0
<1>1. {} \subseteq S /\ \A x \in {} : F[x] \in Int
  OBVIOUS
<1>2. SumFunctionOnSet(F, {})
        = SumFunctionOnSet([x \in S |-> IF x \in {} THEN F[x] ELSE 0], S)
  BY <1>1, SumFilter
<1>3. \A x \in S : F[x] = [y \in S |-> IF y \in {} THEN F[y] ELSE 0][x]
  OBVIOUS
<1> QED
  BY <1>2, <1>3, SumSame, SumEmpty

(* Counting the members of a part is summing ones over it.                 *)
LEMMA SumOnes ==
  ASSUME NEW S, IsFiniteSet(S), NEW R \in SUBSET S
  PROVE  Cardinality(R)
           = SumFunctionOnSet([x \in S |-> IF x \in R THEN 1 ELSE 0], S)
<1> DEFINE F == [x \in S |-> 1]
           Q == {T \in SUBSET R : SumFunctionOnSet(F, T) = Cardinality(T)}
<1>0. IsFiniteSet(R)
  BY FS_Subset
<1>1. ASSUME NEW T \in SUBSET R, \A U \in SUBSET T : U # T => U \in Q
      PROVE  T \in Q
  <2>1. CASE T = {}
    BY <2>1, SumEmpty, FS_EmptySet
  <2>2. CASE T # {}
    <3> DEFINE y == Picked(T)
    <3>1. y \in T /\ IsFiniteSet(T)
      BY <1>0, <2>2, PickedIn, FS_Subset
    <3>2. SumFunctionOnSet(F, T \ {y}) = Cardinality(T \ {y})
      BY <1>1, <3>1
    <3>3. F[y] = 1
      BY <3>1
    <3>4. SumFunctionOnSet(F, T) = F[y] + SumFunctionOnSet(F, T \ {y})
      BY <2>2, <3>1, SumPicked
    <3> HIDE DEF y, F
    <3>5. Cardinality(T \ {y}) = Cardinality(T) - 1 /\ Cardinality(T) \in Nat
      BY <3>1, FS_RemoveElement, FS_CardinalityType
    <3> QED
      BY <3>2, <3>3, <3>4, <3>5
  <2> QED
    BY <2>1, <2>2
<1> HIDE DEF Q
<1>2. R \in Q
  BY <1>0, <1>1, SetInduction
<1>3. SumFunctionOnSet(F, R)
        = SumFunctionOnSet([x \in S |-> IF x \in R THEN F[x] ELSE 0], S)
  BY SumFilter
<1>4. [x \in S |-> IF x \in R THEN F[x] ELSE 0]
        = [x \in S |-> IF x \in R THEN 1 ELSE 0]
  OBVIOUS
<1> QED
  BY <1>2, <1>3, <1>4 DEF Q
-----------------------------------------------------------------------------
(* Induction over an initial part of the natural numbers.                  *)
LEMMA UpToInduction ==
  ASSUME NEW n \in Nat, NEW P, 0 \in P,
         \A k \in 0 .. n - 1 : k \in P => k + 1 \in P
  PROVE  \A k \in 0 .. n : k \in P
<1> DEFINE S == 0 .. n
           Q == {T \in SUBSET S : \A k \in S : T = 0 .. k => k \in P}
<1>1. ASSUME NEW T \in SUBSET S, \A U \in SUBSET T : U # T => U \in Q
      PROVE  T \in Q
  <2> SUFFICES ASSUME NEW k \in S, T = 0 .. k PROVE k \in P
    OBVIOUS
  <2>1. CASE k = 0
    BY <2>1
  <2>2. CASE k # 0
    <3> DEFINE U == 0 .. k - 1
    <3>1. U \in SUBSET T /\ k \notin U /\ k \in T /\ k - 1 \in S
      BY <2>2
    <3>2. U \in Q
      BY <1>1, <3>1
    <3>3. k - 1 \in P
      BY <3>1, <3>2
    <3> QED
      BY <2>2, <3>3
  <2> QED
    BY <2>1, <2>2
<1>2. IsFiniteSet(S)
  BY FS_Interval
<1>3. \A T \in SUBSET S : T \in Q
  <2> HIDE DEF Q, S
  <2> QED
    BY <1>1, <1>2, SetInduction
<1>4. ASSUME NEW k \in S PROVE k \in P
  <2>1. 0 .. k \in SUBSET S
    OBVIOUS
  <2> QED
    BY <1>3, <2>1
<1> QED
  BY <1>4

(* Sums are linear. *)
LEMMA SumLinear ==
  ASSUME NEW S, IsFiniteSet(S), NEW F, NEW G, NEW H, NEW c \in Int,
         \A x \in S : F[x] \in Int /\ G[x] \in Int /\ H[x] = F[x] + c * G[x]
  PROVE  SumFunctionOnSet(H, S)
           = SumFunctionOnSet(F, S) + c * SumFunctionOnSet(G, S)
<1> DEFINE Q == {T \in SUBSET S :
                   SumFunctionOnSet(H, T)
                     = SumFunctionOnSet(F, T) + c * SumFunctionOnSet(G, T)}
<1>1. ASSUME NEW T \in SUBSET S, \A U \in SUBSET T : U # T => U \in Q
      PROVE  T \in Q
  <2>1. CASE T = {}
    BY <2>1, SumEmpty
  <2>2. CASE T # {}
    <3> DEFINE x == Picked(T)
               U == T \ {x}
               f == SumFunctionOnSet(F, U)
               g == SumFunctionOnSet(G, U)
               h == SumFunctionOnSet(H, U)
    <3>1. x \in T /\ U \in SUBSET T /\ U # T
      BY <2>2, PickedIn
    <3>2. IsFiniteSet(T) /\ IsFiniteSet(U)
      BY FS_Subset
    <3>3. /\ SumFunctionOnSet(F, T) = F[x] + f
          /\ SumFunctionOnSet(G, T) = G[x] + g
          /\ SumFunctionOnSet(H, T) = H[x] + h
      BY <2>2, <3>2, SumPicked
    <3>4. f \in Int /\ g \in Int
      BY <3>2, SumIsInt
    <3>5. h = f + c * g
      BY <1>1, <3>1
    <3>6. F[x] \in Int /\ G[x] \in Int /\ H[x] = F[x] + c * G[x]
      BY <3>1
    <3> HIDE DEF x, f, g, h
    <3>7. H[x] + h = (F[x] + f) + c * (G[x] + g)
      <4> DEFINE s == F[x]
                 t == G[x]
      <4>1. s \in Int /\ t \in Int /\ H[x] = s + c * t
        BY <3>6
      <4> HIDE DEF s, t
      <4>2. (s + c * t) + (f + c * g) = (s + f) + c * (t + g)
        BY <3>4, <4>1
      <4> QED
        BY <3>5, <4>1, <4>2 DEF s, t
    <3> QED
      BY <3>3, <3>7
  <2> QED
    BY <2>1, <2>2
<1> HIDE DEF Q
<1>2. \A T \in SUBSET S : T \in Q
  BY <1>1, SetInduction
<1>3. S \in SUBSET S
  OBVIOUS
<1> QED
  BY <1>2, <1>3 DEF Q

(* Terms that are each at most a d-th of other terms.                      *)
LEMMA SumOfParts ==
  ASSUME NEW S, IsFiniteSet(S), NEW F, NEW G, NEW d \in Nat,
         \A x \in S : F[x] \in Int /\ G[x] \in Int /\ d * G[x] <= F[x]
  PROVE  d * SumFunctionOnSet(G, S) <= SumFunctionOnSet(F, S)
<1> DEFINE Q == {T \in SUBSET S :
                   d * SumFunctionOnSet(G, T) <= SumFunctionOnSet(F, T)}
<1>1. ASSUME NEW T \in SUBSET S, \A U \in SUBSET T : U # T => U \in Q
      PROVE  T \in Q
  <2>1. CASE T = {}
    BY <2>1, SumEmpty
  <2>2. CASE T # {}
    <3> DEFINE x == Picked(T)
               U == T \ {x}
               f == SumFunctionOnSet(F, U)
               g == SumFunctionOnSet(G, U)
    <3>1. x \in T /\ U \in SUBSET T /\ U # T
      BY <2>2, PickedIn
    <3>2. IsFiniteSet(T) /\ IsFiniteSet(U)
      BY FS_Subset
    <3>3. /\ SumFunctionOnSet(F, T) = F[x] + f
          /\ SumFunctionOnSet(G, T) = G[x] + g
      BY <2>2, <3>2, SumPicked
    <3>4. f \in Int /\ g \in Int
      BY <3>2, SumIsInt
    <3>5. d * g <= f
      BY <1>1, <3>1
    <3>6. F[x] \in Int /\ G[x] \in Int /\ d * G[x] <= F[x]
      BY <3>1
    <3> HIDE DEF x, f, g
    <3>7. d * (G[x] + g) <= F[x] + f
      BY <3>4, <3>5, <3>6
    <3> QED
      BY <3>3, <3>7
  <2> QED
    BY <2>1, <2>2
<1> HIDE DEF Q
<1>2. \A T \in SUBSET S : T \in Q
  BY <1>1, SetInduction
<1>3. S \in SUBSET S
  OBVIOUS
<1> QED
  BY <1>2, <1>3 DEF Q
=============================================================================
