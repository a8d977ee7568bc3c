------------------------------ MODULE WeightsProofs ------------------------------
(***************************************************************************)
(* Proofs about Weights and ScoreFormula, for any hotkeys, rigs, uids,     *)
(* scores, demand and shares: weights follow scores and scores follow      *)
(* merit, the reserve gets the share that is held, and the eligibility     *)
(* floor comes from the reserve.                                           *)
(*                                                                         *)
(* The state needs little: the vector is made in one step from what is     *)
(* still there when it is looked at (FromScores).  The work is in what the *)
(* operators yield, above all the sums.  What is proved of them first is   *)
(* that the fold has a value at all and may take its elements in any       *)
(* order; everything else about sums follows by removing an element.       *)
(***************************************************************************)
EXTENDS Weights, FiniteSetTheorems, WellFoundedInduction, TLAPS

-----------------------------------------------------------------------------
(* Induction.  A property of sets is written as a set of sets here, so     *)
(* that it can be named where the induction is used.                       *)

(* A nonempty set of numbers has a least one.                              *)
LEMMA LeastNumber ==
    ASSUME NEW S \in SUBSET Nat, S # {}
    PROVE  \E n \in S : \A k \in S : n <= k
<1> DEFINE R == {ss \in Nat \X Nat : ss[1] < ss[2]}
<1>1. OpToRel(<, Nat) = R
  BY Zenon DEF OpToRel
<1>2. IsWellFoundedOn(R, Nat)
  BY <1>1, NatLessThanWellFounded
<1> HIDE DEF R
<1>3. PICK n \in S : \A k \in S : <<k, n>> \notin R
  BY <1>2, WFMin
<1>4. ASSUME NEW k \in S PROVE n <= k
  <2>1. k < n => <<k, n>> \in R
    BY DEF R
  <2>2. n \in Nat /\ k \in Nat
    OBVIOUS
  <2> QED BY <1>3, <2>1, <2>2
<1> QED BY <1>4

(* What holds of the empty set, and of a set whenever it holds of the set  *)
(* without any one of its elements, holds of all finite sets.              *)
LEMMA SetInduction ==
    ASSUME NEW S, IsFiniteSet(S), NEW P,
           {} \in P,
           \A T \in SUBSET S : T # {} /\ (\A x \in T : T \ {x} \in P) => T \in P
    PROVE  \A T \in SUBSET S : T \in P
<1> DEFINE Sizes == {Cardinality(T) : T \in {U \in SUBSET S : U \notin P}}
<1>1. \A T \in SUBSET S : IsFiniteSet(T) /\ Cardinality(T) \in Nat
  BY FS_Subset, FS_CardinalityType
<1> SUFFICES ASSUME Sizes # {} PROVE FALSE
  OBVIOUS
<1>2. Sizes \in SUBSET Nat
  BY <1>1
<1>3. PICK n \in Sizes : \A k \in Sizes : n <= k
  BY <1>2, LeastNumber, Zenon
<1>4. PICK T \in SUBSET S : T \notin P /\ Cardinality(T) = n
  BY <1>3
<1>5. ASSUME NEW x \in T PROVE T \ {x} \in P
  <2>1. T \ {x} \in SUBSET S /\ IsFiniteSet(T)
    BY <1>1
  <2>2. Cardinality(T \ {x}) = n - 1
    BY <1>4, <2>1, FS_RemoveElement
  <2>3. n \in Nat /\ ~(n <= n - 1)
    BY <1>2
  <2> QED BY <1>3, <2>1, <2>2, <2>3
<1>6. T # {}
  BY <1>4
<1> QED BY <1>4, <1>5, <1>6

-----------------------------------------------------------------------------
(* Sums, of a function f over a finite set S.                              *)

Pick(s) == CHOOSE x \in s : TRUE

(* g is the function that the sum over S is computed by, on the sets D.    *)
Adds(g, f, D) == g = [s \in D |-> IF s = {} THEN 0 ELSE f[Pick(s)] + g[s \ {Pick(s)}]]
Adder(f, S) == CHOOSE g : Adds(g, f, SUBSET S)

(* The sum of the library is the value of that function at S.              *)
LEMMA SumIsAdder ==
    ASSUME NEW f, NEW S
    PROVE  SumFunctionOnSet(f, S) = Adder(f, S)[S]
BY Zenon DEF SumFunctionOnSet, FoldFunctionOnSet, MapThenFoldSet, Adder, Adds, Pick

(* A sum over the whole of a function.                                     *)
LEMMA SumOfFunction == ASSUME NEW f PROVE SumFunction(f) = SumFunctionOnSet(f, DOMAIN f)
BY Zenon DEF SumFunction

(* The sets of up to n elements.                                           *)
UpTo(S, n) == {T \in SUBSET S : Cardinality(T) <= n}

(* The element that is added next is one of the set.                       *)
LEMMA PickRemoves ==
    ASSUME NEW S, IsFiniteSet(S), NEW T \in SUBSET S, T # {}
    PROVE  /\ Pick(T) \in T
           /\ T \ {Pick(T)} \in SUBSET S
           /\ Cardinality(T) \in Nat /\ Cardinality(T) > 0
           /\ Cardinality(T \ {Pick(T)}) = Cardinality(T) - 1
<1>1. Pick(T) \in T
  BY DEF Pick
<1>2. IsFiniteSet(T)
  BY FS_Subset
<1>3. Cardinality(T) \in Nat /\ Cardinality(T) # 0
  BY <1>2, FS_CardinalityType, FS_EmptySet
<1>4. Cardinality(T \ {Pick(T)}) = Cardinality(T) - 1
  BY <1>1, <1>2, FS_RemoveElement
<1> QED BY <1>1, <1>3, <1>4

(* There is such a function: from one on the sets of fewer elements, one   *)
(* on those of one more.                                                   *)
LEMMA AdderExists ==
    ASSUME NEW f, NEW S, IsFiniteSet(S)
    PROVE  Adds(Adder(f, S), f, SUBSET S)
<1> DEFINE Lacking == {n \in Nat : ~\E g : Adds(g, f, UpTo(S, n))}
<1>1. Lacking = {}
  <2> SUFFICES ASSUME Lacking # {} PROVE FALSE
    OBVIOUS
  <2>1. PICK n \in Lacking : \A k \in Lacking : n <= k
    BY LeastNumber, Zenon
  <2>2. n \in Nat /\ ~\E g : Adds(g, f, UpTo(S, n))
    BY <2>1
  <2>3. CASE n = 0
    <3> DEFINE h == [s \in UpTo(S, 0) |-> 0]
    <3>1. ASSUME NEW s \in UpTo(S, 0), s # {} PROVE FALSE
      <4>1. s \in SUBSET S /\ Cardinality(s) <= 0
        BY DEF UpTo
      <4>2. Cardinality(s) \in Nat /\ Cardinality(s) > 0
        BY <3>1, <4>1, PickRemoves
      <4> QED BY <4>1, <4>2
    <3>2. Adds(h, f, UpTo(S, 0))
      BY <3>1 DEF Adds
    <3> QED BY <2>2, <2>3, <3>2
  <2>4. CASE n # 0
    <3>1. n - 1 \in Nat /\ ~(n <= n - 1)
      BY <2>2, <2>4
    <3>2. n - 1 \notin Lacking
      BY <2>1, <3>1
    <3>3. PICK g : Adds(g, f, UpTo(S, n - 1))
      BY <3>1, <3>2
    <3> DEFINE h == [s \in UpTo(S, n) |-> IF s = {} THEN 0 ELSE f[Pick(s)] + g[s \ {Pick(s)}]]
    <3>4. ASSUME NEW s \in UpTo(S, n), s # {} PROVE h[s \ {Pick(s)}] = g[s \ {Pick(s)}]
      <4> DEFINE t == s \ {Pick(s)}
      <4>1. t \in UpTo(S, n - 1) /\ t \in UpTo(S, n)
        BY <2>2, <3>4, PickRemoves DEF UpTo
      <4> HIDE DEF t
      <4>2. g[t] = IF t = {} THEN 0 ELSE f[Pick(t)] + g[t \ {Pick(t)}]
        BY <3>3, <4>1 DEF Adds
      <4>3. h[t] = g[t]
        BY <4>1, <4>2
      <4> QED BY <4>3 DEF t
    <3>5. Adds(h, f, UpTo(S, n))
      BY <3>4 DEF Adds
    <3> QED BY <2>2, <3>5
  <2> QED BY <2>3, <2>4
<1>2. Cardinality(S) \in Nat
  BY FS_CardinalityType
<1>3. UpTo(S, Cardinality(S)) = SUBSET S
  BY FS_Subset DEF UpTo
<1>4. \A n \in Nat : \E g : Adds(g, f, UpTo(S, n))
  BY <1>1
<1> HIDE DEF Lacking
<1>5. \E g : Adds(g, f, UpTo(S, Cardinality(S)))
  BY <1>2, <1>4, Zenon
<1>6. \E g : Adds(g, f, SUBSET S)
  BY <1>3, <1>5
<1> QED BY <1>6, Zenon DEF Adder

(* So the definition of the sum may be unfolded.                           *)
LEMMA AdderEquation ==
    ASSUME NEW f, NEW S, IsFiniteSet(S), NEW T \in SUBSET S
    PROVE  Adder(f, S)[T] = IF T = {} THEN 0 ELSE f[Pick(T)] + Adder(f, S)[T \ {Pick(T)}]
<1> DEFINE A == Adder(f, S)
<1>1. Adds(A, f, SUBSET S)
  BY AdderExists
<1> HIDE DEF A
<1>2. A[T] = IF T = {} THEN 0 ELSE f[Pick(T)] + A[T \ {Pick(T)}]
  BY <1>1 DEF Adds
<1> QED BY <1>2 DEF A

(* Over a smaller set it is the same function.                             *)
LEMMA AdderOfSubset ==
    ASSUME NEW f, NEW S, IsFiniteSet(S), NEW T \in SUBSET S
    PROVE  Adder(f, S)[T] = SumFunctionOnSet(f, T)
<1>1. IsFiniteSet(T)
  BY FS_Subset
<1> DEFINE A == Adder(f, S)
           B == Adder(f, T)
           P == {U \in SUBSET T : A[U] = B[U]}
<1>2. \A U \in SUBSET T :
        /\ A[U] = IF U = {} THEN 0 ELSE f[Pick(U)] + A[U \ {Pick(U)}]
        /\ B[U] = IF U = {} THEN 0 ELSE f[Pick(U)] + B[U \ {Pick(U)}]
  BY <1>1, AdderEquation
<1> HIDE DEF A, B
<1>3. {} \in P
  BY <1>2
<1>4. ASSUME NEW U \in SUBSET T, U # {}, \A x \in U : U \ {x} \in P PROVE U \in P
  <2>1. Pick(U) \in U
    BY <1>4 DEF Pick
  <2>2. A[U \ {Pick(U)}] = B[U \ {Pick(U)}]
    BY <1>4, <2>1
  <2> QED BY <1>2, <1>4, <2>2
<1> HIDE DEF P
<1>5. T \in P
  BY <1>1, <1>3, <1>4, SetInduction
<1>6. A[T] = B[T]
  BY <1>5 DEF P
<1> QED BY <1>6, SumIsAdder DEF A, B

(* The sum over nothing.                                                   *)
LEMMA SumOfNone == ASSUME NEW f PROVE SumFunctionOnSet(f, {}) = 0
<1>1. Adder(f, {})[{}] = 0
  BY FS_EmptySet, AdderEquation
<1> QED BY <1>1, SumIsAdder

(* The sum over something, in the order of the fold.                       *)
LEMMA SumOfSome ==
    ASSUME NEW f, NEW S, IsFiniteSet(S), S # {}
    PROVE  SumFunctionOnSet(f, S) = f[Pick(S)] + SumFunctionOnSet(f, S \ {Pick(S)})
<1>1. Adder(f, S)[S] = f[Pick(S)] + Adder(f, S)[S \ {Pick(S)}]
  BY AdderEquation
<1>2. Adder(f, S)[S \ {Pick(S)}] = SumFunctionOnSet(f, S \ {Pick(S)})
  BY AdderOfSubset
<1> QED BY <1>1, <1>2, SumIsAdder

(* A sum of numbers is one.                                                *)
LEMMA SumIsNat ==
    ASSUME NEW f, NEW S, IsFiniteSet(S), \A x \in S : f[x] \in Nat
    PROVE  \A T \in SUBSET S : SumFunctionOnSet(f, T) \in Nat
<1> DEFINE P == {T \in SUBSET S : SumFunctionOnSet(f, T) \in Nat}
<1>1. {} \in P
  BY SumOfNone
<1>2. ASSUME NEW T \in SUBSET S, T # {}, \A x \in T : T \ {x} \in P PROVE T \in P
  <2>1. IsFiniteSet(T) /\ Pick(T) \in T
    BY <1>2, FS_Subset, PickRemoves
  <2>2. SumFunctionOnSet(f, T) = f[Pick(T)] + SumFunctionOnSet(f, T \ {Pick(T)})
    BY <1>2, <2>1, SumOfSome
  <2> QED BY <1>2, <2>1, <2>2
<1> HIDE DEF P
<1>3. \A T \in SUBSET S : T \in P
  BY <1>1, <1>2, SetInduction
<1> QED BY <1>3 DEF P

(* Any element may be added last.                                          *)
LEMMA SumRemove ==
    ASSUME NEW f, NEW S, IsFiniteSet(S), \A x \in S : f[x] \in Nat
    PROVE  \A T \in SUBSET S : \A x \in T :
                SumFunctionOnSet(f, T) = f[x] + SumFunctionOnSet(f, T \ {x})
<1> DEFINE P == {T \in SUBSET S :
                    \A x \in T : SumFunctionOnSet(f, T) = f[x] + SumFunctionOnSet(f, T \ {x})}
<1>1. {} \in P
  OBVIOUS
<1>2. ASSUME NEW T \in SUBSET S, T # {}, \A x \in T : T \ {x} \in P PROVE T \in P
  <2> SUFFICES ASSUME NEW x \in T
               PROVE  SumFunctionOnSet(f, T) = f[x] + SumFunctionOnSet(f, T \ {x})
    OBVIOUS
  <2> DEFINE p == Pick(T)
  <2>1. IsFiniteSet(T) /\ p \in T
    BY <1>2, FS_Subset, PickRemoves
  <2>2. SumFunctionOnSet(f, T) = f[p] + SumFunctionOnSet(f, T \ {p})
    BY <2>1, SumOfSome
  <2> HIDE DEF p
  <2>3. CASE x = p
    BY <2>2, <2>3
  <2>4. CASE x # p
    <3>1. SumFunctionOnSet(f, T \ {p}) = f[x] + SumFunctionOnSet(f, (T \ {p}) \ {x})
      BY <1>2, <2>1, <2>4
    <3>2. SumFunctionOnSet(f, T \ {x}) = f[p] + SumFunctionOnSet(f, (T \ {x}) \ {p})
      BY <1>2, <2>1, <2>4
    <3>3. (T \ {p}) \ {x} = (T \ {x}) \ {p} /\ (T \ {p}) \ {x} \in SUBSET S
      OBVIOUS
    <3>4. SumFunctionOnSet(f, (T \ {p}) \ {x}) \in Nat /\ f[x] \in Nat /\ f[p] \in Nat
      BY <2>1, <3>3, SumIsNat
    <3> QED BY <2>2, <3>1, <3>2, <3>3, <3>4
  <2> QED BY <2>3, <2>4
<1> HIDE DEF P
<1>3. \A T \in SUBSET S : T \in P
  BY <1>1, <1>2, SetInduction
<1> QED BY <1>3 DEF P

(* A set that has for each x of another a different one that counts for no *)
(* less has no smaller a sum.                                              *)
LEMMA SumInjection ==
    ASSUME NEW f, NEW g, NEW S, NEW R, IsFiniteSet(S), IsFiniteSet(R),
           \A x \in S : f[x] \in Nat, \A y \in R : g[y] \in Nat,
           NEW match \in [S -> R], \A x, y \in S : match[x] = match[y] => x = y,
           \A x \in S : f[x] <= g[match[x]]
    PROVE  SumFunctionOnSet(f, S) <= SumFunctionOnSet(g, R)
<1> DEFINE P == {T \in SUBSET S : \A U \in SUBSET R :
                    (\A x \in T : match[x] \in U) => SumFunctionOnSet(f, T) <= SumFunctionOnSet(g, U)}
<1>1. {} \in P
  <2> SUFFICES ASSUME NEW U \in SUBSET R PROVE SumFunctionOnSet(f, {}) <= SumFunctionOnSet(g, U)
    OBVIOUS
  <2>1. SumFunctionOnSet(g, U) \in Nat
    BY SumIsNat
  <2> QED BY <2>1, SumOfNone
<1>2. ASSUME NEW T \in SUBSET S, T # {}, \A x \in T : T \ {x} \in P PROVE T \in P
  <2> SUFFICES ASSUME NEW U \in SUBSET R, \A x \in T : match[x] \in U
               PROVE  SumFunctionOnSet(f, T) <= SumFunctionOnSet(g, U)
    OBVIOUS
  <2>1. PICK x \in T : TRUE
    BY <1>2
  <2> DEFINE y == match[x]
  <2>2. y \in U /\ y \in R /\ f[x] \in Nat /\ g[y] \in Nat /\ f[x] <= g[y]
    OBVIOUS
  <2>3. \A z \in T \ {x} : match[z] \in U \ {y}
    OBVIOUS
  <2> HIDE DEF y
  <2>4. SumFunctionOnSet(f, T \ {x}) <= SumFunctionOnSet(g, U \ {y})
    BY <1>2, <2>3
  <2>5. SumFunctionOnSet(f, T) = f[x] + SumFunctionOnSet(f, T \ {x})
    BY SumRemove
  <2>6. SumFunctionOnSet(g, U) = g[y] + SumFunctionOnSet(g, U \ {y})
    BY <2>2, SumRemove
  <2>7. SumFunctionOnSet(f, T \ {x}) \in Nat /\ SumFunctionOnSet(g, U \ {y}) \in Nat
    <3>1. T \ {x} \in SUBSET S /\ U \ {y} \in SUBSET R
      OBVIOUS
    <3> QED BY <3>1, SumIsNat
  <2> QED BY <2>2, <2>4, <2>5, <2>6, <2>7
<1> HIDE DEF P
<1>3. S \in P
  BY <1>1, <1>2, SetInduction
<1> QED BY <1>3 DEF P

(* A sum of no more and no larger numbers is no larger.                    *)
LEMMA SumMonotone ==
    ASSUME NEW f, NEW g, NEW S, NEW T \in SUBSET S, IsFiniteSet(S),
           \A x \in T : f[x] \in Nat, \A x \in S : g[x] \in Nat,
           \A x \in T : f[x] <= g[x]
    PROVE  SumFunctionOnSet(f, T) <= SumFunctionOnSet(g, S)
<1> DEFINE id == [x \in T |-> x]
<1>1. /\ id \in [T -> S] /\ \A x, y \in T : id[x] = id[y] => x = y
      /\ \A x \in T : f[x] <= g[id[x]]
  OBVIOUS
<1>2. IsFiniteSet(T)
  BY FS_Subset
<1> HIDE DEF id
<1> QED BY <1>1, <1>2, SumInjection

(* Functions that agree on a set have the same sum over it.                *)
LEMMA SumSame ==
    ASSUME NEW f, NEW g, NEW S, IsFiniteSet(S), \A x \in S : f[x] \in Nat /\ g[x] = f[x]
    PROVE  SumFunctionOnSet(f, S) = SumFunctionOnSet(g, S)
<1>1. SumFunctionOnSet(f, S) \in Nat /\ SumFunctionOnSet(g, S) \in Nat
  BY SumIsNat
<1>2. SumFunctionOnSet(f, S) <= SumFunctionOnSet(g, S)
  BY SumMonotone
<1>3. SumFunctionOnSet(g, S) <= SumFunctionOnSet(f, S)
  BY SumMonotone
<1> QED BY <1>1, <1>2, <1>3

(* Elements that count for one each.                                       *)
LEMMA SumOfUnits ==
    ASSUME NEW f, NEW D, NEW F, IsFiniteSet(D), IsFiniteSet(F), D \cap F = {},
           \A x \in D : f[x] \in Nat, \A x \in F : f[x] = 1
    PROVE  SumFunctionOnSet(f, D \cup F) = SumFunctionOnSet(f, D) + Cardinality(F)
<1>1. IsFiniteSet(D \cup F) /\ \A x \in D \cup F : f[x] \in Nat
  <2>1. IsFiniteSet(D \cup F)
    BY FS_Union
  <2>2. \A x \in D \cup F : f[x] \in Nat
    OBVIOUS
  <2> QED BY <2>1, <2>2
<1>2. SumFunctionOnSet(f, D) \in Nat
  BY SumIsNat
<1> DEFINE P == {T \in SUBSET F :
                    SumFunctionOnSet(f, D \cup T) = SumFunctionOnSet(f, D) + Cardinality(T)}
<1>3. {} \in P
  <2>1. D \cup {} = D
    OBVIOUS
  <2>2. SumFunctionOnSet(f, D \cup {}) = SumFunctionOnSet(f, D) + Cardinality({})
    BY <1>2, <2>1, FS_EmptySet
  <2> QED BY <2>2
<1>4. ASSUME NEW T \in SUBSET F, T # {}, \A x \in T : T \ {x} \in P PROVE T \in P
  <2>1. PICK x \in T : TRUE
    BY <1>4
  <2>2. D \cup T \in SUBSET (D \cup F) /\ x \in D \cup T /\ (D \cup T) \ {x} = D \cup (T \ {x})
    OBVIOUS
  <2>3. SumFunctionOnSet(f, D \cup T) = 1 + SumFunctionOnSet(f, D \cup (T \ {x}))
    <3>1. SumFunctionOnSet(f, D \cup T) = f[x] + SumFunctionOnSet(f, (D \cup T) \ {x})
      BY <1>1, <2>2, SumRemove
    <3> QED BY <2>2, <3>1
  <2>4. SumFunctionOnSet(f, D \cup (T \ {x})) = SumFunctionOnSet(f, D) + Cardinality(T \ {x})
    BY <1>4
  <2>5. Cardinality(T \ {x}) = Cardinality(T) - 1 /\ Cardinality(T) \in Nat
    BY FS_Subset, FS_RemoveElement, FS_CardinalityType
  <2>6. SumFunctionOnSet(f, D \cup T) = SumFunctionOnSet(f, D) + Cardinality(T)
    BY <1>2, <2>3, <2>4, <2>5
  <2> QED BY <2>6
<1> HIDE DEF P
<1>5. F \in P
  BY <1>3, <1>4, SetInduction
<1> QED BY <1>5 DEF P

(* A factor that is common to all.                                         *)
LEMMA SumScaled ==
    ASSUME NEW f, NEW g, NEW S, IsFiniteSet(S), NEW c \in Nat,
           \A x \in S : f[x] \in Nat /\ g[x] = f[x] * c
    PROVE  SumFunctionOnSet(g, S) = SumFunctionOnSet(f, S) * c
<1> DEFINE P == {T \in SUBSET S : SumFunctionOnSet(g, T) = SumFunctionOnSet(f, T) * c}
<1>1. {} \in P
  BY SumOfNone
<1>2. ASSUME NEW T \in SUBSET S, T # {}, \A x \in T : T \ {x} \in P PROVE T \in P
  <2>1. PICK x \in T : TRUE
    BY <1>2
  <2>2. SumFunctionOnSet(f, T) = f[x] + SumFunctionOnSet(f, T \ {x})
    BY SumRemove
  <2>3. SumFunctionOnSet(g, T) = g[x] + SumFunctionOnSet(g, T \ {x})
    <3>1. \A y \in S : g[y] \in Nat
      OBVIOUS
    <3> QED BY <3>1, SumRemove
  <2>4. SumFunctionOnSet(g, T \ {x}) = SumFunctionOnSet(f, T \ {x}) * c
    BY <1>2
  <2>5. SumFunctionOnSet(f, T \ {x}) \in Nat /\ f[x] \in Nat /\ g[x] = f[x] * c
    <3>1. T \ {x} \in SUBSET S
      OBVIOUS
    <3> QED BY <3>1, SumIsNat
  <2>6. \A a, b \in Nat : a * c + b * c = (a + b) * c
    OBVIOUS
  <2>7. SumFunctionOnSet(g, T) = SumFunctionOnSet(f, T) * c
    BY <2>2, <2>3, <2>4, <2>5, <2>6
  <2> QED BY <2>7
<1> HIDE DEF P
<1>3. \A T \in SUBSET S : T \in P
  BY <1>1, <1>2, SetInduction, Zenon
<1> QED BY <1>3 DEF P

(* Errors of at most a each add up to at most a for each.                  *)
LEMMA SumWithin ==
    ASSUME NEW f, NEW g, NEW S, IsFiniteSet(S), NEW a \in Nat,
           \A x \in S : f[x] \in Nat /\ g[x] \in Nat /\ f[x] <= g[x] + a
    PROVE  SumFunctionOnSet(f, S) <= SumFunctionOnSet(g, S) + Cardinality(S) * a
<1> DEFINE P == {T \in SUBSET S :
                    SumFunctionOnSet(f, T) <= SumFunctionOnSet(g, T) + Cardinality(T) * a}
<1>1. {} \in P
  <2>1. SumFunctionOnSet(f, {}) <= SumFunctionOnSet(g, {}) + Cardinality({}) * a
    BY SumOfNone, FS_EmptySet
  <2> QED BY <2>1
<1>2. ASSUME NEW T \in SUBSET S, T # {}, \A x \in T : T \ {x} \in P PROVE T \in P
  <2>1. PICK x \in T : TRUE
    BY <1>2
  <2>2. SumFunctionOnSet(f, T) = f[x] + SumFunctionOnSet(f, T \ {x})
    BY SumRemove
  <2>3. SumFunctionOnSet(g, T) = g[x] + SumFunctionOnSet(g, T \ {x})
    BY SumRemove
  <2>4. SumFunctionOnSet(f, T \ {x})
            <= SumFunctionOnSet(g, T \ {x}) + Cardinality(T \ {x}) * a
    BY <1>2
  <2>5. /\ SumFunctionOnSet(f, T \ {x}) \in Nat /\ SumFunctionOnSet(g, T \ {x}) \in Nat
        /\ f[x] \in Nat /\ g[x] \in Nat /\ f[x] <= g[x] + a
    <3>1. T \ {x} \in SUBSET S
      OBVIOUS
    <3> QED BY <3>1, SumIsNat
  <2>6. Cardinality(T \ {x}) = Cardinality(T) - 1 /\ Cardinality(T) \in Nat
    BY FS_Subset, FS_RemoveElement, FS_CardinalityType
  <2>7. \A n \in Nat : (n - 1) * a + a = n * a /\ n * a \in Nat
    OBVIOUS
  <2>8. SumFunctionOnSet(f, T) <= SumFunctionOnSet(g, T) + Cardinality(T) * a
    <3>1. Cardinality(T \ {x}) * a + a = Cardinality(T) * a /\ Cardinality(T) * a \in Nat
      BY <2>6, <2>7
    <3>2. \A p, q, u, v, k \in Int : p <= q + a /\ u <= v + k => p + u <= q + v + (k + a)
      OBVIOUS
    <3>3. Cardinality(T \ {x}) * a \in Int
      BY <2>6
    <3>4. f[x] + SumFunctionOnSet(f, T \ {x})
            <= g[x] + SumFunctionOnSet(g, T \ {x}) + (Cardinality(T \ {x}) * a + a)
      BY <2>4, <2>5, <3>2, <3>3
    <3> QED BY <2>2, <2>3, <3>1, <3>4
  <2> QED BY <2>8
<1> HIDE DEF P
<1>3. \A T \in SUBSET S : T \in P
  BY <1>1, <1>2, SetInduction, Zenon
<1> QED BY <1>3 DEF P

-----------------------------------------------------------------------------
(* Products, and rounding.                                                 *)

(* Multiplication by a number keeps the order.                             *)
LEMMA Product ==
    ASSUME NEW m \in Nat, NEW n \in Nat, NEW k \in Nat
    PROVE  /\ m * k \in Nat
           /\ m <= n => m * k <= n * k
           /\ m < n => m * k + k <= n * k
<1>1. \A i, j \in Nat : i * j \in Nat
  OBVIOUS
<1>2. CASE m <= n
  <2> DEFINE d == n - m
  <2>1. d \in Nat /\ n = m + d
    BY <1>2
  <2> HIDE DEF d
  <2>2. n * k = m * k + d * k
    BY <2>1
  <2>3. d # 0 => d * k = (d - 1) * k + k /\ d - 1 \in Nat
    BY <2>1
  <2>4. d # 0 => d * k >= k
    BY <1>1, <2>1, <2>3
  <2> QED BY <1>1, <1>2, <2>1, <2>2, <2>4
<1> QED BY <1>1, <1>2

(* round is within a half of the quotient.                                 *)
LEMMA RoundFacts ==
    ASSUME NEW n \in Nat, NEW d \in Nat \ {0}
    PROVE  /\ Round(n, d) \in Nat
           /\ 2 * (Round(n, d) * d) <= 2 * n + d
           /\ 2 * n <= 2 * (Round(n, d) * d) + d
<1> DEFINE q == n \div d
           r == n % d
<1>1. q \in Nat /\ r \in Nat /\ r < d /\ n = q * d + r
  OBVIOUS
<1> HIDE DEF q, r
<1>2. q * d \in Nat /\ (q + 1) * d = q * d + d
  BY <1>1
<1>3. CASE 2 * r > d \/ (2 * r = d /\ q % 2 = 1)
  <2>1. Round(n, d) = q + 1
    BY <1>3 DEF Round, q, r
  <2> QED BY <1>1, <1>2, <1>3, <2>1
<1>4. CASE ~(2 * r > d \/ (2 * r = d /\ q % 2 = 1))
  <2>1. Round(n, d) = q
    BY <1>4 DEF Round, q, r
  <2> QED BY <1>1, <1>2, <1>4, <2>1
<1> QED BY <1>3, <1>4

(* It grows with the numerator.                                            *)
LEMMA RoundMonotone ==
    ASSUME NEW m \in Nat, NEW n \in Nat, NEW d \in Nat \ {0}, m <= n
    PROVE  Round(m, d) <= Round(n, d)
<1> DEFINE p == m \div d
           r == m % d
           q == n \div d
           t == n % d
           Up(a, b) == 2 * b > d \/ (2 * b = d /\ a % 2 = 1)
<1>1. p \in Nat /\ r \in Nat /\ r < d /\ m = p * d + r
  OBVIOUS
<1>2. q \in Nat /\ t \in Nat /\ t < d /\ n = q * d + t
  OBVIOUS
<1>3. Round(m, d) = IF Up(p, r) THEN p + 1 ELSE p
  BY DEF Round
<1>4. Round(n, d) = IF Up(q, t) THEN q + 1 ELSE q
  BY DEF Round
<1> HIDE DEF p, q, r, t
<1>5. p * d \in Nat /\ q * d \in Nat /\ (q < p => q * d + d <= p * d)
  BY <1>1, <1>2, Product
<1>6. ~(q < p)
  BY <1>1, <1>2, <1>5
<1>7. CASE p = q
  <2>1. r <= t
    BY <1>1, <1>2, <1>5, <1>7
  <2>2. Up(p, r) => Up(q, t)
    BY <1>1, <1>2, <1>7, <2>1
  <2> QED BY <1>1, <1>2, <1>3, <1>4, <1>7, <2>2
<1>8. CASE p < q
  BY <1>1, <1>2, <1>3, <1>4, <1>8
<1> QED BY <1>1, <1>2, <1>6, <1>7, <1>8

(* Max of two numbers.                                                     *)
LEMMA MaxOfTwo ==
    ASSUME NEW i \in Int, NEW j \in Int
    PROVE  Max({i, j}) = IF i >= j THEN i ELSE j
BY DEF Max

(* A finite set of numbers has a largest one, and Max is it.               *)
LEMMA MaxOfSet ==
    ASSUME NEW S \in SUBSET Nat, IsFiniteSet(S), S # {}
    PROVE  Max(S) \in S /\ \A y \in S : y <= Max(S)
<1> DEFINE P == {T \in SUBSET S : T = {} \/ \E m \in T : \A y \in T : m >= y}
<1>1. {} \in P
  OBVIOUS
<1>2. ASSUME NEW T \in SUBSET S, T # {}, \A x \in T : T \ {x} \in P PROVE T \in P
  <2>1. PICK x \in T : TRUE
    BY <1>2
  <2>2. CASE T \ {x} = {}
    BY <2>2
  <2>3. CASE \E m \in T \ {x} : \A y \in T \ {x} : m >= y
    <3>1. PICK m \in T \ {x} : \A y \in T \ {x} : m >= y
      BY <2>3
    <3>2. x \in Nat /\ m \in Nat
      OBVIOUS
    <3>3. CASE m >= x
      BY <3>1, <3>3
    <3>4. CASE x >= m
      <4>1. \A y \in T : y \in Nat /\ x >= y
        BY <3>1, <3>2, <3>4
      <4> QED BY <4>1
    <3> QED BY <3>2, <3>3, <3>4
  <2> QED BY <1>2, <2>2, <2>3
<1> HIDE DEF P
<1>3. S \in P
  BY <1>1, <1>2, SetInduction
<1>4. \E m \in S : \A y \in S : m >= y
  BY <1>3 DEF P
<1>5. Max(S) \in S /\ \A y \in S : Max(S) >= y
  BY <1>4, Zenon DEF Max
<1> QED BY <1>5

(* to_u16, of a share n where top is the largest: the result is a u16 that *)
(* is not zero, and off by a unit at most.                                 *)
LEMMA QuantiseFacts ==
    ASSUME NEW n \in Nat \ {0}, NEW top \in Nat \ {0}, n <= top
    PROVE  /\ Quantise(n, top) \in 1..Top
           /\ Quantise(n, top) * top <= n * Top + top
           /\ n * Top <= Quantise(n, top) * top + top
<1> DEFINE R == Round(n * Top, top)
<1>1. Top \in Nat /\ Top >= 1
  BY WeightsAssumption
<1>2. n * Top \in Nat /\ top * Top \in Nat /\ n * Top <= top * Top
  BY <1>1, Product
<1>3. R \in Nat /\ 2 * (R * top) <= 2 * (n * Top) + top /\ 2 * (n * Top) <= 2 * (R * top) + top
  BY <1>2, RoundFacts
<1>4. R * top \in Nat /\ (R < 1 => R * top = 0)
  BY <1>3, Product
<1>5. Top < R => Top * top + top <= R * top
  BY <1>1, <1>3, Product
<1>6. top * Top = Top * top
  BY <1>1
<1>7. R <= Top
  BY <1>1, <1>2, <1>3, <1>4, <1>5, <1>6
<1>8. Quantise(n, top) = IF 1 >= R THEN 1 ELSE R
  BY <1>3, MaxOfTwo DEF Quantise
<1> HIDE DEF R
<1>9. CASE 1 >= R
  <2>1. R = 0 \/ R = 1
    BY <1>3, <1>9
  <2>2. Quantise(n, top) = 1 /\ 1 * top = top
    BY <1>8, <1>9
  <2>3. R = 0 => R * top = 0
    BY <1>4
  <2>4. R = 1 => R * top = top
    BY <2>2
  <2> QED BY <1>1, <1>2, <1>3, <2>1, <2>2, <2>3, <2>4
<1>10. CASE ~(1 >= R)
  BY <1>1, <1>2, <1>3, <1>4, <1>7, <1>8, <1>10
<1> QED BY <1>9, <1>10

(* It is no smaller for a larger share.                                    *)
LEMMA QuantiseMonotone ==
    ASSUME NEW m \in Nat, NEW n \in Nat, NEW top \in Nat \ {0}, m <= n
    PROVE  Quantise(m, top) <= Quantise(n, top)
<1>1. Top \in Nat
  BY WeightsAssumption
<1>2. m * Top \in Nat /\ n * Top \in Nat /\ m * Top <= n * Top
  BY <1>1, Product
<1>3. Round(m * Top, top) \in Nat /\ Round(n * Top, top) \in Nat
  BY <1>2, RoundFacts
<1>4. Round(m * Top, top) <= Round(n * Top, top)
  BY <1>2, RoundMonotone
<1> QED BY <1>3, <1>4, MaxOfTwo DEF Quantise

-----------------------------------------------------------------------------
(* The vector.                                                             *)

(* A dictionary of numbers, of finitely many uids.                         *)
Numbers(f) == IsFiniteSet(DOMAIN f) /\ \A u \in DOMAIN f : f[u] \in Nat

Positive(f) == {u \in DOMAIN f : f[u] > 0}
Largest(f) == Max(Range(f))

(* The largest share, if any is positive.                                  *)
LEMMA LargestFacts ==
    ASSUME NEW f, Numbers(f), Positive(f) # {}
    PROVE  /\ Largest(f) \in Nat \ {0}
           /\ \A u \in DOMAIN f : f[u] <= Largest(f)
<1> DEFINE S == Range(f)
           onto == [u \in DOMAIN f |-> f[u]]
<1>1. S \in SUBSET Nat /\ S # {}
  BY DEF Range, Numbers, Positive
<1>2. onto \in Surjection(DOMAIN f, S)
  BY DEF Range, Surjection
<1>3. IsFiniteSet(S)
  BY <1>2, FS_Surjection DEF Numbers
<1> HIDE DEF S, onto
<1>4. Max(S) \in S /\ \A y \in S : y <= Max(S)
  BY <1>1, <1>3, MaxOfSet
<1>5. \A u \in DOMAIN f : f[u] \in S
  BY DEF S, Range
<1>6. \A u \in DOMAIN f : f[u] <= Max(S)
  BY <1>4, <1>5
<1>7. PICK u \in DOMAIN f : f[u] > 0 /\ f[u] \in Nat
  BY DEF Positive, Numbers
<1>8. Max(S) \in Nat /\ f[u] <= Max(S)
  BY <1>1, <1>4, <1>6
<1>9. Max(S) # 0
  BY <1>7, <1>8
<1> QED BY <1>6, <1>8, <1>9 DEF Largest, S

(* to_u16 keeps the shares that are positive.                              *)
LEMMA ToU16Facts ==
    ASSUME NEW f, Numbers(f)
    PROVE  /\ DOMAIN ToU16(f) = Positive(f)
           /\ \A u \in Positive(f) : /\ ToU16(f)[u] = Quantise(f[u], Largest(f))
                                     /\ ToU16(f)[u] \in 1..Top
           /\ Numbers(ToU16(f))
<1>1. DOMAIN ToU16(f) = Positive(f)
  BY DEF ToU16, Positive
<1>2. \A u \in Positive(f) : ToU16(f)[u] = Quantise(f[u], Largest(f))
  BY DEF ToU16, Positive, Largest
<1>3. ASSUME NEW u \in Positive(f) PROVE ToU16(f)[u] \in 1..Top
  <2>1. Largest(f) \in Nat \ {0} /\ f[u] \in Nat \ {0} /\ f[u] <= Largest(f)
    BY LargestFacts DEF Positive, Numbers
  <2> QED BY <1>2, <2>1, QuantiseFacts
<1>4. IsFiniteSet(Positive(f))
  BY FS_Subset DEF Positive, Numbers
<1>5. Numbers(ToU16(f))
  BY <1>1, <1>3, <1>4, WeightsAssumption DEF Numbers
<1> QED BY <1>1, <1>2, <1>3, <1>5

(* The uids F are given the floor: v is u16 with a unit for each of them,  *)
(* from the reserve, which keeps one.  If not all have it that want it,    *)
(* one is all it has left.                                                 *)
Floored(u16, wanted, v, F) ==
    /\ F \subseteq Missing(u16, wanted) /\ IsFiniteSet(F)
    /\ DOMAIN v = DOMAIN u16 \cup F
    /\ \A u \in F : v[u] = 1
    /\ \A u \in DOMAIN u16 \ {reserve} : v[u] = u16[u]
    /\ reserve \notin DOMAIN u16 => F = {}
    /\ reserve \in DOMAIN u16 =>
            /\ v[reserve] = u16[reserve] - Cardinality(F) /\ Cardinality(F) < u16[reserve]
            /\ F = Missing(u16, wanted) \/ v[reserve] = 1

(* Those of a set of numbers that have fewer than k before them are no     *)
(* more than k, and exactly k if they are not all.                         *)
LEMMA FirstOnes ==
    ASSUME NEW M \in SUBSET Nat, IsFiniteSet(M), NEW k \in Nat,
           NEW F, F = {u \in M : Cardinality({v \in M : v < u}) < k}
    PROVE  /\ IsFiniteSet(F) /\ Cardinality(F) \in Nat
           /\ Cardinality(F) <= k
           /\ F = M \/ Cardinality(F) = k
<1> DEFINE Before(u) == {v \in M : v < u}
<1>1. F \in SUBSET M /\ \A u \in Nat : Before(u) \in SUBSET M
  OBVIOUS
<1>2. IsFiniteSet(F) /\ Cardinality(F) \in Nat
  BY <1>1, FS_Subset, FS_CardinalityType
<1>3. \A u \in Nat : IsFiniteSet(Before(u)) /\ Cardinality(Before(u)) \in Nat
  BY <1>1, FS_Subset, FS_CardinalityType
<1>4. Cardinality(F) <= k
  <2>1. CASE F = {}
    <3>1. Cardinality(F) = 0
      BY <2>1, FS_EmptySet, Zenon
    <3> QED BY <3>1
  <2>2. CASE F # {}
    <3> DEFINE m == Max(F)
    <3>1. m \in F /\ m \in Nat /\ \A u \in F : u <= m
      BY <1>1, <1>2, <2>2, MaxOfSet
    <3> HIDE DEF m
    <3>2. F \ {m} \in SUBSET Before(m)
      <4> SUFFICES ASSUME NEW u \in F, u # m PROVE u \in M /\ u < m
        OBVIOUS
      <4>1. u \in M /\ u \in Nat /\ u <= m
        BY <1>1, <3>1
      <4> QED BY <3>1, <4>1
    <3>3. Cardinality(F \ {m}) <= Cardinality(Before(m))
      BY <1>3, <3>1, <3>2, FS_Subset
    <3>4. Cardinality(F \ {m}) = Cardinality(F) - 1
      BY <1>2, <3>1, FS_RemoveElement
    <3>5. Cardinality(Before(m)) < k
      BY <3>1
    <3> HIDE DEF Before
    <3>6. Cardinality(Before(m)) \in Nat
      BY <1>3, <3>1
    <3> QED BY <1>2, <3>3, <3>4, <3>5, <3>6
  <2> QED BY <2>1, <2>2
<1>5. ASSUME F # M PROVE k <= Cardinality(F)
  <2>1. M \ F \in SUBSET Nat /\ M \ F # {}
    BY <1>1, <1>5
  <2>2. PICK u \in M \ F : \A w \in M \ F : u <= w
    BY <2>1, LeastNumber
  <2>3. u \in Nat /\ ~(Cardinality(Before(u)) < k)
    BY <2>2
  <2>4. Before(u) \in SUBSET F
    <3> SUFFICES ASSUME NEW v \in M, v < u PROVE v \in F
      OBVIOUS
    <3>1. v \in Nat /\ ~(u <= v)
      BY <2>3
    <3> QED BY <2>2, <3>1
  <2>5. Cardinality(Before(u)) <= Cardinality(F)
    BY <1>2, <2>4, FS_Subset
  <2> HIDE DEF Before
  <2> QED BY <1>2, <1>3, <2>3, <2>5
<1> QED BY <1>2, <1>4, <1>5

(* eligibility_floor gives the floor to the first of those that miss it.   *)
LEMMA FloorFacts ==
    ASSUME NEW u16, Numbers(u16), DOMAIN u16 \subseteq Nat,
           \A u \in DOMAIN u16 : u16[u] \in 1..Top,
           NEW wanted \in SUBSET Nat, IsFiniteSet(wanted)
    PROVE  \E F : Floored(u16, wanted, EligibilityFloor(u16, wanted), F)
<1> DEFINE M == Missing(u16, wanted)
<1>1. M \in SUBSET Nat /\ M \in SUBSET wanted /\ reserve \notin M /\ M \cap DOMAIN u16 = {}
  BY DEF Missing
<1>2. IsFiniteSet(M)
  BY <1>1, FS_Subset
<1>3. CASE reserve \notin DOMAIN u16
  <2>1. EligibilityFloor(u16, wanted) = u16
    BY <1>3 DEF EligibilityFloor
  <2>2. Floored(u16, wanted, u16, {})
    BY <1>3, FS_EmptySet DEF Floored
  <2> QED BY <2>1, <2>2
<1>4. CASE reserve \in DOMAIN u16
  <2> DEFINE k == u16[reserve] - 1
             F == {u \in M : Cardinality({v \in M : v < u}) < k}
             w == EligibilityFloor(u16, wanted)
  <2>1. k \in Nat /\ u16[reserve] = k + 1
    BY <1>4
  <2>2. /\ IsFiniteSet(F) /\ Cardinality(F) \in Nat /\ Cardinality(F) <= k
        /\ F = M \/ Cardinality(F) = k
    <3> HIDE DEF k, M
    <3> QED BY <1>1, <1>2, <2>1, FirstOnes
  <2>3. w = [u \in DOMAIN u16 \cup F |->
                IF u \in F THEN 1
                ELSE IF u = reserve THEN u16[u] - Cardinality(F) ELSE u16[u]]
    BY <1>4, Zenon DEF EligibilityFloor
  <2>4. F \in SUBSET M
    OBVIOUS
  <2> HIDE DEF F, w, k, M
  <2>5. Floored(u16, wanted, w, F)
    <3>1. /\ DOMAIN w = DOMAIN u16 \cup F
          /\ \A u \in F : w[u] = 1
          /\ \A u \in DOMAIN u16 \ {reserve} : w[u] = u16[u]
      BY <1>1, <2>3, <2>4
    <3>2. w[reserve] = u16[reserve] - Cardinality(F)
      BY <1>1, <1>4, <2>3, <2>4
    <3>3. Cardinality(F) < u16[reserve] /\ (F = M \/ w[reserve] = 1)
      BY <2>1, <2>2, <3>2
    <3> QED BY <1>4, <2>2, <2>4, <3>1, <3>2, <3>3 DEF Floored, M
  <2> QED BY <2>5 DEF w
<1> QED BY <1>3, <1>4

-----------------------------------------------------------------------------
(* The formula.                                                            *)

(* Min of two numbers.                                                     *)
LEMMA MinOfTwo ==
    ASSUME NEW i \in Int, NEW j \in Int
    PROVE  Min({i, j}) = IF i <= j THEN i ELSE j
BY DEF Min

(* A card has a weight, whatever its model and tier.                       *)
LEMMA DemandWeightIsNat == ASSUME NEW card \in Card PROVE DemandWeight(card) \in Nat
<1>1. CASE card.model \in DOMAIN Demand
  <2>1. Demand[card.model] \in Int
    BY <1>1, FormulaAssumption
  <2>2. Max({1, Demand[card.model]}) \in Nat
    BY <2>1, MaxOfTwo
  <2> QED BY <1>1, <2>2 DEF DemandWeight, MinWeight
<1>2. CASE card.model \notin DOMAIN Demand
  BY <1>2 DEF DemandWeight, MinWeight, StaticPrior
<1> QED BY <1>1, <1>2

WeightsOf(rig) == [i \in Accepted(rig) |-> DemandWeight(rig.cards[i])]

(* Demand and capacity are the sum of the weights of the accepted cards.   *)
LEMMA WeightsOfFacts ==
    ASSUME NEW rig \in RosterRig
    PROVE  /\ IsFiniteSet(Accepted(rig)) /\ DOMAIN WeightsOf(rig) = Accepted(rig)
           /\ \A i \in Accepted(rig) : WeightsOf(rig)[i] = DemandWeight(rig.cards[i])
           /\ \A i \in Accepted(rig) : WeightsOf(rig)[i] \in Nat
           /\ DemandAndCapacity(rig) = SumFunctionOnSet(WeightsOf(rig), Accepted(rig))
           /\ DemandAndCapacity(rig) \in Nat
<1>1. rig.cards \in Seq(Card)
  BY DEF RosterRig
<1>2. Accepted(rig) \in SUBSET (1..Len(rig.cards)) /\ Len(rig.cards) \in Nat
  BY <1>1 DEF Accepted
<1>3. IsFiniteSet(Accepted(rig))
  <2>1. IsFiniteSet(1..Len(rig.cards))
    BY <1>2, FS_Interval
  <2> QED BY <1>2, <2>1, FS_Subset
<1>4. \A i \in Accepted(rig) : rig.cards[i] \in Card
  BY <1>1, <1>2
<1>5. \A i \in Accepted(rig) : WeightsOf(rig)[i] \in Nat
  BY <1>4, DemandWeightIsNat DEF WeightsOf
<1>6. DOMAIN WeightsOf(rig) = Accepted(rig)
  BY DEF WeightsOf
<1>7. DemandAndCapacity(rig) = SumFunctionOnSet(WeightsOf(rig), Accepted(rig))
  BY <1>6, SumOfFunction DEF DemandAndCapacity, WeightsOf
<1>8. SumFunctionOnSet(WeightsOf(rig), Accepted(rig)) \in Nat
  BY <1>3, <1>5, SumIsNat
<1>9. \A i \in Accepted(rig) : WeightsOf(rig)[i] = DemandWeight(rig.cards[i])
  BY DEF WeightsOf
<1> QED BY <1>3, <1>5, <1>6, <1>7, <1>8, <1>9

(* The multipliers, and the ramp of uptime.                                *)
LEMMA MultipliersAreNat ==
    ASSUME NEW rig \in RosterRig
    PROVE  /\ UptimeMultiplier(rig) \in Nat /\ DriverMultiplier(rig) \in Nat
           /\ IsolationMultiplier(rig) \in Nat /\ OptOutMultiplier(rig) \in Nat
           /\ UptimeDays(rig) = (IF rig.ledgerDays >= rig.poolDays THEN rig.ledgerDays ELSE rig.poolDays)
           /\ UptimeMultiplier(rig) =
                IF UptimeDays(rig) <= 0 THEN 0
                ELSE IF UptimeRampDays <= UptimeDays(rig) THEN UptimeRampDays ELSE UptimeDays(rig)
<1>1. rig.ledgerDays \in Int /\ rig.poolDays \in Int
  BY DEF RosterRig
<1>2. UptimeDays(rig) = IF rig.ledgerDays >= rig.poolDays THEN rig.ledgerDays ELSE rig.poolDays
  BY <1>1, MaxOfTwo DEF UptimeDays
<1>3. UptimeDays(rig) \in Int
  BY <1>1, <1>2
<1>4. Max({0, UptimeDays(rig)}) = IF 0 >= UptimeDays(rig) THEN 0 ELSE UptimeDays(rig)
  BY <1>3, MaxOfTwo
<1>5. Max({0, UptimeDays(rig)}) \in Nat
  BY <1>3, <1>4
<1>6. UptimeMultiplier(rig) = IF UptimeRampDays <= Max({0, UptimeDays(rig)}) THEN UptimeRampDays
                              ELSE Max({0, UptimeDays(rig)})
  BY <1>5, FormulaAssumption, MinOfTwo DEF UptimeMultiplier
<1>7. UptimeMultiplier(rig) \in Nat
  BY <1>5, <1>6, FormulaAssumption
<1>8. UptimeMultiplier(rig) =
        IF UptimeDays(rig) <= 0 THEN 0
        ELSE IF UptimeRampDays <= UptimeDays(rig) THEN UptimeRampDays ELSE UptimeDays(rig)
  BY <1>3, <1>4, <1>6, FormulaAssumption
<1> QED BY <1>2, <1>7, <1>8 DEF DriverMultiplier, IsolationMultiplier, OptOutMultiplier

(* A score is a number.                                                    *)
LEMMA RigScoreIsNat == ASSUME NEW rig \in RosterRig PROVE RigScore(rig) \in Nat
<1>1. \A i, j \in Nat : i * j \in Nat
  OBVIOUS
<1> QED BY <1>1, WeightsOfFacts, MultipliersAreNat DEF RigScore

(* Multiplication keeps the order.                                         *)
LEMMA Products ==
    ASSUME NEW a \in Nat, NEW b \in Nat, NEW c \in Nat, NEW d \in Nat, a <= b, c <= d
    PROVE  a * c \in Nat /\ b * d \in Nat /\ a * c <= b * d
<1>1. a * c <= b * c /\ a * c \in Nat /\ b * c \in Nat
  BY Product
<1>2. c * b <= d * b /\ d * b \in Nat
  BY Product
<1>3. c * b = b * c /\ d * b = b * d
  OBVIOUS
<1> QED BY <1>1, <1>2, <1>3

(* No term of the formula is smaller for a rig that is as good.            *)
LEMMA AsGoodPays ==
    ASSUME NEW p \in RosterRig, NEW q \in RosterRig, AsGood(p, q)
    PROVE  RigScore(q) <= RigScore(p)
<1>1. DemandAndCapacity(q) <= DemandAndCapacity(p)
  <2>1. Accepted(q) \in SUBSET Accepted(p)
    BY DEF AsGood
  <2>2. \A i \in Accepted(q) : WeightsOf(q)[i] = WeightsOf(p)[i]
    BY WeightsOfFacts DEF AsGood
  <2>3. \A i \in Accepted(q) : WeightsOf(q)[i] \in Nat /\ WeightsOf(q)[i] <= WeightsOf(p)[i]
    BY <2>2, WeightsOfFacts
  <2> QED BY <2>1, <2>3, WeightsOfFacts, SumMonotone
<1>2. UptimeMultiplier(q) <= UptimeMultiplier(p)
  <2>1. /\ p.ledgerDays \in Int /\ p.poolDays \in Int /\ q.ledgerDays \in Int /\ q.poolDays \in Int
        /\ p.ledgerDays >= q.ledgerDays /\ p.poolDays >= q.poolDays
    BY DEF RosterRig, AsGood
  <2>2. UptimeDays(q) \in Int /\ UptimeDays(p) \in Int /\ UptimeDays(q) <= UptimeDays(p)
    BY <2>1, MultipliersAreNat
  <2> QED BY <2>2, MultipliersAreNat, FormulaAssumption
<1>3. DriverMultiplier(q) <= DriverMultiplier(p)
  <2>1. DriverOk(q) => DriverOk(p)
    BY FormulaAssumption DEF DriverOk, AsGood, RosterRig
  <2>2. q.rented => p.rented
    BY DEF AsGood
  <2> QED BY <2>1, <2>2 DEF DriverMultiplier
<1>4. IsolationMultiplier(q) <= IsolationMultiplier(p)
  BY DEF IsolationMultiplier, AsGood
<1>5. OptOutMultiplier(q) <= OptOutMultiplier(p)
  BY DEF OptOutMultiplier, AsGood
<1> DEFINE d(x) == DemandAndCapacity(x)
           u(x) == UptimeMultiplier(x)
           v(x) == DriverMultiplier(x)
           i(x) == IsolationMultiplier(x)
           o(x) == OptOutMultiplier(x)
<1>6. \A x \in {p, q} : d(x) \in Nat /\ u(x) \in Nat /\ v(x) \in Nat /\ i(x) \in Nat /\ o(x) \in Nat
  BY WeightsOfFacts, MultipliersAreNat
<1>7. d(q) <= d(p) /\ u(q) <= u(p) /\ v(q) <= v(p) /\ i(q) <= i(p) /\ o(q) <= o(p)
  BY <1>1, <1>2, <1>3, <1>4, <1>5
<1>8. RigScore(p) = d(p) * u(p) * v(p) * i(p) * o(p) /\ RigScore(q) = d(q) * u(q) * v(q) * i(q) * o(q)
  BY DEF RigScore
<1> HIDE DEF d, u, v, i, o
<1>9. d(q) * u(q) \in Nat /\ d(p) * u(p) \in Nat /\ d(q) * u(q) <= d(p) * u(p)
  BY <1>6, <1>7, Products
<1>10. /\ d(q) * u(q) * v(q) \in Nat /\ d(p) * u(p) * v(p) \in Nat
       /\ d(q) * u(q) * v(q) <= d(p) * u(p) * v(p)
  BY <1>6, <1>7, <1>9, Products
<1>11. /\ d(q) * u(q) * v(q) * i(q) \in Nat /\ d(p) * u(p) * v(p) * i(p) \in Nat
       /\ d(q) * u(q) * v(q) * i(q) <= d(p) * u(p) * v(p) * i(p)
  BY <1>6, <1>7, <1>10, Products
<1>12. d(q) * u(q) * v(q) * i(q) * o(q) <= d(p) * u(p) * v(p) * i(p) * o(p)
  BY <1>6, <1>7, <1>11, Products
<1> QED BY <1>8, <1>12

(* The local score of a hotkey is the sum over its verified rigs.          *)
LEMMA LocalScoresFacts ==
    ASSUME NEW views \in [Rig -> RigView]
    PROVE  /\ DOMAIN LocalScores(views) \subseteq Hotkey
           /\ \A h \in DOMAIN LocalScores(views) : LocalScores(views)[h] \in Nat
           /\ \A h \in DOMAIN LocalScores(views) :
                LocalScores(views)[h] = SumFunction([r \in VerifiedRigs(views, h) |-> RigScore(views[r])])
           /\ \A h \in Hotkey : h \in DOMAIN LocalScores(views) <=> VerifiedRigs(views, h) # {}
<1>1. /\ DOMAIN LocalScores(views) = {h \in Hotkey : VerifiedRigs(views, h) # {}}
      /\ \A h \in DOMAIN LocalScores(views) :
            LocalScores(views)[h] = SumFunction([r \in VerifiedRigs(views, h) |-> RigScore(views[r])])
  BY DEF LocalScores
<1>2. ASSUME NEW h
      PROVE  SumFunction([r \in VerifiedRigs(views, h) |-> RigScore(views[r])]) \in Nat
  <2> DEFINE f == [r \in VerifiedRigs(views, h) |-> RigScore(views[r])]
  <2>1. VerifiedRigs(views, h) \in SUBSET Rig
    BY DEF VerifiedRigs
  <2>2. IsFiniteSet(VerifiedRigs(views, h))
    BY <2>1, WeightsAssumption, FS_Subset
  <2>3. \A r \in VerifiedRigs(views, h) : f[r] \in Nat
    BY <2>1, RigScoreIsNat, WeightsAssumption
  <2>4. DOMAIN f = VerifiedRigs(views, h)
    OBVIOUS
  <2> HIDE DEF f
  <2>5. SumFunction(f) \in Nat
    BY <2>2, <2>3, <2>4, SumOfFunction, SumIsNat
  <2> QED BY <2>5 DEF f
<1> QED BY <1>1, <1>2

-----------------------------------------------------------------------------
(* The invariant.  The vector comes from the scores and the uids that are  *)
(* still there: nothing that happens after it was submitted changes them.  *)
(* Local scores come from the roster that is still there.                  *)
Scored == \A h \in DOMAIN scores : scores[h] \in Nat
FromRoster == roster # Nothing => scores = LocalScores(roster)
VectorOf(byUid) == EligibilityFloor(ToU16(Shares(byUid)), ActiveUids)
FromScores == pc = "submitted" => \E byUid \in ScoresByUid : vector = VectorOf(byUid)

WeightsInv == Type /\ Scored /\ FromRoster /\ FromScores

(* scores_by_uid gives numbers, to uids that were found.                   *)
LEMMA ByUidFacts ==
    ASSUME Type, Scored, NEW byUid \in ScoresByUid
    PROVE  /\ Numbers(byUid) /\ DOMAIN byUid \subseteq Uid
           /\ \A u \in DOMAIN byUid : \E h \in Known : uids[h] = u /\ scores[h] = byUid[u]
           /\ \A h \in Known : uids[h] \in DOMAIN byUid
           /\ ActiveUids \subseteq Uid /\ IsFiniteSet(ActiveUids)
<1>1. DOMAIN byUid = {uids[h] : h \in Known}
  BY DEF ScoresByUid
<1>2. \A u \in DOMAIN byUid : \E h \in Known : uids[h] = u /\ scores[h] = byUid[u]
  BY DEF ScoresByUid
<1>3. Known \in SUBSET Hotkey /\ \A h \in Known : uids[h] \in Uid /\ scores[h] \in Nat
  BY DEF Known, Type, Scored
<1>4. IsFiniteSet(Known)
  BY <1>3, WeightsAssumption, FS_Subset
<1>5. IsFiniteSet(DOMAIN byUid)
  <2> DEFINE f == [h \in Known |-> uids[h]]
  <2>1. f \in Surjection(Known, DOMAIN byUid)
    BY <1>1 DEF Surjection
  <2> HIDE DEF f
  <2> QED BY <1>4, <2>1, FS_Surjection
<1>6. \A u \in DOMAIN byUid : byUid[u] \in Nat
  BY <1>2, <1>3
<1>7. ActiveUids \subseteq Uid
  BY DEF ActiveUids, Type
<1>8. IsFiniteSet(ActiveUids)
  <2> DEFINE S == active \cap DOMAIN uids
             f == [h \in S |-> uids[h]]
  <2>1. S \in SUBSET Hotkey
    BY DEF Type
  <2>2. IsFiniteSet(S)
    BY <2>1, WeightsAssumption, FS_Subset
  <2>3. f \in Surjection(S, ActiveUids)
    BY DEF Surjection, ActiveUids
  <2> HIDE DEF f, S
  <2> QED BY <2>2, <2>3, FS_Surjection
<1> QED BY <1>1, <1>2, <1>3, <1>5, <1>6, <1>7, <1>8 DEF Numbers

(* The reserve is given a share of its own.                                *)
Reserving == reserve # None /\ held # 0
TotalOf(byUid) == SumFunctionOnSet(byUid, Positive(byUid))
HeldOf(byUid) == (IF TotalOf(byUid) = 0 THEN 1 ELSE TotalOf(byUid)) * held

(* normalise and with_reserve, spelled out.                                *)
LEMMA SharesFacts ==
    ASSUME Type, NEW byUid, Numbers(byUid), DOMAIN byUid \subseteq Uid
    PROVE  /\ Numbers(Shares(byUid)) /\ DOMAIN Shares(byUid) \subseteq Uid
           /\ TotalOf(byUid) \in Nat /\ HeldOf(byUid) \in Nat
           /\ held \in Nat /\ Whole \in Nat /\ Whole - held \in Nat
           /\ \A u \in Positive(byUid) : byUid[u] \in Nat \ {0}
           /\ ~Reserving => /\ DOMAIN Shares(byUid) = Positive(byUid)
                           /\ \A u \in Positive(byUid) : Shares(byUid)[u] = byUid[u]
           /\ Reserving => /\ DOMAIN Shares(byUid) = Positive(byUid) \cup {reserve} /\ reserve \in Uid
                          /\ Shares(byUid)[reserve] = HeldOf(byUid) /\ HeldOf(byUid) # 0
                          /\ \A u \in Positive(byUid) \ {reserve} :
                                Shares(byUid)[u] = byUid[u] * (Whole - held)
<1> DEFINE paid == Positive(byUid)
           total == TotalOf(byUid)
           f == Shares(byUid)
<1>1. paid \in SUBSET DOMAIN byUid /\ \A u \in paid : byUid[u] \in Nat \ {0}
  BY DEF Positive, Numbers
<1>2. IsFiniteSet(paid)
  BY <1>1, FS_Subset DEF Numbers
<1>3. total \in Nat
  BY <1>1, <1>2, SumIsNat DEF TotalOf
<1>4. held \in Nat /\ Whole \in Nat /\ Whole - held \in Nat
  BY WeightsAssumption DEF Type
<1>5. HeldOf(byUid) \in Nat /\ (held # 0 => HeldOf(byUid) # 0)
  BY <1>3, <1>4 DEF HeldOf
<1>6. CASE ~Reserving
  <2>1. f = [u \in paid |-> byUid[u]]
    BY <1>6 DEF Shares, Reserving, Positive
  <2> HIDE DEF f
  <2>2. DOMAIN f = paid /\ \A u \in paid : f[u] = byUid[u]
    BY <2>1
  <2>3. Numbers(f) /\ DOMAIN f \subseteq Uid
    BY <1>1, <1>2, <2>2 DEF Numbers
  <2> QED BY <1>1, <1>3, <1>4, <1>5, <1>6, <2>2, <2>3 DEF f
<1>7. CASE Reserving
  <2>1. f = [u \in (paid \ {reserve}) \cup {reserve} |->
                IF u = reserve THEN HeldOf(byUid) ELSE byUid[u] * (Whole - held)]
    BY <1>7, Zenon DEF Shares, Reserving, Positive, HeldOf, TotalOf
  <2>2. (paid \ {reserve}) \cup {reserve} = paid \cup {reserve}
    OBVIOUS
  <2> HIDE DEF f
  <2>3. /\ DOMAIN f = paid \cup {reserve} /\ f[reserve] = HeldOf(byUid)
        /\ \A u \in paid \ {reserve} : f[u] = byUid[u] * (Whole - held)
    BY <2>1, <2>2
  <2>4. reserve \in Uid
    BY <1>7 DEF Reserving, Type
  <2>5. IsFiniteSet(DOMAIN f)
    BY <1>2, <2>3, FS_AddElement
  <2>6. \A i, j \in Nat : i * j \in Nat
    OBVIOUS
  <2>7. \A u \in DOMAIN f : f[u] \in Nat
    BY <1>1, <1>4, <1>5, <2>3, <2>6
  <2>8. HeldOf(byUid) # 0
    BY <1>5, <1>7 DEF Reserving
  <2> QED BY <1>1, <1>3, <1>4, <1>5, <1>7, <2>3, <2>4, <2>5, <2>7, <2>8 DEF Numbers, f
<1> QED BY <1>6, <1>7

U16Of(byUid) == ToU16(Shares(byUid))

(* The vector is what to_u16 made of the shares, with the floor.           *)
LEMMA VectorFacts ==
    ASSUME Type, Scored, NEW byUid \in ScoresByUid
    PROVE  /\ \E F : Floored(U16Of(byUid), ActiveUids, VectorOf(byUid), F)
           /\ DOMAIN VectorOf(byUid) \subseteq Uid
           /\ \A u \in DOMAIN VectorOf(byUid) : VectorOf(byUid)[u] \in 1..Top
<1> DEFINE f == Shares(byUid)
           u16 == U16Of(byUid)
           v == VectorOf(byUid)
<1>1. Numbers(byUid) /\ DOMAIN byUid \subseteq Uid /\ ActiveUids \subseteq Uid /\ IsFiniteSet(ActiveUids)
  BY ByUidFacts
<1>2. Numbers(f) /\ DOMAIN f \subseteq Uid
  BY <1>1, SharesFacts
<1>3. Positive(f) \subseteq Uid
  BY <1>2 DEF Positive
<1>4. Numbers(u16) /\ DOMAIN u16 \subseteq Uid /\ \A u \in DOMAIN u16 : u16[u] \in 1..Top
  BY <1>2, <1>3, ToU16Facts DEF U16Of
<1>5. v = EligibilityFloor(u16, ActiveUids)
  BY DEF VectorOf, U16Of
<1>6. Uid \subseteq Nat /\ Top \in Nat \ {0}
  BY WeightsAssumption
<1> HIDE DEF f, u16, v
<1>7. DOMAIN u16 \subseteq Nat /\ ActiveUids \in SUBSET Nat
  BY <1>1, <1>4, <1>6
<1>8. \E F : Floored(u16, ActiveUids, v, F)
  BY <1>1, <1>4, <1>5, <1>7, FloorFacts
<1>9. PICK F : Floored(u16, ActiveUids, v, F)
  BY <1>8
<1>10. F \subseteq Uid /\ Cardinality(F) \in Nat
  BY <1>1, <1>9, FS_CardinalityType DEF Floored, Missing
<1>11. DOMAIN v \subseteq Uid
  BY <1>4, <1>9, <1>10 DEF Floored
<1>12. ASSUME NEW u \in DOMAIN v PROVE v[u] \in 1..Top
  <2>1. CASE u \in F
    BY <1>6, <1>9, <2>1 DEF Floored
  <2>2. CASE u \in DOMAIN u16 \ {reserve}
    BY <1>4, <1>9, <2>2 DEF Floored
  <2>3. CASE u \in DOMAIN u16 /\ u = reserve
    <3>1. v[u] = u16[u] - Cardinality(F) /\ Cardinality(F) < u16[u]
      BY <1>9, <2>3 DEF Floored
    <3> QED BY <1>4, <1>6, <1>10, <2>3, <3>1
  <2> QED BY <1>9, <2>1, <2>2, <2>3 DEF Floored
<1> QED BY <1>8, <1>11, <1>12 DEF u16, v

(* Nothing has been scored to begin with.                                  *)
LEMMA WeightsInvInit == Init => WeightsInv
<1> SUFFICES ASSUME Init PROVE WeightsInv
  OBVIOUS
<1>1. DOMAIN Nothing = {}
  BY DEF Nothing
<1>2. Type
  BY <1>1, WeightsAssumption DEF Init, Type
<1> QED BY <1>1, <1>2 DEF Init, WeightsInv, Scored, FromRoster, FromScores

(* What stands behind the vector does not change with steps that leave     *)
(* these variables alone.                                                  *)
LEMMA VectorKept ==
    ASSUME UNCHANGED <<reserve, held, scores, active, uids>>
    PROVE  ScoresByUid' = ScoresByUid /\ \A byUid : VectorOf(byUid)' = VectorOf(byUid)
<1>1. reserve' = reserve /\ held' = held /\ scores' = scores /\ active' = active /\ uids' = uids
  OBVIOUS
<1>2. Known' = Known /\ ActiveUids' = ActiveUids
  BY <1>1 DEF Known, ActiveUids
<1>3. ScoresByUid' = ScoresByUid
  BY <1>1, <1>2 DEF ScoresByUid
<1>4. ASSUME NEW byUid PROVE VectorOf(byUid)' = VectorOf(byUid)
  <2>1. Shares(byUid)' = Shares(byUid)
    BY <1>1 DEF Shares
  <2>2. \A u16, wanted : EligibilityFloor(u16, wanted)' = EligibilityFloor(u16, wanted)
    BY <1>1 DEF EligibilityFloor, Missing
  <2> QED BY <1>2, <2>1, <2>2 DEF VectorOf
<1> QED BY <1>3, <1>4

(* Every step keeps the invariant.                                         *)
LEMMA WeightsInvNext == WeightsInv /\ [Next]_vars => WeightsInv'
<1> SUFFICES ASSUME WeightsInv, [Next]_vars PROVE WeightsInv'
  OBVIOUS
<1> USE DEF WeightsInv
<1>1. DOMAIN Nothing = {}
  BY DEF Nothing
<1>2. ASSUME NEW h \in Hotkey, NEW u \in Uid, Register(h, u) PROVE WeightsInv'
  <2>1. pc # "submitted" /\ pc' = pc /\ UNCHANGED <<reserve, held, roster, scores, active, todo, uids, vector>>
    BY <1>2 DEF Register
  <2>2. uidOf' \in [Hotkey -> Uid \cup {None}]
    BY <1>2 DEF Register, Type
  <2>3. Type'
    BY <2>1, <2>2 DEF Type
  <2> QED BY <2>1, <2>3 DEF Scored, FromRoster, FromScores, LocalScores, VerifiedRigs
<1>3. ASSUME NEW online \in SUBSET Rig, NEW found, Score(found, online),
             DOMAIN found \subseteq Hotkey, \A h \in DOMAIN found : found[h] \in Nat,
             roster' \in [Rig -> RigView] \cup {Nothing}, FromRoster'
      PROVE  WeightsInv'
  <2>1. /\ scores' = found /\ pc' = "uids" /\ UNCHANGED <<reserve, held, uidOf, uids, vector>>
        /\ active' = {Owner[r] : r \in online} /\ todo' = DOMAIN found \cup active'
    BY <1>3 DEF Score
  <2>2. active' \subseteq Hotkey
    BY <2>1, WeightsAssumption
  <2>3. Type'
    BY <1>3, <2>1, <2>2 DEF Type
  <2> QED BY <1>3, <2>1, <2>3 DEF Scored, FromScores
<1>4. ASSUME NEW online \in SUBSET Rig, NEW published \in Dict(Hotkey, 1..MaxScore),
             ScorePublished(published, online)
      PROVE  WeightsInv'
  <2>1. PICK D \in SUBSET Hotkey : published \in [D -> 1..MaxScore]
    BY DEF Dict
  <2>2. DOMAIN published \subseteq Hotkey /\ \A h \in DOMAIN published : published[h] \in Nat
    BY <2>1, WeightsAssumption
  <2>3. Score(published, online) /\ roster' = Nothing
    BY <1>4 DEF ScorePublished
  <2> QED BY <1>3, <2>2, <2>3 DEF FromRoster
<1>5. ASSUME NEW online \in SUBSET Rig, NEW views \in [Rig -> RigView], ScoreLocally(views, online)
      PROVE  WeightsInv'
  <2>1. Score(LocalScores(views), online) /\ roster' = views
    BY <1>5 DEF ScoreLocally
  <2>2. /\ DOMAIN LocalScores(views) \subseteq Hotkey
        /\ \A h \in DOMAIN LocalScores(views) : LocalScores(views)[h] \in Nat
    BY LocalScoresFacts
  <2>3. FromRoster'
    BY <2>1 DEF FromRoster, Score
  <2> QED BY <1>3, <2>1, <2>2, <2>3
<1>6. ASSUME NEW h \in Hotkey, UidOf(h) PROVE WeightsInv'
  <2>1. /\ pc = "uids" /\ todo' = todo \ {h}
        /\ UNCHANGED <<reserve, held, uidOf, pc, roster, scores, active, vector>>
    BY <1>6 DEF UidOf
  <2>2. DOMAIN uids' \subseteq Hotkey /\ \A k \in DOMAIN uids' : uids'[k] \in Uid
    <3>1. CASE uidOf[h] = None
      BY <1>6, <3>1 DEF UidOf, Type
    <3>2. CASE uidOf[h] # None
      <4>1. uidOf[h] \in Uid
        BY <3>2 DEF Type
      <4>2. uids' = [k \in DOMAIN uids \cup {h} |-> IF k = h THEN uidOf[h] ELSE uids[k]]
        BY <1>6, <3>2 DEF UidOf
      <4> QED BY <4>1, <4>2 DEF Type
    <3> QED BY <3>1, <3>2
  <2>3. Type'
    BY <2>1, <2>2 DEF Type
  <2> QED BY <2>1, <2>3 DEF Scored, FromRoster, FromScores
<1>7. ASSUME NEW byUid \in ScoresByUid, Submit(byUid) PROVE WeightsInv'
  <2>1. /\ UNCHANGED <<reserve, held, uidOf, roster, scores, active, todo, uids>> /\ pc' = "submitted"
        /\ vector' = VectorOf(byUid)
    BY <1>7 DEF Submit, VectorOf
  <2>2. DOMAIN vector' \subseteq Uid /\ \A u \in DOMAIN vector' : vector'[u] \in 1..Top
    BY <2>1, VectorFacts
  <2>3. Type'
    BY <2>1, <2>2 DEF Type
  <2>4. byUid \in ScoresByUid' /\ vector' = VectorOf(byUid)'
    BY <2>1, VectorKept
  <2>5. FromScores'
    BY <2>4 DEF FromScores
  <2> QED BY <2>1, <2>3, <2>5 DEF Scored, FromRoster
<1>8. CASE Over
  <2>1. Type'
    BY <1>1, <1>8 DEF Over, Type
  <2> QED BY <1>1, <1>8, <2>1 DEF Over, Scored, FromRoster, FromScores
<1>9. CASE UNCHANGED vars
  <2>1. UNCHANGED <<reserve, held, uidOf, pc, roster, scores, active, todo, uids, vector>>
    BY <1>9 DEF vars
  <2>2. Type'
    BY <2>1 DEF Type
  <2>3. FromScores'
    BY <2>1, VectorKept DEF FromScores
  <2> QED BY <2>1, <2>2, <2>3 DEF Scored, FromRoster
<1> QED BY <1>2, <1>4, <1>5, <1>6, <1>7, <1>8, <1>9 DEF Next

(* The invariant of the specification.                                     *)
LEMMA WeightsInvHolds == Spec => []WeightsInv
BY WeightsInvInit, WeightsInvNext, PTL DEF Spec

(* Types, for any hotkeys, rigs and uids.  A weight that was submitted is  *)
(* a u16, and none of them is zero.                                        *)
THEOREM TypeCorrect == Spec => []Type
<1>1. WeightsInv => Type
  BY DEF WeightsInv
<1> QED BY <1>1, WeightsInvHolds, PTL

-----------------------------------------------------------------------------
(* The floor moves units, and makes none.                                  *)
LEMMA FloorKeepsSum ==
    ASSUME NEW u16, NEW wanted, NEW v, NEW F, Floored(u16, wanted, v, F), Numbers(u16)
    PROVE  SumFunction(v) = SumFunction(u16)
<1> DEFINE D == DOMAIN u16
           n == Cardinality(F)
<1>1. /\ IsFiniteSet(D) /\ IsFiniteSet(F) /\ D \cap F = {} /\ DOMAIN v = D \cup F
      /\ \A u \in D : u16[u] \in Nat
      /\ \A u \in F : v[u] = 1
  BY DEF Floored, Numbers, Missing
<1>2. n \in Nat
  BY <1>1, FS_CardinalityType
<1>3. \A u \in D \ {reserve} : v[u] = u16[u]
  BY DEF Floored
<1>4. \A u \in D : v[u] \in Nat
  BY <1>1, <1>2, <1>3 DEF Floored
<1>5. SumFunctionOnSet(v, D \cup F) = SumFunctionOnSet(v, D) + n
  BY <1>1, <1>4, SumOfUnits
<1>6. SumFunctionOnSet(v, D) + n = SumFunctionOnSet(u16, D)
  <2>1. CASE reserve \notin D
    <3>1. n = 0
      BY <2>1, FS_EmptySet DEF Floored
    <3>2. SumFunctionOnSet(u16, D) = SumFunctionOnSet(v, D)
      BY <1>1, <1>3, <2>1, SumSame
    <3>3. SumFunctionOnSet(u16, D) \in Nat
      BY <1>1, SumIsNat
    <3> QED BY <3>1, <3>2, <3>3
  <2>2. CASE reserve \in D
    <3>1. v[reserve] = u16[reserve] - n
      BY <2>2 DEF Floored
    <3>2. SumFunctionOnSet(v, D) = v[reserve] + SumFunctionOnSet(v, D \ {reserve})
      BY <1>1, <1>4, <2>2, SumRemove
    <3>3. SumFunctionOnSet(u16, D) = u16[reserve] + SumFunctionOnSet(u16, D \ {reserve})
      BY <1>1, <2>2, SumRemove
    <3>4. IsFiniteSet(D \ {reserve})
      BY <1>1, FS_Subset
    <3>5. /\ SumFunctionOnSet(u16, D \ {reserve}) = SumFunctionOnSet(v, D \ {reserve})
          /\ SumFunctionOnSet(u16, D \ {reserve}) \in Nat
      BY <1>1, <1>3, <3>4, SumSame, SumIsNat
    <3> QED BY <1>1, <1>2, <2>2, <3>1, <3>2, <3>3, <3>5
  <2> QED BY <2>1, <2>2
<1>7. SumFunction(v) = SumFunctionOnSet(v, D \cup F) /\ SumFunction(u16) = SumFunctionOnSet(u16, D)
  BY <1>1, SumOfFunction
<1> QED BY <1>5, <1>6, <1>7

(* to_u16 of the shares.                                                   *)
LEMMA U16Facts ==
    ASSUME Type, Scored, NEW byUid \in ScoresByUid
    PROVE  /\ Numbers(U16Of(byUid)) /\ DOMAIN U16Of(byUid) = Positive(Shares(byUid))
           /\ \A u \in DOMAIN U16Of(byUid) :
                /\ U16Of(byUid)[u] = Quantise(Shares(byUid)[u], Largest(Shares(byUid)))
                /\ U16Of(byUid)[u] \in 1..Top
           /\ Numbers(Shares(byUid)) /\ Numbers(byUid) /\ DOMAIN byUid \subseteq Uid
BY ByUidFacts, SharesFacts, ToU16Facts DEF U16Of

(* The eligibility floor takes nothing from the miners, adds nothing to    *)
(* the sum, and reaches every active uid unless it took all but one unit   *)
(* of the reserve; for any uids, scores and shares.                        *)
THEOREM FloorFromReserveHolds == Spec => []FloorFromReserve
<1>1. WeightsInv => FloorFromReserve
  <2> SUFFICES ASSUME WeightsInv, pc = "submitted" PROVE FloorFromReserve
    BY DEF FloorFromReserve
  <2>1. PICK byUid \in ScoresByUid : vector = VectorOf(byUid)
    BY DEF WeightsInv, FromScores
  <2> DEFINE u16 == U16Of(byUid)
  <2>2. PICK F : Floored(u16, ActiveUids, vector, F)
    BY <2>1, VectorFacts DEF WeightsInv
  <2>3. Numbers(u16)
    BY U16Facts DEF WeightsInv
  <2>4. SumFunction(vector) = SumFunction(u16)
    BY <2>2, <2>3, FloorKeepsSum
  <2>5. u16 = ToU16(Shares(byUid))
    BY DEF U16Of
  <2> HIDE DEF u16
  <2>6. \A u \in DOMAIN u16 \ {reserve} : vector[u] = u16[u]
    BY <2>2 DEF Floored
  <2>7. ASSUME reserve \in DOMAIN vector PROVE ActiveUids \subseteq DOMAIN vector \/ vector[reserve] = 1
    <3>1. reserve \in DOMAIN u16
      BY <2>2, <2>7 DEF Floored, Missing
    <3> QED BY <2>2, <3>1 DEF Floored, Missing
  <2> QED BY <2>4, <2>5, <2>6, <2>7 DEF FloorFromReserve
<1> QED BY <1>1, WeightsInvHolds, PTL

-----------------------------------------------------------------------------
(* A miner's score is the score of its uid.                                *)
LEMMA MinerFacts ==
    ASSUME Type, Scored, NEW byUid \in ScoresByUid, NEW h \in Miners
    PROVE  /\ ScoreOf(h) \in Nat /\ uids[h] # reserve
           /\ ScoreOf(h) > 0 <=> uids[h] \in Positive(byUid)
           /\ ScoreOf(h) > 0 => byUid[uids[h]] = ScoreOf(h)
<1>1. h \in DOMAIN uids /\ uids[h] # reserve /\ \A k \in DOMAIN uids : uids[k] = uids[h] => k = h
  BY DEF Miners
<1>2. \A u \in DOMAIN byUid : \E k \in Known : uids[k] = u /\ scores[k] = byUid[u]
  BY ByUidFacts
<1>3. CASE h \in DOMAIN scores
  <2>1. h \in Known /\ ScoreOf(h) = scores[h] /\ scores[h] \in Nat
    BY <1>1, <1>3 DEF Known, ScoreOf, Scored
  <2>2. uids[h] \in DOMAIN byUid
    BY <2>1, ByUidFacts
  <2>3. byUid[uids[h]] = scores[h]
    BY <1>1, <1>2, <2>2 DEF Known
  <2> QED BY <1>1, <2>1, <2>2, <2>3 DEF Positive
<1>4. CASE h \notin DOMAIN scores
  <2>1. ScoreOf(h) = 0
    BY <1>4 DEF ScoreOf
  <2>2. uids[h] \notin DOMAIN byUid
    BY <1>1, <1>2, <1>4 DEF Known
  <2> QED BY <1>1, <2>1, <2>2 DEF Positive
<1> QED BY <1>3, <1>4

(* Something is left for the miners.                                       *)
Paying == reserve = None \/ held < Whole

(* What the steps after the scores do to a miner: its score, scaled, is    *)
(* quantised by a largest share that is the same for all.                  *)
LEMMA MinersQuantised ==
    ASSUME WeightsInv, pc = "submitted", Paying
    PROVE  \E c \in Nat \ {0} : \E top : \A m \in Miners :
                /\ ScoreOf(m) \in Nat
                /\ ScoreOf(m) > 0 =>
                        /\ top \in Nat \ {0} /\ ScoreOf(m) * c \in Nat \ {0} /\ ScoreOf(m) * c <= top
                        /\ WeightOf(m) = Quantise(ScoreOf(m) * c, top) /\ WeightOf(m) \in 1..Top
                /\ ScoreOf(m) = 0 => WeightOf(m) \in {0, 1}
<1>1. PICK byUid \in ScoresByUid : vector = VectorOf(byUid)
  BY DEF WeightsInv, FromScores
<1>2. Type /\ Scored
  BY DEF WeightsInv
<1> DEFINE f == Shares(byUid)
           u16 == U16Of(byUid)
<1>3. /\ Numbers(u16) /\ DOMAIN u16 = Positive(f)
      /\ \A u \in DOMAIN u16 : u16[u] = Quantise(f[u], Largest(f)) /\ u16[u] \in 1..Top
      /\ Numbers(f) /\ Numbers(byUid) /\ DOMAIN byUid \subseteq Uid
  BY <1>2, U16Facts
<1>4. PICK F : Floored(u16, ActiveUids, vector, F)
  BY <1>1, <1>2, VectorFacts
<1>5. PICK c \in Nat \ {0} :
        \A u \in Positive(byUid) \ {reserve} : u \in DOMAIN f /\ f[u] = byUid[u] * c
  <2>1. CASE Reserving
    <3>1. Whole \in Nat /\ held \in Nat
      BY <1>2, <1>3, SharesFacts
    <3>2. Whole - held \in Nat \ {0}
      BY <2>1, <3>1 DEF Paying, Reserving
    <3>3. \A u \in Positive(byUid) \ {reserve} : u \in DOMAIN f /\ f[u] = byUid[u] * (Whole - held)
      BY <1>2, <1>3, <2>1, SharesFacts
    <3> QED BY <3>2, <3>3
  <2>2. CASE ~Reserving
    <3>1. \A u \in Positive(byUid) \ {reserve} :
            u \in DOMAIN f /\ f[u] = byUid[u] /\ byUid[u] \in Nat
      BY <1>2, <1>3, <2>2, SharesFacts
    <3>2. \A u \in Positive(byUid) \ {reserve} : u \in DOMAIN f /\ f[u] = byUid[u] * 1
      <4> HIDE DEF f
      <4> QED BY <3>1
    <3>3. 1 \in Nat \ {0}
      OBVIOUS
    <3> QED BY <3>2, <3>3, Zenon
  <2> QED BY <2>1, <2>2
<1>6. DOMAIN f \ {reserve} \subseteq Positive(byUid)
  BY <1>2, <1>3, SharesFacts
<1>7. ASSUME NEW m \in Miners
      PROVE  /\ ScoreOf(m) \in Nat
             /\ ScoreOf(m) > 0 =>
                    /\ f[uids[m]] = ScoreOf(m) * c /\ ScoreOf(m) * c \in Nat \ {0}
                    /\ uids[m] \in DOMAIN u16 /\ WeightOf(m) = u16[uids[m]]
             /\ ScoreOf(m) = 0 => WeightOf(m) \in {0, 1}
  <2>1. /\ ScoreOf(m) \in Nat /\ uids[m] # reserve
        /\ ScoreOf(m) > 0 <=> uids[m] \in Positive(byUid)
        /\ ScoreOf(m) > 0 => byUid[uids[m]] = ScoreOf(m)
    BY <1>2, MinerFacts
  <2>2. CASE ScoreOf(m) > 0
    <3>1. uids[m] \in DOMAIN f /\ f[uids[m]] = ScoreOf(m) * c
      BY <1>5, <2>1, <2>2
    <3>2. ScoreOf(m) * c \in Nat \ {0}
      BY <2>1, <2>2
    <3>3. uids[m] \in DOMAIN u16
      BY <1>3, <3>1, <3>2 DEF Positive
    <3>4. WeightOf(m) = u16[uids[m]]
      BY <1>4, <2>1, <3>3 DEF WeightOf, Floored
    <3> QED BY <2>1, <2>2, <3>1, <3>2, <3>3, <3>4
  <2>3. CASE ScoreOf(m) = 0
    <3>1. uids[m] \notin DOMAIN u16
      BY <1>3, <1>6, <2>1, <2>3 DEF Positive
    <3>2. WeightOf(m) \in {0, 1}
      BY <1>4, <3>1 DEF WeightOf, Floored
    <3> QED BY <2>1, <2>3, <3>2
  <2> QED BY <2>1, <2>2, <2>3
<1>8. ASSUME NEW m \in Miners, ScoreOf(m) > 0
      PROVE  /\ Largest(f) \in Nat \ {0} /\ ScoreOf(m) * c <= Largest(f)
             /\ WeightOf(m) = Quantise(ScoreOf(m) * c, Largest(f)) /\ WeightOf(m) \in 1..Top
  <2>1. /\ uids[m] \in DOMAIN u16 /\ WeightOf(m) = u16[uids[m]]
        /\ f[uids[m]] = ScoreOf(m) * c
    BY <1>7, <1>8
  <2>2. uids[m] \in Positive(f)
    BY <1>3, <2>1
  <2>3. Largest(f) \in Nat \ {0} /\ f[uids[m]] <= Largest(f)
    BY <1>3, <2>2, LargestFacts DEF Positive
  <2> HIDE DEF f, u16
  <2> QED BY <1>3, <2>1, <2>3
<1> HIDE DEF f, u16
<1> QED BY <1>7, <1>8

(* What they do to two miners.                                             *)
LEMMA WeightsFollowScores ==
    ASSUME WeightsInv, pc = "submitted", Paying, NEW h \in Miners, NEW k \in Miners
    PROVE  /\ ScoreOf(h) \in Nat /\ WeightOf(h) \in Nat
           /\ ScoreOf(h) > 0 => WeightOf(h) > 0
           /\ ScoreOf(h) = 0 => WeightOf(h) <= 1
           /\ ScoreOf(k) > 0 /\ ScoreOf(k) <= ScoreOf(h) => WeightOf(k) <= WeightOf(h)
<1>1. PICK c \in Nat \ {0} : \E top : \A m \in Miners :
        /\ ScoreOf(m) \in Nat
        /\ ScoreOf(m) > 0 =>
                /\ top \in Nat \ {0} /\ ScoreOf(m) * c \in Nat \ {0} /\ ScoreOf(m) * c <= top
                /\ WeightOf(m) = Quantise(ScoreOf(m) * c, top) /\ WeightOf(m) \in 1..Top
        /\ ScoreOf(m) = 0 => WeightOf(m) \in {0, 1}
  BY MinersQuantised
<1>2. PICK top : \A m \in Miners :
        /\ ScoreOf(m) \in Nat
        /\ ScoreOf(m) > 0 =>
                /\ top \in Nat \ {0} /\ ScoreOf(m) * c \in Nat \ {0} /\ ScoreOf(m) * c <= top
                /\ WeightOf(m) = Quantise(ScoreOf(m) * c, top) /\ WeightOf(m) \in 1..Top
        /\ ScoreOf(m) = 0 => WeightOf(m) \in {0, 1}
  BY <1>1
<1>3. /\ ScoreOf(h) \in Nat /\ WeightOf(h) \in Nat
      /\ ScoreOf(h) > 0 => WeightOf(h) > 0
      /\ ScoreOf(h) = 0 => WeightOf(h) <= 1
  BY <1>2, WeightsAssumption
<1>4. ASSUME ScoreOf(k) > 0, ScoreOf(k) <= ScoreOf(h) PROVE WeightOf(k) <= WeightOf(h)
  <2>1. ScoreOf(k) \in Nat /\ ScoreOf(h) \in Nat /\ ScoreOf(h) > 0
    BY <1>2, <1>4
  <2>2. ScoreOf(k) * c <= ScoreOf(h) * c
    BY <1>4, <2>1, Product
  <2> QED BY <1>2, <1>4, <2>1, <2>2, QuantiseMonotone
<1> QED BY <1>3, <1>4

(* Two numbers, scaled and quantised alike, stay in proportion.            *)
LEMMA QuantiseInProportion ==
    ASSUME NEW a \in Nat \ {0}, NEW b \in Nat \ {0}, NEW c \in Nat \ {0}, NEW top \in Nat \ {0},
           a * c \in Nat \ {0}, b * c \in Nat \ {0}, a * c <= top, b * c <= top
    PROVE  Quantise(a * c, top) * b <= (Quantise(b * c, top) + 1) * a + b
<1> DEFINE V == Quantise(a * c, top)
           W == Quantise(b * c, top)
           left == V * b
           right == (W + 1) * a + b
<1>1. Top \in Nat
  BY WeightsAssumption
<1>2. V \in Nat /\ V * top <= (a * c) * Top + top
  BY <1>1, QuantiseFacts
<1>3. W \in Nat /\ (b * c) * Top <= W * top + top
  BY <1>1, QuantiseFacts
<1> HIDE DEF V, W
<1>4. (V * top) * b <= ((a * c) * Top + top) * b
  <2>1. V * top \in Nat /\ (a * c) * Top + top \in Nat
    BY <1>1, <1>2
  <2> QED BY <1>2, <2>1, Product
<1>5. ((b * c) * Top) * a <= (W * top + top) * a
  <2>1. W * top + top \in Nat /\ (b * c) * Top \in Nat
    BY <1>1, <1>3
  <2> QED BY <1>3, <2>1, Product
<1>6. ((a * c) * Top) * b = ((b * c) * Top) * a
  BY <1>1
<1>7. ((a * c) * Top + top) * b = ((a * c) * Top) * b + top * b
  BY <1>1
<1>8. left * top = (V * top) * b
  BY <1>2
<1>9. right * top = (W * top + top) * a + top * b
  BY <1>3
<1>10. left \in Nat /\ right \in Nat /\ left * top \in Nat /\ right * top \in Nat
  BY <1>2, <1>3
<1>11. /\ (V * top) * b \in Int /\ ((a * c) * Top) * b \in Int /\ top * b \in Int
       /\ (W * top + top) * a \in Int
  BY <1>1, <1>2, <1>3
<1> HIDE DEF left, right
<1>12. left * top <= right * top
  BY <1>4, <1>5, <1>6, <1>7, <1>8, <1>9, <1>10, <1>11
<1>13. right < left => right * top + top <= left * top
  BY <1>10, Product
<1>14. left <= right
  BY <1>10, <1>12, <1>13
<1> QED BY <1>14 DEF left, right, V, W

(* Weights follow scores, for any uids, scores and held share.             *)
THEOREM PaidByScoreHolds == Spec => []PaidByScore
<1>1. WeightsInv => PaidByScore
  <2> SUFFICES ASSUME WeightsInv, pc = "submitted", Paying
               PROVE  /\ \A h, k \in Miners : ScoreOf(h) <= ScoreOf(k) \/ WeightOf(h) >= WeightOf(k)
                      /\ \A h \in Miners : ScoreOf(h) > 0 => WeightOf(h) > 0
    BY DEF PaidByScore, Paying
  <2>1. ASSUME NEW h \in Miners, NEW k \in Miners, ~(ScoreOf(h) <= ScoreOf(k))
        PROVE  WeightOf(h) >= WeightOf(k)
    <3>1. /\ ScoreOf(h) \in Nat /\ WeightOf(h) \in Nat
          /\ ScoreOf(h) > 0 => WeightOf(h) > 0
          /\ ScoreOf(k) > 0 /\ ScoreOf(k) <= ScoreOf(h) => WeightOf(k) <= WeightOf(h)
      BY WeightsFollowScores
    <3>2. ScoreOf(k) \in Nat /\ WeightOf(k) \in Nat /\ (ScoreOf(k) = 0 => WeightOf(k) <= 1)
      BY WeightsFollowScores
    <3> QED BY <2>1, <3>1, <3>2
  <2>2. \A h \in Miners : ScoreOf(h) > 0 => WeightOf(h) > 0
    BY WeightsFollowScores
  <2> QED BY <2>1, <2>2
<1> QED BY <1>1, WeightsInvHolds, PTL

(* Weights are in the proportion of scores, for any uids, scores and held  *)
(* share.                                                                  *)
THEOREM PaidInProportionHolds == Spec => []PaidInProportion
<1>1. WeightsInv => PaidInProportion
  <2> SUFFICES ASSUME WeightsInv, pc = "submitted", Paying, NEW h \in Miners, NEW k \in Miners,
                      ScoreOf(h) > 0, ScoreOf(k) > 0
               PROVE  WeightOf(h) * ScoreOf(k) <= (WeightOf(k) + 1) * ScoreOf(h) + ScoreOf(k)
    BY DEF PaidInProportion, Paying
  <2>1. PICK c \in Nat \ {0} : \E top : \A m \in {h, k} :
          /\ ScoreOf(m) \in Nat \ {0}
          /\ top \in Nat \ {0} /\ ScoreOf(m) * c \in Nat \ {0} /\ ScoreOf(m) * c <= top
          /\ WeightOf(m) = Quantise(ScoreOf(m) * c, top)
    BY MinersQuantised
  <2>2. PICK top \in Nat \ {0} : \A m \in {h, k} :
          /\ ScoreOf(m) \in Nat \ {0}
          /\ ScoreOf(m) * c \in Nat \ {0} /\ ScoreOf(m) * c <= top
          /\ WeightOf(m) = Quantise(ScoreOf(m) * c, top)
    BY <2>1
  <2> QED BY <2>2, QuantiseInProportion
<1> QED BY <1>1, WeightsInvHolds, PTL

(* Merit pays, for any rigs, cards, drivers, uptimes and demand.           *)
THEOREM PaidByMeritHolds == Spec => []PaidByMerit
<1>1. WeightsInv => PaidByMerit
  <2> SUFFICES ASSUME WeightsInv, pc = "submitted", roster # Nothing, Paying,
                      NEW h \in Miners, NEW k \in Miners,
                      NEW match \in [VerifiedRigs(roster, k) -> VerifiedRigs(roster, h)],
                      \A r, s \in DOMAIN match : match[r] = match[s] => r = s,
                      \A r \in DOMAIN match : AsGood(roster[match[r]], roster[r]),
                      ScoreOf(k) # 0
               PROVE  WeightOf(h) >= WeightOf(k)
    BY DEF PaidByMerit, Paying
  <2> DEFINE V(m) == VerifiedRigs(roster, m)
             f(m) == [r \in V(m) |-> RigScore(roster[r])]
  <2>1. roster \in [Rig -> RigView] /\ scores = LocalScores(roster) /\ h \in Hotkey /\ k \in Hotkey
    BY DEF WeightsInv, Type, FromRoster, Miners
  <2>2. \A m : V(m) \in SUBSET Rig
    BY DEF VerifiedRigs
  <2>3. \A r \in Rig : roster[r] \in RosterRig
    BY <2>1, WeightsAssumption
  <2>4. \A m : IsFiniteSet(V(m))
    BY <2>2, WeightsAssumption, FS_Subset
  <2>5. \A m : DOMAIN f(m) = V(m) /\ \A r \in V(m) : f(m)[r] = RigScore(roster[r])
    OBVIOUS
  <2>6. \A m : \A r \in V(m) : f(m)[r] \in Nat
    BY <2>2, <2>3, <2>5, RigScoreIsNat
  <2>7. k \in DOMAIN scores
    BY DEF ScoreOf
  <2>8. V(k) # {}
    BY <2>1, <2>7, LocalScoresFacts
  <2>9. V(h) # {}
    BY <2>8
  <2>10. h \in DOMAIN scores
    BY <2>1, <2>9, LocalScoresFacts
  <2>11. ScoreOf(h) = SumFunction(f(h)) /\ ScoreOf(k) = SumFunction(f(k))
    BY <2>1, <2>7, <2>10, LocalScoresFacts DEF ScoreOf
  <2> HIDE DEF V, f
  <2>12. ScoreOf(h) = SumFunctionOnSet(f(h), V(h)) /\ ScoreOf(k) = SumFunctionOnSet(f(k), V(k))
    BY <2>5, <2>11, SumOfFunction
  <2>13. match \in [V(k) -> V(h)] /\ DOMAIN match = V(k)
    BY DEF V
  <2>14. \A r \in V(k) : f(k)[r] <= f(h)[match[r]]
    <3> SUFFICES ASSUME NEW r \in V(k) PROVE f(k)[r] <= f(h)[match[r]]
      OBVIOUS
    <3>1. match[r] \in V(h) /\ AsGood(roster[match[r]], roster[r])
      BY <2>13
    <3>2. roster[match[r]] \in RosterRig /\ roster[r] \in RosterRig
      BY <2>2, <2>3, <3>1
    <3>3. RigScore(roster[r]) <= RigScore(roster[match[r]])
      BY <3>1, <3>2, AsGoodPays
    <3> QED BY <2>5, <3>1, <3>3
  <2>15. ScoreOf(k) <= ScoreOf(h)
    <3>1. \A x \in V(k) : f(k)[x] \in Nat
      BY <2>6
    <3>2. \A x \in V(h) : f(h)[x] \in Nat
      BY <2>6
    <3> QED BY <2>4, <2>12, <2>13, <2>14, <3>1, <3>2, SumInjection
  <2>16. /\ ScoreOf(k) \in Nat /\ WeightOf(h) \in Nat /\ WeightOf(k) \in Nat
         /\ ScoreOf(k) > 0 /\ ScoreOf(k) <= ScoreOf(h) => WeightOf(k) <= WeightOf(h)
    BY WeightsFollowScores
  <2> QED BY <2>15, <2>16
<1> QED BY <1>1, WeightsInvHolds, PTL

-----------------------------------------------------------------------------
(* The held share.  W is the whole and H what is held of it; T the sum of  *)
(* the scores, X the largest u16, top the largest share; q is the weight   *)
(* of the reserve before the floor takes c units of it, Q that of n        *)
(* miners.                                                                 *)
LEMMA HeldWithin ==
    ASSUME NEW W \in Nat, NEW H \in Nat, NEW G \in Nat, W = H + G,
           NEW T \in Nat, NEW X \in Nat, NEW top \in Nat \ {0},
           NEW q \in Nat, NEW Q \in Nat, NEW n \in Nat, NEW c \in Nat,
           q * top <= T * H * X + top, T * H * X <= q * top + top,
           Q * top <= T * G * X + n * top, T * G * X <= Q * top + n * top
    PROVE  (q - c) * W - H * (q + Q) \in -(W * (n + 1 + c))..(W * (n + 1 + c))
<1> DEFINE A == T * H * X
           B == T * G * X
<1>1. A \in Nat /\ B \in Nat /\ A * G = B * H /\ A * G \in Nat
  OBVIOUS
<1> HIDE DEF A, B
<1>2. \A i, j \in Nat : i * j \in Nat
  OBVIOUS
<1>3. q * G <= H * Q + G + H * n
  <2> SUFFICES ASSUME H * Q + G + H * n < q * G PROVE FALSE
    BY <1>2
  <2>1. H * Q + G + H * n \in Nat /\ q * G \in Nat
    BY <1>2
  <2>2. (H * Q + G + H * n) * top + top <= (q * G) * top
    BY <2>1, Product
  <2>3. (q * top) * G <= (A + top) * G
    BY <1>1, <1>2, Product DEF A
  <2>4. B * H <= (Q * top + n * top) * H
    BY <1>1, <1>2, Product DEF B
  <2>5. (q * G) * top = (q * top) * G /\ (A + top) * G = A * G + top * G
    BY <1>1
  <2>6. (H * Q + G + H * n) * top = (Q * top + n * top) * H + top * G
    OBVIOUS
  <2>7. (Q * top + n * top) * H \in Nat /\ top * G \in Nat /\ (q * top) * G \in Nat
    BY <1>2
  <2> QED BY <1>1, <2>2, <2>3, <2>4, <2>5, <2>6, <2>7
<1>4. H * Q <= q * G + G + H * n
  <2> SUFFICES ASSUME q * G + G + H * n < H * Q PROVE FALSE
    BY <1>2
  <2>1. q * G + G + H * n \in Nat /\ H * Q \in Nat
    BY <1>2
  <2>2. (q * G + G + H * n) * top + top <= (H * Q) * top
    BY <2>1, Product
  <2>3. (Q * top) * H <= (B + n * top) * H
    BY <1>1, <1>2, Product DEF B
  <2>4. A * G <= (q * top + top) * G
    BY <1>1, <1>2, Product DEF A
  <2>5. (H * Q) * top = (Q * top) * H /\ (B + n * top) * H = B * H + (n * top) * H
    BY <1>1
  <2>6. (q * G + G + H * n) * top = (q * top + top) * G + (n * top) * H
    OBVIOUS
  <2>7. (q * top + top) * G \in Nat /\ (n * top) * H \in Nat /\ (Q * top) * H \in Nat
    BY <1>2
  <2> QED BY <1>1, <2>2, <2>3, <2>4, <2>5, <2>6, <2>7
<1>5. (q - c) * W - H * (q + Q) = q * G - H * Q - c * W
  OBVIOUS
<1>6. G + H * n <= W + W * n
  <2>1. H * n <= W * n
    BY Product
  <2> QED BY <1>2, <2>1
<1>7. W * (n + 1 + c) = W + W * n + c * W
  OBVIOUS
<1>8. q * G \in Nat /\ H * Q \in Nat /\ H * n \in Nat /\ W * n \in Nat /\ c * W \in Nat
  BY <1>2
<1>9. /\ q * G - H * Q - c * W <= W + W * n + c * W
      /\ -(W + W * n + c * W) <= q * G - H * Q - c * W
      /\ q * G - H * Q - c * W \in Int
  BY <1>3, <1>4, <1>6, <1>8
<1> QED BY <1>5, <1>7, <1>8, <1>9

(* The weights of the miners before the floor, S, are theirs of the        *)
(* shares, within a unit each.                                             *)
LEMMA MinersWithin ==
    ASSUME NEW f, Numbers(f), Positive(f) # {}, NEW S \in SUBSET Positive(f)
    PROVE  LET n == Cardinality(S)
               top == Largest(f)
               Q == SumFunctionOnSet(ToU16(f), S)
               total == SumFunctionOnSet(f, S)
           IN  /\ n \in Nat /\ Q \in Nat /\ total \in Nat
               /\ Q * top <= total * Top + n * top
               /\ total * Top <= Q * top + n * top
<1> DEFINE n == Cardinality(S)
           top == Largest(f)
           u16 == ToU16(f)
           Q == SumFunctionOnSet(u16, S)
           total == SumFunctionOnSet(f, S)
           g == [u \in S |-> u16[u] * top]
           e == [u \in S |-> f[u] * Top]
<1>1. top \in Nat \ {0} /\ \A u \in DOMAIN f : f[u] <= top
  BY LargestFacts
<1>2. Top \in Nat /\ \A i, j \in Nat : i * j \in Nat
  BY WeightsAssumption
<1>3. \A u \in S : f[u] \in Nat \ {0} /\ f[u] <= top
  BY <1>1 DEF Positive, Numbers
<1>4. \A u \in S : u16[u] = Quantise(f[u], top) /\ u16[u] \in Nat
  BY ToU16Facts, WeightsAssumption
<1>5. S \in SUBSET DOMAIN f
  BY DEF Positive
<1>6. IsFiniteSet(S) /\ n \in Nat
  BY <1>5, FS_Subset, FS_CardinalityType DEF Numbers
<1> HIDE DEF top, u16
<1>7. ASSUME NEW u \in S PROVE /\ g[u] \in Nat /\ e[u] \in Nat
                                /\ g[u] <= e[u] + top /\ e[u] <= g[u] + top
  <2>1. g[u] = u16[u] * top /\ e[u] = f[u] * Top
    OBVIOUS
  <2>2. u16[u] * top <= f[u] * Top + top /\ f[u] * Top <= u16[u] * top + top
    BY <1>1, <1>3, <1>4, QuantiseFacts
  <2> QED BY <1>1, <1>2, <1>3, <1>4, <2>1, <2>2
<1>8. \A u \in S : g[u] = u16[u] * top /\ e[u] = f[u] * Top
  OBVIOUS
<1> HIDE DEF g, e
<1>9. Q \in Nat /\ total \in Nat
  BY <1>3, <1>4, <1>6, SumIsNat
<1>10. SumFunctionOnSet(g, S) = Q * top
  BY <1>1, <1>4, <1>6, <1>8, SumScaled
<1>11. SumFunctionOnSet(e, S) = total * Top
  BY <1>2, <1>3, <1>6, <1>8, SumScaled
<1>12. SumFunctionOnSet(g, S) <= SumFunctionOnSet(e, S) + n * top
  BY <1>1, <1>6, <1>7, SumWithin
<1>13. SumFunctionOnSet(e, S) <= SumFunctionOnSet(g, S) + n * top
  BY <1>1, <1>6, <1>7, SumWithin
<1> QED BY <1>6, <1>9, <1>10, <1>11, <1>12, <1>13 DEF top, u16

(* The reserve has the held share of all weights, within a unit for each   *)
(* uid; for any shares, scores and uids.                                   *)
THEOREM ShareIsHeldHolds == Spec => []ShareIsHeld
<1>1. WeightsInv => ShareIsHeld
  <2> SUFFICES ASSUME WeightsInv, pc = "submitted", reserve \in DOMAIN vector,
                      NEW h \in Miners, ScoreOf(h) > 0,
                      \A k \in DOMAIN uids : uids[k] # reserve
               PROVE  vector[reserve] * Whole - held * SumFunction(vector)
                        \in -(Whole * Cardinality(DOMAIN vector))..(Whole * Cardinality(DOMAIN vector))
    BY DEF ShareIsHeld
  <2>1. PICK byUid \in ScoresByUid : vector = VectorOf(byUid)
    BY DEF WeightsInv, FromScores
  <2>2. Type /\ Scored
    BY DEF WeightsInv
  <2> DEFINE f == Shares(byUid)
             u16 == U16Of(byUid)
             P == Positive(byUid)
             T == TotalOf(byUid)
             G == Whole - held
             top == Largest(f)
             S == DOMAIN u16 \ {reserve}
             Q == SumFunctionOnSet(u16, S)
             n == Cardinality(S)
  <2>3. /\ Numbers(u16) /\ DOMAIN u16 = Positive(f)
        /\ \A u \in DOMAIN u16 : u16[u] = Quantise(f[u], top) /\ u16[u] \in 1..Top
        /\ Numbers(f) /\ Numbers(byUid) /\ DOMAIN byUid \subseteq Uid
    BY <2>2, U16Facts
  <2>4. PICK F : Floored(u16, ActiveUids, vector, F)
    BY <2>1, <2>2, VectorFacts
  <2>5. reserve \in DOMAIN u16
    BY <2>4 DEF Floored, Missing
  <2>6. reserve \notin DOMAIN byUid
    BY <2>2, ByUidFacts DEF Known
  <2>7. P \subseteq DOMAIN byUid /\ P \ {reserve} = P
    BY <2>6 DEF Positive
  <2>8. Reserving
    <3>1. ~Reserving => DOMAIN f = P
      BY <2>2, <2>3, SharesFacts
    <3>2. Positive(f) \subseteq DOMAIN f
      BY DEF Positive
    <3> QED BY <2>3, <2>5, <2>7, <3>1, <3>2
  <2>9. /\ T \in Nat /\ held \in Nat /\ Whole \in Nat /\ G \in Nat
        /\ DOMAIN f = P \cup {reserve} /\ f[reserve] = HeldOf(byUid)
        /\ \A u \in P : f[u] = byUid[u] * G /\ byUid[u] \in Nat \ {0}
    BY <2>2, <2>3, <2>7, <2>8, SharesFacts
  <2>10. IsFiniteSet(P)
    BY <2>3, <2>7, FS_Subset DEF Numbers
  <2>11. T # 0
    <3>1. uids[h] \in P
      BY <2>2, MinerFacts
    <3>2. T = byUid[uids[h]] + SumFunctionOnSet(byUid, P \ {uids[h]})
      BY <2>9, <2>10, <3>1, SumRemove DEF TotalOf
    <3>3. SumFunctionOnSet(byUid, P \ {uids[h]}) \in Nat
      BY <2>9, <2>10, SumIsNat
    <3> HIDE DEF T, P
    <3> QED BY <2>9, <3>1, <3>2, <3>3
  <2>12. f[reserve] = T * held
    BY <2>9, <2>11 DEF HeldOf
  <2>13. SumFunctionOnSet(f, P) = T * G
    <3>1. \A u \in P : byUid[u] \in Nat /\ f[u] = byUid[u] * G
      BY <2>9
    <3> HIDE DEF f, P, G
    <3> QED BY <2>9, <2>10, <3>1, SumScaled DEF TotalOf, P
  <2>14. SumFunctionOnSet(f, S) = T * G
    <3>1. CASE G = 0
      <4>1. \A u \in P : f[u] = 0
        BY <2>9, <3>1
      <4>2. S = {}
        BY <2>3, <2>9, <4>1 DEF Positive
      <4>3. T * G = 0
        BY <2>9, <3>1
      <4> QED BY <4>2, <4>3, SumOfNone
    <3>2. CASE G # 0
      <4>1. \A u \in P : f[u] > 0
        BY <2>9, <3>2
      <4>2. S = P
        BY <2>3, <2>7, <2>9, <4>1 DEF Positive
      <4> QED BY <2>13, <4>2
    <3> QED BY <3>1, <3>2
  <2>15. S \in SUBSET Positive(f) /\ Positive(f) # {}
    BY <2>3, <2>5
  <2>16. top \in Nat \ {0} /\ f[reserve] <= top /\ f[reserve] \in Nat \ {0}
    BY <2>3, <2>5, <2>15, LargestFacts DEF Positive, Numbers
  <2>17. /\ n \in Nat /\ Q \in Nat
         /\ Q * top <= (T * G) * Top + n * top /\ (T * G) * Top <= Q * top + n * top
    <3>1. u16 = ToU16(f)
      BY DEF U16Of
    <3> QED BY <2>3, <2>14, <2>15, <3>1, MinersWithin
  <2>18. /\ u16[reserve] * top <= (T * held) * Top + top
         /\ (T * held) * Top <= u16[reserve] * top + top
    BY <2>3, <2>5, <2>12, <2>16, QuantiseFacts
  <2>19. u16[reserve] \in Nat /\ Top \in Nat
    BY <2>3, <2>5, WeightsAssumption DEF Numbers
  <2>20. SumFunction(vector) = u16[reserve] + Q
    <3>1. SumFunction(vector) = SumFunctionOnSet(u16, DOMAIN u16)
      BY <2>3, <2>4, FloorKeepsSum, SumOfFunction
    <3> QED BY <2>3, <2>5, <3>1, SumRemove DEF Numbers
  <2>21. vector[reserve] = u16[reserve] - Cardinality(F)
    BY <2>4, <2>5 DEF Floored
  <2>22. Cardinality(F) \in Nat /\ Cardinality(DOMAIN vector) = n + 1 + Cardinality(F)
    <3>1. /\ IsFiniteSet(F) /\ IsFiniteSet(DOMAIN u16) /\ F \cap DOMAIN u16 = {}
          /\ DOMAIN vector = DOMAIN u16 \cup F
      BY <2>3, <2>4 DEF Floored, Missing, Numbers
    <3>2. Cardinality(DOMAIN u16) \in Nat /\ Cardinality(F) \in Nat
      BY <3>1, FS_CardinalityType
    <3>3. n = Cardinality(DOMAIN u16) - 1
      BY <2>5, <3>1, FS_RemoveElement
    <3>4. Cardinality(DOMAIN u16 \cup F) = Cardinality(DOMAIN u16) + Cardinality(F)
      <4>1. Cardinality(DOMAIN u16 \cap F) = 0
        BY <3>1, FS_EmptySet
      <4>2. Cardinality(DOMAIN u16 \cup F)
                = Cardinality(DOMAIN u16) + Cardinality(F) - Cardinality(DOMAIN u16 \cap F)
        BY <3>1, FS_Union
      <4> QED BY <3>2, <4>1, <4>2
    <3> HIDE DEF n, u16
    <3> QED BY <3>1, <3>2, <3>3, <3>4
  <2> HIDE DEF f, u16, P, T, top, S, Q, n
  <2>23. Whole = held + G
    BY <2>9
  <2> HIDE DEF G
  <2>24. (u16[reserve] - Cardinality(F)) * Whole - held * (u16[reserve] + Q)
            \in -(Whole * (n + 1 + Cardinality(F)))..(Whole * (n + 1 + Cardinality(F)))
    BY <2>9, <2>16, <2>17, <2>18, <2>19, <2>22, <2>23, HeldWithin
  <2> QED BY <2>20, <2>21, <2>22, <2>24
<1> QED BY <1>1, WeightsInvHolds, PTL
==================================================================================
