------------------------ MODULE PositionMonitorProofs ------------------------
(***************************************************************************)
(* The close path and the monitor, for every lot, set of callers and       *)
(* monitors, bounds, contexts and deltas.                                  *)
(*                                                                         *)
(* The model adds up rows (what IB holds, what is reserved, what the guard *)
(* counts, the hedges in flight), so the proofs begin with sums over       *)
(* finite sets.  Then every step on a closing order is reduced to one      *)
(* relation, RowStep, and every step that opens one to another, RowOpened; *)
(* the invariants are preserved by these, whatever the action.             *)
(***************************************************************************)
EXTENDS PositionMonitor, FiniteSetTheorems, WellFoundedInduction, TLAPS

-----------------------------------------------------------------------------
(* Sums over finite sets *)

\* Induction over the naturals, for a set instead of a predicate: a number outside it
\* would have a least one.
LEMMA NatSetInduction ==
  ASSUME NEW P \in SUBSET Nat, 0 \in P, \A n \in P : n + 1 \in P
  PROVE  P = Nat
<1> SUFFICES ASSUME Nat \ P # {} PROVE FALSE
  OBVIOUS
<1> DEFINE T == Nat \ P
<1>1. PICK x \in T : \A y \in T : <<y, x>> \notin OpToRel(<, Nat)
  <2>1. IsWellFoundedOn(OpToRel(<, Nat), Nat)
    BY NatLessThanWellFounded
  <2>2. T \subseteq Nat /\ T # {}
    OBVIOUS
  <2>3. \E x \in T : \A y \in T : ~(<<y, x>> \in OpToRel(<, Nat))
    BY <2>1, <2>2, WFMin
  <2>4. QED
    BY <2>3
<1>2. x # 0 /\ x - 1 \in Nat
  OBVIOUS
<1>3. <<x - 1, x>> \in OpToRel(<, Nat)
  BY <1>2 DEF OpToRel
<1>4. x - 1 \in P
  BY <1>1, <1>2, <1>3
<1>5. QED
  BY <1>4, <1>2

\* A finite set without one of its elements.
LEMMA OneLess ==
  ASSUME NEW T, IsFiniteSet(T), NEW n \in Nat, Cardinality(T) = n + 1, NEW a \in T
  PROVE  IsFiniteSet(T \ {a}) /\ Cardinality(T \ {a}) = n
  BY FS_RemoveElement

\* Induction over the subsets of a finite set, for a set of them.
LEMMA SetInduction ==
  ASSUME NEW S, IsFiniteSet(S), NEW Q, {} \in Q,
         \A T \in SUBSET S : \A x \in T : T \ {x} \in Q => T \in Q
  PROVE  S \in Q
<1> DEFINE P == {n \in Nat : \A T \in SUBSET S : Cardinality(T) = n => T \in Q}
<1>1. 0 \in P
  <2> SUFFICES ASSUME NEW T \in SUBSET S, Cardinality(T) = 0 PROVE T \in Q
    OBVIOUS
  <2>1. T = {}
    BY FS_Subset, FS_EmptySet
  <2>2. QED
    BY <2>1
<1>2. ASSUME NEW n \in P PROVE n + 1 \in P
  <2> SUFFICES ASSUME NEW T \in SUBSET S, Cardinality(T) = n + 1 PROVE T \in Q
    OBVIOUS
  <2>1. IsFiniteSet(T)
    BY FS_Subset
  <2>2. PICK a : a \in T
    BY <2>1, FS_EmptySet
  <2>3. Cardinality(T \ {a}) = n /\ T \ {a} \in SUBSET S
    BY <2>1, <2>2, OneLess
  <2>4. QED
    BY <2>2, <2>3
<1>3. P = Nat
  <2>1. P \in SUBSET Nat /\ \A n \in P : n + 1 \in P
    BY <1>2
  <2> HIDE DEF P
  <2>2. QED
    BY <1>1, <2>1, NatSetInduction
<1>4. Cardinality(S) \in P
  BY <1>3, FS_CardinalityType
<1>5. QED
  BY <1>4

\* F gives the sum of f over every subset of S.
IsSum(F, f, S) ==
  /\ F \in [SUBSET S -> Int]
  /\ F[{}] = 0
  /\ \A T \in SUBSET S : \A x \in T : F[T] = f[x] + F[T \ {x}]

\* There is such an F for every finite S.
LEMMA SumExists ==
  ASSUME NEW f, NEW S, IsFiniteSet(S), \A x \in S : f[x] \in Int
  PROVE  \E F : IsSum(F, f, S)
<1> DEFINE Q == {T \in SUBSET S : \E F : IsSum(F, f, T)}
<1>1. {} \in Q
  <2>1. IsSum([U \in SUBSET {} |-> 0], f, {})
    BY DEF IsSum
  <2>2. QED
    BY <2>1
<1>2. ASSUME NEW T \in SUBSET S, NEW a \in T, T \ {a} \in Q PROVE T \in Q
  <2>1. PICK G : IsSum(G, f, T \ {a})
    BY <1>2
  <2> DEFINE F == [U \in SUBSET T |-> IF a \in U THEN f[a] + G[U \ {a}] ELSE G[U]]
  <2>2. F \in [SUBSET T -> Int]
    BY <2>1 DEF IsSum
  <2>3. F[{}] = 0
    BY <2>1 DEF IsSum
  <2>4. ASSUME NEW U \in SUBSET T, NEW x \in U PROVE F[U] = f[x] + F[U \ {x}]
    <3>1. CASE x = a
      <4>1. F[U] = f[a] + G[U \ {a}]
        BY <3>1
      <4>2. F[U \ {a}] = G[U \ {a}]
        OBVIOUS
      <4>3. QED
        BY <3>1, <4>1, <4>2
    <3>2. CASE x # a /\ a \notin U
      <4>1. F[U] = G[U] /\ F[U \ {x}] = G[U \ {x}]
        BY <3>2
      <4>2. G[U] = f[x] + G[U \ {x}]
        BY <3>2, <2>1 DEF IsSum
      <4>3. QED
        BY <4>1, <4>2
    <3>3. CASE x # a /\ a \in U
      <4>1. F[U] = f[a] + G[U \ {a}] /\ F[U \ {x}] = f[a] + G[(U \ {x}) \ {a}]
        BY <3>3
      <4>2. (U \ {x}) \ {a} = (U \ {a}) \ {x}
        OBVIOUS
      <4>3. G[U \ {a}] = f[x] + G[(U \ {a}) \ {x}]
        BY <3>3, <2>1 DEF IsSum
      <4>4. G[(U \ {a}) \ {x}] \in Int /\ f[a] \in Int /\ f[x] \in Int
        BY <2>1 DEF IsSum
      <4>5. F[U] = f[a] + (f[x] + G[(U \ {a}) \ {x}])
        BY <4>1, <4>3
      <4>6. F[U \ {x}] = f[a] + G[(U \ {a}) \ {x}]
        BY <4>1, <4>2
      <4> HIDE DEF F
      <4>7. QED
        BY <4>4, <4>5, <4>6
    <3>4. QED
      BY <3>1, <3>2, <3>3
  <2>5. IsSum(F, f, T)
    BY <2>2, <2>3, <2>4 DEF IsSum
  <2>6. QED
    BY <2>5
<1>3. S \in Q
  <2> HIDE DEF Q
  <2>1. \A T \in SUBSET S : \A x \in T : T \ {x} \in Q => T \in Q
    BY <1>2
  <2>2. QED
    BY <1>1, <2>1, SetInduction
<1>4. QED
  BY <1>3

\* What the library's fold computes, ch being the order in which it takes elements.
IsFold(G, ch, f, S) ==
  /\ G[{}] = 0
  /\ \A T \in SUBSET S : T # {} => ch[T] \in T /\ G[T] = f[ch[T]] + G[T \ {ch[T]}]

\* A fold agrees with the sums, in whatever order it goes.
LEMMA SumUnique ==
  ASSUME NEW f, NEW S, IsFiniteSet(S), NEW F, IsSum(F, f, S), NEW G, NEW ch, IsFold(G, ch, f, S)
  PROVE  G[S] = F[S]
<1> DEFINE P == {n \in Nat : \A T \in SUBSET S : Cardinality(T) = n => G[T] = F[T]}
<1>1. 0 \in P
  <2> SUFFICES ASSUME NEW T \in SUBSET S, Cardinality(T) = 0 PROVE G[T] = F[T]
    OBVIOUS
  <2>1. T = {}
    BY FS_Subset, FS_EmptySet
  <2>2. QED
    BY <2>1 DEF IsSum, IsFold
<1>2. ASSUME NEW n \in P PROVE n + 1 \in P
  <2> SUFFICES ASSUME NEW T \in SUBSET S, Cardinality(T) = n + 1 PROVE G[T] = F[T]
    OBVIOUS
  <2>1. IsFiniteSet(T)
    BY FS_Subset
  <2> DEFINE a == ch[T]
  <2>0. T # {}
    BY <2>1, FS_EmptySet
  <2>2. a \in T
    BY <2>0 DEF IsFold
  <2>3. G[T] = f[a] + G[T \ {a}]
    BY <2>0 DEF IsFold
  <2> HIDE DEF a
  <2>4. Cardinality(T \ {a}) = n /\ T \ {a} \in SUBSET S
    BY <2>1, <2>2, OneLess
  <2>5. G[T \ {a}] = F[T \ {a}]
    BY <2>4
  <2>6. F[T] = f[a] + F[T \ {a}]
    BY <2>2 DEF IsSum
  <2>7. QED
    BY <2>3, <2>5, <2>6
<1>3. P = Nat
  <2>1. P \in SUBSET Nat /\ \A n \in P : n + 1 \in P
    BY <1>2
  <2> HIDE DEF P
  <2>2. QED
    BY <1>1, <2>1, NatSetInduction
<1>4. Cardinality(S) \in P
  BY <1>3, FS_CardinalityType
<1>5. QED
  BY <1>4

\* SumFunctionOnSet of the community modules is that sum.
LEMMA SumIs ==
  ASSUME NEW f, NEW S, IsFiniteSet(S), \A x \in S : f[x] \in Int
  PROVE  \E F : IsSum(F, f, S) /\ SumFunctionOnSet(f, S) = F[S]
<1>1. PICK F : IsSum(F, f, S)
  BY SumExists
<1> DEFINE a(s) == CHOOSE x \in s : TRUE
           Eq(G) == G = [s \in SUBSET S |-> IF s = {} THEN 0 ELSE f[a(s)] + G[s \ {a(s)}]]
<1>2. Eq(F)
  <2>1. ASSUME NEW s \in SUBSET S PROVE F[s] = IF s = {} THEN 0 ELSE f[a(s)] + F[s \ {a(s)}]
    <3>1. CASE s = {}
      BY <3>1, <1>1 DEF IsSum
    <3>2. CASE s # {}
      <4>1. a(s) \in s
        BY <3>2
      <4> HIDE DEF a
      <4>2. QED
        BY <4>1, <1>1, <3>2 DEF IsSum
    <3>3. QED
      BY <3>1, <3>2
  <2>2. F = [s \in SUBSET S |-> F[s]]
    BY <1>1 DEF IsSum
  <2> HIDE DEF a
  <2>3. QED
    BY <2>1, <2>2
<1> DEFINE G == CHOOSE g : Eq(g)
<1>3. Eq(G)
  BY <1>2
<1>4. SumFunctionOnSet(f, S) = G[S]
  BY DEF SumFunctionOnSet, FoldFunctionOnSet, MapThenFoldSet
<1>5. G[S] = F[S]
  <2> HIDE DEF G
  <2>1. G[{}] = 0
    BY <1>3
  <2> DEFINE ch == [T \in SUBSET S |-> a(T)]
  <2>2. ASSUME NEW T \in SUBSET S, T # {} PROVE ch[T] \in T /\ G[T] = f[ch[T]] + G[T \ {ch[T]}]
    <3>1. ch[T] = a(T) /\ a(T) \in T
      BY <2>2
    <3>2. G[T] = f[a(T)] + G[T \ {a(T)}]
      BY <1>3, <2>2
    <3> HIDE DEF ch, a
    <3>3. QED
      BY <3>1, <3>2
  <2>3. \A T \in SUBSET S : T # {} => ch[T] \in T /\ G[T] = f[ch[T]] + G[T \ {ch[T]}]
    BY <2>2
  <2> HIDE DEF ch, a, Eq
  <2>4. IsFold(G, ch, f, S)
    BY <2>1, <2>3 DEF IsFold
  <2>5. QED
    BY <1>1, <2>4, SumUnique
<1>6. QED
  BY <1>1, <1>4, <1>5

\* A family of integers over a finite set.
IntOn(f, S) == IsFiniteSet(S) /\ \A x \in S : f[x] \in Int

\* The empty sum.
LEMMA SumEmpty ==
  ASSUME NEW f PROVE SumFunctionOnSet(f, {}) = 0
<1>1. IsFiniteSet({}) /\ \A x \in {} : f[x] \in Int
  BY FS_EmptySet
<1>2. PICK F : IsSum(F, f, {}) /\ SumFunctionOnSet(f, {}) = F[{}]
  BY <1>1, SumIs
<1>3. QED
  BY <1>2 DEF IsSum

\* One F serves for all the subsets.
LEMMA SumSubsets ==
  ASSUME NEW f, NEW S, IntOn(f, S)
  PROVE  \E F : IsSum(F, f, S) /\ \A T \in SUBSET S : SumFunctionOnSet(f, T) = F[T]
<1>1. PICK F : IsSum(F, f, S)
  BY SumExists DEF IntOn
<1>2. ASSUME NEW T \in SUBSET S PROVE SumFunctionOnSet(f, T) = F[T]
  <2>1. IsFiniteSet(T) /\ \A x \in T : f[x] \in Int
    BY FS_Subset DEF IntOn
  <2>2. PICK G : IsSum(G, f, T) /\ SumFunctionOnSet(f, T) = G[T]
    BY <2>1, SumIs
  <2> DEFINE Q == {U \in SUBSET T : F[U] = G[U]}
  <2>3. {} \in Q
    BY <1>1, <2>2 DEF IsSum
  <2>4. ASSUME NEW U \in SUBSET T, NEW x \in U, U \ {x} \in Q PROVE U \in Q
    <3>1. U \in SUBSET S /\ U \in SUBSET T /\ F[U \ {x}] = G[U \ {x}]
      BY <2>4
    <3>2. F[U] = f[x] + F[U \ {x}]
      BY <3>1, <1>1 DEF IsSum
    <3>3. G[U] = f[x] + G[U \ {x}]
      BY <3>1, <2>2 DEF IsSum
    <3>4. F[U] = G[U]
      BY <3>1, <3>2, <3>3
    <3>5. QED
      BY <3>1, <3>4
  <2>5. T \in Q
    <3> HIDE DEF Q
    <3>1. \A U \in SUBSET T : \A x \in U : U \ {x} \in Q => U \in Q
      BY <2>4
    <3>2. QED
      BY <2>1, <2>3, <3>1, SetInduction
  <2>6. QED
    BY <2>2, <2>5
<1>3. QED
  BY <1>1, <1>2

\* A sum is an integer, and any summand can be split off.
LEMMA SumStep ==
  ASSUME NEW f, NEW S, IntOn(f, S)
  PROVE  /\ SumFunctionOnSet(f, S) \in Int
         /\ \A T \in SUBSET S : /\ SumFunctionOnSet(f, T) \in Int
                                /\ \A x \in T : SumFunctionOnSet(f, T) = f[x] + SumFunctionOnSet(f, T \ {x})
<1>1. PICK F : IsSum(F, f, S) /\ \A T \in SUBSET S : SumFunctionOnSet(f, T) = F[T]
  BY SumSubsets
<1>2. ASSUME NEW T \in SUBSET S PROVE SumFunctionOnSet(f, T) \in Int
  BY <1>1 DEF IsSum
<1>3. ASSUME NEW T \in SUBSET S, NEW x \in T PROVE SumFunctionOnSet(f, T) = f[x] + SumFunctionOnSet(f, T \ {x})
  <2>1. SumFunctionOnSet(f, T) = F[T] /\ SumFunctionOnSet(f, T \ {x}) = F[T \ {x}]
    BY <1>1
  <2>2. F[T] = f[x] + F[T \ {x}]
    BY <1>1 DEF IsSum
  <2>3. QED
    BY <2>1, <2>2
<1>4. QED
  BY <1>2, <1>3

\* Sums are monotone.
LEMMA SumLeq ==
  ASSUME NEW f, NEW g, NEW S, IntOn(f, S), IntOn(g, S), \A x \in S : f[x] <= g[x]
  PROVE  SumFunctionOnSet(f, S) <= SumFunctionOnSet(g, S)
<1> DEFINE Q == {T \in SUBSET S : SumFunctionOnSet(f, T) <= SumFunctionOnSet(g, T)}
<1>1. {} \in Q
  BY SumEmpty
<1>2. ASSUME NEW T \in SUBSET S, NEW x \in T, T \ {x} \in Q PROVE T \in Q
  <2>1. /\ SumFunctionOnSet(f, T) = f[x] + SumFunctionOnSet(f, T \ {x})
        /\ SumFunctionOnSet(g, T) = g[x] + SumFunctionOnSet(g, T \ {x})
        /\ SumFunctionOnSet(f, T \ {x}) \in Int
        /\ SumFunctionOnSet(g, T \ {x}) \in Int
    BY SumStep
  <2>2. f[x] \in Int /\ g[x] \in Int /\ f[x] <= g[x]
    BY DEF IntOn
  <2>3. SumFunctionOnSet(f, T \ {x}) <= SumFunctionOnSet(g, T \ {x})
    BY <1>2
  <2>4. QED
    BY <2>1, <2>2, <2>3
<1>3. S \in Q
  <2> HIDE DEF Q
  <2>1. \A T \in SUBSET S : \A x \in T : T \ {x} \in Q => T \in Q
    BY <1>2
  <2>2. QED
    BY <1>1, <2>1, SetInduction DEF IntOn
<1>4. QED
  BY <1>3

\* Equal summands, equal sums.
LEMMA SumEqual ==
  ASSUME NEW f, NEW g, NEW S, IntOn(f, S), \A x \in S : f[x] = g[x]
  PROVE  SumFunctionOnSet(f, S) = SumFunctionOnSet(g, S)
<1>1. IntOn(g, S) /\ (\A x \in S : f[x] <= g[x]) /\ (\A x \in S : g[x] <= f[x])
  BY DEF IntOn
<1>2. SumFunctionOnSet(f, S) <= SumFunctionOnSet(g, S) /\ SumFunctionOnSet(g, S) <= SumFunctionOnSet(f, S)
  BY <1>1, SumLeq
<1>3. SumFunctionOnSet(f, S) \in Int /\ SumFunctionOnSet(g, S) \in Int
  BY <1>1, SumStep
<1>4. QED
  BY <1>2, <1>3

\* A sum of zeros.
LEMMA SumZero ==
  ASSUME NEW f, NEW S, IsFiniteSet(S), \A x \in S : f[x] = 0
  PROVE  SumFunctionOnSet(f, S) = 0
<1>0. IntOn(f, S)
  BY DEF IntOn
<1> DEFINE Q == {T \in SUBSET S : SumFunctionOnSet(f, T) = 0}
<1>1. {} \in Q
  BY SumEmpty
<1>2. ASSUME NEW T \in SUBSET S, NEW x \in T, T \ {x} \in Q PROVE T \in Q
  <2>1. SumFunctionOnSet(f, T) = f[x] + SumFunctionOnSet(f, T \ {x})
    BY <1>0, SumStep
  <2>2. QED
    BY <2>1, <1>2
<1>3. S \in Q
  <2> HIDE DEF Q
  <2>1. \A T \in SUBSET S : \A x \in T : T \ {x} \in Q => T \in Q
    BY <1>2
  <2>2. QED
    BY <1>1, <2>1, SetInduction
<1>4. QED
  BY <1>3

\* Two families that differ in one summand.
LEMMA SumChange ==
  ASSUME NEW f, NEW g, NEW S, IntOn(f, S), IntOn(g, S), NEW x \in S, \A y \in S \ {x} : f[y] = g[y]
  PROVE  SumFunctionOnSet(g, S) = SumFunctionOnSet(f, S) + g[x] - f[x]
<1>1. /\ SumFunctionOnSet(f, S) = f[x] + SumFunctionOnSet(f, S \ {x})
      /\ SumFunctionOnSet(g, S) = g[x] + SumFunctionOnSet(g, S \ {x})
      /\ SumFunctionOnSet(f, S \ {x}) \in Int
  BY SumStep
<1>2. IntOn(f, S \ {x})
  BY FS_RemoveElement DEF IntOn
<1>3. SumFunctionOnSet(f, S \ {x}) = SumFunctionOnSet(g, S \ {x})
  BY <1>2, SumEqual
<1>4. f[x] \in Int /\ g[x] \in Int
  BY DEF IntOn
<1>5. QED
  BY <1>1, <1>3, <1>4

\* One more summand.
LEMMA SumExtend ==
  ASSUME NEW f, NEW g, NEW S, IntOn(f, S), NEW x, x \notin S, g[x] \in Int, \A y \in S : g[y] = f[y]
  PROVE  SumFunctionOnSet(g, S \cup {x}) = SumFunctionOnSet(f, S) + g[x]
<1>1. IntOn(g, S \cup {x})
  BY FS_AddElement DEF IntOn
<1>2. (S \cup {x}) \ {x} = S
  OBVIOUS
<1>3. SumFunctionOnSet(g, S \cup {x}) = g[x] + SumFunctionOnSet(g, S)
  <2>1. SumFunctionOnSet(g, S \cup {x}) = g[x] + SumFunctionOnSet(g, (S \cup {x}) \ {x})
    BY <1>1, SumStep
  <2>2. QED
    BY <2>1, <1>2, Zenon
<1>4. SumFunctionOnSet(g, S) = SumFunctionOnSet(f, S) /\ SumFunctionOnSet(f, S) \in Int
  BY SumEqual, SumStep
<1>5. QED
  BY <1>2, <1>3, <1>4

\* A sum with one summand that is not zero.
LEMMA SumOne ==
  ASSUME NEW f, NEW S, IsFiniteSet(S), NEW x \in S, f[x] \in Int, \A y \in S \ {x} : f[y] = 0
  PROVE  SumFunctionOnSet(f, S) = f[x]
<1>1. IntOn(f, S)
  BY DEF IntOn
<1>2. SumFunctionOnSet(f, S) = f[x] + SumFunctionOnSet(f, S \ {x})
  BY <1>1, SumStep
<1>3. SumFunctionOnSet(f, S \ {x}) = 0
  BY FS_RemoveElement, SumZero
<1>4. QED
  BY <1>2, <1>3

\* A sum of naturals is no less than each of them.
LEMMA SumAtLeast ==
  ASSUME NEW f, NEW S, IsFiniteSet(S), \A y \in S : f[y] \in Nat, NEW x \in S
  PROVE  f[x] <= SumFunctionOnSet(f, S)
<1>1. IntOn(f, S) /\ IntOn(f, S \ {x})
  BY FS_RemoveElement DEF IntOn
<1>2. SumFunctionOnSet(f, S) = f[x] + SumFunctionOnSet(f, S \ {x}) /\ SumFunctionOnSet(f, S \ {x}) \in Int
  BY <1>1, SumStep
<1> DEFINE z == [y \in S |-> 0]
<1>3. IntOn(z, S \ {x}) /\ (\A y \in S \ {x} : z[y] = 0) /\ \A y \in S \ {x} : z[y] <= f[y]
  BY <1>1 DEF IntOn
<1> HIDE DEF z
<1>4. SumFunctionOnSet(z, S \ {x}) = 0
  BY <1>3, SumZero DEF IntOn
<1>5. SumFunctionOnSet(z, S \ {x}) <= SumFunctionOnSet(f, S \ {x})
  BY <1>1, <1>3, SumLeq
<1>6. QED
  BY <1>2, <1>4, <1>5
\* A sum of naturals is a natural.
LEMMA SumNat ==
  ASSUME NEW f, NEW S, IsFiniteSet(S), \A y \in S : f[y] \in Nat
  PROVE  SumFunctionOnSet(f, S) \in Nat
<1>1. IntOn(f, S)
  BY DEF IntOn
<1> DEFINE z == [y \in S |-> 0]
<1>2. IntOn(z, S) /\ (\A y \in S : z[y] = 0) /\ \A y \in S : z[y] <= f[y]
  BY DEF IntOn
<1> HIDE DEF z
<1>3. SumFunctionOnSet(z, S) = 0
  BY <1>2, SumZero
<1>4. SumFunctionOnSet(z, S) <= SumFunctionOnSet(f, S) /\ SumFunctionOnSet(f, S) \in Int
  BY <1>1, <1>2, SumLeq, SumStep
<1>5. QED
  BY <1>3, <1>4

-----------------------------------------------------------------------------
(* Rows, requests and the reservation *)

\* What a closing order's row holds.
Fields == {"linked", "qty", "filled", "state", "struct", "req", "ib", "traded", "aged", "then"}

FieldsOK(o) ==
  /\ o.linked \in BOOLEAN
  /\ o.qty \in 1..Lot
  /\ o.filled \in 0..Lot
  /\ o.state \in {"pending", "submitted", "partially_filled", "filled", "rejected",
                  "cancelled", "expired"}
  /\ o.struct \in {"submitted", "fully_filled", "partial_fail", "fully_failed"}
  /\ o.req \in {"sent", "checked", "ok", "refused", "lost", "unstamped"}
  /\ o.ib \in {"none", "live", "filled", "cancelled"}
  /\ o.traded \in 0..Lot
  /\ o.aged \in BOOLEAN
  /\ o.then \in {"none", "complete", "finalise"}

\* The engine, or IB, may still make o trade.
Working(o) == o.req \in {"sent", "checked"} \/ o.ib = "live"

\* What is always true of a row by itself: the books follow IB, IB follows the
\* request, and, when no close outlives the window and every placement is stamped, a
\* working row is in flight and young.
Sound(o) ==
  /\ o.filled <= o.traded /\ o.traded <= o.qty
  /\ o.ib = "none" => o.traded = 0
  /\ o.ib = "live" => o.traded < o.qty
  /\ o.ib # "none" => o.req \in {"ok", "unstamped"}
  /\ ~Unstamped => o.req # "unstamped"
  /\ ~Outlives /\ ~Unstamped /\ Working(o) => o.state \in {"pending", "submitted", "partially_filled"} /\ ~o.aged

\* All the rows of os.
RowsOK(os) == os \in Seq(OrderType) /\ \A i \in DOMAIN os : Sound(os[i])

RowsInv == RowsOK(orders)

\* The rows after a Put.
Became(i, ch) ==
  /\ DOMAIN orders' = DOMAIN orders /\ Len(orders') = Len(orders)
  /\ \A j \in Ids : j # i => orders'[j] = orders[j]
  /\ orders'[i] = [f \in Fields |-> IF f \in DOMAIN ch THEN ch[f] ELSE orders[i][f]]
  /\ FieldsOK(orders[i])
  /\ Sound(orders[i])
  /\ FieldsOK(orders'[i]) => orders' \in Seq(OrderType)

\* What Put does.
LEMMA PutEffect ==
  ASSUME RowsInv, NEW i \in Ids, NEW ch, Put(i, ch)
  PROVE  Became(i, ch)
<1>1. orders[i] \in OrderType /\ orders \in Seq(OrderType) /\ Sound(orders[i])
  BY DEF Ids, RowsInv, RowsOK
<1>2. DOMAIN orders[i] = Fields
  BY <1>1 DEF OrderType, Fields
<1> DEFINE n == [f \in Fields |-> IF f \in DOMAIN ch THEN ch[f] ELSE orders[i][f]]
<1>3. orders' = [orders EXCEPT ![i] = n]
  BY <1>2 DEF Put
<1>4. FieldsOK(n) => n \in OrderType
  BY DEF FieldsOK, Fields, OrderType
<1>5. FieldsOK(orders[i])
  BY <1>1 DEF OrderType, FieldsOK
<1> HIDE DEF n
<1>6. QED
  BY <1>1, <1>3, <1>4, <1>5 DEF n, Ids, Became

\* What every step on row i leaves true.
RowStep(i) ==
  /\ orders' \in Seq(OrderType)
  /\ DOMAIN orders' = DOMAIN orders /\ Len(orders') = Len(orders)
  /\ \A j \in Ids : j # i => orders'[j] = orders[j]
  /\ orders'[i].qty = orders[i].qty /\ orders'[i].linked = orders[i].linked
  /\ Sound(orders'[i])
  /\ Working(orders'[i]) => Working(orders[i])
  /\ orders'[i].req = "checked" => orders[i].req = "checked" \/ orders[i].qty <= Net
  /\ orders'[i].ib = "live" => orders[i].ib = "live" \/ orders[i].req = "checked"
  /\ \/ orders'[i].traded = orders[i].traded
     \/ /\ orders[i].ib = "live" /\ orders'[i].traded = orders[i].traded + 1
        /\ orders'[i].ib = "live" \/ orders'[i].traded = orders[i].qty
  /\ \/ reserved' = reserved /\ (orders'[i].filled = orders[i].filled \/ ~orders[i].linked)
     \/ reserved' = RecomputeReservation(orders')

\* The fields a Put leaves alone, one by one, and what it leaves of the rest.
Kept(i, S) ==
  /\ "linked" \in S \/ orders'[i].linked = orders[i].linked
  /\ "qty" \in S \/ orders'[i].qty = orders[i].qty
  /\ "filled" \in S \/ orders'[i].filled = orders[i].filled
  /\ "state" \in S \/ orders'[i].state = orders[i].state
  /\ "struct" \in S \/ orders'[i].struct = orders[i].struct
  /\ "req" \in S \/ orders'[i].req = orders[i].req
  /\ "ib" \in S \/ orders'[i].ib = orders[i].ib
  /\ "traded" \in S \/ orders'[i].traded = orders[i].traded
  /\ "aged" \in S \/ orders'[i].aged = orders[i].aged
  /\ "then" \in S \/ orders'[i].then = orders[i].then

Written(i) ==
  /\ orders' \in Seq(OrderType)
  /\ DOMAIN orders' = DOMAIN orders /\ Len(orders') = Len(orders)
  /\ \A j \in Ids : j # i => orders'[j] = orders[j]
  /\ FieldsOK(orders[i]) /\ Sound(orders[i])

\* The engine's steps on row i.
LEMMA EngineSteps ==
  ASSUME RowsInv, NEW i \in Ids, EngineCheck(i) \/ EngineRefuse(i) \/ EnginePlace(i) \/ EngineStampFails(i)
  PROVE  RowStep(i)
<1>1. CASE EngineCheck(i)
  <2>1. Became(i, [req |-> "checked"])
    BY <1>1, PutEffect DEF EngineCheck
  <2>2. /\ orders'[i].req = "checked"
        /\ Kept(i, {"req"})
        /\ FieldsOK(orders[i]) /\ Sound(orders[i])
    BY <2>1 DEF Became, Fields, Kept
  <2>3. FieldsOK(orders'[i])
    BY <1>1, <2>2 DEF FieldsOK, Sound, Kept
  <2>4. Written(i)
    BY <2>1, <2>3 DEF Became, Written
  <2>5. QED
    BY <1>1, <2>2, <2>4 DEF Kept, Written, FieldsOK, Sound, Working, EngineCheck, RowStep
<1>2. CASE EngineRefuse(i)
  <2>1. Became(i, [req |-> "refused"])
    BY <1>2, PutEffect DEF EngineRefuse
  <2>2. /\ orders'[i].req = "refused"
        /\ Kept(i, {"req"})
        /\ FieldsOK(orders[i]) /\ Sound(orders[i])
    BY <2>1 DEF Became, Fields, Kept
  <2>3. FieldsOK(orders'[i])
    BY <1>2, <2>2 DEF FieldsOK, Sound, Kept
  <2>4. Written(i)
    BY <2>1, <2>3 DEF Became, Written
  <2>5. QED
    BY <1>2, <2>2, <2>4 DEF Kept, Written, FieldsOK, Sound, Working, EngineRefuse, RowStep
<1>3. CASE EnginePlace(i)
  <2>1. Became(i, [req |-> "ok", ib |-> "live", state |-> "submitted", aged |-> FALSE])
    BY <1>3, PutEffect DEF EnginePlace
  <2>2. /\ orders'[i].req = "ok" /\ orders'[i].ib = "live"
        /\ orders'[i].state = "submitted" /\ orders'[i].aged = FALSE
        /\ Kept(i, {"req", "ib", "state", "aged"})
        /\ FieldsOK(orders[i]) /\ Sound(orders[i])
    BY <2>1 DEF Became, Fields, Kept
  <2>3. FieldsOK(orders'[i])
    BY <1>3, <2>2 DEF FieldsOK, Sound, Kept
  <2>4. Written(i)
    BY <2>1, <2>3 DEF Became, Written
  <2>5. QED
    BY <1>3, <2>2, <2>4 DEF Kept, Written, FieldsOK, Sound, Working, EnginePlace, RowStep
<1>4. CASE EngineStampFails(i)
  <2>1. Became(i, [req |-> "unstamped", ib |-> "live"])
    BY <1>4, PutEffect DEF EngineStampFails
  <2>2. /\ orders'[i].req = "unstamped" /\ orders'[i].ib = "live"
        /\ Kept(i, {"req", "ib"})
        /\ FieldsOK(orders[i]) /\ Sound(orders[i])
    BY <2>1 DEF Became, Fields, Kept
  <2>3. FieldsOK(orders'[i])
    BY <1>4, <2>2 DEF FieldsOK, Sound, Kept
  <2>4. Written(i)
    BY <2>1, <2>3 DEF Became, Written
  <2>5. QED
    BY <1>4, <2>2, <2>4 DEF Kept, Written, FieldsOK, Sound, Working, EngineStampFails, RowStep
<1>5. QED
  BY <1>1, <1>2, <1>3, <1>4

\* IB's steps on row i.
LEMMA IbSteps ==
  ASSUME RowsInv, NEW i \in Ids, IbTrades(i) \/ IbCancels(i)
  PROVE  RowStep(i)
<1>1. CASE IbTrades(i)
  <2>1. Became(i, [traded |-> orders[i].traded + 1,
                    ib |-> IF orders[i].traded + 1 = orders[i].qty THEN "filled" ELSE "live"])
    BY <1>1, PutEffect DEF IbTrades
  <2>2. /\ orders'[i].traded = orders[i].traded + 1
        /\ orders'[i].ib = IF orders[i].traded + 1 = orders[i].qty THEN "filled" ELSE "live"
        /\ Kept(i, {"traded", "ib"})
        /\ FieldsOK(orders[i]) /\ Sound(orders[i])
    BY <2>1 DEF Became, Fields, Kept
  <2>3. FieldsOK(orders'[i])
    BY <1>1, <2>2, LotAssumption DEF FieldsOK, Sound, Kept, IbTrades
  <2>4. Written(i)
    BY <2>1, <2>3 DEF Became, Written
  <2>5. QED
    BY <1>1, <2>2, <2>4 DEF Kept, Written, FieldsOK, Sound, Working, IbTrades, RowStep
<1>2. CASE IbCancels(i)
  <2>1. Became(i, [ib |-> "cancelled"])
    BY <1>2, PutEffect DEF IbCancels
  <2>2. /\ orders'[i].ib = "cancelled"
        /\ Kept(i, {"ib"})
        /\ FieldsOK(orders[i]) /\ Sound(orders[i])
    BY <2>1 DEF Became, Fields, Kept
  <2>3. FieldsOK(orders'[i])
    BY <1>2, <2>2 DEF FieldsOK, Sound, Kept
  <2>4. Written(i)
    BY <2>1, <2>3 DEF Became, Written
  <2>5. QED
    BY <1>2, <2>2, <2>4 DEF Kept, Written, FieldsOK, Sound, Working, IbCancels, RowStep
<1>3. QED
  BY <1>1, <1>2

\* The fill and status handlers, and what they go on to.
LEMMA HandlerSteps ==
  ASSUME RowsInv, NEW i \in Ids,
         PersistFill(i) \/ PersistCancel(i) \/ CompleteStructure(i) \/ Finalise(i)
  PROVE  RowStep(i)
<1>1. CASE PersistFill(i)
  <2>1. Became(i, [filled |-> orders[i].filled + 1,
                    state |-> IF orders[i].filled + 1 = orders[i].qty THEN "filled" ELSE "partially_filled",
                    then |-> IF orders[i].filled + 1 = orders[i].qty THEN "complete" ELSE orders[i].then])
    BY <1>1, PutEffect DEF PersistFill
  <2>2. /\ orders'[i].filled = orders[i].filled + 1
        /\ orders'[i].state = IF orders[i].filled + 1 = orders[i].qty THEN "filled" ELSE "partially_filled"
        /\ orders'[i].then = IF orders[i].filled + 1 = orders[i].qty THEN "complete" ELSE orders[i].then
        /\ Kept(i, {"filled", "state", "then"})
        /\ FieldsOK(orders[i]) /\ Sound(orders[i])
    BY <2>1 DEF Became, Fields, Kept
  <2>3. FieldsOK(orders'[i])
    BY <1>1, <2>2, LotAssumption DEF FieldsOK, Sound, Kept, PersistFill
  <2>4. Written(i)
    BY <2>1, <2>3 DEF Became, Written
  <2>5. QED
    BY <1>1, <2>2, <2>4 DEF Kept, Written, FieldsOK, Sound, Working, PersistFill, Reserve, RowStep
<1>2. CASE PersistCancel(i)
  <2>1. Became(i, [state |-> "cancelled"])
    BY <1>2, PutEffect DEF PersistCancel
  <2>2. /\ orders'[i].state = "cancelled"
        /\ Kept(i, {"state"})
        /\ FieldsOK(orders[i]) /\ Sound(orders[i])
    BY <2>1 DEF Became, Fields, Kept
  <2>3. FieldsOK(orders'[i])
    BY <1>2, <2>2 DEF FieldsOK, Sound, Kept
  <2>4. Written(i)
    BY <2>1, <2>3 DEF Became, Written
  <2>5. QED
    BY <1>2, <2>2, <2>4 DEF Kept, Written, FieldsOK, Sound, Working, PersistCancel, RowStep
<1>3. CASE CompleteStructure(i)
  <2>1. CASE Put(i, [struct |-> "fully_filled", then |-> "finalise"])
    <3>1. Became(i, [struct |-> "fully_filled", then |-> "finalise"])
      BY <2>1, PutEffect
    <3>2. /\ orders'[i].struct = "fully_filled" /\ orders'[i].then = "finalise"
          /\ Kept(i, {"struct", "then"})
          /\ FieldsOK(orders[i]) /\ Sound(orders[i])
      BY <3>1 DEF Became, Fields, Kept
    <3>3. FieldsOK(orders'[i])
      BY <2>1, <3>2 DEF FieldsOK, Sound, Kept
    <3>4. Written(i)
      BY <3>1, <3>3 DEF Became, Written
    <3>5. QED
      BY <1>3, <3>2, <3>4 DEF Kept, Written, FieldsOK, Sound, Working, CompleteStructure, RowStep
  <2>2. CASE Put(i, [then |-> "none"])
    <3>1. Became(i, [then |-> "none"])
      BY <2>2, PutEffect
    <3>2. /\ orders'[i].then = "none"
          /\ Kept(i, {"then"})
          /\ FieldsOK(orders[i]) /\ Sound(orders[i])
      BY <3>1 DEF Became, Fields, Kept
    <3>3. FieldsOK(orders'[i])
      BY <2>2, <3>2 DEF FieldsOK, Sound, Kept
    <3>4. Written(i)
      BY <3>1, <3>3 DEF Became, Written
    <3>5. QED
      BY <1>3, <3>2, <3>4 DEF Kept, Written, FieldsOK, Sound, Working, CompleteStructure, RowStep
  <2>3. QED
    BY <1>3, <2>1, <2>2 DEF CompleteStructure
<1>4. CASE Finalise(i)
  <2>1. Became(i, [then |-> "none"])
    BY <1>4, PutEffect DEF Finalise
  <2>2. /\ orders'[i].then = "none"
        /\ Kept(i, {"then"})
        /\ FieldsOK(orders[i]) /\ Sound(orders[i])
    BY <2>1 DEF Became, Fields, Kept
  <2>3. FieldsOK(orders'[i])
    BY <1>4, <2>2 DEF FieldsOK, Sound, Kept
  <2>4. Written(i)
    BY <2>1, <2>3 DEF Became, Written
  <2>5. QED
    BY <1>4, <2>2, <2>4 DEF Kept, Written, FieldsOK, Sound, Working, Finalise, RowStep
<1>5. QED
  BY <1>1, <1>2, <1>3, <1>4

\* The reaper, and time.
LEMMA WindowSteps ==
  ASSUME RowsInv, NEW i \in Ids, Reap(i) \/ Age(i)
  PROVE  RowStep(i)
<1>1. CASE Reap(i)
  <2>1. Became(i, [state |-> "expired",
                   struct |-> IF orders[i].struct = "submitted" THEN "fully_failed" ELSE orders[i].struct])
    BY <1>1, PutEffect DEF Reap
  <2>2. /\ orders'[i].state = "expired"
        /\ orders'[i].struct = IF orders[i].struct = "submitted" THEN "fully_failed" ELSE orders[i].struct
        /\ Kept(i, {"state", "struct"})
        /\ FieldsOK(orders[i]) /\ Sound(orders[i])
    BY <2>1 DEF Became, Fields, Kept
  <2>3. FieldsOK(orders'[i])
    BY <1>1, <2>2 DEF FieldsOK, Sound, Kept
  <2>4. Written(i)
    BY <2>1, <2>3 DEF Became, Written
  <2>5. QED
    BY <1>1, <2>2, <2>4 DEF Kept, Written, FieldsOK, Sound, Working, Reap, Reserve, RowStep
<1>2. CASE Age(i)
  <2>1. Became(i, [aged |-> TRUE])
    BY <1>2, PutEffect DEF Age
  <2>2. /\ orders'[i].aged = TRUE
        /\ Kept(i, {"aged"})
        /\ FieldsOK(orders[i]) /\ Sound(orders[i])
    BY <2>1 DEF Became, Fields, Kept
  <2>3. FieldsOK(orders'[i])
    BY <1>2, <2>2 DEF FieldsOK, Sound, Kept
  <2>4. Written(i)
    BY <2>1, <2>3 DEF Became, Written
  <2>5. QED
    BY <1>2, <2>2, <2>4 DEF Kept, Written, FieldsOK, Sound, Working, Age, RowStep
<1>3. QED
  BY <1>1, <1>2

\* A request that waits for an answer has a row.
OwnRows == \A c \in Callers : call[c].pc = "waiting" => call[c].id \in Ids

\* The ways the operator's request ends with its row written.
LEMMA AnswerSteps ==
  ASSUME RowsInv, NEW c \in Callers, OwnRows,
         \/ CloseRefused(c) \/ CloseTimesOut(c) \/ CloseAccepted(c)
         \/ CloseDies(c) /\ orders' # orders
  PROVE  call[c].id \in Ids /\ RowStep(call[c].id)
<1> DEFINE i == call[c].id
<1>0. i \in Ids
  BY DEF OwnRows, CloseRefused, CloseTimesOut, CloseAccepted, CloseDies
<1>1. CASE CloseRefused(c)
  <2> DEFINE q == IF orders[i].req = "sent" THEN "lost" ELSE orders[i].req
  <2>1. Became(i, [req |-> q, state |-> "rejected", struct |-> "partial_fail"])
    BY <1>0, <1>1, PutEffect DEF CloseRefused
  <2>2. orders[i].req \in {"sent", "refused", "unstamped"} /\ reserved' = reserved
    BY <1>1 DEF CloseRefused
  <2>3. /\ q \in {"lost", "refused", "unstamped"}
        /\ (q = "lost" /\ orders[i].req = "sent") \/ q = orders[i].req
    BY <2>2
  <2> HIDE DEF i, q
  <2>4. /\ orders'[i].req = q
        /\ orders'[i].state = "rejected" /\ orders'[i].struct = "partial_fail"
        /\ Kept(i, {"req", "state", "struct"})
        /\ FieldsOK(orders[i]) /\ Sound(orders[i])
    BY <2>1 DEF Became, Fields, Kept
  <2>5. FieldsOK(orders'[i])
    BY <2>3, <2>4 DEF FieldsOK, Kept
  <2>6. Written(i)
    BY <2>1, <2>5 DEF Became, Written
  <2>7. orders[i].ib = "live" => orders[i].req = "unstamped" /\ Unstamped
    BY <2>2, <2>4 DEF Sound
  <2>8. /\ orders'[i].qty = orders[i].qty /\ orders'[i].filled = orders[i].filled
        /\ orders'[i].ib = orders[i].ib /\ orders'[i].traded = orders[i].traded
        /\ orders'[i].linked = orders[i].linked
    BY <2>4 DEF Kept
  <2>9. Sound(orders'[i])
    BY <2>2, <2>3, <2>4, <2>7, <2>8 DEF FieldsOK, Sound, Working
  <2>10. /\ Working(orders'[i]) => Working(orders[i])
         /\ orders'[i].req # "checked"
    BY <2>2, <2>3, <2>4, <2>8 DEF Working
  <2>11. RowStep(i)
    BY <2>2, <2>6, <2>8, <2>9, <2>10 DEF Written, RowStep
  <2>12. QED
    BY <1>0, <2>11 DEF i
<1>2. CASE CloseTimesOut(c) \/ CloseAccepted(c)
  <2>1. Became(i, [state |-> "submitted", aged |-> FALSE])
    BY <1>0, <1>2, PutEffect DEF CloseTimesOut, CloseAccepted
  <2>2. reserved' = reserved
    BY <1>2 DEF CloseTimesOut, CloseAccepted
  <2> HIDE DEF i
  <2>3. /\ orders'[i].state = "submitted" /\ orders'[i].aged = FALSE
        /\ Kept(i, {"state", "aged"})
        /\ FieldsOK(orders[i]) /\ Sound(orders[i])
    BY <2>1 DEF Became, Fields, Kept
  <2>4. FieldsOK(orders'[i])
    BY <2>3 DEF FieldsOK, Kept
  <2>5. Written(i)
    BY <2>1, <2>4 DEF Became, Written
  <2>6. RowStep(i)
    BY <2>2, <2>3, <2>5 DEF Kept, Written, FieldsOK, Sound, Working, RowStep
  <2>7. QED
    BY <1>0, <2>6 DEF i
<1>3. CASE CloseDies(c) /\ orders' # orders
  <2>1. Became(i, [req |-> "lost"])
    BY <1>0, <1>3, PutEffect DEF CloseDies
  <2>2. orders[i].req = "sent" /\ reserved' = reserved
    BY <1>3 DEF CloseDies
  <2> HIDE DEF i
  <2>3. /\ orders'[i].req = "lost"
        /\ Kept(i, {"req"})
        /\ FieldsOK(orders[i]) /\ Sound(orders[i])
    BY <2>1 DEF Became, Fields, Kept
  <2>4. FieldsOK(orders'[i])
    BY <2>3 DEF FieldsOK, Kept
  <2>5. Written(i)
    BY <2>1, <2>4 DEF Became, Written
  <2>6. RowStep(i)
    BY <2>2, <2>3, <2>5 DEF Kept, Written, FieldsOK, Sound, Working, RowStep
  <2>7. QED
    BY <1>0, <2>6 DEF i
<1>4. QED
  BY <1>1, <1>2, <1>3

\* What the working rows that name the entry leg have still to book, and what every
\* row traded.
AtWork(os) == [i \in DOMAIN os |-> IF os[i].linked /\ Working(os[i]) THEN os[i].qty - os[i].filled ELSE 0]
Traded(os) == [i \in DOMAIN os |-> os[i].traded]

\* The rows are finitely many and typed.
LEMMA RowFacts ==
  ASSUME NEW os, RowsOK(os)
  PROVE  /\ IsFiniteSet(DOMAIN os)
         /\ \A i \in DOMAIN os : Sound(os[i]) /\ FieldsOK(os[i])
<1>1. DOMAIN os = 1..Len(os) /\ Len(os) \in Nat
  BY DEF RowsOK
<1>2. IsFiniteSet(1..Len(os))
  BY <1>1, FS_Interval
<1>3. ASSUME NEW i \in DOMAIN os PROVE FieldsOK(os[i])
  <2>1. os[i] \in OrderType
    BY DEF RowsOK
  <2>2. QED
    BY <2>1 DEF OrderType, FieldsOK
<1>4. QED
  BY <1>1, <1>2, <1>3 DEF RowsOK

\* AtWork can be summed.
LEMMA AtWorkSums ==
  ASSUME NEW os, RowsOK(os)
  PROVE  IntOn(AtWork(os), DOMAIN os) /\ \A i \in DOMAIN os : AtWork(os)[i] \in Nat
<1>1. ASSUME NEW i \in DOMAIN os PROVE AtWork(os)[i] \in Nat
  <2>1. os[i].qty \in Int /\ os[i].filled \in Int /\ os[i].filled <= os[i].qty
    BY RowFacts, LotAssumption DEF FieldsOK, Sound
  <2>2. QED
    BY <2>1 DEF AtWork
<1>2. QED
  BY <1>1, RowFacts DEF IntOn

\* Traded can be summed.
LEMMA TradedSums ==
  ASSUME NEW os, RowsOK(os)
  PROVE  IntOn(Traded(os), DOMAIN os) /\ \A i \in DOMAIN os : Traded(os)[i] \in Nat
<1>1. ASSUME NEW i \in DOMAIN os PROVE Traded(os)[i] \in Nat
  <2>1. os[i].traded \in Nat
    BY RowFacts, LotAssumption DEF FieldsOK
  <2>2. QED
    BY <2>1 DEF Traded
<1>2. QED
  BY <1>1, RowFacts DEF IntOn

\* recompute_reservation: a natural number, and enough for what is at work.
LEMMA RecomputeCovers ==
  ASSUME NEW os, RowsOK(os)
  PROVE  /\ RecomputeReservation(os) \in Nat
         /\ Outlives \/ Unstamped \/ SumFunctionOnSet(AtWork(os), DOMAIN os) <= RecomputeReservation(os)
<1> DEFINE r == [i \in DOMAIN os |-> IF os[i].linked /\ os[i].state \in RESERVING /\ os[i].qty > os[i].filled
                                   THEN os[i].qty - os[i].filled ELSE 0]
<1>1. RecomputeReservation(os) = SumFunctionOnSet(r, DOMAIN os)
  BY DEF RecomputeReservation, SumFunction
<1>2. ASSUME NEW i \in DOMAIN os PROVE r[i] \in Nat /\ (Outlives \/ Unstamped \/ AtWork(os)[i] <= r[i])
  <2>1. os[i].qty \in Int /\ os[i].filled \in Int /\ os[i].filled <= os[i].qty /\ Sound(os[i])
    BY RowFacts, LotAssumption DEF FieldsOK, Sound
  <2>2. QED
    BY <2>1 DEF AtWork, Sound, RESERVING
<1> HIDE DEF r
<1>3. IntOn(r, DOMAIN os)
  BY <1>2, RowFacts DEF IntOn
<1>4. Outlives \/ Unstamped \/ SumFunctionOnSet(AtWork(os), DOMAIN os) <= SumFunctionOnSet(r, DOMAIN os)
  BY <1>2, <1>3, AtWorkSums, SumLeq
<1>5. SumFunctionOnSet(r, DOMAIN os) \in Nat
  BY <1>2, RowFacts, SumNat
<1>6. QED
  BY <1>1, <1>4, <1>5

\* What a step that opens a row leaves true.
RowOpened ==
  LET l == Len(orders') IN
  /\ orders' \in Seq(OrderType)
  /\ l = Len(orders) + 1 /\ l \notin Ids /\ DOMAIN orders' = Ids \cup {l}
  /\ \A j \in Ids : orders'[j] = orders[j]
  /\ Sound(orders'[l])
  /\ orders'[l].filled = 0 /\ orders'[l].traded = 0
  /\ orders'[l].ib = "none" /\ orders'[l].req # "checked"
  /\ orders'[l].qty \in 1..Lot

\* Appending a new order opens a row.
LEMMA NewRow ==
  ASSUME RowsInv, NEW q \in 1..Lot, NEW linked \in BOOLEAN, orders' = Append(orders, NewOrder(q, linked))
  PROVE  RowOpened /\ orders'[Len(orders')].linked = linked
<1>1. orders \in Seq(OrderType) /\ Ids = 1..Len(orders) /\ Len(orders) \in Nat
  BY DEF RowsInv, RowsOK, Ids
<1> DEFINE n == NewOrder(q, linked)
<1>2. orders' = Append(orders, n)
  OBVIOUS
<1>3. n \in OrderType
  <2>1. 0 \in 0..Lot
    BY LotAssumption
  <2>2. QED
    BY <2>1 DEF NewOrder, OrderType
<1>4. /\ n.filled = 0 /\ n.traded = 0 /\ n.ib = "none" /\ n.req = "sent"
      /\ n.state = "pending" /\ n.aged = FALSE /\ n.linked = linked /\ n.qty = q
  BY DEF NewOrder
<1> HIDE DEF n
<1>5. Sound(n)
  BY <1>4, LotAssumption DEF Sound, Working
<1>6. orders' \in Seq(OrderType) /\ Len(orders') = Len(orders) + 1 /\ orders'[Len(orders')] = n
  BY <1>1, <1>2, <1>3
<1>7. DOMAIN orders' = 1..(Len(orders) + 1) /\ \A j \in Ids : orders'[j] = orders[j]
  BY <1>1, <1>2, <1>3
<1>8. QED
  BY <1>1, <1>4, <1>5, <1>6, <1>7 DEF RowOpened

\* The operator's requests.
CallType == [pc : {"idle", "admitted", "waiting"}, qty : 0..Lot, id : 0..MaxOrders]

\* The inductive invariant of rows, requests and reservation.
BooksInv ==
  /\ RowsInv
  /\ Len(orders) <= MaxOrders
  /\ call \in [Callers -> CallType]
  /\ OwnRows
  /\ \A c \in Callers : call[c].pc = "admitted" => call[c].qty \in 1..Lot
  /\ reserved \in Nat
  /\ Outlives \/ Unstamped \/ SumFunctionOnSet(AtWork(orders), Ids) <= reserved

\* A step on one row keeps the reservation large enough.
LEMMA RowStepBooks ==
  ASSUME RowsInv, reserved \in Nat, Outlives \/ Unstamped \/ SumFunctionOnSet(AtWork(orders), Ids) <= reserved,
         NEW i \in Ids, RowStep(i)
  PROVE  /\ RowsOK(orders') /\ reserved' \in Nat
         /\ Outlives \/ Unstamped \/ SumFunctionOnSet(AtWork(orders'), DOMAIN orders') <= reserved'
<1>1. RowsOK(orders')
  BY DEF RowStep, RowsInv, RowsOK, Ids
<1>2. CASE reserved' = RecomputeReservation(orders')
  BY <1>1, <1>2, RecomputeCovers
<1>3. CASE reserved' = reserved /\ (orders'[i].filled = orders[i].filled \/ ~orders[i].linked)
  <2>1. DOMAIN orders' = Ids
    BY DEF RowStep, Ids
  <2>2. IntOn(AtWork(orders), Ids) /\ IntOn(AtWork(orders'), Ids)
    BY <1>1, <2>1, AtWorkSums DEF RowsInv, Ids
  <2>3. ASSUME NEW j \in Ids PROVE AtWork(orders')[j] <= AtWork(orders)[j]
    <3>1. AtWork(orders)[j] \in Nat
      BY AtWorkSums DEF RowsInv, Ids
    <3>2. CASE j # i
      BY <3>1, <3>2, <2>1 DEF RowStep, AtWork, Ids
    <3>3. CASE j = i
      <4>1. /\ orders'[i].qty = orders[i].qty /\ orders'[i].linked = orders[i].linked
            /\ Working(orders'[i]) => Working(orders[i])
        BY DEF RowStep
      <4> HIDE DEF Working
      <4>2. QED
        BY <3>1, <3>3, <4>1, <1>3, <2>1 DEF AtWork, RowStep, Ids
    <3>4. QED
      BY <3>2, <3>3
  <2>4. SumFunctionOnSet(AtWork(orders'), Ids) <= SumFunctionOnSet(AtWork(orders), Ids)
    BY <2>2, <2>3, RowFacts, SumLeq
  <2>5. SumFunctionOnSet(AtWork(orders), Ids) \in Int /\ SumFunctionOnSet(AtWork(orders'), Ids) \in Int
    BY <2>2, SumStep
  <2>6. QED
    BY <1>1, <1>3, <2>1, <2>4, <2>5
<1>4. QED
  BY <1>2, <1>3 DEF RowStep

\* So does a step that opens a row: it reserves when the row names the entry leg.
Reserves == reserved' = IF orders'[Len(orders')].linked THEN RecomputeReservation(orders') ELSE reserved

LEMMA RowOpenedBooks ==
  ASSUME RowsInv, reserved \in Nat, Outlives \/ Unstamped \/ SumFunctionOnSet(AtWork(orders), Ids) <= reserved,
         RowOpened, Reserves
  PROVE  /\ RowsOK(orders') /\ reserved' \in Nat
         /\ Outlives \/ Unstamped \/ SumFunctionOnSet(AtWork(orders'), DOMAIN orders') <= reserved'
<1> DEFINE l == Len(orders')
<1>1. RowsOK(orders')
  BY DEF RowOpened, RowsInv, RowsOK, Ids
<1>2. CASE orders'[l].linked
  BY <1>1, <1>2, RecomputeCovers DEF Reserves
<1>3. CASE ~orders'[l].linked
  <2>1. DOMAIN orders' = Ids \cup {l} /\ l \notin Ids /\ reserved' = reserved
    BY <1>3 DEF RowOpened, Reserves, Ids
  <2>2. IntOn(AtWork(orders), Ids)
    BY AtWorkSums DEF RowsInv, Ids
  <2>3. \A j \in Ids : AtWork(orders')[j] = AtWork(orders)[j]
    BY <2>1 DEF RowOpened, AtWork, Ids
  <2>4. AtWork(orders')[l] = 0
    BY <1>3, <2>1 DEF AtWork
  <2> HIDE DEF l
  <2>5. SumFunctionOnSet(AtWork(orders'), Ids \cup {l}) = SumFunctionOnSet(AtWork(orders), Ids) + AtWork(orders')[l]
    BY <2>1, <2>2, <2>3, <2>4, SumExtend
  <2>6. SumFunctionOnSet(AtWork(orders), Ids) \in Int
    BY <2>2, SumStep
  <2>7. QED
    BY <1>1, <2>1, <2>4, <2>5, <2>6
<1>4. QED
  BY <1>2, <1>3

\* The kinds of step, as the books see them.
QuietStep == UNCHANGED <<orders, reserved, call>>

\* What the requests keep when one of them ends.
CallsEnd ==
  /\ call' \in [Callers -> CallType]
  /\ \A c \in Callers : call'[c] \in {call[c], Idle}

RequestDies == UNCHANGED <<orders, reserved>> /\ CallsEnd

OrderStep == (\E i \in Ids : RowStep(i)) /\ CallsEnd

OperatorOpens(c) ==
  /\ RowOpened /\ Reserves
  /\ Len(orders') <= MaxOrders
  /\ call[c].pc = "admitted"
  /\ call' = [call EXCEPT ![c].pc = "waiting", ![c].id = Len(orders) + 1]

\* InsertClose opens the operator's row.
LEMMA InsertSteps ==
  ASSUME BooksInv, NEW c \in Callers, InsertClose(c)
  PROVE  OperatorOpens(c)
<1>1. call[c].qty \in 1..Lot
  BY DEF BooksInv, InsertClose
<1>2. PICK linked \in BOOLEAN :
        /\ orders' = Append(orders, NewOrder(call[c].qty, linked))
        /\ reserved' = IF linked THEN RecomputeReservation(orders') ELSE reserved
  BY DEF InsertClose
<1>3. RowOpened /\ orders'[Len(orders')].linked = linked
  BY <1>1, <1>2, NewRow DEF BooksInv
<1>4. Len(orders) + 1 <= MaxOrders
  BY BoundsAssumption DEF InsertClose, BooksInv, RowsInv, RowsOK
<1>5. QED
  BY <1>2, <1>3, <1>4 DEF OperatorOpens, Reserves, InsertClose, RowOpened

\* A request that ends is idle.
LEMMA CallEnds ==
  ASSUME BooksInv, NEW c \in Callers, call' = [call EXCEPT ![c] = Idle]
  PROVE  CallsEnd
<1>1. Idle \in CallType
  BY LotAssumption, BoundsAssumption DEF Idle, CallType
<1>2. call \in [Callers -> CallType]
  BY DEF BooksInv
<1>3. QED
  BY <1>1, <1>2 DEF CallsEnd

\* Every step is of one of the five kinds.
LEMMA Kinds ==
  ASSUME BooksInv, [Next]_vars
  PROVE  \/ QuietStep
         \/ RequestDies
         \/ OrderStep
         \/ \E c \in Callers : Admit(c)
         \/ \E c \in Callers : OperatorOpens(c)
<1>1. ASSUME UNCHANGED vars \/ CloseManual \/ ReconcileFlat \/ SyncMirror PROVE QuietStep
  BY <1>1 DEF vars, closeVars, CloseManual, ReconcileFlat, SyncMirror, QuietStep
<1>2. ASSUME NEW w, ReadPosition(w) PROVE QuietStep
  BY <1>2 DEF ReadPosition, QuietStep
<1>3. ASSUME NEW c \in Callers, InsertClose(c) PROVE OperatorOpens(c)
  BY <1>3, InsertSteps
<1>4. ASSUME NEW c \in Callers, CloseRefused(c) \/ CloseTimesOut(c) \/ CloseAccepted(c) \/ CloseDies(c)
      PROVE  RequestDies \/ OrderStep
  <2>1. call' = [call EXCEPT ![c] = Idle]
    BY <1>4 DEF CloseRefused, CloseTimesOut, CloseAccepted, CloseDies
  <2>2. CallsEnd
    BY <2>1, CallEnds
  <2>3. CASE CloseDies(c) /\ orders' = orders
    BY <2>2, <2>3 DEF RequestDies, CloseDies
  <2>4. CASE ~(CloseDies(c) /\ orders' = orders)
    <3>1. call[c].id \in Ids /\ RowStep(call[c].id)
      BY <1>4, <2>4, AnswerSteps DEF BooksInv
    <3>2. QED
      BY <2>2, <3>1 DEF OrderStep
  <2>5. QED
    BY <2>3, <2>4
<1>5. ASSUME NEW i \in Ids,
             \/ EngineCheck(i) \/ EngineRefuse(i) \/ EnginePlace(i) \/ EngineStampFails(i)
             \/ IbTrades(i) \/ IbCancels(i) \/ PersistFill(i) \/ PersistCancel(i)
             \/ CompleteStructure(i) \/ Finalise(i) \/ Reap(i) \/ Age(i)
      PROVE  OrderStep
  <2>1. UNCHANGED call
    BY <1>5 DEF EngineCheck, EngineRefuse, EnginePlace, EngineStampFails, IbTrades, IbCancels, PersistFill, PersistCancel,
                CompleteStructure, Finalise, Reap, Age
  <2>2. RowStep(i)
    BY <1>5, EngineSteps, IbSteps, HandlerSteps, WindowSteps DEF BooksInv
  <2>3. QED
    BY <2>1, <2>2 DEF OrderStep, CallsEnd, BooksInv
<1>6. ASSUME NEW m \in Monitors,
             \/ CycleReads(m) \/ MonitorOne(m) \/ Commit(m) \/ CommitFails(m)
             \/ DispatchHedges(m) \/ InitiateClose(m) \/ CycleEnds(m)
      PROVE  QuietStep
  <2>1. CASE MonitorOne(m)
    BY <2>1 DEF MonitorOne, QuietStep
  <2>2. CASE CycleReads(m) \/ Commit(m) \/ CommitFails(m)
    BY <2>2 DEF CycleReads, Commit, CommitFails, closeVars, QuietStep
  <2>3. CASE DispatchHedges(m) \/ InitiateClose(m) \/ CycleEnds(m)
    BY <2>3 DEF DispatchHedges, InitiateClose, CycleEnds, closeVars, QuietStep
  <2>4. QED
    BY <1>6, <2>1, <2>2, <2>3
<1>7. ASSUME CooldownsPass \/ \E h \in DOMAIN hedges : SubmitHedge(h) \/ IbHedge(h) \/ FinaliseHedge(h)
      PROVE  QuietStep
  BY <1>7 DEF CooldownsPass, SubmitHedge, IbHedge, FinaliseHedge, closeVars, QuietStep
<1>8. ASSUME CloseNext
      PROVE  \/ QuietStep \/ RequestDies \/ OrderStep
             \/ \E c \in Callers : Admit(c) \/ OperatorOpens(c)
  <2>1. CASE CloseManual \/ ReconcileFlat \/ SyncMirror \/ \E w \in {"manual", "reconcile"} : ReadPosition(w)
    BY <1>1, <1>2, <2>1
  <2>2. CASE \E c \in Callers : \/ Admit(c) \/ InsertClose(c) \/ CloseRefused(c)
                                \/ CloseTimesOut(c) \/ CloseAccepted(c) \/ CloseDies(c)
    BY <1>3, <1>4, <2>2
  <2>3. CASE \E i \in Ids : \/ ClosePositionBySymbol(i)
                            \/ IbTrades(i) \/ IbCancels(i) \/ PersistFill(i) \/ PersistCancel(i)
                            \/ CompleteStructure(i) \/ Finalise(i) \/ Reap(i) \/ Age(i)
    BY <1>5, <2>3 DEF ClosePositionBySymbol
  <2>4. QED
    BY <1>8, <2>1, <2>2, <2>3 DEF CloseNext
<1>9. QED
  BY <1>1, <1>6, <1>7, <1>8 DEF Next

\* Initially there are no rows.
LEMMA BooksInit ==
  ASSUME Init PROVE BooksInv
<1>1. orders = <<>> /\ reserved = 0 /\ call = [c \in Callers |-> Idle]
  BY DEF Init, CloseInit
<1>2. RowsInv /\ Ids = {} /\ Len(orders) = 0
  BY <1>1 DEF RowsInv, RowsOK, Ids
<1>3. Idle \in CallType
  BY LotAssumption, BoundsAssumption DEF Idle, CallType
<1>4. SumFunctionOnSet(AtWork(orders), {}) = 0
  BY SumEmpty
<1>5. QED
  BY <1>1, <1>2, <1>3, <1>4, BoundsAssumption DEF BooksInv, OwnRows, Idle

\* Every step preserves BooksInv.
LEMMA BooksStep ==
  ASSUME BooksInv, [Next]_vars
  PROVE  BooksInv'
<1> DEFINE Covered == Outlives \/ Unstamped \/ SumFunctionOnSet(AtWork(orders), Ids) <= reserved
<1>0. RowsInv /\ reserved \in Nat /\ Covered
  BY DEF BooksInv
<1>1. CASE QuietStep
  BY <1>1 DEF QuietStep, BooksInv, RowsInv, OwnRows, Ids
<1>2. CASE OrderStep \/ RequestDies
  <2>1. RowsInv' /\ reserved' \in Nat /\ Covered' /\ Len(orders') = Len(orders) /\ Ids' = Ids
    <3>1. CASE RequestDies
      BY <1>0, <3>1 DEF RequestDies, RowsInv, Ids
    <3>2. CASE OrderStep
      <4>1. PICK i \in Ids : RowStep(i)
        BY <3>2 DEF OrderStep
      <4>2. RowsInv' /\ reserved' \in Nat /\ Covered'
        BY <1>0, <4>1, RowStepBooks DEF RowsInv, Ids
      <4>3. QED
        BY <4>1, <4>2 DEF RowStep, Ids
    <3>3. QED
      BY <1>2, <3>1, <3>2
  <2>2. call' \in [Callers -> CallType] /\ \A c \in Callers : call'[c] = call[c] \/ call'[c].pc = "idle"
    BY <1>2 DEF OrderStep, RequestDies, CallsEnd, Idle
  <2> HIDE DEF Covered
  <2>3. OwnRows' /\ \A c \in Callers : call'[c].pc = "admitted" => call'[c].qty \in 1..Lot
    BY <2>1, <2>2 DEF OwnRows, BooksInv
  <2>4. QED
    BY <2>1, <2>2, <2>3 DEF Covered, BooksInv
<1>3. ASSUME NEW c \in Callers, Admit(c) PROVE BooksInv'
  <2>1. PICK q \in 1..Lot : call' = [call EXCEPT ![c] = [pc |-> "admitted", qty |-> q, id |-> 0]]
    BY <1>3 DEF Admit
  <2>2. [pc |-> "admitted", qty |-> q, id |-> 0] \in CallType
    BY LotAssumption, BoundsAssumption DEF CallType
  <2>3. UNCHANGED <<orders, reserved>>
    BY <1>3 DEF Admit
  <2>4. call' \in [Callers -> CallType] /\ \A d \in Callers : call'[d] = IF d = c THEN [pc |-> "admitted", qty |-> q, id |-> 0] ELSE call[d]
    BY <2>1, <2>2 DEF BooksInv
  <2>5. OwnRows' /\ \A d \in Callers : call'[d].pc = "admitted" => call'[d].qty \in 1..Lot
    BY <2>3, <2>4 DEF OwnRows, BooksInv, Ids
  <2>6. QED
    BY <2>3, <2>4, <2>5 DEF BooksInv, RowsInv, Ids
<1>4. ASSUME RowOpened, Reserves, Len(orders') <= MaxOrders,
             call' \in [Callers -> CallType],
             \A c \in Callers : call'[c] = call[c] \/ (call'[c].pc = "waiting" /\ call'[c].id = Len(orders'))
      PROVE  BooksInv'
  <2>1. RowsInv' /\ reserved' \in Nat /\ Covered'
    BY <1>0, <1>4, RowOpenedBooks DEF RowsInv, Ids
  <2>2. Ids' = Ids \cup {Len(orders')}
    BY <1>4 DEF RowOpened, Ids
  <2>3. OwnRows' /\ \A c \in Callers : call'[c].pc = "admitted" => call'[c].qty \in 1..Lot
    BY <1>4, <2>2 DEF OwnRows, BooksInv
  <2>4. QED
    BY <1>4, <2>1, <2>3 DEF BooksInv
<1>5. ASSUME NEW c \in Callers, OperatorOpens(c) PROVE BooksInv'
  <2>1. RowOpened /\ Reserves /\ Len(orders') <= MaxOrders
    BY <1>5 DEF OperatorOpens
  <2>2. Len(orders') = Len(orders) + 1 /\ Len(orders) \in Nat
    BY <2>1, <1>0 DEF RowOpened, RowsInv, RowsOK
  <2>3. Len(orders') \in 0..MaxOrders
    BY <2>1, <2>2, BoundsAssumption
  <2> DEFINE w == [call[c] EXCEPT !.pc = "waiting", !.id = Len(orders')]
  <2>4. call' = [call EXCEPT ![c] = w] /\ call[c] \in CallType /\ call \in [Callers -> CallType]
    BY <1>5, <2>2 DEF OperatorOpens, BooksInv, CallType
  <2>5. w \in CallType /\ w.pc = "waiting" /\ w.id = Len(orders')
    BY <2>3, <2>4 DEF CallType
  <2> HIDE DEF w
  <2>8. /\ call' \in [Callers -> CallType]
        /\ \A d \in Callers : call'[d] = call[d] \/ (call'[d].pc = "waiting" /\ call'[d].id = Len(orders'))
    BY <2>4, <2>5
  <2>9. QED
    BY <1>4, <2>1, <2>8
<1>6. QED
  BY <1>1, <1>2, <1>3, <1>5, Kinds

\* The rows, the requests and the reservation are always as BooksInv says, whatever the
\* route, the engine, IB and the API's restarts do, linked or not, stamped or not: what
\* the linked closes at work have still to book is reserved, unless one outlives the
\* window or goes unstamped (positions.py, persistence/reservation.py).
THEOREM BooksAlways == Spec => []BooksInv
<1>1. Init => BooksInv
  BY BooksInit
<1>2. BooksInv /\ [Next]_vars => BooksInv'
  BY BooksStep
<1>3. QED
  BY <1>1, <1>2, PTL DEF Spec

\* BooksInv is enough for LiveCloseIsReserved.
LEMMA LiveCloses ==
  ASSUME ~Outlives, ~Unstamped, BooksInv PROVE LiveCloseIsReserved
<1> DEFINE l == [i \in Ids |-> IF orders[i].linked /\ orders[i].ib = "live"
                               THEN orders[i].qty - orders[i].filled ELSE 0]
<1>1. LiveCloseIsReserved <=> SumFunctionOnSet(l, Ids) <= reserved
  BY DEF LiveCloseIsReserved, SumFunction
<1>2. ASSUME NEW i \in Ids PROVE l[i] \in Nat /\ l[i] <= AtWork(orders)[i]
  <2>1. orders[i].qty \in Int /\ orders[i].filled \in Int /\ orders[i].filled <= orders[i].qty
    BY RowFacts, LotAssumption DEF FieldsOK, Sound, BooksInv, RowsInv, Ids
  <2>2. QED
    BY <2>1 DEF AtWork, Working, Ids
<1> HIDE DEF l
<1>3. IntOn(l, Ids) /\ IntOn(AtWork(orders), Ids)
  BY <1>2, RowFacts, AtWorkSums DEF IntOn, BooksInv, RowsInv, Ids
<1>4. /\ SumFunctionOnSet(l, Ids) <= SumFunctionOnSet(AtWork(orders), Ids)
      /\ SumFunctionOnSet(l, Ids) \in Int /\ SumFunctionOnSet(AtWork(orders), Ids) \in Int
  BY <1>2, <1>3, SumLeq, SumStep
<1>5. QED
  BY <1>1, <1>4 DEF BooksInv

\* A close live at IB that names its entry leg holds its reservation there for all it has
\* not booked, for any lot, requests and failures, as long as every placement is stamped
\* and no close outlives the in-flight window (persistence/reservation.py,
\* recompute_reservation); without the stamp the row may be rejected under a live order.
THEOREM LiveCloseIsReservedHolds ==
  ASSUME ~Outlives, ~Unstamped PROVE Spec => []LiveCloseIsReserved
<1>1. BooksInv => LiveCloseIsReserved
  BY LiveCloses
<1>2. QED
  BY <1>1, BooksAlways, PTL

-----------------------------------------------------------------------------
(* One close at a time *)

\* An order the engine or IB is at work on; a request past its checks.
Selling(i) == Working(orders[i])
Admitted == \E c \in Callers : call[c].pc = "admitted"

\* With one request at a time and whole closes, one order at most is at work, and it
\* fits in what IB holds from the engine's check on.
LoneInv ==
  /\ \A i, j \in Ids : Selling(i) /\ Selling(j) => i = j
  /\ Admitted => \A i \in Ids : ~Selling(i)
  /\ Net >= 0
  /\ \A i \in Ids : /\ orders[i].req = "checked" => orders[i].qty <= Net
                    /\ orders[i].ib = "live" => orders[i].qty - orders[i].traded <= Net

\* What IB holds, as a sum.
LEMMA NetSum == Net = Lot - SumFunctionOnSet(Traded(orders), Ids)
BY DEF Net, Traded, SumFunction, Ids

\* A step on row i changes what IB holds by what row i trades.
LEMMA NetStep ==
  ASSUME RowsInv, NEW i \in Ids, RowStep(i)
  PROVE  /\ Net \in Int
         /\ Net' = Net + orders[i].traded - orders'[i].traded
<1>1. RowsOK(orders')
  BY DEF RowStep, RowsInv, RowsOK, Ids
<1>2. DOMAIN orders' = Ids
  BY DEF RowStep, Ids
<1>3. IntOn(Traded(orders), Ids) /\ IntOn(Traded(orders'), Ids)
  BY <1>1, <1>2, TradedSums DEF RowsInv, Ids
<1>4. \A j \in Ids \ {i} : Traded(orders)[j] = Traded(orders')[j]
  BY <1>2 DEF RowStep, Traded, Ids
<1>5. SumFunctionOnSet(Traded(orders'), Ids) = SumFunctionOnSet(Traded(orders), Ids) + Traded(orders')[i] - Traded(orders)[i]
  BY <1>3, <1>4, SumChange
<1>6. Traded(orders')[i] = orders'[i].traded /\ Traded(orders)[i] = orders[i].traded
  BY <1>2 DEF Traded, Ids
<1>7. Net' = Lot - SumFunctionOnSet(Traded(orders'), Ids)
  BY <1>2, NetSum DEF Net, Traded, SumFunction, Ids
<1>8. SumFunctionOnSet(Traded(orders), Ids) \in Int /\ orders'[i].traded \in Int /\ orders[i].traded \in Int
  BY <1>3, <1>6, SumStep DEF IntOn
<1>9. QED
  BY <1>5, <1>6, <1>7, <1>8, NetSum, LotAssumption

\* Opening a row does not.
LEMMA NetOpened ==
  ASSUME RowsInv, RowOpened
  PROVE  Net \in Int /\ Net' = Net
<1> DEFINE l == Len(orders')
<1>1. DOMAIN orders' = Ids \cup {l} /\ l \notin Ids /\ orders'[l].traded = 0
  BY DEF RowOpened, Ids
<1>2. IntOn(Traded(orders), Ids)
  BY TradedSums DEF RowsInv, Ids
<1>3. \A j \in Ids : Traded(orders')[j] = Traded(orders)[j]
  BY <1>1 DEF RowOpened, Traded, Ids
<1>4. Traded(orders')[l] = 0
  BY <1>1 DEF Traded
<1> HIDE DEF l
<1>5. SumFunctionOnSet(Traded(orders'), Ids \cup {l}) = SumFunctionOnSet(Traded(orders), Ids) + Traded(orders')[l]
  BY <1>1, <1>2, <1>3, <1>4, SumExtend
<1>6. Net' = Lot - SumFunctionOnSet(Traded(orders'), Ids \cup {l})
  BY <1>1 DEF Net, Traded, SumFunction, Ids
<1>7. SumFunctionOnSet(Traded(orders), Ids) \in Int
  BY <1>2, SumStep
<1>8. QED
  BY <1>4, <1>5, <1>6, <1>7, NetSum, LotAssumption

\* The stacking guard's sum.
LEMMA ClosingSum ==
  ASSUME RowsInv PROVE AlreadyClosing \in Int
<1> DEFINE k == [j \in Ids |-> CloseInflightRemaining(orders[j])]
<1>1. AlreadyClosing = SumFunctionOnSet(k, Ids)
  BY DEF AlreadyClosing, SumFunction
<1>2. ASSUME NEW j \in Ids PROVE k[j] \in Nat
  <2>1. FieldsOK(orders[j]) /\ Sound(orders[j])
    BY RowFacts DEF RowsInv, Ids
  <2>2. QED
    BY <2>1, LotAssumption DEF FieldsOK, Sound, CloseInflightRemaining, Min2
<1> HIDE DEF k
<1>3. QED
  BY <1>1, <1>2, RowFacts, SumNat DEF RowsInv, Ids

\* When the stacking guard counts nothing, nothing is at work.
LEMMA NothingSelling ==
  ASSUME ~Outlives, ~Unstamped, RowsInv, AlreadyClosing <= 0, NEW i \in Ids
  PROVE  ~Selling(i)
<1> DEFINE k == [j \in Ids |-> CloseInflightRemaining(orders[j])]
<1>1. AlreadyClosing = SumFunctionOnSet(k, Ids)
  BY DEF AlreadyClosing, SumFunction
<1>2. ASSUME NEW j \in Ids PROVE k[j] \in Nat /\ (Selling(j) => k[j] # 0)
  <2>1. FieldsOK(orders[j]) /\ Sound(orders[j])
    BY RowFacts DEF RowsInv, Ids
  <2>2. QED
    BY <2>1, LotAssumption DEF FieldsOK, Sound, Selling, Working, CloseInflightRemaining, Min2
<1> HIDE DEF k
<1>3. k[i] <= SumFunctionOnSet(k, Ids)
  BY <1>2, RowFacts, SumAtLeast DEF RowsInv, Ids
<1>4. SumFunctionOnSet(k, Ids) \in Int /\ k[i] \in Nat
  BY <1>2, RowFacts, SumNat DEF RowsInv, Ids
<1>5. k[i] <= 0
  BY <1>1, <1>3, <1>4
<1>6. QED
  BY <1>2, <1>4, <1>5

\* A step on one row preserves LoneInv.
LEMMA LoneRowStep ==
  ASSUME RowsInv, LoneInv, NEW i \in Ids, RowStep(i), Admitted' => Admitted
  PROVE  LoneInv'
<1>0. FieldsOK(orders[i]) /\ Sound(orders[i]) /\ Sound(orders'[i])
  BY RowFacts DEF RowsInv, Ids, RowStep
<1>1. Net \in Int /\ Net' = Net + orders[i].traded - orders'[i].traded
  BY NetStep
<1>2. Ids' = Ids /\ (\A j \in Ids : j # i => orders'[j] = orders[j])
  BY DEF RowStep, Ids
<1>3. orders'[i].qty = orders[i].qty /\ (Working(orders'[i]) => Working(orders[i]))
  BY DEF RowStep
<1>4. \A j \in Ids : Selling(j)' => Selling(j)
  <2> SUFFICES ASSUME NEW j \in Ids, Selling(j)' PROVE Selling(j)
    OBVIOUS
  <2> HIDE DEF Working
  <2>1. QED
    BY <1>2, <1>3 DEF Selling
<1>5. CASE orders'[i].traded = orders[i].traded
  <2>1. Net' = Net
    BY <1>0, <1>1, <1>5, LotAssumption DEF FieldsOK
  <2>2. orders'[i].req = "checked" => orders'[i].qty <= Net
    BY <1>3 DEF RowStep, LoneInv
  <2>3. orders'[i].ib = "live" => orders'[i].qty - orders'[i].traded <= Net
    <3>1. CASE orders[i].ib = "live"
      BY <3>1, <1>3, <1>5 DEF LoneInv
    <3>2. CASE orders[i].req = "checked"
      BY <3>2, <1>0, <1>1, <1>3, <1>5 DEF LoneInv, Sound, FieldsOK
    <3>3. QED
      BY <3>1, <3>2 DEF RowStep
  <2>4. \A j \in Ids : /\ orders'[j].req = "checked" => orders'[j].qty <= Net'
                       /\ orders'[j].ib = "live" => orders'[j].qty - orders'[j].traded <= Net'
    BY <1>2, <2>1, <2>2, <2>3 DEF LoneInv
  <2>5. QED
    BY <1>2, <1>4, <2>1, <2>4 DEF LoneInv
<1>6. CASE orders[i].ib = "live" /\ orders'[i].traded = orders[i].traded + 1
  <2>1. Net' = Net - 1 /\ orders[i].qty - orders[i].traded <= Net /\ orders[i].traded < orders[i].qty
    BY <1>0, <1>1, <1>6, LotAssumption DEF FieldsOK, Sound, LoneInv
  <2>2. Net' >= 0
    BY <1>0, <1>1, <2>1, LotAssumption DEF FieldsOK
  <2>3. orders'[i].req # "checked"
    BY <1>0, <1>6, LotAssumption DEF Sound, FieldsOK
  <2>4. orders'[i].qty - orders'[i].traded <= Net'
    BY <1>0, <1>1, <1>3, <1>6, <2>1, LotAssumption DEF FieldsOK
  <2>5. Selling(i)
    BY <1>0, <1>6 DEF Selling, Sound, Working
  <2>6. ASSUME NEW j \in Ids, j # i PROVE orders[j].req # "checked" /\ orders[j].ib # "live"
    <3>1. ~Selling(j)
      BY <2>5, <2>6 DEF LoneInv
    <3>2. Sound(orders[j])
      BY RowFacts DEF RowsInv, Ids
    <3>3. QED
      BY <3>1, <3>2 DEF Selling, Sound, Working
  <2>7. \A j \in Ids : /\ orders'[j].req = "checked" => orders'[j].qty <= Net'
                       /\ orders'[j].ib = "live" => orders'[j].qty - orders'[j].traded <= Net'
    BY <1>2, <2>3, <2>4, <2>6
  <2>8. QED
    BY <1>2, <1>4, <2>2, <2>7 DEF LoneInv
<1>7. QED
  BY <1>5, <1>6 DEF RowStep

\* So does a step that opens a row, when the guard has let it through.
LEMMA LoneOpened ==
  ASSUME RowsInv, LoneInv, RowOpened, Admitted /\ ~Admitted'
  PROVE  LoneInv'
<1>0. PICK l : l = Len(orders')
  OBVIOUS
<1>1. Ids' = Ids \cup {l} /\ l \notin Ids /\ (\A j \in Ids : orders'[j] = orders[j])
  BY <1>0 DEF RowOpened, Ids
<1>2. orders'[l].ib = "none" /\ orders'[l].req # "checked"
  BY <1>0 DEF RowOpened
<1>3. Net \in Int /\ Net' = Net
  BY NetOpened
<1>4. \A j \in Ids : ~Selling(j)'
  BY <1>1 DEF Selling, LoneInv
<1>5. \A i, j \in Ids' : Selling(i)' /\ Selling(j)' => i = j
  BY <1>1, <1>4
<1>6. \A i \in Ids' : /\ orders'[i].req = "checked" => orders'[i].qty <= Net'
                      /\ orders'[i].ib = "live" => orders'[i].qty - orders'[i].traded <= Net'
  BY <1>1, <1>2, <1>3 DEF LoneInv
<1>7. QED
  BY <1>3, <1>5, <1>6 DEF LoneInv

\* Every step preserves LoneInv.
LEMMA LoneStep ==
  ASSUME ~Outlives, ~Unstamped, ~Partial, NEW c0, Callers = {c0},
         BooksInv, mirror \in Nat, LoneInv, [Next]_vars
  PROVE  LoneInv'
<1>0. RowsInv
  BY DEF BooksInv
<1>1. CASE QuietStep \/ RequestDies
  <2>1. UNCHANGED orders /\ (Admitted' => Admitted)
    BY <1>1 DEF QuietStep, RequestDies, CallsEnd, Admitted, Idle
  <2>2. QED
    BY <2>1 DEF LoneInv, Selling, Ids, Net
<1>2. CASE OrderStep
  <2>1. PICK i \in Ids : RowStep(i)
    BY <1>2 DEF OrderStep
  <2>2. Admitted' => Admitted
    BY <1>2 DEF OrderStep, CallsEnd, Admitted, Idle
  <2>3. QED
    BY <1>0, <2>1, <2>2, LoneRowStep
<1>3. ASSUME NEW c \in Callers, Admit(c) PROVE LoneInv'
  <2>1. PICK q \in 1..Lot : (Partial \/ q = mirror) /\ AlreadyClosing + q <= mirror
    BY <1>3 DEF Admit
  <2>2. AlreadyClosing <= 0
    <3>1. AlreadyClosing \in Int
      BY <1>0, ClosingSum
    <3>2. QED
      BY <2>1, <3>1
  <2>3. \A i \in Ids : ~Selling(i)
    BY <1>0, <2>2, NothingSelling
  <2>4. orders' = orders
    BY <1>3 DEF Admit
  <2>5. Ids' = Ids /\ Net' = Net /\ \A i \in Ids : ~Selling(i)'
    BY <2>3, <2>4 DEF Ids, Net, Selling
  <2>6. QED
    BY <2>4, <2>5 DEF LoneInv
<1>4. ASSUME NEW c \in Callers, OperatorOpens(c) PROVE LoneInv'
  <2>1. c = c0 /\ Admitted /\ ~Admitted'
    BY <1>4 DEF OperatorOpens, Admitted, BooksInv, CallType
  <2>2. QED
    BY <1>0, <1>4, <2>1, LoneOpened DEF OperatorOpens
<1>5. QED
  BY <1>1, <1>2, <1>3, <1>4, Kinds

\* position_sync writes a quantity.
LEMMA MirrorStep ==
  ASSUME BooksInv, mirror \in Nat, [Next]_vars
  PROVE  mirror' \in Nat
<1>1. CASE SyncMirror
  <2>1. Net \in Int
    <3>1. IntOn(Traded(orders), Ids)
      BY TradedSums DEF BooksInv, RowsInv, Ids
    <3>2. QED
      BY <3>1, SumStep, NetSum, LotAssumption
  <2>2. QED
    BY <1>1, <2>1 DEF SyncMirror
<1>2. ASSUME UNCHANGED mirror PROVE mirror' \in Nat
  BY <1>2
<1>3. ASSUME NEW i \in Ids, \/ ClosePositionBySymbol(i)
                            \/ IbTrades(i) \/ IbCancels(i) \/ PersistFill(i) \/ PersistCancel(i)
                            \/ CompleteStructure(i) \/ Finalise(i) \/ Reap(i) \/ Age(i)
      PROVE  UNCHANGED mirror
  <2>1. CASE ClosePositionBySymbol(i)
    BY <2>1 DEF ClosePositionBySymbol, EngineCheck, EngineRefuse, EnginePlace, EngineStampFails
  <2>2. CASE IbTrades(i) \/ IbCancels(i) \/ PersistFill(i) \/ PersistCancel(i)
    BY <2>2 DEF IbTrades, IbCancels, PersistFill, PersistCancel
  <2>3. CASE CompleteStructure(i) \/ Finalise(i) \/ Reap(i) \/ Age(i)
    BY <2>3 DEF CompleteStructure, Finalise, Reap, Age
  <2>4. QED
    BY <1>3, <2>1, <2>2, <2>3
<1>4. ASSUME NEW c \in Callers, \/ Admit(c) \/ InsertClose(c) \/ CloseRefused(c)
                                \/ CloseTimesOut(c) \/ CloseAccepted(c) \/ CloseDies(c)
      PROVE  UNCHANGED mirror
  BY <1>4 DEF Admit, InsertClose, CloseRefused, CloseTimesOut, CloseAccepted, CloseDies
<1>5. ASSUME \/ UNCHANGED vars \/ CloseManual \/ ReconcileFlat \/ CooldownsPass
             \/ \E w \in {"manual", "reconcile"} : ReadPosition(w)
      PROVE  UNCHANGED mirror
  BY <1>5 DEF vars, closeVars, CloseManual, ReconcileFlat, CooldownsPass, ReadPosition
<1>6. ASSUME NEW m \in Monitors,
             \/ CycleReads(m) \/ MonitorOne(m) \/ Commit(m) \/ CommitFails(m)
             \/ DispatchHedges(m) \/ InitiateClose(m) \/ CycleEnds(m)
      PROVE  UNCHANGED mirror
  <2>1. CASE MonitorOne(m)
    BY <2>1 DEF MonitorOne
  <2>2. QED
    BY <1>6, <2>1 DEF CycleReads, Commit, CommitFails, DispatchHedges, InitiateClose, CycleEnds, closeVars
<1>7. ASSUME NEW h \in DOMAIN hedges, SubmitHedge(h) \/ IbHedge(h) \/ FinaliseHedge(h)
      PROVE  UNCHANGED mirror
  BY <1>7 DEF SubmitHedge, IbHedge, FinaliseHedge, closeVars
<1>8. QED
  BY <1>1, <1>2, <1>3, <1>4, <1>5, <1>6, <1>7 DEF Next, CloseNext

\* LoneInv is enough for NoOverClose.
LEMMA LoneSells ==
  ASSUME RowsInv, LoneInv PROVE NoOverClose
<1> DEFINE l == [i \in Ids |-> IF orders[i].ib = "live" THEN orders[i].qty - orders[i].traded ELSE 0]
<1>1. LiveQty = SumFunctionOnSet(l, Ids)
  BY DEF LiveQty, SumFunction
<1>2. IsFiniteSet(Ids)
  BY RowFacts DEF RowsInv, Ids
<1>3. CASE \A i \in Ids : orders[i].ib # "live"
  <2>1. \A i \in Ids : l[i] = 0
    BY <1>3
  <2> HIDE DEF l
  <2>2. LiveQty = 0
    BY <1>1, <1>2, <2>1, SumZero
  <2>3. QED
    BY <2>2 DEF NoOverClose, LoneInv
<1>4. ASSUME NEW i \in Ids, orders[i].ib = "live" PROVE NoOverClose
  <2>1. \A j \in Ids : Sound(orders[j]) /\ FieldsOK(orders[j])
    BY RowFacts DEF RowsInv, Ids
  <2>2. \A j \in Ids : orders[j].ib = "live" => Selling(j)
    BY <2>1 DEF Sound, Selling, Working
  <2>3. \A j \in Ids \ {i} : l[j] = 0
    BY <1>4, <2>2 DEF LoneInv
  <2>4. l[i] = orders[i].qty - orders[i].traded /\ l[i] \in Int
    BY <1>4, <2>1, LotAssumption DEF FieldsOK
  <2> HIDE DEF l
  <2>5. LiveQty = l[i]
    BY <1>1, <1>2, <2>3, <2>4, SumOne
  <2>6. QED
    BY <1>4, <2>4, <2>5 DEF NoOverClose, LoneInv
<1>5. QED
  BY <1>3, <1>4

\* With one request at a time and closes of the whole mirror row, what is live at IB
\* never exceeds what IB holds, for any lot, any staleness of the mirror and any crash of
\* the API, as long as every placement is stamped and no close outlives the window
\* (close_one_open_position's guard and the engine's check in close_position_by_symbol
\* together).  A placement whose stamp fails leads to a second live close: that
\* hypothesis cannot go.
THEOREM NoOverCloseHolds ==
  ASSUME ~Outlives, ~Unstamped, ~Partial, NEW c0, Callers = {c0} PROVE Spec => []NoOverClose
<1>1. Init => LoneInv
  <2> SUFFICES ASSUME Init PROVE LoneInv
    OBVIOUS
  <2>1. Ids = {} /\ ~Admitted
    BY DEF Init, CloseInit, Ids, Admitted, Idle
  <2>2. Net = Lot
    BY <2>1, SumEmpty, NetSum, LotAssumption
  <2>3. QED
    BY <2>1, <2>2, LotAssumption DEF LoneInv
<1>2. BooksInv /\ mirror \in Nat /\ LoneInv /\ [Next]_vars => LoneInv'
  BY LoneStep
<1>3. BooksInv /\ LoneInv => NoOverClose
  BY LoneSells DEF BooksInv
<1>4. Spec => [](mirror \in Nat)
  <2>1. Init => mirror \in Nat
    BY LotAssumption DEF Init, CloseInit
  <2>2. BooksInv /\ mirror \in Nat /\ [Next]_vars => (mirror \in Nat)'
    BY MirrorStep
  <2>3. QED
    BY <2>1, <2>2, BooksAlways, PTL DEF Spec
<1>5. QED
  BY <1>1, <1>2, <1>3, <1>4, BooksAlways, PTL DEF Spec

-----------------------------------------------------------------------------
(* Alerts *)

\* The rules that stage alerts.
RuleNames == {"signal_reverse", "time_based", "stop_loss_vega", "time_to_expiry_critical",
              "pre_event_regime"}

\* Among five priorities one is the first of the greatest.
LEMMA Winner ==
  ASSUME NEW p \in [1..5 -> Int]
  PROVE  \E i \in 1..5 : /\ \A j \in 1..5 : p[j] <= p[i]
                         /\ \A j \in 1..(i - 1) : p[j] < p[i]
<1>1. PICK m \in 1..5 : \A j \in 1..5 : p[j] <= p[m]
  OBVIOUS
<1>2. CASE p[1] = p[m]
  BY <1>1, <1>2
<1>3. CASE p[1] # p[m] /\ p[2] = p[m]
  BY <1>1, <1>3
<1>4. CASE p[1] # p[m] /\ p[2] # p[m] /\ p[3] = p[m]
  BY <1>1, <1>4
<1>5. CASE p[1] # p[m] /\ p[2] # p[m] /\ p[3] # p[m] /\ p[4] = p[m]
  BY <1>1, <1>5
<1>6. CASE p[1] # p[m] /\ p[2] # p[m] /\ p[3] # p[m] /\ p[4] # p[m]
  BY <1>1, <1>6
<1>7. QED
  BY <1>2, <1>3, <1>4, <1>5, <1>6

\* What each rule may decide.
LEMMA RuleFacts ==
  ASSUME NEW ctx
  PROVE  /\ SignalReverseRule(ctx) \in {NoDecision, ExitBy("signal_reverse", 4), [rule |-> "signal_reverse", action |-> "TRIM", priority |-> 3]}
         /\ TimeBasedRule(ctx) \in {NoDecision, ExitBy("time_based", 2)}
         /\ StopLossVegaRule(ctx) \in {NoDecision, ExitBy("stop_loss_vega", 3)}
         /\ TimeToExpiryCriticalRule(ctx) = IF ctx.days < 7 THEN ExitBy("time_to_expiry_critical", 5) ELSE NoDecision
         /\ PreEventRegimeRule(ctx) = IF ctx.regime = "pre_event" THEN ExitBy("pre_event_regime", 6) ELSE NoDecision
BY DEF SignalReverseRule, TimeBasedRule, StopLossVegaRule, TimeToExpiryCriticalRule, PreEventRegimeRule

\* pick_winning_decision over evaluate_all_rules: an urgent context is an exit.
LEMMA WinningDecision ==
  ASSUME NEW ctx
  PROVE  LET w == PickWinningDecision(EvaluateAllRules(ctx)) IN
         /\ w # NoDecision => w.rule \in RuleNames /\ w.action \in {"EXIT", "TRIM"}
         /\ ctx.regime = "pre_event" \/ ctx.days < 7 => w.action = "EXIT"
<1> DEFINE d == EvaluateAllRules(ctx)
           p == [i \in 1..5 |-> d[i].priority]
           P(i) == /\ \A j \in DOMAIN d : d[j].priority <= d[i].priority
                   /\ \A j \in 1..(i - 1) : d[j].priority < d[i].priority
           i == CHOOSE k \in DOMAIN d : P(k)
<1>1. DOMAIN d = 1..5
  BY DEF EvaluateAllRules
<1>2. /\ d[1] = SignalReverseRule(ctx) /\ d[2] = TimeBasedRule(ctx) /\ d[3] = StopLossVegaRule(ctx)
      /\ d[4] = TimeToExpiryCriticalRule(ctx) /\ d[5] = PreEventRegimeRule(ctx)
  BY DEF EvaluateAllRules
<1>3. PickWinningDecision(d) = d[i]
  BY DEF PickWinningDecision
<1> HIDE DEF d
<1>4. /\ d[1] \in {NoDecision, ExitBy("signal_reverse", 4), [rule |-> "signal_reverse", action |-> "TRIM", priority |-> 3]}
      /\ d[2] \in {NoDecision, ExitBy("time_based", 2)}
      /\ d[3] \in {NoDecision, ExitBy("stop_loss_vega", 3)}
      /\ d[4] = IF ctx.days < 7 THEN ExitBy("time_to_expiry_critical", 5) ELSE NoDecision
      /\ d[5] = IF ctx.regime = "pre_event" THEN ExitBy("pre_event_regime", 6) ELSE NoDecision
  BY <1>2, RuleFacts
<1>5. \A j \in 1..5 : d[j].priority \in Int
  BY <1>4 DEF NoDecision, ExitBy
<1>6. \E k \in 1..5 : P(k)
  <2>0. \A k \in 1..5 : \A j \in 1..(k - 1) : j \in 1..5
    OBVIOUS
  <2>1. p \in [1..5 -> Int]
    BY <1>5
  <2>2. \E k \in 1..5 : /\ \A j \in 1..5 : p[j] <= p[k]
                        /\ \A j \in 1..(k - 1) : p[j] < p[k]
    BY <2>1, Winner
  <2>3. PICK k \in 1..5 : /\ \A j \in 1..5 : p[j] <= p[k]
                          /\ \A j \in 1..(k - 1) : p[j] < p[k]
    BY <2>2
  <2>4. \A j \in DOMAIN d : d[j].priority <= d[k].priority
    BY <2>3, <1>1
  <2>5. \A j \in 1..(k - 1) : d[j].priority < d[k].priority
    BY <2>0, <2>3
  <2>6. QED
    BY <2>3, <2>4, <2>5
<1>7. i \in 1..5 /\ P(i)
  BY <1>1, <1>6, Zenon
<1> HIDE DEF i
<1>8. d[i] # NoDecision => d[i].rule \in RuleNames /\ d[i].action \in {"EXIT", "TRIM"}
  <2> DEFINE G(e) == e # NoDecision => e.rule \in RuleNames /\ e.action \in {"EXIT", "TRIM"}
  <2>1. G(d[1])
    BY <1>4 DEF NoDecision, ExitBy, RuleNames
  <2>2. G(d[2])
    BY <1>4 DEF NoDecision, ExitBy, RuleNames
  <2>3. G(d[3])
    BY <1>4 DEF NoDecision, ExitBy, RuleNames
  <2>4. G(d[4])
    BY <1>4 DEF NoDecision, ExitBy, RuleNames
  <2>5. G(d[5])
    BY <1>4 DEF NoDecision, ExitBy, RuleNames
  <2> HIDE DEF G
  <2>6. i = 1 \/ i = 2 \/ i = 3 \/ i = 4 \/ i = 5
    BY <1>7
  <2>7. G(d[i])
    BY <2>1, <2>2, <2>3, <2>4, <2>5, <2>6
  <2>8. QED
    BY <2>7 DEF G
<1>9. ctx.regime = "pre_event" \/ ctx.days < 7 => d[i].action = "EXIT"
  <2>1. \A j \in 1..5 : d[j].priority <= d[i].priority
    BY <1>1, <1>7
  <2>2. ctx.regime = "pre_event" \/ ctx.days < 7 => d[i].priority >= 5
    BY <2>1, <1>4, <1>5, <1>7 DEF NoDecision, ExitBy
  <2>3. d[i].priority >= 5 => d[i].action = "EXIT"
    BY <1>4, <1>7 DEF NoDecision, ExitBy
  <2>4. QED
    BY <2>2, <2>3
<1>10. QED
  BY <1>3, <1>8, <1>9 DEF d

\* The alerts, what they say when they are urgent, and that none names a closing
\* structure: initiate_position_close, which would write it, never gets that far.
AlertOK(a) == (a.urgent => a.action = "EXIT") /\ a.closing = 0

AlertsInv ==
  /\ alerts \in Seq(AlertType) /\ Len(alerts) <= MaxAlerts
  /\ \A a \in DOMAIN alerts : AlertOK(alerts[a])

\* A step that rewrites alerts without touching what they say.
AlertsRewritten ==
  /\ alerts' = [a \in DOMAIN alerts |-> alerts'[a]]
  /\ \A a \in DOMAIN alerts : /\ alerts'[a] \in AlertType
                              /\ alerts'[a].urgent = alerts[a].urgent
                              /\ alerts'[a].action = alerts[a].action
                              /\ alerts'[a].closing = alerts[a].closing

\* Such a step preserves AlertsInv.
LEMMA Rewriting ==
  ASSUME AlertsInv, AlertsRewritten PROVE AlertsInv'
<1>1. Len(alerts) \in Nat /\ DOMAIN alerts = 1..Len(alerts)
  BY DEF AlertsInv
<1>2. DOMAIN alerts' = 1..Len(alerts)
  BY <1>1 DEF AlertsRewritten
<1> DEFINE n == Len(alerts)
<1>3. alerts' = [a \in 1..n |-> alerts'[a]] /\ \A a \in 1..n : alerts'[a] \in AlertType
  BY <1>1 DEF AlertsRewritten
<1>4. alerts' \in Seq(AlertType) /\ Len(alerts') = Len(alerts)
  <2> HIDE DEF n
  <2>1. n \in Nat
    BY <1>1 DEF n
  <2>2. alerts' \in Seq(AlertType) /\ Len(alerts') = n
    BY <2>1, <1>3
  <2>3. QED
    BY <2>2 DEF n
<1>5. QED
  BY <1>2, <1>4, <1>1 DEF AlertsRewritten, AlertsInv, AlertOK

\* So does a new alert that exits when it is urgent.
LEMMA Staging ==
  ASSUME AlertsInv, Len(alerts) < MaxAlerts, NEW n \in AlertType, AlertOK(n),
         alerts' = Append(alerts, n)
  PROVE  AlertsInv' /\ Len(alerts') = Len(alerts) + 1 /\ Len(alerts') <= MaxAlerts
BY BoundsAssumption DEF AlertsInv

\* A change of status is such a rewriting.
LEMMA StatusRewritten ==
  ASSUME AlertsInv, NEW Q, NEW st \in {"staged", "rolled_back", "none", "in_progress", "done"},
         alerts' = [a \in DOMAIN alerts |-> IF a \in Q THEN [alerts[a] EXCEPT !.status = st] ELSE alerts[a]]
  PROVE  AlertsInv'
<1>1. \A a \in DOMAIN alerts : alerts[a] \in AlertType
  BY DEF AlertsInv
<1>2. AlertsRewritten
  BY <1>1 DEF AlertsRewritten, AlertType
<1>3. QED
  BY <1>2, Rewriting

\* So is the end of a cycle's transaction.
LEMMA SettlingAlerts ==
  ASSUME AlertsInv, NEW m, NEW st \in {"none", "rolled_back"}, alerts' = SettleAlerts(m, st)
  PROVE  AlertsInv'
<1> DEFINE Q == {a \in DOMAIN alerts : alerts[a].by = m /\ alerts[a].status = "staged"}
<1>1. alerts' = [a \in DOMAIN alerts |-> IF a \in Q THEN [alerts[a] EXCEPT !.status = st] ELSE alerts[a]]
  BY DEF SettleAlerts
<1> HIDE DEF Q
<1>2. QED
  BY <1>1, StatusRewritten

\* Every step preserves AlertsInv.
LEMMA AlertsStep ==
  ASSUME AlertsInv, [Next]_vars
  PROVE  AlertsInv'
<1>1. CASE UNCHANGED alerts
  BY <1>1 DEF AlertsInv
<1>2. CASE CloseManual
  <2> DEFINE n == [by |-> "operator", action |-> "EXIT", rule |-> "manual_close",
                   urgent |-> FALSE, recent |-> TRUE, status |-> "in_progress", closing |-> 0]
  <2>1. n \in AlertType /\ AlertOK(n)
    BY BoundsAssumption DEF AlertType, AlertOK
  <2>2. alerts' = Append(alerts, n) /\ Len(alerts) < MaxAlerts
    BY <1>2 DEF CloseManual
  <2> HIDE DEF n
  <2>3. QED
    BY <2>1, <2>2, Staging
<1>3. ASSUME NEW i \in Ids, Finalise(i) PROVE AlertsInv'
  <2> DEFINE Q == {a \in DOMAIN alerts : alerts[a].closing = i /\ alerts[a].status = "in_progress"}
  <2>1. CASE UNCHANGED alerts
    BY <2>1 DEF AlertsInv
  <2>2. CASE alerts' = [a \in DOMAIN alerts |-> IF a \in Q THEN [alerts[a] EXCEPT !.status = "done"] ELSE alerts[a]]
    <3> HIDE DEF Q
    <3>1. QED
      BY <2>2, StatusRewritten
  <2>3. QED
    BY <1>3, <2>1, <2>2 DEF Finalise
<1>4. ASSUME NEW m \in Monitors, MonitorOne(m) PROVE AlertsInv'
  <2>1. PICK ctx \in Contexts : \E covered \in BOOLEAN : MonitorOne(m)!2!(ctx, covered)
    BY <1>4, Zenon DEF MonitorOne
  <2> DEFINE w == PickWinningDecision(EvaluateAllRules(ctx))
             urgent == ctx.regime = "pre_event" \/ ctx.days < 7
             n == [by |-> m, action |-> w.action, rule |-> w.rule, urgent |-> urgent, recent |-> TRUE,
                   status |-> "staged", closing |-> 0]
  <2>2. \/ UNCHANGED alerts
        \/ w # NoDecision /\ Len(alerts) < MaxAlerts /\ alerts' = Append(alerts, n)
    BY <2>1
  <2>3. (w # NoDecision => w.rule \in RuleNames /\ w.action \in {"EXIT", "TRIM"}) /\ (urgent => w.action = "EXIT")
    BY WinningDecision
  <2> HIDE DEF w
  <2>4. urgent \in BOOLEAN
    OBVIOUS
  <2> HIDE DEF urgent
  <2>5. w # NoDecision => n \in AlertType /\ AlertOK(n)
    BY <2>3, <2>4, BoundsAssumption DEF AlertType, AlertOK, RuleNames
  <2> HIDE DEF n
  <2>6. QED
    BY <1>1, <2>2, <2>5, Staging
<1>5. ASSUME NEW m \in Monitors, Commit(m) \/ CommitFails(m) PROVE AlertsInv'
  BY <1>5, SettlingAlerts DEF Commit, CommitFails
<1>6. CASE CooldownsPass
  <2>1. \A a \in DOMAIN alerts : alerts[a] \in AlertType
    BY DEF AlertsInv
  <2>2. ASSUME NEW r \in AlertType
        PROVE  LET u == [r EXCEPT !.recent = FALSE] IN
               u \in AlertType /\ u.urgent = r.urgent /\ u.action = r.action /\ u.closing = r.closing
    BY DEF AlertType
  <2>3. alerts' = [a \in DOMAIN alerts |-> [alerts[a] EXCEPT !.recent = FALSE]]
    BY <1>6 DEF CooldownsPass
  <2>4. AlertsRewritten
    BY <2>1, <2>2, <2>3 DEF AlertsRewritten
  <2>5. QED
    BY <2>4, Rewriting
<1>7. ASSUME NEW c \in Callers, \/ Admit(c) \/ InsertClose(c) \/ CloseRefused(c)
                                \/ CloseTimesOut(c) \/ CloseAccepted(c) \/ CloseDies(c)
      PROVE  AlertsInv'
  BY <1>1, <1>7 DEF Admit, InsertClose, CloseRefused, CloseTimesOut, CloseAccepted, CloseDies
<1>8. ASSUME NEW i \in Ids, \/ ClosePositionBySymbol(i)
                            \/ IbTrades(i) \/ IbCancels(i) \/ PersistFill(i) \/ PersistCancel(i)
                            \/ CompleteStructure(i) \/ Finalise(i) \/ Reap(i) \/ Age(i)
      PROVE  AlertsInv'
  <2>1. CASE ClosePositionBySymbol(i)
    BY <1>1, <2>1 DEF ClosePositionBySymbol, EngineCheck, EngineRefuse, EnginePlace, EngineStampFails
  <2>2. CASE IbTrades(i) \/ IbCancels(i) \/ PersistFill(i) \/ PersistCancel(i)
    BY <1>1, <2>2 DEF IbTrades, IbCancels, PersistFill, PersistCancel
  <2>3. CASE CompleteStructure(i) \/ Reap(i) \/ Age(i)
    BY <1>1, <2>3 DEF CompleteStructure, Reap, Age
  <2>4. QED
    BY <1>3, <1>8, <2>1, <2>2, <2>3
<1>9. ASSUME \/ UNCHANGED vars \/ ReconcileFlat \/ SyncMirror
             \/ \E w \in {"manual", "reconcile"} : ReadPosition(w)
      PROVE  AlertsInv'
  BY <1>1, <1>9 DEF vars, closeVars, ReconcileFlat, SyncMirror, ReadPosition
<1>10. ASSUME NEW m \in Monitors, CycleReads(m) \/ DispatchHedges(m) \/ InitiateClose(m) \/ CycleEnds(m)
       PROVE  AlertsInv'
  BY <1>1, <1>10 DEF CycleReads, DispatchHedges, InitiateClose, CycleEnds, closeVars
<1>11. ASSUME NEW h \in DOMAIN hedges, SubmitHedge(h) \/ IbHedge(h) \/ FinaliseHedge(h)
       PROVE  AlertsInv'
  BY <1>1, <1>11 DEF SubmitHedge, IbHedge, FinaliseHedge, closeVars
<1>12. QED
  BY <1>2, <1>4, <1>5, <1>6, <1>7, <1>8, <1>9, <1>10, <1>11 DEF Next, CloseNext

\* An alert staged when regime or expiry is urgent says EXIT, in every context the
\* rules can read (pick_winning_decision).
THEOREM UrgentAlertExitsHolds == Spec => []UrgentAlertExits
<1>1. Init => AlertsInv
  BY BoundsAssumption DEF Init, CloseInit, AlertsInv
<1>2. AlertsInv /\ [Next]_vars => AlertsInv'
  BY AlertsStep
<1>3. AlertsInv => UrgentAlertExits
  BY DEF AlertsInv, AlertOK, UrgentAlertExits
<1>4. QED
  BY <1>1, <1>2, <1>3, PTL DEF Spec

-----------------------------------------------------------------------------
(* Hedges *)

\* Rounding half to even: what a hedge leaves is no hedge any more, and no larger than
\* what it answered.
LEMMA Rounding ==
  ASSUME NEW n \in Int
  PROVE  /\ RoundHalves(n) \in Int
         /\ n - 2 * RoundHalves(n) \in {-1, 0, 1}
         /\ RoundHalves(n - 2 * RoundHalves(n)) = 0
         /\ Abs(n - 2 * RoundHalves(n)) <= Abs(n)
<1>1. PICK q \in Int, r \in 0..1 : n = 2 * q + r /\ n \div 2 = q /\ n % 2 = r
  OBVIOUS
<1>2. PICK k \in Int, u \in 0..1 : q = 2 * k + u /\ q % 2 = u
  OBVIOUS
<1>3. RoundHalves(n) = IF r = 0 THEN q ELSE q + u
  BY <1>1, <1>2 DEF RoundHalves
<1>4. n - 2 * RoundHalves(n) \in {-1, 0, 1} /\ RoundHalves(n) \in Int
  BY <1>1, <1>2, <1>3
<1>5. RoundHalves(-1) = 0 /\ RoundHalves(0) = 0 /\ RoundHalves(1) = 0
  BY DEF RoundHalves
<1>6. Abs(n - 2 * RoundHalves(n)) <= Abs(n)
  <2>1. CASE n = 0
    BY <2>1, <1>5 DEF Abs
  <2>2. CASE n # 0
    BY <2>2, <1>4 DEF Abs
  <2>3. QED
    BY <2>1, <2>2
<1>7. QED
  BY <1>4, <1>5, <1>6

\* The hedge rows.
HedgesInv ==
  /\ hedges \in Seq(HedgeType) /\ Len(hedges) <= MaxHedges
  /\ delta \in Int

\* What row h adds to the hedges in flight.
InFlightOf(h) == IF hedges[h].state \in {"pending", "submitted"} THEN hedges[h].qty ELSE 0

\* The hedge rows are finitely many and typed, and those in flight can be summed.
LEMMA HedgeFacts ==
  ASSUME HedgesInv
  PROVE  /\ IsFiniteSet(DOMAIN hedges)
         /\ \A h \in DOMAIN hedges : hedges[h].qty \in Int /\ hedges[h] \in HedgeType
         /\ InFlightHedges = SumFunctionOnSet([h \in DOMAIN hedges |-> InFlightOf(h)], DOMAIN hedges)
         /\ InFlightHedges \in Int
<1>1. DOMAIN hedges = 1..Len(hedges) /\ Len(hedges) \in Nat /\ IsFiniteSet(1..Len(hedges))
  BY FS_Interval DEF HedgesInv
<1>2. \A h \in DOMAIN hedges : hedges[h] \in HedgeType
  BY DEF HedgesInv
<1>3. \A h \in DOMAIN hedges : hedges[h].qty \in Int
  BY <1>2 DEF HedgeType
<1> DEFINE f == [h \in DOMAIN hedges |-> InFlightOf(h)]
<1>4. InFlightHedges = SumFunctionOnSet(f, DOMAIN hedges)
  BY DEF InFlightHedges, InFlightOf, SumFunction
<1>5. IntOn(f, DOMAIN hedges)
  BY <1>1, <1>3 DEF IntOn, InFlightOf
<1> HIDE DEF f
<1>6. InFlightHedges \in Int
  BY <1>4, <1>5, SumStep
<1>7. QED
  BY <1>1, <1>2, <1>3, <1>4, <1>6 DEF f

\* A step that moves hedge rows on, and none of them back.
HedgesRewritten ==
  /\ hedges' = [h \in DOMAIN hedges |-> hedges'[h]]
  /\ \A h \in DOMAIN hedges :
       /\ hedges'[h] \in HedgeType
       /\ hedges'[h].qty = hedges[h].qty /\ hedges'[h].by = hedges[h].by
       /\ hedges'[h].state = "staged" => hedges[h].state = "staged"
       /\ hedges'[h].state \in {"staged", "pending", "submitted"}
            => hedges[h].state \in {"staged", "pending", "submitted"}

\* PutHedge as the hedge orders use it is such a step.
LEMMA HedgePut ==
  ASSUME HedgesInv, NEW h \in DOMAIN hedges, NEW ch, PutHedge(h, ch),
         DOMAIN ch \subseteq {"state", "ib", "posted"},
         "state" \in DOMAIN ch => ch.state \in {"submitted", "filled", "failed"},
         "ib" \in DOMAIN ch => ch.ib \in {"live", "filled", "cancelled"},
         "posted" \in DOMAIN ch => ch.posted = FALSE,
         hedges[h].state \in {"pending", "submitted"} \/ "state" \notin DOMAIN ch
  PROVE  HedgesRewritten
<1>1. \A g \in DOMAIN hedges : hedges[g] \in HedgeType
  BY HedgeFacts
<1>2. DOMAIN hedges[h] = {"by", "qty", "state", "ib", "posted"}
  BY <1>1 DEF HedgeType
<1> DEFINE n == [f \in {"by", "qty", "state", "ib", "posted"} |-> IF f \in DOMAIN ch THEN ch[f] ELSE hedges[h][f]]
<1>3. hedges' = [hedges EXCEPT ![h] = n]
  BY <1>2 DEF PutHedge
<1>4. /\ n \in HedgeType /\ n.qty = hedges[h].qty /\ n.by = hedges[h].by
      /\ n.state = "staged" => hedges[h].state = "staged"
      /\ n.state \in {"staged", "pending", "submitted"}
            => hedges[h].state \in {"staged", "pending", "submitted"}
  BY <1>1 DEF HedgeType
<1> HIDE DEF n
<1>5. QED
  BY <1>1, <1>3, <1>4 DEF HedgesRewritten

\* A monitor instance.
CycleType == [pc : {"idle", "read", "staged", "dispatch", "initiate"},
              closes : Seq(1..MaxAlerts), hedge : Seq(1..MaxHedges)]

\* A hedge is staged only inside its instance's transaction.
CycleInv ==
  /\ HedgesInv
  /\ cycle \in [Monitors -> CycleType]
  /\ \A h \in DOMAIN hedges : hedges[h].state = "staged" => cycle[hedges[h].by].pc = "staged"

\* The hedge MonitorOne finds due; and the step that stages it.
HedgeQty(covered) ==
  CheckDeltaHedgeNeeded(NetPendingHedgeDelta(DeltaUnhedged(PricePosition(covered)), InFlightHedges), cooling, 1)

HedgeStaged(m) ==
  \E covered \in BOOLEAN :
    /\ HedgeQty(covered) # 0 /\ Len(hedges) < MaxHedges
    /\ hedges' = Append(hedges, [by |-> m, qty |-> HedgeQty(covered), state |-> "staged",
                                 ib |-> "none", posted |-> FALSE])
    /\ cycle[m].pc = "read" /\ cycle'[m].pc = "staged"

\* It is the rounded imbalance, or none.
LEMMA HedgeQtyFacts ==
  ASSUME HedgesInv, NEW covered \in BOOLEAN
  PROVE  /\ HedgeQty(covered) \in Int
         /\ HedgeQty(covered) \in {0, -RoundHalves(delta + 2 * InFlightHedges)}
         /\ RoundHalves(delta + 2 * InFlightHedges) = 0 => HedgeQty(covered) = 0
<1>1. delta \in Int /\ InFlightHedges \in Int /\ delta # NoDelta
  BY HedgeFacts, NoDeltaAssumption DEF HedgesInv
<1> DEFINE d == DeltaUnhedged(PricePosition(covered))
           n == NetPendingHedgeDelta(d, InFlightHedges)
<1>2. d = delta \/ d = NoDelta
  BY DEF DeltaUnhedged, PricePosition
<1>3. n = delta + 2 * InFlightHedges \/ n = NoDelta
  BY <1>1, <1>2 DEF NetPendingHedgeDelta
<1> HIDE DEF n
<1>4. HedgeQty(covered) = 0 \/ (n # NoDelta /\ HedgeQty(covered) = -RoundHalves(n))
  BY DEF HedgeQty, CheckDeltaHedgeNeeded, n
<1>5. delta + 2 * InFlightHedges \in Int
  BY <1>1
<1>6. RoundHalves(delta + 2 * InFlightHedges) \in Int
  BY <1>5, Rounding
<1>7. QED
  BY <1>3, <1>4, <1>6

\* Append stays in Seq.
LEMMA Longer ==
  ASSUME NEW S, NEW s \in Seq(S), NEW e \in S
  PROVE  Append(s, e) \in Seq(S)
OBVIOUS

\* MonitorOne on hedges and cycles.
LEMMA MonitorCycles ==
  ASSUME AlertsInv, CycleInv, NEW m \in Monitors, MonitorOne(m)
  PROVE  /\ UNCHANGED hedges \/ HedgeStaged(m)
         /\ cycle' \in [Monitors -> CycleType]
         /\ cycle[m].pc = "read" /\ cycle'[m].pc = "staged"
         /\ \A k \in Monitors : k # m => cycle'[k] = cycle[k]
<1>1. PICK ctx \in Contexts, covered \in BOOLEAN : MonitorOne(m)!2!(ctx, covered)
  BY Zenon DEF MonitorOne
<1> DEFINE w == PickWinningDecision(EvaluateAllRules(ctx))
           urgent == ctx.regime = "pre_event" \/ ctx.days < 7
           alert == scenario # "hedge" /\ w # NoDecision /\ ~RecentAlertExists(w.rule)
           q == HedgeQty(covered)
           al == IF alert /\ w.action = "EXIT" THEN Append(cycle[m].closes, Len(alerts')) ELSE cycle[m].closes
           hl == IF q # 0 THEN Append(cycle[m].hedge, Len(hedges')) ELSE cycle[m].hedge
<1>2. /\ q # 0 => Len(hedges) < MaxHedges
      /\ hedges' = IF q # 0 THEN Append(hedges, [by |-> m, qty |-> q, state |-> "staged", ib |-> "none", posted |-> FALSE])
                   ELSE hedges
      /\ cycle' = [cycle EXCEPT ![m].pc = "staged", ![m].closes = al, ![m].hedge = hl]
  BY <1>1 DEF HedgeQty, CycleInv, CycleType
<1>3. alert => Len(alerts) < MaxAlerts /\ Len(alerts') = Len(alerts) + 1
  BY <1>1 DEF AlertsInv
<1>4. cycle[m] \in CycleType /\ cycle[m].pc = "read"
  BY DEF CycleInv, MonitorOne
<1> HIDE DEF w, alert, q
<1>5. al \in Seq(1..MaxAlerts)
  <2>1. alert => Len(alerts') \in 1..MaxAlerts
    BY <1>3, BoundsAssumption DEF AlertsInv
  <2>2. cycle[m].closes \in Seq(1..MaxAlerts)
    BY <1>4 DEF CycleType
  <2>3. QED
    BY <2>1, <2>2, Longer
<1>6. hl \in Seq(1..MaxHedges)
  <2>1. q # 0 => Len(hedges') \in 1..MaxHedges
    BY <1>2, HedgeBoundAssumption DEF CycleInv, HedgesInv
  <2>2. cycle[m].hedge \in Seq(1..MaxHedges)
    BY <1>4 DEF CycleType
  <2>3. QED
    BY <2>1, <2>2, Longer
<1> HIDE DEF al, hl
<1>7. /\ cycle' \in [Monitors -> CycleType] /\ cycle'[m].pc = "staged"
      /\ \A k \in Monitors : k # m => cycle'[k] = cycle[k]
  BY <1>2, <1>4, <1>5, <1>6 DEF CycleInv, CycleType
<1>8. UNCHANGED hedges \/ HedgeStaged(m)
  BY <1>2, <1>4, <1>7 DEF HedgeStaged, q
<1>9. QED
  BY <1>4, <1>7, <1>8

\* The end of a transaction moves the staged hedges on.
LEMMA Settling ==
  ASSUME CycleInv, NEW m \in Monitors, NEW st \in {"pending", "rolled_back"}, hedges' = SettleHedges(m, st)
  PROVE  /\ HedgesRewritten
         /\ \A h \in DOMAIN hedges : hedges[h].by = m => hedges'[h].state # "staged"
<1>1. \A h \in DOMAIN hedges : hedges[h] \in HedgeType
  BY HedgeFacts DEF CycleInv
<1>2. ASSUME NEW r \in HedgeType
      PROVE  LET u == [r EXCEPT !.state = st] IN
             u \in HedgeType /\ u.qty = r.qty /\ u.by = r.by /\ u.state = st
  BY DEF HedgeType
<1>3. hedges' = [h \in DOMAIN hedges |-> IF hedges[h].by = m /\ hedges[h].state = "staged"
                                          THEN [hedges[h] EXCEPT !.state = st] ELSE hedges[h]]
  BY DEF SettleHedges
<1>4. QED
  BY <1>1, <1>2, <1>3 DEF HedgesRewritten

\* The other steps of a cycle.
LEMMA OtherCycles ==
  ASSUME CycleInv, NEW m \in Monitors,
         CycleReads(m) \/ Commit(m) \/ CommitFails(m) \/ DispatchHedges(m) \/ InitiateClose(m) \/ CycleEnds(m)
  PROVE  /\ cycle' \in [Monitors -> CycleType]
         /\ \A k \in Monitors : k # m => cycle'[k] = cycle[k]
         /\ UNCHANGED hedges \/ HedgesRewritten
         /\ \A h \in DOMAIN hedges : hedges[h].by = m => hedges'[h].state # "staged"
<1>0. cycle[m] \in CycleType /\ cycle \in [Monitors -> CycleType]
  BY DEF CycleInv
<1>1. CASE CycleReads(m) \/ CycleEnds(m)
  <2>1. cycle[m].pc # "staged" /\ UNCHANGED hedges
    BY <1>1 DEF CycleReads, CycleEnds
  <2>2. PICK p \in {"read", "idle"} : cycle' = [cycle EXCEPT ![m].pc = p]
    BY <1>1 DEF CycleReads, CycleEnds
  <2>3. QED
    BY <1>0, <2>1, <2>2 DEF CycleInv, CycleType
<1>2. CASE Commit(m) \/ CommitFails(m)
  <2>1. PICK p \in {"dispatch", "idle"} : cycle' = [cycle EXCEPT ![m].pc = p]
    BY <1>2 DEF Commit, CommitFails
  <2>2. cycle' \in [Monitors -> CycleType] /\ \A k \in Monitors : k # m => cycle'[k] = cycle[k]
    BY <1>0, <2>1 DEF CycleType
  <2>3. QED
    BY <1>2, <2>2, Settling DEF Commit, CommitFails
<1>3. CASE DispatchHedges(m)
  <2>1. cycle' = [cycle EXCEPT ![m].pc = "initiate", ![m].hedge = <<>>] /\ cycle[m].pc = "dispatch"
    BY <1>3 DEF DispatchHedges
  <2>2. cycle' \in [Monitors -> CycleType] /\ \A k \in Monitors : k # m => cycle'[k] = cycle[k]
    <3>1. <<>> \in Seq(1..MaxHedges)
      OBVIOUS
    <3>2. QED
      BY <1>0, <2>1, <3>1 DEF CycleType
  <2>3. PICK reached : hedges' = [h \in DOMAIN hedges |-> IF h \in reached THEN [hedges[h] EXCEPT !.posted = TRUE] ELSE hedges[h]]
    BY <1>3 DEF DispatchHedges
  <2>4. \A h \in DOMAIN hedges : hedges[h] \in HedgeType
    BY HedgeFacts DEF CycleInv
  <2>5. ASSUME NEW r \in HedgeType
        PROVE  LET u == [r EXCEPT !.posted = TRUE] IN
               u \in HedgeType /\ u.qty = r.qty /\ u.by = r.by /\ u.state = r.state
    BY DEF HedgeType
  <2>6. HedgesRewritten /\ \A h \in DOMAIN hedges : hedges'[h].state = hedges[h].state
    BY <2>3, <2>4, <2>5 DEF HedgesRewritten
  <2>7. QED
    BY <2>1, <2>2, <2>6 DEF CycleInv
<1>4. CASE InitiateClose(m)
  <2>1. cycle[m].pc = "initiate" /\ UNCHANGED hedges
    BY <1>4 DEF InitiateClose
  <2>2. cycle[m].closes # <<>> /\ cycle' = [cycle EXCEPT ![m].closes = Tail(cycle[m].closes)]
    BY <1>0, <1>4 DEF InitiateClose, CycleType
  <2>3. Tail(cycle[m].closes) \in Seq(1..MaxAlerts)
    BY <1>0, <2>2 DEF CycleType
  <2>4. QED
    BY <1>0, <2>1, <2>2, <2>3 DEF CycleInv, CycleType
<1>5. QED
  BY <1>1, <1>2, <1>3, <1>4

\* The hedge orders' steps.
LEMMA HedgeOrders ==
  ASSUME CycleInv, NEW h \in DOMAIN hedges, SubmitHedge(h) \/ IbHedge(h) \/ FinaliseHedge(h)
  PROVE  HedgesRewritten /\ UNCHANGED cycle
<1>0. HedgesInv
  BY DEF CycleInv
<1>1. CASE SubmitHedge(h)
  <2>1. CASE PutHedge(h, [state |-> "submitted", ib |-> "live", posted |-> FALSE])
    BY <1>0, <1>1, <2>1, HedgePut DEF SubmitHedge
  <2>2. CASE PutHedge(h, [state |-> "failed", posted |-> FALSE])
    BY <1>0, <1>1, <2>2, HedgePut DEF SubmitHedge
  <2>3. QED
    BY <1>1, <2>1, <2>2 DEF SubmitHedge
<1>2. CASE IbHedge(h)
  <2>1. PICK end \in {"filled", "cancelled"} : PutHedge(h, [ib |-> end])
    BY <1>2 DEF IbHedge
  <2>2. QED
    BY <1>0, <1>2, <2>1, HedgePut DEF IbHedge
<1>3. CASE FinaliseHedge(h)
  <2>1. PutHedge(h, [state |-> "filled"]) /\ hedges[h].state = "submitted"
    BY <1>3 DEF FinaliseHedge
  <2>2. QED
    BY <1>0, <1>3, <2>1, HedgePut DEF FinaliseHedge
<1>4. QED
  BY <1>1, <1>2, <1>3 DEF SubmitHedge, IbHedge, FinaliseHedge

\* The kinds of step, as hedges and cycles see them.
LEMMA HedgeKinds ==
  ASSUME AlertsInv, CycleInv, [Next]_vars
  PROVE  /\ delta' = delta
         /\ \/ UNCHANGED <<hedges, cycle>>
            \/ HedgesRewritten /\ UNCHANGED cycle
            \/ \E m \in Monitors : /\ cycle' \in [Monitors -> CycleType]
                                   /\ \A k \in Monitors : k # m => cycle'[k] = cycle[k]
                                   /\ \/ /\ HedgesRewritten \/ UNCHANGED hedges
                                         /\ \A h \in DOMAIN hedges : hedges[h].by = m => hedges'[h].state # "staged"
                                      \/ UNCHANGED hedges /\ cycle[m].pc = "read"
                                      \/ HedgeStaged(m)
<1>1. delta' = delta
  <2>1. ASSUME NEW m \in Monitors, MonitorOne(m) PROVE delta' = delta
    BY <2>1 DEF MonitorOne
  <2>2. ASSUME NEW m \in Monitors, CycleReads(m) \/ Commit(m) \/ CommitFails(m) PROVE delta' = delta
    BY <2>2 DEF CycleReads, Commit, CommitFails
  <2>3. ASSUME NEW m \in Monitors, DispatchHedges(m) \/ InitiateClose(m) \/ CycleEnds(m) PROVE delta' = delta
    BY <2>3 DEF DispatchHedges, InitiateClose, CycleEnds
  <2>4. ASSUME NEW h \in DOMAIN hedges, SubmitHedge(h) \/ IbHedge(h) \/ FinaliseHedge(h) PROVE delta' = delta
    BY <2>4 DEF SubmitHedge, IbHedge, FinaliseHedge
  <2>5. ASSUME UNCHANGED vars \/ CooldownsPass PROVE delta' = delta
    BY <2>5 DEF vars, CooldownsPass
  <2>6. QED
    BY <2>1, <2>2, <2>3, <2>4, <2>5 DEF Next
<1>2. CASE UNCHANGED vars \/ CooldownsPass \/ (CloseNext /\ UNCHANGED <<delta, hedges, cooling, cycle>>)
  BY <1>1, <1>2 DEF vars, CooldownsPass
<1>3. ASSUME NEW m \in Monitors, MonitorOne(m)
      PROVE  /\ cycle' \in [Monitors -> CycleType] /\ \A k \in Monitors : k # m => cycle'[k] = cycle[k]
             /\ (UNCHANGED hedges /\ cycle[m].pc = "read") \/ HedgeStaged(m)
  BY <1>3, MonitorCycles
<1>4. ASSUME NEW m \in Monitors,
             CycleReads(m) \/ Commit(m) \/ CommitFails(m) \/ DispatchHedges(m) \/ InitiateClose(m) \/ CycleEnds(m)
      PROVE  /\ cycle' \in [Monitors -> CycleType]
             /\ \A k \in Monitors : k # m => cycle'[k] = cycle[k]
             /\ UNCHANGED hedges \/ HedgesRewritten
             /\ \A h \in DOMAIN hedges : hedges[h].by = m => hedges'[h].state # "staged"
  BY <1>4, OtherCycles
<1>5. ASSUME NEW h \in DOMAIN hedges, SubmitHedge(h) \/ IbHedge(h) \/ FinaliseHedge(h)
      PROVE  HedgesRewritten /\ UNCHANGED cycle
  BY <1>5, HedgeOrders
<1>6. QED
  BY <1>1, <1>2, <1>3, <1>4, <1>5 DEF Next

\* A rewriting keeps the hedge rows typed.
LEMMA HedgesRewriting ==
  ASSUME HedgesInv, HedgesRewritten, delta' = delta
  PROVE  HedgesInv' /\ DOMAIN hedges' = DOMAIN hedges
<1> DEFINE n == Len(hedges)
<1>1. n \in Nat /\ DOMAIN hedges = 1..n /\ n <= MaxHedges
  BY DEF HedgesInv
<1> HIDE DEF n
<1>2. hedges' = [a \in 1..n |-> hedges'[a]] /\ \A a \in 1..n : hedges'[a] \in HedgeType
  BY <1>1 DEF HedgesRewritten
<1>3. hedges' \in Seq(HedgeType) /\ Len(hedges') = n /\ DOMAIN hedges' = 1..n
  BY <1>1, <1>2
<1>4. QED
  BY <1>1, <1>3 DEF HedgesInv

\* A staged hedge is a row more.
LEMMA HedgesStaging ==
  ASSUME HedgesInv, NEW m \in Monitors, HedgeStaged(m), delta' = delta
  PROVE  LET l == Len(hedges) + 1 IN
         /\ HedgesInv'
         /\ DOMAIN hedges' = DOMAIN hedges \cup {l}
         /\ \A h \in DOMAIN hedges : hedges'[h] = hedges[h]
         /\ hedges'[l].by = m /\ hedges'[l].state = "staged"
         /\ \E covered \in BOOLEAN : HedgeQty(covered) # 0 /\ hedges'[l].qty = HedgeQty(covered)
<1>1. PICK covered \in BOOLEAN :
    /\ HedgeQty(covered) # 0 /\ Len(hedges) < MaxHedges
    /\ hedges' = Append(hedges, [by |-> m, qty |-> HedgeQty(covered), state |-> "staged",
                                 ib |-> "none", posted |-> FALSE])
  BY DEF HedgeStaged
<1> DEFINE n == [by |-> m, qty |-> HedgeQty(covered), state |-> "staged", ib |-> "none", posted |-> FALSE]
<1>2. n \in HedgeType /\ n.by = m /\ n.state = "staged" /\ n.qty = HedgeQty(covered)
  BY HedgeQtyFacts DEF HedgeType
<1>3. hedges' = Append(hedges, n)
  BY <1>1
<1> HIDE DEF n
<1>4. hedges \in Seq(HedgeType) /\ Len(hedges) \in Nat /\ DOMAIN hedges = 1..Len(hedges)
  BY DEF HedgesInv
<1>5. /\ hedges' \in Seq(HedgeType) /\ Len(hedges') = Len(hedges) + 1
      /\ DOMAIN hedges' = DOMAIN hedges \cup {Len(hedges) + 1}
      /\ \A h \in DOMAIN hedges : hedges'[h] = hedges[h]
      /\ hedges'[Len(hedges) + 1] = n
  BY <1>2, <1>3, <1>4
<1>6. HedgesInv'
  BY <1>1, <1>4, <1>5, HedgeBoundAssumption DEF HedgesInv
<1>7. QED
  BY <1>1, <1>2, <1>5, <1>6

\* Every step preserves CycleInv.
LEMMA CycleStep ==
  ASSUME AlertsInv, CycleInv, [Next]_vars
  PROVE  CycleInv'
<1>0. HedgesInv /\ cycle \in [Monitors -> CycleType] /\ delta' = delta
  BY HedgeKinds DEF CycleInv
<1>1. CASE UNCHANGED <<hedges, cycle>>
  BY <1>0, <1>1 DEF CycleInv, HedgesInv
<1>2. CASE HedgesRewritten /\ UNCHANGED cycle
  <2>1. HedgesInv' /\ DOMAIN hedges' = DOMAIN hedges
    BY <1>0, <1>2, HedgesRewriting
  <2>2. QED
    BY <1>2, <2>1 DEF CycleInv, HedgesRewritten
<1>3. ASSUME NEW m \in Monitors, cycle' \in [Monitors -> CycleType], \A k \in Monitors : k # m => cycle'[k] = cycle[k],
             HedgesRewritten \/ UNCHANGED hedges,
             \A h \in DOMAIN hedges : hedges[h].by = m => hedges'[h].state # "staged"
      PROVE  CycleInv'
  <2>1. HedgesInv' /\ DOMAIN hedges' = DOMAIN hedges
    BY <1>0, <1>3, HedgesRewriting DEF HedgesInv
  <2>2. \A h \in DOMAIN hedges : hedges[h].by \in Monitors
    BY <1>0, HedgeFacts DEF HedgeType
  <2>3. \A h \in DOMAIN hedges : hedges'[h].by = hedges[h].by /\ (hedges'[h].state = "staged" => hedges[h].state = "staged")
    BY <1>3 DEF HedgesRewritten
  <2>4. \A h \in DOMAIN hedges' : hedges'[h].state = "staged" => cycle'[hedges'[h].by].pc = "staged"
    BY <1>3, <2>1, <2>2, <2>3 DEF CycleInv
  <2>5. QED
    BY <1>3, <2>1, <2>4 DEF CycleInv
<1>4. ASSUME NEW m \in Monitors, cycle' \in [Monitors -> CycleType], \A k \in Monitors : k # m => cycle'[k] = cycle[k],
             UNCHANGED hedges, cycle[m].pc = "read"
      PROVE  CycleInv'
  <2>1. HedgesInv'
    BY <1>0, <1>4 DEF HedgesInv
  <2>2. \A h \in DOMAIN hedges : hedges[h].by \in Monitors
    BY <1>0, HedgeFacts DEF HedgeType
  <2>3. QED
    BY <1>4, <2>1, <2>2 DEF CycleInv
<1>5. ASSUME NEW m \in Monitors, cycle' \in [Monitors -> CycleType], \A k \in Monitors : k # m => cycle'[k] = cycle[k],
             HedgeStaged(m)
      PROVE  CycleInv'
  <2>0. PICK l : l = Len(hedges) + 1
    OBVIOUS
  <2>1. /\ HedgesInv'
        /\ DOMAIN hedges' = DOMAIN hedges \cup {l}
        /\ \A h \in DOMAIN hedges : hedges'[h] = hedges[h]
        /\ hedges'[l].by = m
    BY <1>0, <1>5, <2>0, HedgesStaging
  <2>2. \A h \in DOMAIN hedges : hedges[h].by \in Monitors
    BY <1>0, HedgeFacts DEF HedgeType
  <2>3. cycle'[m].pc = "staged" /\ cycle[m].pc = "read"
    BY <1>5 DEF HedgeStaged
  <2>4. \A h \in DOMAIN hedges' : hedges'[h].state = "staged" => cycle'[hedges'[h].by].pc = "staged"
    BY <1>5, <2>1, <2>2, <2>3 DEF CycleInv
  <2>5. QED
    BY <1>5, <2>1, <2>4 DEF CycleInv
<1>6. QED
  BY <1>1, <1>2, <1>3, <1>4, <1>5, HedgeKinds

\* A hedge in flight, and one that is or may come to be.
InFlightHedge(h) == hedges[h].state \in {"pending", "submitted"}
Active(h) == hedges[h].state \in {"staged", "pending", "submitted"}

\* No two instances are between their reading and their commit at once.
NoOverlap ==
  \A m, n \in Monitors :
    cycle[m].pc \in {"read", "staged"} /\ cycle[n].pc \in {"read", "staged"} => m = n

\* Then there is one hedge, and it is the rounding of the delta.
OneHedgeInv ==
  /\ \A h \in DOMAIN hedges : hedges[h].qty = -RoundHalves(delta)
  /\ \A h, g \in DOMAIN hedges : Active(h) /\ Active(g) => h = g

\* What is in flight is nothing, or that.
LEMMA InFlightIsOne ==
  ASSUME HedgesInv, OneHedgeInv
  PROVE  \/ InFlightHedges = 0 /\ \A h \in DOMAIN hedges : ~InFlightHedge(h)
         \/ InFlightHedges = -RoundHalves(delta)
<1> DEFINE f == [h \in DOMAIN hedges |-> InFlightOf(h)]
<1>0. /\ IsFiniteSet(DOMAIN hedges) /\ InFlightHedges = SumFunctionOnSet(f, DOMAIN hedges)
      /\ \A h \in DOMAIN hedges : hedges[h].qty \in Int
  BY HedgeFacts
<1>1. CASE \A h \in DOMAIN hedges : ~InFlightHedge(h)
  <2>1. \A h \in DOMAIN hedges : f[h] = 0
    BY <1>1 DEF InFlightOf, InFlightHedge
  <2> HIDE DEF f
  <2>2. QED
    BY <1>0, <1>1, <2>1, SumZero
<1>2. ASSUME NEW h \in DOMAIN hedges, InFlightHedge(h) PROVE InFlightHedges = -RoundHalves(delta)
  <2>1. \A g \in DOMAIN hedges \ {h} : f[g] = 0
    BY <1>2 DEF InFlightOf, InFlightHedge, OneHedgeInv, Active
  <2>2. f[h] = hedges[h].qty /\ f[h] \in Int
    BY <1>0, <1>2 DEF InFlightOf, InFlightHedge
  <2> HIDE DEF f
  <2>3. SumFunctionOnSet(f, DOMAIN hedges) = f[h]
    BY <1>0, <2>1, <2>2, SumOne
  <2>4. QED
    BY <1>0, <2>2, <2>3 DEF OneHedgeInv
<1>3. QED
  BY <1>1, <1>2

\* Every step preserves OneHedgeInv.
LEMMA OneHedgeStep ==
  ASSUME NoOverlap, AlertsInv, CycleInv, OneHedgeInv, [Next]_vars
  PROVE  OneHedgeInv'
<1>0. HedgesInv /\ delta' = delta
  BY HedgeKinds DEF CycleInv
<1>1. CASE UNCHANGED hedges
  BY <1>0, <1>1 DEF OneHedgeInv, Active
<1>2. CASE HedgesRewritten
  <2>1. DOMAIN hedges' = DOMAIN hedges
    BY <1>0, <1>2, HedgesRewriting
  <2>2. QED
    BY <1>0, <1>2, <2>1 DEF HedgesRewritten, OneHedgeInv, Active
<1>3. ASSUME NEW m \in Monitors, HedgeStaged(m) PROVE OneHedgeInv'
  <2>0. PICK l : l = Len(hedges) + 1
    OBVIOUS
  <2>1. /\ DOMAIN hedges' = DOMAIN hedges \cup {l}
        /\ \A h \in DOMAIN hedges : hedges'[h] = hedges[h]
        /\ \E covered \in BOOLEAN : HedgeQty(covered) # 0 /\ hedges'[l].qty = HedgeQty(covered)
    BY <1>0, <1>3, <2>0, HedgesStaging
  <2>2. PICK covered \in BOOLEAN : HedgeQty(covered) # 0 /\ hedges'[l].qty = HedgeQty(covered)
    BY <2>1
  <2>3. RoundHalves(delta + 2 * InFlightHedges) # 0
        /\ HedgeQty(covered) = -RoundHalves(delta + 2 * InFlightHedges)
    BY <1>0, <2>2, HedgeQtyFacts
  <2>4. delta \in Int /\ RoundHalves(delta) \in Int /\ RoundHalves(delta - 2 * RoundHalves(delta)) = 0
    BY <1>0, Rounding DEF HedgesInv
  <2>5. InFlightHedges # -RoundHalves(delta)
    <3>1. SUFFICES ASSUME InFlightHedges = -RoundHalves(delta) PROVE FALSE
      OBVIOUS
    <3>2. delta + 2 * InFlightHedges = delta - 2 * RoundHalves(delta)
      BY <3>1, <2>4
    <3>3. QED
      BY <3>2, <2>3, <2>4
  <2>6. InFlightHedges = 0 /\ \A h \in DOMAIN hedges : ~InFlightHedge(h)
    BY <1>0, <2>5, InFlightIsOne
  <2>7. delta + 2 * InFlightHedges = delta
    BY <2>4, <2>6
  <2>8. hedges'[l].qty = -RoundHalves(delta)
    BY <2>2, <2>3, <2>7
  <2>9. \A h \in DOMAIN hedges : ~Active(h)
    <3>1. \A h \in DOMAIN hedges : hedges[h].by \in Monitors
      BY <1>0, HedgeFacts DEF HedgeType
    <3>2. cycle[m].pc = "read"
      BY <1>3 DEF HedgeStaged
    <3>3. \A n \in Monitors : cycle[n].pc # "staged"
      BY <3>2 DEF NoOverlap
    <3>4. QED
      BY <2>6, <3>1, <3>3 DEF CycleInv, Active, InFlightHedge
  <2>10. QED
    BY <1>0, <2>1, <2>8, <2>9 DEF OneHedgeInv, Active
<1>4. QED
  BY <1>1, <1>2, <1>3, HedgeKinds

\* Alerts, hedges and cycles are always as AlertsInv and CycleInv say
\* (position_monitor.py).
THEOREM MonitorAlways == Spec => [](AlertsInv /\ CycleInv)
<1>1. Init => AlertsInv /\ CycleInv
  <2> SUFFICES ASSUME Init PROVE AlertsInv /\ CycleInv
    OBVIOUS
  <2>1. AlertsInv
    BY BoundsAssumption DEF Init, CloseInit, AlertsInv, AlertOK
  <2>2. HedgesInv /\ hedges = <<>>
    BY HedgeBoundAssumption, DeltasAssumption DEF Init, HedgesInv
  <2>3. [pc |-> "idle", closes |-> <<>>, hedge |-> <<>>] \in CycleType
    BY DEF CycleType
  <2>4. QED
    BY <2>1, <2>2, <2>3 DEF Init, CycleInv
<1>2. AlertsInv /\ CycleInv /\ [Next]_vars => (AlertsInv /\ CycleInv)'
  BY AlertsStep, CycleStep
<1>3. QED
  BY <1>1, <1>2, PTL DEF Spec

\* Whatever the delta, the cooldowns, the failed commits and IB's answers, the hedges in
\* flight never leave more imbalance than they found (net_pending_hedge_delta,
\* check_delta_hedge_needed), for any number of instances of which no two are between
\* their reading and their commit at once: the loop alone, or run_monitor_once
\* (positions.py:1379-1387) between two of its cycles.  Two that overlap each hedge the
\* whole delta.
THEOREM HedgesNeverOvershootHolds ==
  Spec /\ []NoOverlap => []HedgesNeverOvershoot
<1>1. Init => OneHedgeInv
  BY DEF Init, OneHedgeInv
<1>2. NoOverlap /\ AlertsInv /\ CycleInv /\ OneHedgeInv /\ [Next]_vars => OneHedgeInv'
  BY OneHedgeStep
<1>3. CycleInv /\ OneHedgeInv => HedgesNeverOvershoot
  <2> SUFFICES ASSUME CycleInv, OneHedgeInv PROVE HedgesNeverOvershoot
    OBVIOUS
  <2>1. HedgesInv /\ delta \in Int
    BY DEF CycleInv, HedgesInv
  <2>2. RoundHalves(delta) \in Int /\ Abs(delta - 2 * RoundHalves(delta)) <= Abs(delta) /\ Abs(delta) <= Abs(delta)
    BY <2>1, Rounding DEF Abs
  <2>3. InFlightHedges = 0 \/ InFlightHedges = -RoundHalves(delta)
    BY <2>1, InFlightIsOne
  <2>4. delta + 2 * InFlightHedges = delta \/ delta + 2 * InFlightHedges = delta - 2 * RoundHalves(delta)
    BY <2>1, <2>2, <2>3
  <2>5. QED
    BY <2>2, <2>4 DEF HedgesNeverOvershoot
<1>4. QED
  BY <1>1, <1>2, <1>3, MonitorAlways, PTL DEF Spec

-----------------------------------------------------------------------------
(* Types *)

\* The other variables.
RestInv ==
  /\ scenario \in Scenarios
  /\ position \in {"open", "closing", "closed"}
  /\ readers \subseteq {"manual", "reconcile"}
  /\ mirror \in Nat
  /\ cooling \in BOOLEAN
  /\ delta \in Deltas \cup {0}

\* Every step preserves RestInv.
LEMMA RestStep ==
  ASSUME BooksInv, RestInv, [Next]_vars
  PROVE  RestInv'
<1>1. mirror' \in Nat
  BY MirrorStep DEF RestInv
<1> DEFINE Rest == /\ scenario' = scenario /\ delta' = delta /\ cooling' \in BOOLEAN
                   /\ position' \in {position, "closing", "closed"}
                   /\ readers' \subseteq readers \cup {"manual", "reconcile"}
<1>2. cooling \in BOOLEAN
  BY DEF RestInv
<1>3. ASSUME UNCHANGED vars PROVE Rest
  BY <1>2, <1>3 DEF vars, closeVars
<1>4. ASSUME CloseNext, UNCHANGED <<delta, hedges, cooling, cycle>> PROVE Rest
  <2>1. ASSUME CloseManual \/ ReconcileFlat \/ SyncMirror \/ \E w \in {"manual", "reconcile"} : ReadPosition(w)
        PROVE  Rest
    BY <1>2, <1>4, <2>1 DEF CloseManual, ReconcileFlat, SyncMirror, ReadPosition
  <2>2. ASSUME NEW c \in Callers, \/ Admit(c) \/ InsertClose(c) \/ CloseRefused(c)
                                  \/ CloseTimesOut(c) \/ CloseAccepted(c) \/ CloseDies(c)
        PROVE  Rest
    BY <1>2, <1>4, <2>2 DEF Admit, InsertClose, CloseRefused, CloseTimesOut, CloseAccepted, CloseDies
  <2>3. ASSUME NEW k \in Ids, \/ EngineCheck(k) \/ EngineRefuse(k) \/ EnginePlace(k) \/ EngineStampFails(k)
                              \/ IbTrades(k) \/ IbCancels(k)
        PROVE  Rest
    BY <1>2, <1>4, <2>3 DEF EngineCheck, EngineRefuse, EnginePlace, EngineStampFails, IbTrades, IbCancels
  <2>4. ASSUME NEW k \in Ids,
               PersistFill(k) \/ PersistCancel(k) \/ CompleteStructure(k) \/ Finalise(k) \/ Reap(k) \/ Age(k)
        PROVE  Rest
    BY <1>2, <1>4, <2>4 DEF PersistFill, PersistCancel, CompleteStructure, Finalise, Reap, Age
  <2> HIDE DEF Rest
  <2>5. QED
    BY <1>4, <2>1, <2>2, <2>3, <2>4 DEF CloseNext, ClosePositionBySymbol
<1>5. ASSUME NEW m \in Monitors, CycleReads(m) \/ DispatchHedges(m) \/ CycleEnds(m) \/ Commit(m) \/ CommitFails(m)
      PROVE  Rest
  BY <1>2, <1>5 DEF CycleReads, DispatchHedges, CycleEnds, Commit, CommitFails, closeVars
<1>6. ASSUME NEW m \in Monitors, MonitorOne(m) PROVE Rest
  BY <1>2, <1>6 DEF MonitorOne
<1>7. ASSUME NEW m \in Monitors, InitiateClose(m) PROVE Rest
  BY <1>2, <1>7 DEF InitiateClose, closeVars
<1>8. ASSUME CooldownsPass \/ \E h \in DOMAIN hedges : SubmitHedge(h) \/ IbHedge(h) \/ FinaliseHedge(h)
      PROVE  Rest
  BY <1>2, <1>8 DEF CooldownsPass, SubmitHedge, IbHedge, FinaliseHedge, closeVars
<1>9. Rest
  <2> HIDE DEF Rest
  <2>1. QED
    BY <1>3, <1>4, <1>5, <1>6, <1>7, <1>8 DEF Next
<1>10. QED
  BY <1>1, <1>9 DEF RestInv

\* Every variable keeps its type (the rows of models.py, the state of position_monitor.py).
THEOREM TypeCorrect == Spec => []TypeOK
<1>1. Init => RestInv
  BY LotAssumption DEF Init, CloseInit, RestInv
<1>2. BooksInv /\ RestInv /\ [Next]_vars => RestInv'
  BY RestStep
<1>3. BooksInv /\ AlertsInv /\ CycleInv /\ RestInv => TypeOK
  BY DEF BooksInv, RowsInv, RowsOK, CallType, AlertsInv, CycleInv, HedgesInv, CycleType, RestInv, TypeOK, CloseTypeOK
<1>4. QED
  BY <1>1, <1>2, <1>3, BooksAlways, MonitorAlways, PTL DEF Spec

-----------------------------------------------------------------------------
(* What the account sees: the refinement of CloseOut *)

\* What the rows os may still sell at IB, row by row.
Live(os) == [i \in DOMAIN os |-> IF os[i].ib = "live" THEN os[i].qty - os[i].traded ELSE 0]

LEMMA LiveSum == LiveQty = SumFunctionOnSet(Live(orders), Ids)
BY DEF LiveQty, Live, SumFunction, Ids

\* Nothing when no row is live, and what the row may sell when one is.
LEMMA LiveTotal ==
  ASSUME NEW os, RowsOK(os)
  PROVE  /\ (\A i \in DOMAIN os : os[i].ib # "live") => SumFunctionOnSet(Live(os), DOMAIN os) = 0
         /\ \A i \in DOMAIN os :
              os[i].ib = "live" /\ (\A j \in DOMAIN os : j # i => os[j].ib # "live")
                => /\ SumFunctionOnSet(Live(os), DOMAIN os) = os[i].qty - os[i].traded
                   /\ os[i].qty - os[i].traded \in 1..Lot
<1>1. IsFiniteSet(DOMAIN os) /\ \A i \in DOMAIN os : Sound(os[i]) /\ FieldsOK(os[i])
  BY RowFacts
<1>2. ASSUME \A i \in DOMAIN os : os[i].ib # "live" PROVE SumFunctionOnSet(Live(os), DOMAIN os) = 0
  <2>1. \A i \in DOMAIN os : Live(os)[i] = 0
    BY <1>2 DEF Live
  <2>2. QED
    BY <1>1, <2>1, SumZero
<1>3. ASSUME NEW i \in DOMAIN os, os[i].ib = "live", \A j \in DOMAIN os : j # i => os[j].ib # "live"
      PROVE  /\ SumFunctionOnSet(Live(os), DOMAIN os) = os[i].qty - os[i].traded
             /\ os[i].qty - os[i].traded \in 1..Lot
  <2>1. os[i].qty - os[i].traded \in 1..Lot
    BY <1>1, <1>3, LotAssumption DEF Sound, FieldsOK
  <2>2. Live(os)[i] = os[i].qty - os[i].traded /\ \A j \in DOMAIN os \ {i} : Live(os)[j] = 0
    BY <1>3 DEF Live
  <2>3. SumFunctionOnSet(Live(os), DOMAIN os) = Live(os)[i]
    BY <1>1, <2>1, <2>2, SumOne, LotAssumption
  <2>4. QED
    BY <2>1, <2>2, <2>3
<1>4. QED
  BY <1>2, <1>3

\* All that CloseOut sees.
outView == <<Net, LiveQty, position>>

\* An abstract step on the orders at IB.
Trading == (\E q \in 1..Lot : Out!Offer(q)) \/ Out!Sell \/ Out!Withdraw

\* A step on one row offers, sells or withdraws one closing order, or none of it.
LEMMA RowTrades ==
  ASSUME RowsInv, LoneInv, NEW i \in Ids, RowStep(i), UNCHANGED position
  PROVE  Trading \/ UNCHANGED outView
<1>1. RowsOK(orders) /\ RowsOK(orders') /\ DOMAIN orders' = Ids /\ DOMAIN orders = Ids
  BY DEF RowStep, RowsInv, RowsOK, Ids
<1>2. Ids' = Ids /\ \A j \in Ids : j # i => orders'[j] = orders[j]
  BY DEF RowStep, Ids
<1>3. Net \in Int /\ Net' = Net + orders[i].traded - orders'[i].traded
  BY NetStep
<1>4. /\ FieldsOK(orders[i]) /\ Sound(orders[i])
      /\ FieldsOK(orders'[i]) /\ Sound(orders'[i])
  BY <1>1, RowFacts
<1>5. \A j \in Ids : orders[j].ib = "live" => Selling(j)
  <2>1. \A j \in Ids : Sound(orders[j])
    BY <1>1, RowFacts
  <2>2. QED
    BY <2>1 DEF Sound, Selling, Working
<1>6. LiveQty = SumFunctionOnSet(Live(orders), Ids) /\ LiveQty' = SumFunctionOnSet(Live(orders'), Ids)
  BY <1>2, LiveSum DEF LiveQty, Live, SumFunction, Ids
<1>7. ASSUME NEW j \in Ids, j # i, orders[j].ib = "live" PROVE UNCHANGED <<Net, LiveQty>>
  <2>1. ~Selling(i) /\ \A k \in Ids : k # j => orders[k].ib # "live"
    BY <1>5, <1>7 DEF LoneInv
  <2>2. orders[i].ib # "live" /\ orders[i].req # "checked"
    BY <1>4, <1>7, <2>1 DEF Sound, Selling, Working
  <2>3. orders'[i].ib # "live" /\ orders'[i].traded = orders[i].traded
    BY <2>2 DEF RowStep
  <2>4. \A k \in Ids : k # j => orders'[k].ib # "live"
    BY <1>2, <2>1, <2>3
  <2>5. orders'[j] = orders[j]
    BY <1>2, <1>7
  <2>6. Net' = Net
    BY <1>3, <1>4, <2>3, LotAssumption DEF FieldsOK
  <2>7. /\ SumFunctionOnSet(Live(orders), Ids) = orders[j].qty - orders[j].traded
        /\ SumFunctionOnSet(Live(orders'), Ids) = orders'[j].qty - orders'[j].traded
    BY <1>1, <1>7, <2>1, <2>4, <2>5, LiveTotal
  <2>8. QED
    BY <1>6, <2>5, <2>6, <2>7
<1>8. ASSUME \A j \in Ids : j # i => orders[j].ib # "live" PROVE Trading \/ UNCHANGED <<Net, LiveQty>>
  <2>1. /\ orders[i].ib = "live" => LiveQty = orders[i].qty - orders[i].traded /\ LiveQty \in 1..Lot
        /\ orders[i].ib # "live" => LiveQty = 0
    BY <1>1, <1>6, <1>8, LiveTotal
  <2>2. \A j \in Ids : j # i => orders'[j].ib # "live"
    BY <1>2, <1>8
  <2>3. /\ orders'[i].ib = "live" => LiveQty' = orders'[i].qty - orders'[i].traded /\ LiveQty' \in 1..Lot
        /\ orders'[i].ib # "live" => LiveQty' = 0
    BY <1>1, <1>6, <2>2, LiveTotal
  <2>4. orders'[i].qty = orders[i].qty
    BY DEF RowStep
  <2>5. CASE orders[i].ib = "live" /\ orders'[i].traded = orders[i].traded + 1
    <3>1. Net' = Net - 1
      BY <1>3, <1>4, <2>5, LotAssumption DEF FieldsOK
    <3>2. orders'[i].ib = "live" \/ orders'[i].traded = orders[i].qty
      BY <2>5, <1>4, LotAssumption DEF RowStep, FieldsOK
    <3>3. LiveQty' = LiveQty - 1 /\ LiveQty > 0
      BY <1>4, <2>1, <2>3, <2>4, <2>5, <3>2, LotAssumption DEF FieldsOK
    <3>4. Out!Sell
      BY <3>1, <3>3 DEF Out!Sell
    <3>5. QED
      BY <3>4 DEF Trading
  <2>6. CASE orders'[i].traded = orders[i].traded
    <3>1. Net' = Net
      BY <1>3, <1>4, <2>6, LotAssumption DEF FieldsOK
    <3>2. CASE orders[i].ib = "live" /\ orders'[i].ib # "live"
      <4>1. LiveQty > 0 /\ LiveQty' = 0
        BY <2>1, <2>3, <3>2, LotAssumption
      <4>2. Out!Withdraw
        BY <3>1, <4>1 DEF Out!Withdraw
      <4>3. QED
        BY <4>2 DEF Trading
    <3>3. CASE orders[i].ib # "live" /\ orders'[i].ib = "live"
      <4>1. orders[i].qty <= Net
        BY <3>3 DEF RowStep, LoneInv
      <4>2. LiveQty = 0 /\ LiveQty' = orders[i].qty - orders[i].traded /\ LiveQty' \in 1..Lot
        BY <2>1, <2>3, <2>4, <2>6, <3>3
      <4>3. LiveQty' \in 1..Net
        BY <1>3, <1>4, <4>1, <4>2, LotAssumption DEF FieldsOK
      <4>4. Out!Offer(LiveQty')
        BY <3>1, <4>2, <4>3 DEF Out!Offer
      <4>5. QED
        BY <4>2, <4>4 DEF Trading
    <3>4. CASE orders[i].ib = "live" <=> orders'[i].ib = "live"
      BY <2>1, <2>3, <2>4, <2>6, <3>1, <3>4
    <3>5. QED
      BY <3>2, <3>3, <3>4
  <2>7. QED
    BY <2>5, <2>6 DEF RowStep
<1>9. QED
  BY <1>7, <1>8 DEF outView

\* What a step that touches no row does to the position: it goes into "closing", or the
\* position sync that found it flat closes it.
PositionMoves ==
  \/ UNCHANGED position
  \/ position' = "closing"
  \/ "reconcile" \in readers /\ position' = "closed"

\* What it does to the readers: only a flat position is read by the position sync.
ReadersMove == "reconcile" \in readers' => "reconcile" \in readers \/ Net = 0

\* Every step moves the position, a row or a request, never two of them.
LEMMA PositionSteps ==
  ASSUME BooksInv, AlertsInv, [Next]_vars
  PROVE  /\ ReadersMove
         /\ \/ UNCHANGED orders /\ PositionMoves
            \/ (\E i \in Ids : RowStep(i)) /\ UNCHANGED position
            \/ RowOpened /\ UNCHANGED position
<1> DEFINE Quiet == UNCHANGED orders /\ PositionMoves /\ ReadersMove
           RowMoves == (\E i \in Ids : RowStep(i)) /\ UNCHANGED <<position, readers>>
           Opens == RowOpened /\ UNCHANGED <<position, readers>>
<1>0. RowsInv
  BY DEF BooksInv
<1>1. ASSUME UNCHANGED vars \/ SyncMirror \/ CooldownsPass \/ CloseManual \/ ReconcileFlat PROVE Quiet
  BY <1>1 DEF vars, closeVars, SyncMirror, CooldownsPass, CloseManual, ReconcileFlat, PositionMoves, ReadersMove
<1>2. ASSUME NEW w, ReadPosition(w) PROVE Quiet
  BY <1>2 DEF ReadPosition, PositionMoves, ReadersMove
<1>3. ASSUME NEW c \in Callers, InsertClose(c) PROVE Opens
  BY <1>3, InsertSteps DEF OperatorOpens, InsertClose
<1>4. ASSUME NEW c \in Callers, \/ Admit(c) \/ CloseRefused(c) \/ CloseTimesOut(c)
                                \/ CloseAccepted(c) \/ CloseDies(c)
      PROVE  Quiet \/ RowMoves
  <2>1. UNCHANGED <<position, readers>>
    BY <1>4 DEF Admit, CloseRefused, CloseTimesOut, CloseAccepted, CloseDies
  <2>2. CASE orders' = orders
    BY <2>1, <2>2 DEF PositionMoves, ReadersMove
  <2>3. CASE orders' # orders
    <3>1. ~Admit(c)
      BY <2>3 DEF Admit
    <3>2. call[c].id \in Ids /\ RowStep(call[c].id)
      BY <1>4, <2>3, <3>1, AnswerSteps DEF BooksInv
    <3>3. QED
      BY <2>1, <3>2
  <2>4. QED
    BY <2>2, <2>3
<1>5. ASSUME NEW i \in Ids,
             \/ EngineCheck(i) \/ EngineRefuse(i) \/ EnginePlace(i) \/ EngineStampFails(i)
             \/ IbTrades(i) \/ IbCancels(i) \/ PersistFill(i) \/ PersistCancel(i)
             \/ CompleteStructure(i) \/ Finalise(i) \/ Reap(i) \/ Age(i)
      PROVE  RowMoves
  <2>1. RowStep(i)
    BY <1>0, <1>5, EngineSteps, IbSteps, HandlerSteps, WindowSteps
  <2>2. UNCHANGED <<position, readers>>
    <3>1. CASE Finalise(i)
      <4>1. i # 0
        BY <1>0 DEF Ids, RowsInv, RowsOK
      <4>2. {a \in DOMAIN alerts : alerts[a].closing = i} = {}
        BY <4>1 DEF AlertsInv, AlertOK
      <4>3. QED
        BY <3>1, <4>2 DEF Finalise
    <3>2. CASE EngineCheck(i) \/ EngineRefuse(i) \/ EnginePlace(i) \/ EngineStampFails(i)
      BY <3>2 DEF EngineCheck, EngineRefuse, EnginePlace, EngineStampFails
    <3>3. CASE IbTrades(i) \/ IbCancels(i) \/ PersistFill(i) \/ PersistCancel(i)
      BY <3>3 DEF IbTrades, IbCancels, PersistFill, PersistCancel
    <3>4. CASE CompleteStructure(i) \/ Reap(i) \/ Age(i)
      BY <3>4 DEF CompleteStructure, Reap, Age
    <3>5. QED
      BY <1>5, <3>1, <3>2, <3>3, <3>4
  <2>3. QED
    BY <2>1, <2>2
<1>6. ASSUME NEW m \in Monitors,
             \/ CycleReads(m) \/ MonitorOne(m) \/ Commit(m) \/ CommitFails(m)
             \/ DispatchHedges(m) \/ InitiateClose(m) \/ CycleEnds(m)
      PROVE  Quiet
  <2>1. UNCHANGED <<orders, position, readers>>
    <3>1. CASE MonitorOne(m)
      BY <3>1 DEF MonitorOne
    <3>2. CASE CycleReads(m) \/ Commit(m) \/ CommitFails(m)
      BY <3>2 DEF CycleReads, Commit, CommitFails, closeVars
    <3>3. CASE DispatchHedges(m) \/ InitiateClose(m) \/ CycleEnds(m)
      BY <3>3 DEF DispatchHedges, InitiateClose, CycleEnds, closeVars
    <3>4. QED
      BY <1>6, <3>1, <3>2, <3>3
  <2>2. QED
    BY <2>1 DEF PositionMoves, ReadersMove
<1>7. ASSUME NEW h \in DOMAIN hedges, SubmitHedge(h) \/ IbHedge(h) \/ FinaliseHedge(h) PROVE Quiet
  BY <1>7 DEF SubmitHedge, IbHedge, FinaliseHedge, closeVars, PositionMoves, ReadersMove
<1> HIDE DEF Quiet, RowMoves, Opens
<1>8. ASSUME CloseNext PROVE Quiet \/ RowMoves \/ Opens
  <2>1. CASE CloseManual \/ ReconcileFlat \/ SyncMirror \/ \E w \in {"manual", "reconcile"} : ReadPosition(w)
    BY <1>1, <1>2, <2>1
  <2>2. CASE \E c \in Callers : \/ Admit(c) \/ InsertClose(c) \/ CloseRefused(c)
                                \/ CloseTimesOut(c) \/ CloseAccepted(c) \/ CloseDies(c)
    BY <1>3, <1>4, <2>2
  <2>3. CASE \E i \in Ids : \/ ClosePositionBySymbol(i)
                            \/ IbTrades(i) \/ IbCancels(i) \/ PersistFill(i) \/ PersistCancel(i)
                            \/ CompleteStructure(i) \/ Finalise(i) \/ Reap(i) \/ Age(i)
    BY <1>5, <2>3 DEF ClosePositionBySymbol
  <2>4. QED
    BY <1>8, <2>1, <2>2, <2>3 DEF CloseNext
<1>9. Quiet \/ RowMoves \/ Opens
  BY <1>1, <1>6, <1>7, <1>8 DEF Next
<1>10. QED
  BY <1>9 DEF Quiet, RowMoves, Opens, ReadersMove

\* Opening a row offers nothing.
LEMMA OpenedLive ==
  ASSUME RowsInv, RowOpened
  PROVE  LiveQty' = LiveQty
<1> DEFINE l == Len(orders')
<1>1. DOMAIN orders' = Ids \cup {l} /\ l \notin Ids /\ orders'[l].ib = "none"
  BY DEF RowOpened, Ids
<1>2. \A i \in Ids : orders'[i] = orders[i]
  BY DEF RowOpened
<1>3. IntOn(Live(orders), Ids)
  <2>1. IsFiniteSet(Ids) /\ \A i \in Ids : FieldsOK(orders[i])
    BY RowFacts DEF RowsInv, Ids
  <2>2. ASSUME NEW i \in Ids PROVE Live(orders)[i] \in Int
    BY <2>1, LotAssumption DEF FieldsOK, Live, Ids
  <2>3. QED
    BY <2>1, <2>2 DEF IntOn
<1> HIDE DEF l
<1>4. Live(orders')[l] = 0 /\ \A i \in Ids : Live(orders')[i] = Live(orders)[i]
  BY <1>1, <1>2 DEF Live, Ids
<1>5. SumFunctionOnSet(Live(orders'), Ids \cup {l}) = SumFunctionOnSet(Live(orders), Ids) + Live(orders')[l]
  BY <1>1, <1>3, <1>4, SumExtend
<1>6. LiveQty' = SumFunctionOnSet(Live(orders'), Ids \cup {l})
  BY <1>1 DEF LiveQty, Live, SumFunction, Ids
<1>7. SumFunctionOnSet(Live(orders), Ids) \in Int
  BY <1>3, SumStep
<1>8. QED
  BY <1>4, <1>5, <1>6, <1>7, LiveSum

\* What the position sync found flat stays flat.
FlatInv == "reconcile" \in readers => Net = 0

\* What IB holds never grows.
LEMMA NetFalls ==
  ASSUME BooksInv, AlertsInv, [Next]_vars
  PROVE  Net \in Int /\ Net' \in Int /\ Net' <= Net
<1>0. RowsInv
  BY DEF BooksInv
<1>1. Net \in Int
  BY <1>0, TradedSums, SumStep, NetSum, LotAssumption DEF RowsInv, Ids
<1>2. CASE UNCHANGED orders
  BY <1>1, <1>2 DEF Net, Ids
<1>3. ASSUME NEW i \in Ids, RowStep(i) PROVE Net' \in Int /\ Net' <= Net
  <2>1. Net' = Net + orders[i].traded - orders'[i].traded
    BY <1>0, <1>3, NetStep
  <2>2. orders[i].traded \in Int
    BY <1>0, RowFacts, LotAssumption DEF RowsInv, Ids, FieldsOK
  <2>3. orders'[i].traded = orders[i].traded \/ orders'[i].traded = orders[i].traded + 1
    BY <1>3 DEF RowStep
  <2>4. QED
    BY <1>1, <2>1, <2>2, <2>3
<1>4. CASE RowOpened
  BY <1>0, <1>1, <1>4, NetOpened
<1>5. QED
  BY <1>1, <1>2, <1>3, <1>4, PositionSteps

\* Every step preserves FlatInv, since nothing more than is held is ever sold.
LEMMA FlatStep ==
  ASSUME BooksInv, AlertsInv, LoneInv', FlatInv, [Next]_vars
  PROVE  FlatInv'
<1>1. Net \in Int /\ Net' \in Int /\ Net' <= Net
  BY NetFalls
<1>2. Net' >= 0
  BY DEF LoneInv
<1>3. ReadersMove
  BY PositionSteps
<1>4. QED
  BY <1>1, <1>2, <1>3 DEF FlatInv, ReadersMove

\* Every step, seen by the account, is a step of CloseOut or nothing.
LEMMA OutRefined ==
  ASSUME BooksInv, AlertsInv, LoneInv, FlatInv, [Next]_vars
  PROVE  Out!OutNext \/ UNCHANGED outView
<1>0. RowsInv
  BY DEF BooksInv
<1>1. ASSUME UNCHANGED orders, PositionMoves PROVE Out!OutNext \/ UNCHANGED outView
  <2>1. Net' = Net /\ LiveQty' = LiveQty
    BY <1>1 DEF Ids, Net, LiveQty
  <2>2. CASE UNCHANGED position
    BY <2>1, <2>2 DEF outView
  <2>3. CASE position' = "closing"
    BY <2>1, <2>3 DEF Out!CloseByHand, Out!OutNext
  <2>4. CASE "reconcile" \in readers /\ position' = "closed"
    BY <2>1, <2>4 DEF FlatInv, Out!Reconcile, Out!OutNext
  <2>5. QED
    BY <1>1, <2>2, <2>3, <2>4 DEF PositionMoves
<1>2. ASSUME NEW i \in Ids, RowStep(i), UNCHANGED position
      PROVE  Out!OutNext \/ UNCHANGED outView
  <2>1. Trading \/ UNCHANGED outView
    BY <1>0, <1>2, RowTrades
  <2>2. QED
    BY <2>1 DEF Trading, Out!OutNext
<1>3. ASSUME RowOpened, UNCHANGED position PROVE UNCHANGED outView
  BY <1>0, <1>3, NetOpened, OpenedLive DEF outView
<1>4. QED
  BY <1>1, <1>2, <1>3, PositionSteps

\* The initial states map to CloseOut's.
LEMMA OutInitially ==
  ASSUME Init PROVE Out!OutInit
<1>1. orders = <<>> /\ position = "open" /\ Ids = {}
  BY DEF Init, CloseInit, Ids
<1>2. Net = Lot
  BY <1>1, SumEmpty, NetSum, LotAssumption
<1>3. LiveQty = 0
  BY <1>1, SumEmpty, LiveSum
<1>4. QED
  BY <1>1, <1>2, <1>3 DEF Out!OutInit

\* The operator's closes, close_manual, the position sync, the engine, IB and every
\* failure between them but an unstamped placement give the account CloseOut: one closing
\* order at a time, no larger than what is held, and a position that never returns to
\* "open" and is called closed only when IB holds nothing of it.  For any lot, monitors,
\* contexts and bounds, with one request at a time for the whole mirror row and no close
\* that outlives the window (close_one_open_position, close_position_by_symbol,
\* reconcile_trade_positions).
THEOREM ImplementsCloseOutHolds ==
  ASSUME ~Outlives, ~Unstamped, ~Partial, NEW c0, Callers = {c0} PROVE Spec => ImplementsCloseOut
<1> DEFINE Inv == BooksInv /\ AlertsInv /\ mirror \in Nat /\ LoneInv /\ FlatInv
<1>1. Init => Out!OutInit
  BY OutInitially
<1>2. Init => mirror \in Nat /\ LoneInv /\ FlatInv
  <2> SUFFICES ASSUME Init PROVE mirror \in Nat /\ LoneInv /\ FlatInv
    OBVIOUS
  <2>1. Ids = {} /\ ~Admitted /\ mirror \in Nat /\ readers = {}
    BY LotAssumption DEF Init, CloseInit, Ids, Admitted, Idle
  <2>2. Net = Lot
    BY <2>1, SumEmpty, NetSum, LotAssumption
  <2>3. QED
    BY <2>1, <2>2, LotAssumption DEF LoneInv, FlatInv
<1>3. Inv /\ [Next]_vars => (mirror \in Nat)' /\ LoneInv' /\ FlatInv'
  <2> SUFFICES ASSUME Inv, [Next]_vars PROVE (mirror \in Nat)' /\ LoneInv' /\ FlatInv'
    OBVIOUS
  <2>1. mirror' \in Nat /\ LoneInv'
    BY MirrorStep, LoneStep
  <2>2. QED
    BY <2>1, FlatStep
<1>4. Inv /\ [Next]_vars => [Out!OutNext]_outView
  BY OutRefined
<1>5. QED
  BY <1>1, <1>2, <1>3, <1>4, BooksAlways, MonitorAlways, PTL
  DEF Spec, ImplementsCloseOut, Out!Spec, Out!outVars, outView
=============================================================================
