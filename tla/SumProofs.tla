----------------------------- MODULE SumProofs ------------------------------
(***************************************************************************)
(* Sums of natural numbers over finite sets: what the proofs about wallet  *)
(* balances, settlement amounts and ledger totals need to know about       *)
(* SumFunctionOnSet, for instance that one payment can be taken out of a   *)
(* sum, whichever element the recursion takes first.                       *)
(*                                                                         *)
(* The sum of f over S is shown to be the number of units that f assigns   *)
(* to the elements of S.  Counting solves the recursion equation of the    *)
(* sum, so that the sum solves it, and no finite set is the least one in   *)
(* which two solutions differ.                                             *)
(***************************************************************************)
EXTENDS FiniteSetsExt, Integers, FiniteSetTheorems, TLAPS

\* The units that f assigns to the elements of S; the sum of f counts them.
Units(f, S) == {u \in S \X Nat : u[2] \in 1..f[u[1]]}

\* An element has as many units as f says.
LEMMA UnitsOfElement ==
  ASSUME NEW f, NEW x, f[x] \in Nat
  PROVE  IsFiniteSet(Units(f, {x})) /\ Cardinality(Units(f, {x})) = f[x]
  <1>1. Units(f, {x}) = {x} \X (1..f[x])
    BY DEF Units
  <1>2. IsFiniteSet(1..f[x]) /\ Cardinality(1..f[x]) = f[x]
    BY FS_Interval
  <1>3. IsFiniteSet({x}) /\ Cardinality({x}) = 1
    BY FS_Singleton
  <1>4. /\ IsFiniteSet({x} \X (1..f[x]))
        /\ Cardinality({x} \X (1..f[x])) = Cardinality({x}) * Cardinality(1..f[x])
    BY <1>2, <1>3, FS_Product
  <1>5. 1 * f[x] = f[x]
    OBVIOUS
  <1> QED
    BY <1>1, <1>2, <1>3, <1>4, <1>5

\* One element's units are next to those of the other elements.
LEMMA UnitsSplit ==
  ASSUME NEW f, NEW S, NEW x \in S, \A y \in S : f[y] \in Nat,
         IsFiniteSet(Units(f, S \ {x}))
  PROVE  /\ IsFiniteSet(Units(f, S))
         /\ Cardinality(Units(f, S)) = f[x] + Cardinality(Units(f, S \ {x}))
  <1>1. Units(f, S) = Units(f, {x}) \cup Units(f, S \ {x})
    BY DEF Units
  <1>2. Units(f, {x}) \cap Units(f, S \ {x}) = {}
    BY DEF Units
  <1>3. IsFiniteSet(Units(f, {x})) /\ Cardinality(Units(f, {x})) = f[x]
    BY UnitsOfElement
  <1>4. Cardinality(Units(f, S \ {x})) \in Nat
    BY FS_CardinalityType
  <1>5. /\ IsFiniteSet(Units(f, {x}) \cup Units(f, S \ {x}))
        /\ Cardinality(Units(f, {x}) \cup Units(f, S \ {x})) =
             f[x] + Cardinality(Units(f, S \ {x})) - Cardinality({})
    <2>1. /\ IsFiniteSet(Units(f, {x}) \cup Units(f, S \ {x}))
          /\ Cardinality(Units(f, {x}) \cup Units(f, S \ {x})) =
               Cardinality(Units(f, {x})) + Cardinality(Units(f, S \ {x}))
                 - Cardinality(Units(f, {x}) \cap Units(f, S \ {x}))
      BY <1>3, FS_Union
    <2> QED
      BY <1>2, <1>3, <2>1
  <1> QED
    BY <1>1, <1>4, <1>5, FS_EmptySet

\* Of the subsets of a finite set that are bad there is one whose subsets with
\* an element less are not.
LEMMA LeastSet ==
  ASSUME NEW S, IsFiniteSet(S), NEW Bad, Bad \subseteq SUBSET S, Bad # {}
  PROVE  \E s \in Bad : \A x \in s : s \ {x} \notin Bad
  <1>1. Bad \subseteq FiniteSubsetsOf(S)
    BY FS_FiniteSubsetsOfFinite
  <1>2. IsWellFoundedOn(StrictSubsetOrdering(S), FiniteSubsetsOf(S))
    BY FS_StrictSubsetOrderingWellFounded
  <1>3. PICK s \in Bad : \A t \in Bad : ~(<<t, s>> \in StrictSubsetOrdering(S))
    BY <1>1, <1>2, WFMin
  <1>4. ASSUME NEW x \in s, s \ {x} \in Bad PROVE FALSE
    <2>1. <<s \ {x}, s>> \in StrictSubsetOrdering(S)
      BY <1>4 DEF StrictSubsetOrdering
    <2> QED
      BY <1>3, <1>4, <2>1
  <1> QED
    BY <1>4

\* A finite set has finitely many units.
LEMMA UnitsFinite ==
  ASSUME NEW f, NEW S, IsFiniteSet(S), \A x \in S : f[x] \in Nat
  PROVE  IsFiniteSet(Units(f, S))
  <1> DEFINE Bad == {s \in SUBSET S : ~IsFiniteSet(Units(f, s))}
  <1> SUFFICES ASSUME Bad # {} PROVE FALSE
    OBVIOUS
  <1>1. PICK s \in Bad : \A x \in s : s \ {x} \notin Bad
    BY LeastSet
  <1>2. s # {}
    BY FS_EmptySet DEF Units
  <1>3. PICK x \in s : TRUE
    BY <1>2
  <1>4. IsFiniteSet(Units(f, s \ {x}))
    BY <1>1
  <1> QED
    BY <1>4, UnitsSplit

\* The element that the recursion takes out first.
Choice(s) == CHOOSE x \in s : TRUE

\* The fold behind the sum, written out.
LEMMA SumUnfold ==
  ASSUME NEW f, NEW S
  PROVE  \E iter : /\ SumFunctionOnSet(f, S) = iter[S]
                   /\ iter = CHOOSE g : g = [s \in SUBSET S |->
                        IF s = {} THEN 0 ELSE f[Choice(s)] + g[s \ {Choice(s)}]]
  BY DEF SumFunctionOnSet, FoldFunctionOnSet, MapThenFoldSet, Choice

\* The sum of f is the number of units it assigns.
LEMMA SumCountsUnits ==
  ASSUME NEW f, NEW S, IsFiniteSet(S), \A x \in S : f[x] \in Nat
  PROVE  SumFunctionOnSet(f, S) = Cardinality(Units(f, S))
  <1> DEFINE step(g) == [s \in SUBSET S |->
                           IF s = {} THEN 0 ELSE f[Choice(s)] + g[s \ {Choice(s)}]]
             count == [s \in SUBSET S |-> Cardinality(Units(f, s))]
  <1>1. count = step(count)
    <2> SUFFICES ASSUME NEW s \in SUBSET S
                 PROVE  count[s] = IF s = {} THEN 0
                                   ELSE f[Choice(s)] + count[s \ {Choice(s)}]
      OBVIOUS
    <2>1. CASE s = {}
      <3>1. Units(f, {}) = {}
        BY DEF Units
      <3> QED
        BY <2>1, <3>1, FS_EmptySet
    <2>2. CASE s # {}
      <3>1. Choice(s) \in s
        BY <2>2 DEF Choice
      <3>2. IsFiniteSet(s \ {Choice(s)})
        BY FS_Subset
      <3>3. IsFiniteSet(Units(f, s \ {Choice(s)}))
        BY <3>2, UnitsFinite
      <3>4. Cardinality(Units(f, s)) = f[Choice(s)] + Cardinality(Units(f, s \ {Choice(s)}))
        BY <3>1, <3>3, UnitsSplit
      <3> QED
        BY <2>2, <3>4
    <2> QED
      BY <2>1, <2>2
  <1>2. PICK iter : SumFunctionOnSet(f, S) = iter[S] /\ iter = CHOOSE g : g = step(g)
    BY SumUnfold
  <1> HIDE DEF count
  <1>3. iter = step(iter)
    BY <1>1, <1>2
  <1> DEFINE Bad == {s \in SUBSET S : iter[s] # count[s]}
  <1>4. Bad = {}
    <2> SUFFICES ASSUME Bad # {} PROVE FALSE
      OBVIOUS
    <2>1. PICK s \in Bad : \A x \in s : s \ {x} \notin Bad
      BY LeastSet
    <2>2. iter[s] = IF s = {} THEN 0 ELSE f[Choice(s)] + iter[s \ {Choice(s)}]
      BY <1>3
    <2>3. count[s] = IF s = {} THEN 0 ELSE f[Choice(s)] + count[s \ {Choice(s)}]
      BY <1>1
    <2>4. s # {} => Choice(s) \in s
      BY DEF Choice
    <2>5. s # {} => iter[s \ {Choice(s)}] = count[s \ {Choice(s)}]
      BY <2>1, <2>4
    <2> QED
      BY <2>2, <2>3, <2>5
  <1> QED
    BY <1>2, <1>4 DEF count
-----------------------------------------------------------------------------
\* A sum of natural numbers is one.
LEMMA SumType ==
  ASSUME NEW f, NEW S, IsFiniteSet(S), \A x \in S : f[x] \in Nat
  PROVE  SumFunctionOnSet(f, S) \in Nat
  BY SumCountsUnits, UnitsFinite, FS_CardinalityType

\* Nothing, and nothing but zeros, adds up to 0.
LEMMA SumEmpty ==
  ASSUME NEW f
  PROVE  SumFunctionOnSet(f, {}) = 0
  <1>1. Units(f, {}) = {}
    BY DEF Units
  <1> QED
    BY <1>1, SumCountsUnits, FS_EmptySet

LEMMA SumZero ==
  ASSUME NEW f, NEW S, IsFiniteSet(S), \A x \in S : f[x] = 0
  PROVE  SumFunctionOnSet(f, S) = 0
  <1>1. Units(f, S) = {}
    BY DEF Units
  <1>2. SumFunctionOnSet(f, S) = Cardinality(Units(f, S))
    BY SumCountsUnits
  <1> QED
    BY <1>1, <1>2, FS_EmptySet

\* Any element can be taken out of a sum.
LEMMA SumRemove ==
  ASSUME NEW f, NEW S, IsFiniteSet(S), \A y \in S : f[y] \in Nat, NEW x \in S
  PROVE  SumFunctionOnSet(f, S) = f[x] + SumFunctionOnSet(f, S \ {x})
  <1>1. IsFiniteSet(S \ {x})
    BY FS_Subset
  <1>2. IsFiniteSet(Units(f, S \ {x}))
    BY <1>1, UnitsFinite
  <1>3. Cardinality(Units(f, S)) = f[x] + Cardinality(Units(f, S \ {x}))
    BY <1>2, UnitsSplit
  <1>4. SumFunctionOnSet(f, S) = Cardinality(Units(f, S))
    BY SumCountsUnits
  <1>5. SumFunctionOnSet(f, S \ {x}) = Cardinality(Units(f, S \ {x}))
    BY <1>1, SumCountsUnits
  <1> QED
    BY <1>3, <1>4, <1>5

\* A sum depends on nothing but the values on the set.
LEMMA SumSame ==
  ASSUME NEW f, NEW g, NEW S, IsFiniteSet(S),
         \A x \in S : f[x] \in Nat /\ g[x] = f[x]
  PROVE  SumFunctionOnSet(g, S) = SumFunctionOnSet(f, S)
  <1>1. Units(g, S) = Units(f, S)
    BY DEF Units
  <1>2. SumFunctionOnSet(f, S) = Cardinality(Units(f, S))
    BY SumCountsUnits
  <1>3. SumFunctionOnSet(g, S) = Cardinality(Units(g, S))
    BY SumCountsUnits
  <1> QED
    BY <1>1, <1>2, <1>3

\* When one summand changes the sum changes with it.
LEMMA SumUpdate ==
  ASSUME NEW f, NEW g, NEW S, IsFiniteSet(S), NEW x \in S,
         \A y \in S : f[y] \in Nat /\ g[y] \in Nat,
         \A y \in S \ {x} : g[y] = f[y]
  PROVE  SumFunctionOnSet(g, S) = SumFunctionOnSet(f, S) + g[x] - f[x]
  <1>1. IsFiniteSet(S \ {x})
    BY FS_Subset
  <1>2. SumFunctionOnSet(g, S \ {x}) = SumFunctionOnSet(f, S \ {x})
    BY <1>1, SumSame
  <1>3. SumFunctionOnSet(f, S \ {x}) \in Nat
    BY <1>1, SumType
  <1>4. SumFunctionOnSet(f, S) = f[x] + SumFunctionOnSet(f, S \ {x})
    BY SumRemove
  <1>5. SumFunctionOnSet(g, S) = g[x] + SumFunctionOnSet(g, S \ {x})
    BY SumRemove
  <1> QED
    BY <1>2, <1>3, <1>4, <1>5

\* Sums add up pointwise.
LEMMA SumAdd ==
  ASSUME NEW f, NEW g, NEW h, NEW S, IsFiniteSet(S),
         \A x \in S : f[x] \in Nat /\ g[x] \in Nat /\ h[x] = f[x] + g[x]
  PROVE  SumFunctionOnSet(h, S) = SumFunctionOnSet(f, S) + SumFunctionOnSet(g, S)
  <1> DEFINE Bad == {s \in SUBSET S :
               SumFunctionOnSet(h, s) # SumFunctionOnSet(f, s) + SumFunctionOnSet(g, s)}
  <1> SUFFICES ASSUME Bad # {} PROVE FALSE
    OBVIOUS
  <1>1. PICK s \in Bad : \A x \in s : s \ {x} \notin Bad
    BY LeastSet
  <1>2. PICK x \in s : TRUE
    BY SumEmpty
  <1>3. IsFiniteSet(s) /\ IsFiniteSet(s \ {x})
    BY FS_Subset
  <1>4. SumFunctionOnSet(h, s \ {x}) =
          SumFunctionOnSet(f, s \ {x}) + SumFunctionOnSet(g, s \ {x})
    BY <1>1
  <1>5. SumFunctionOnSet(f, s) = f[x] + SumFunctionOnSet(f, s \ {x})
    BY <1>3, SumRemove
  <1>6. SumFunctionOnSet(g, s) = g[x] + SumFunctionOnSet(g, s \ {x})
    BY <1>3, SumRemove
  <1>7. SumFunctionOnSet(h, s) = h[x] + SumFunctionOnSet(h, s \ {x})
    BY <1>3, SumRemove
  <1>8. SumFunctionOnSet(f, s \ {x}) \in Nat /\ SumFunctionOnSet(g, s \ {x}) \in Nat
    BY <1>3, SumType
  <1> QED
    BY <1>4, <1>5, <1>6, <1>7, <1>8

\* A sum over a set is that over a part of it and that over the rest.
LEMMA SumSplit ==
  ASSUME NEW f, NEW S, IsFiniteSet(S), \A x \in S : f[x] \in Nat, NEW T \in SUBSET S
  PROVE  SumFunctionOnSet(f, S) = SumFunctionOnSet(f, T) + SumFunctionOnSet(f, S \ T)
  <1>1. IsFiniteSet(T) /\ IsFiniteSet(S \ T)
    BY FS_Subset
  <1>2. /\ SumFunctionOnSet(f, S) = Cardinality(Units(f, S))
        /\ SumFunctionOnSet(f, T) = Cardinality(Units(f, T))
        /\ SumFunctionOnSet(f, S \ T) = Cardinality(Units(f, S \ T))
    BY <1>1, SumCountsUnits
  <1>3. Units(f, S) = Units(f, T) \cup Units(f, S \ T)
    BY DEF Units
  <1>4. Units(f, T) \cap Units(f, S \ T) = {}
    BY DEF Units
  <1>5. IsFiniteSet(Units(f, T)) /\ IsFiniteSet(Units(f, S \ T))
    BY <1>1, UnitsFinite
  <1>6. Cardinality(Units(f, T) \cup Units(f, S \ T)) =
          Cardinality(Units(f, T)) + Cardinality(Units(f, S \ T)) - Cardinality({})
    <2>1. Cardinality(Units(f, T) \cup Units(f, S \ T)) =
            Cardinality(Units(f, T)) + Cardinality(Units(f, S \ T))
              - Cardinality(Units(f, T) \cap Units(f, S \ T))
      BY <1>5, FS_Union
    <2> QED
      BY <1>4, <2>1
  <1>7. Cardinality(Units(f, T)) \in Nat /\ Cardinality(Units(f, S \ T)) \in Nat
    BY <1>5, FS_CardinalityType
  <1>8. Cardinality(Units(f, S)) = Cardinality(Units(f, T)) + Cardinality(Units(f, S \ T))
    BY <1>3, <1>6, <1>7, FS_EmptySet
  <1> QED
    BY <1>2, <1>8

\* A pointwise bound is a bound of the sum.
LEMMA SumBound ==
  ASSUME NEW f, NEW g, NEW S, IsFiniteSet(S),
         \A x \in S : f[x] \in Nat /\ g[x] \in Nat /\ f[x] <= g[x]
  PROVE  SumFunctionOnSet(f, S) <= SumFunctionOnSet(g, S)
  <1> DEFINE rest == [x \in S |-> g[x] - f[x]]
  <1>1. \A x \in S : rest[x] \in Nat /\ g[x] = f[x] + rest[x]
    OBVIOUS
  <1> HIDE DEF rest
  <1>2. SumFunctionOnSet(g, S) = SumFunctionOnSet(f, S) + SumFunctionOnSet(rest, S)
    BY <1>1, SumAdd
  <1>3. SumFunctionOnSet(f, S) \in Nat /\ SumFunctionOnSet(rest, S) \in Nat
    BY <1>1, SumType
  <1> QED
    BY <1>2, <1>3
=============================================================================
