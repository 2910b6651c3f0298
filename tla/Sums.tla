-------------------------------- MODULE Sums --------------------------------
(***************************************************************************)
(* What the proofs about quotas need of SumFunctionOnSet of the community  *)
(* modules: the sum of the values of a function over a finite set.  The    *)
(* library defines it by recursion on the set, taking an element by CHOOSE *)
(* until none is left; what it returns is established here by induction on *)
(* the cardinality, in a form that needs no operator as a parameter: the   *)
(* statement is turned into the set of the cases it is true of.            *)
(***************************************************************************)
EXTENDS Integers, FiniteSets, Functions, FiniteSetTheorems, WellFoundedInduction, TLAPS

\* The element the library takes first.
First(s) == CHOOSE x \in s : TRUE

\* g has the sum of f over each subset of S.
Adds(g, f, S) ==
  g = [s \in SUBSET S |-> IF s = {} THEN 0 ELSE f[First(s)] + g[s \ {First(s)}]]

\* The definition of the library, unfolded.
LEMMA SumIsChosen ==
  ASSUME NEW f, NEW S
  PROVE  SumFunctionOnSet(f, S) = (CHOOSE g : Adds(g, f, S))[S]
BY Zenon DEF SumFunctionOnSet, FoldFunctionOnSet, MapThenFoldSet, Adds, First

\* Induction on the numbers that are in a set.
LEMMA NaturalInduction ==
  ASSUME NEW Good, 0 \in Good, \A n \in Nat : n \in Good => n + 1 \in Good
  PROVE  Nat \subseteq Good
<1> SUFFICES ASSUME Nat \ Good # {} PROVE FALSE
  OBVIOUS
<1>1. PICK n \in Nat \ Good : \A m \in Nat \ Good : ~(<<m, n>> \in OpToRel(<, Nat))
  BY NatLessThanWellFounded, WFMin
<1>2. \A m \in Nat : m < n => <<m, n>> \in OpToRel(<, Nat)
  BY <1>1 DEF OpToRel
<1>3. n - 1 \in Nat /\ n - 1 < n
  OBVIOUS
<1>4. n - 1 \in Good
  BY <1>1, <1>2, <1>3, Zenon
<1> QED BY <1>3, <1>4

\* The element taken first is one of the set.
LEMMA FirstIsIn == ASSUME NEW s, s # {} PROVE First(s) \in s
BY DEF First

\* Induction on the subsets of a finite set, in the order of the sum.
LEMMA SubsetInduction ==
  ASSUME NEW S, IsFiniteSet(S), NEW Good, {} \in Good,
         \A s \in SUBSET S : s # {} /\ s \ {First(s)} \in Good => s \in Good
  PROVE  SUBSET S \subseteq Good
<1> DEFINE Small == {n \in Nat : \A s \in SUBSET S : Cardinality(s) <= n => s \in Good}
<1>1. \A s \in SUBSET S : IsFiniteSet(s) /\ Cardinality(s) \in Nat
  BY FS_Subset, FS_CardinalityType
<1>2. 0 \in Small
  <2>1. ASSUME NEW s \in SUBSET S, Cardinality(s) <= 0 PROVE s = {}
    <3>1. Cardinality(s) = 0
      BY <1>1, <2>1
    <3> QED BY <1>1, <3>1, FS_EmptySet
  <2> QED BY <2>1
<1>3. ASSUME NEW n \in Nat, n \in Small PROVE n + 1 \in Small
  <2> SUFFICES ASSUME NEW s \in SUBSET S, Cardinality(s) <= n + 1, s # {} PROVE s \in Good
    OBVIOUS
  <2>1. Cardinality(s \ {First(s)}) = Cardinality(s) - 1
    BY <1>1, FirstIsIn, FS_RemoveElement
  <2>2. s \ {First(s)} \in SUBSET S /\ Cardinality(s \ {First(s)}) <= n
    BY <1>1, <2>1
  <2> QED BY <1>3, <2>2
<1>4. Nat \subseteq Small
  <2> HIDE DEF Small
  <2> QED BY <1>2, <1>3, NaturalInduction
<1> QED BY <1>1, <1>4

\* There is such a function on the subsets of a finite set.
LEMMA AddsExists ==
  ASSUME NEW S, IsFiniteSet(S), NEW f
  PROVE  \E g : Adds(g, f, S)
<1> DEFINE Small(n) == {s \in SUBSET S : Cardinality(s) <= n}
           Step(g, s) == IF s = {} THEN 0 ELSE f[First(s)] + g[s \ {First(s)}]
           There(n) == \E g : g = [s \in Small(n) |-> Step(g, s)]
           Good == {n \in Nat : There(n)}
<1>1. \A s \in SUBSET S : IsFiniteSet(s) /\ Cardinality(s) \in Nat
  BY FS_Subset, FS_CardinalityType
<1>2. \A s \in SUBSET S : s # {} => /\ s \ {First(s)} \in SUBSET S
                                    /\ Cardinality(s \ {First(s)}) = Cardinality(s) - 1
  BY <1>1, FirstIsIn, FS_RemoveElement
<1>3. 0 \in Good
  <2>1. \A s \in Small(0) : s = {}
    <3>1. ASSUME NEW s \in Small(0) PROVE Cardinality(s) = 0
      BY <1>1
    <3> QED BY <1>1, <3>1, FS_EmptySet
  <2> DEFINE g == [s \in Small(0) |-> 0]
  <2>2. g = [s \in Small(0) |-> Step(g, s)]
    BY <2>1
  <2> QED BY <2>2
<1>4. ASSUME NEW n \in Nat, n \in Good PROVE n + 1 \in Good
  <2>1. PICK g : g = [s \in Small(n) |-> Step(g, s)]
    BY <1>4
  <2> DEFINE h == [s \in Small(n + 1) |-> Step(g, s)]
  <2>2. \A s \in Small(n) : s \in Small(n + 1) /\ h[s] = g[s]
    <3>1. \A s \in Small(n) : s \in Small(n + 1)
      BY <1>1
    <3>2. \A s \in Small(n) : g[s] = Step(g, s)
      <4> HIDE DEF Step, Small
      <4> QED BY <2>1
    <3>3. \A s \in Small(n + 1) : h[s] = Step(g, s)
      OBVIOUS
    <3> HIDE DEF Step, Small, h
    <3> QED BY <3>1, <3>2, <3>3
  <2>3. \A s \in Small(n + 1) : s # {} => s \ {First(s)} \in Small(n)
    BY <1>1, <1>2
  <2>4. \A s \in Small(n + 1) : Step(g, s) = Step(h, s)
    BY <2>2, <2>3
  <2>5. h = [s \in Small(n + 1) |-> Step(h, s)]
    BY <2>4
  <2>6. There(n + 1)
    <3> HIDE DEF h, Step, Small
    <3> QED BY <2>5
  <2> HIDE DEF There
  <2> QED BY <2>6
<1>5. Cardinality(S) \in Good
  <2> HIDE DEF Good
  <2> QED BY <1>1, <1>3, <1>4, NaturalInduction
<1>6. Small(Cardinality(S)) = SUBSET S
  BY FS_Subset
<1> QED BY <1>5, <1>6 DEF Adds

\* The same, by cases.
Totals(g, f, S) ==
  /\ g[{}] = 0
  /\ \A s \in SUBSET S : s # {} => g[s] = f[First(s)] + g[s \ {First(s)}]

\* The function the library chooses is one of these.
LEMMA ChosenAdds ==
  ASSUME NEW S, IsFiniteSet(S), NEW f
  PROVE  \E g : SumFunctionOnSet(f, S) = g[S] /\ Totals(g, f, S)
<1> DEFINE g == CHOOSE g : Adds(g, f, S)
<1>1. Adds(g, f, S)
  BY AddsExists
<1>2. SumFunctionOnSet(f, S) = g[S]
  BY SumIsChosen
<1> HIDE DEF g
<1> QED BY <1>1, <1>2 DEF Adds, Totals

\* A sum of natural numbers is one.
LEMMA SumIsNat ==
  ASSUME NEW S, IsFiniteSet(S), NEW f \in [S -> Nat]
  PROVE  SumFunctionOnSet(f, S) \in Nat
<1>1. PICK g : SumFunctionOnSet(f, S) = g[S] /\ Totals(g, f, S)
  BY ChosenAdds
<1> DEFINE Good == {s \in SUBSET S : g[s] \in Nat}
<1>2. {} \in Good
  BY <1>1 DEF Totals
<1>3. ASSUME NEW s \in SUBSET S, s # {}, s \ {First(s)} \in Good PROVE s \in Good
  BY <1>1, <1>3, FirstIsIn DEF Totals
<1>4. SUBSET S \subseteq Good
  <2> HIDE DEF Good
  <2> QED BY <1>2, <1>3, SubsetInduction
<1> QED BY <1>1, <1>4

\* A sum changes by what one of its terms changes.
LEMMA SumChanges ==
  ASSUME NEW S, IsFiniteSet(S), NEW f \in [S -> Nat], NEW x \in S, NEW n \in Nat,
         NEW h \in [S -> Nat], \A y \in S : h[y] = IF y = x THEN n ELSE f[y]
  PROVE  SumFunctionOnSet(h, S) = SumFunctionOnSet(f, S) - f[x] + n
<1>1. PICK g : SumFunctionOnSet(f, S) = g[S] /\ Totals(g, f, S)
  BY ChosenAdds
<1>2. PICK k : SumFunctionOnSet(h, S) = k[S] /\ Totals(k, h, S)
  BY ChosenAdds
<1> DEFINE Good == {s \in SUBSET S : /\ g[s] \in Nat /\ k[s] \in Nat
                                     /\ k[s] = IF x \in s THEN g[s] - f[x] + n ELSE g[s]}
<1>3. {} \in Good
  BY <1>1, <1>2 DEF Totals
<1>4. ASSUME NEW s \in SUBSET S, s # {}, s \ {First(s)} \in Good PROVE s \in Good
  <2>1. First(s) \in s
    BY <1>4, FirstIsIn
  <2>2. /\ g[s] = f[First(s)] + g[s \ {First(s)}]
        /\ k[s] = h[First(s)] + k[s \ {First(s)}]
    BY <1>1, <1>2, <1>4 DEF Totals
  <2>3. CASE First(s) = x
    BY <1>4, <2>1, <2>2, <2>3
  <2>4. CASE First(s) # x
    BY <1>4, <2>1, <2>2, <2>4
  <2> QED BY <2>3, <2>4
<1>5. SUBSET S \subseteq Good
  <2> HIDE DEF Good
  <2> QED BY <1>3, <1>4, SubsetInduction
<1> QED BY <1>1, <1>2, <1>5

\* A sum is not smaller than one of its terms.
LEMMA TermInSum ==
  ASSUME NEW S, IsFiniteSet(S), NEW f \in [S -> Nat], NEW x \in S
  PROVE  f[x] <= SumFunctionOnSet(f, S)
<1> DEFINE h == [y \in S |-> IF y = x THEN 0 ELSE f[y]]
<1>1. h \in [S -> Nat] /\ \A y \in S : h[y] = IF y = x THEN 0 ELSE f[y]
  OBVIOUS
<1> HIDE DEF h
<1>2. SumFunctionOnSet(h, S) = SumFunctionOnSet(f, S) - f[x] + 0
  BY <1>1, SumChanges
<1>3. SumFunctionOnSet(h, S) \in Nat /\ SumFunctionOnSet(f, S) \in Nat
  BY <1>1, SumIsNat
<1> QED BY <1>2, <1>3

\* Nothing adds up to nothing.
LEMMA SumOfNothing ==
  ASSUME NEW S, IsFiniteSet(S), NEW f \in [S -> Nat], \A x \in S : f[x] = 0
  PROVE  SumFunctionOnSet(f, S) = 0
<1>1. PICK g : SumFunctionOnSet(f, S) = g[S] /\ Totals(g, f, S)
  BY ChosenAdds
<1> DEFINE Good == {s \in SUBSET S : g[s] = 0}
<1>2. {} \in Good
  BY <1>1 DEF Totals
<1>3. ASSUME NEW s \in SUBSET S, s # {}, s \ {First(s)} \in Good PROVE s \in Good
  BY <1>1, <1>3, FirstIsIn DEF Totals
<1>4. SUBSET S \subseteq Good
  <2> HIDE DEF Good
  <2> QED BY <1>2, <1>3, SubsetInduction
<1> QED BY <1>1, <1>4

-----------------------------------------------------------------------------
(* Sums over different sets.                                               *)

\* The sum of f over one set is part of that over a larger one.
LEMMA SumOfPart ==
  ASSUME NEW S, IsFiniteSet(S), NEW f, NEW g, Totals(g, f, S), NEW T \in SUBSET S
  PROVE  SumFunctionOnSet(f, T) = g[T]
<1>1. IsFiniteSet(T)
  BY FS_Subset
<1>2. PICK k : SumFunctionOnSet(f, T) = k[T] /\ Totals(k, f, T)
  BY <1>1, ChosenAdds
<1> DEFINE Good == {s \in SUBSET T : k[s] = g[s]}
<1>3. {} \in Good
  BY <1>2 DEF Totals
<1>4. ASSUME NEW s \in SUBSET T, s # {}, s \ {First(s)} \in Good PROVE s \in Good
  BY <1>2, <1>4 DEF Totals
<1>5. SUBSET T \subseteq Good
  <2> HIDE DEF Good
  <2> QED BY <1>1, <1>3, <1>4, SubsetInduction
<1> QED BY <1>2, <1>5

\* The recursion of the library, from one set to the next.
LEMMA SumUnfolds ==
  ASSUME NEW S, IsFiniteSet(S), NEW f
  PROVE  /\ SumFunctionOnSet(f, {}) = 0
         /\ S # {} => SumFunctionOnSet(f, S)
                        = f[First(S)] + SumFunctionOnSet(f, S \ {First(S)})
<1>1. PICK g : SumFunctionOnSet(f, S) = g[S] /\ Totals(g, f, S)
  BY ChosenAdds
<1>2. \A T \in SUBSET S : SumFunctionOnSet(f, T) = g[T]
  BY <1>1, SumOfPart
<1> QED BY <1>1, <1>2 DEF Totals

\* Induction on the subsets of a finite set, in any order.
LEMMA SetInduction ==
  ASSUME NEW S, IsFiniteSet(S), NEW Good,
         \A s \in SUBSET S : (\A x \in s : s \ {x} \in Good) => s \in Good
  PROVE  SUBSET S \subseteq Good
<1> DEFINE Small == {n \in Nat : \A s \in SUBSET S : Cardinality(s) <= n => s \in Good}
<1>1. \A s \in SUBSET S : IsFiniteSet(s) /\ Cardinality(s) \in Nat
  BY FS_Subset, FS_CardinalityType
<1>2. 0 \in Small
  <2>1. ASSUME NEW s \in SUBSET S, Cardinality(s) <= 0 PROVE s = {}
    <3>1. Cardinality(s) = 0
      BY <1>1, <2>1
    <3> QED BY <1>1, <3>1, FS_EmptySet
  <2> QED BY <2>1
<1>3. ASSUME NEW n \in Nat, n \in Small PROVE n + 1 \in Small
  <2> SUFFICES ASSUME NEW s \in SUBSET S, Cardinality(s) <= n + 1, NEW x \in s
               PROVE  s \ {x} \in Good
    OBVIOUS
  <2>1. Cardinality(s \ {x}) = Cardinality(s) - 1
    BY <1>1, FS_RemoveElement
  <2>2. s \ {x} \in SUBSET S /\ Cardinality(s \ {x}) <= n
    BY <1>1, <2>1
  <2> QED BY <1>3, <2>2
<1>4. Nat \subseteq Small
  <2> HIDE DEF Small
  <2> QED BY <1>2, <1>3, NaturalInduction
<1> QED BY <1>1, <1>4

\* Whatever the order of the library, any term can be taken out of a sum.
LEMMA SumTakesOut ==
  ASSUME NEW S, IsFiniteSet(S), NEW f, \A x \in S : f[x] \in Nat
  PROVE  /\ SumFunctionOnSet(f, S) \in Nat
         /\ \A y \in S : SumFunctionOnSet(f, S) = f[y] + SumFunctionOnSet(f, S \ {y})
<1> DEFINE Total(s) == SumFunctionOnSet(f, s)
           Nats == {s \in SUBSET S : Total(s) \in Nat}
           Good == {s \in SUBSET S : \A y \in s : Total(s) = f[y] + Total(s \ {y})}
<1>1. \A s \in SUBSET S : IsFiniteSet(s)
  BY FS_Subset
<1>2. /\ Total({}) = 0
      /\ \A s \in SUBSET S : s # {} => Total(s) = f[First(s)] + Total(s \ {First(s)})
  BY <1>1, SumUnfolds
<1> HIDE DEF Total
<1>3. SUBSET S \subseteq Nats
  <2>1. {} \in Nats
    BY <1>2
  <2>2. ASSUME NEW s \in SUBSET S, s # {}, s \ {First(s)} \in Nats PROVE s \in Nats
    BY <1>2, <2>2, FirstIsIn
  <2> HIDE DEF Nats
  <2> QED BY <2>1, <2>2, SubsetInduction
<1>4. ASSUME NEW s \in SUBSET S, \A x \in s : s \ {x} \in Good PROVE s \in Good
  <2> SUFFICES ASSUME NEW y \in s, s # {} PROVE Total(s) = f[y] + Total(s \ {y})
    OBVIOUS
  <2> DEFINE x == First(s)
  <2>1. x \in s /\ Total(s) = f[x] + Total(s \ {x})
    BY <1>2, FirstIsIn
  <2> HIDE DEF x
  <2>2. CASE x # y
    <3>1. Total(s \ {x}) = f[y] + Total((s \ {x}) \ {y})
      BY <1>4, <2>1, <2>2
    <3>2. Total(s \ {y}) = f[x] + Total((s \ {y}) \ {x})
      BY <1>4, <2>1, <2>2
    <3>3. (s \ {x}) \ {y} = (s \ {y}) \ {x}
      OBVIOUS
    <3>4. Total((s \ {y}) \ {x}) \in Nat /\ f[x] \in Nat /\ f[y] \in Nat
      BY <1>3, <2>1
    <3> QED BY <2>1, <3>1, <3>2, <3>3, <3>4
  <2> QED BY <2>1, <2>2
<1>5. SUBSET S \subseteq Good
  <2> HIDE DEF Good
  <2> QED BY <1>1, <1>4, SetInduction
<1> QED BY <1>3, <1>5 DEF Total

\* A sum over two sets that have nothing in common.
LEMMA SumOfUnion ==
  ASSUME NEW S, NEW T, IsFiniteSet(S \cup T), S \cap T = {},
         NEW f, \A x \in S \cup T : f[x] \in Nat
  PROVE  SumFunctionOnSet(f, S \cup T) = SumFunctionOnSet(f, S) + SumFunctionOnSet(f, T)
<1> DEFINE Total(s) == SumFunctionOnSet(f, s)
           Good == {s \in SUBSET S : Total(s \cup T) = Total(s) + Total(T)}
<1>1. \A s \in SUBSET (S \cup T) :
        Total(s) \in Nat /\ \A y \in s : Total(s) = f[y] + Total(s \ {y})
  BY FS_Subset, SumTakesOut
<1>2. Total({}) = 0
  BY FS_EmptySet, SumUnfolds
<1>3. IsFiniteSet(S)
  BY FS_Subset
<1> HIDE DEF Total
<1>4. ASSUME NEW s \in SUBSET S, \A x \in s : s \ {x} \in Good PROVE s \in Good
  <2>1. CASE s = {}
    <3>1. s \cup T = T
      BY <2>1
    <3> QED BY <1>1, <1>2, <2>1, <3>1
  <2>2. ASSUME NEW x \in s PROVE Total(s \cup T) = Total(s) + Total(T)
    <3>1. (s \cup T) \ {x} = (s \ {x}) \cup T
      OBVIOUS
    <3>2. Total(s \cup T) = f[x] + Total((s \ {x}) \cup T) /\ Total(s) = f[x] + Total(s \ {x})
      BY <1>1, <3>1
    <3>3. Total((s \ {x}) \cup T) = Total(s \ {x}) + Total(T)
      BY <1>4
    <3>4. f[x] \in Nat /\ Total(s \ {x}) \in Nat /\ Total(T) \in Nat
      BY <1>1
    <3> QED BY <3>2, <3>3, <3>4
  <2> QED BY <2>1, <2>2
<1>5. SUBSET S \subseteq Good
  <2> HIDE DEF Good
  <2> QED BY <1>3, <1>4, SetInduction
<1> QED BY <1>5 DEF Total

\* A sum over a part is not larger.
LEMMA SumOfSubset ==
  ASSUME NEW S, NEW T, IsFiniteSet(T), S \subseteq T, NEW f, \A x \in T : f[x] \in Nat
  PROVE  SumFunctionOnSet(f, S) <= SumFunctionOnSet(f, T)
<1> DEFINE Total(s) == SumFunctionOnSet(f, s)
<1>1. S \cup (T \ S) = T /\ S \cap (T \ S) = {}
  OBVIOUS
<1>2. Total(T) = Total(S) + Total(T \ S)
  BY <1>1, SumOfUnion
<1>3. Total(S) \in Nat /\ Total(T \ S) \in Nat
  BY FS_Subset, SumTakesOut
<1> HIDE DEF Total
<1>4. Total(S) <= Total(T)
  BY <1>2, <1>3
<1> QED BY <1>4 DEF Total

\* Terms may change their places: b says where each has gone.
LEMMA SumOfImage ==
  ASSUME NEW S, IsFiniteSet(S), NEW f, \A x \in S : f[x] \in Nat,
         NEW b, \A x, y \in S : b[x] = b[y] => x = y,
         NEW h, \A x \in S : h[b[x]] = f[x],
         NEW T, \A x \in S : b[x] \in T, \A y \in T : \E x \in S : y = b[x]
  PROVE  IsFiniteSet(T) /\ SumFunctionOnSet(h, T) = SumFunctionOnSet(f, S)
<1> DEFINE To(s) == {b[x] : x \in s}
           Total(s) == SumFunctionOnSet(f, s)
           Moved(s) == SumFunctionOnSet(h, s)
           Good == {s \in SUBSET S : IsFiniteSet(To(s)) /\ Moved(To(s)) = Total(s)}
<1>1. \A s \in SUBSET S :
        Total(s) \in Nat /\ \A y \in s : Total(s) = f[y] + Total(s \ {y})
  BY FS_Subset, SumTakesOut
<1>2. Total({}) = 0 /\ Moved({}) = 0
  BY FS_EmptySet, SumUnfolds
<1>3. ASSUME NEW s \in SUBSET S, IsFiniteSet(To(s)), NEW y \in To(s)
      PROVE  Moved(To(s)) = h[y] + Moved(To(s) \ {y})
  <2>1. \A z \in To(s) : h[z] \in Nat
    OBVIOUS
  <2> HIDE DEF To
  <2> QED BY <1>3, <2>1, SumTakesOut
<1> HIDE DEF Total, Moved
<1>4. ASSUME NEW s \in SUBSET S, \A x \in s : s \ {x} \in Good PROVE s \in Good
  <2>1. CASE s = {}
    <3>1. To(s) = {}
      BY <2>1
    <3> QED BY <1>2, <2>1, <3>1, FS_EmptySet
  <2>2. ASSUME NEW x \in s PROVE IsFiniteSet(To(s)) /\ Moved(To(s)) = Total(s)
    <3>1. To(s \ {x}) = To(s) \ {b[x]} /\ b[x] \in To(s)
      OBVIOUS
    <3>2. To(s) = To(s \ {x}) \cup {b[x]}
      BY <3>1
    <3>3. IsFiniteSet(To(s \ {x})) /\ Moved(To(s \ {x})) = Total(s \ {x})
      BY <1>4
    <3>4. IsFiniteSet(To(s))
      <4> HIDE DEF To
      <4>1. IsFiniteSet(To(s \ {x}) \cup {b[x]})
        BY <3>3, FS_AddElement, Zenon
      <4> QED BY <3>2, <4>1
    <3>5. Moved(To(s)) = h[b[x]] + Moved(To(s) \ {b[x]})
      BY <1>3, <3>1, <3>4
    <3>6. Total(s) = f[x] + Total(s \ {x}) /\ h[b[x]] = f[x]
      BY <1>1
    <3> HIDE DEF To
    <3> QED BY <3>1, <3>3, <3>4, <3>5, <3>6
  <2> QED BY <2>1, <2>2
<1>5. SUBSET S \subseteq Good
  <2> HIDE DEF Good
  <2> QED BY <1>4, SetInduction
<1>6. S \in Good
  BY <1>5
<1>7. To(S) = T
  OBVIOUS
<1> QED BY <1>6, <1>7 DEF Total, Moved
=============================================================================
