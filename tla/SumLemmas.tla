------------------------------ MODULE SumLemmas ------------------------------
(***************************************************************************)
(* Facts about finite sums, for the proofs about balances, reservations    *)
(* and counters.  The library's induction theorems take the induction      *)
(* hypothesis as an operator, which the provers cannot instantiate; here   *)
(* it is a SET (of naturals, or of subsets of a finite set), which makes   *)
(* induction a first-order fact.                                           *)
(***************************************************************************)
EXTENDS Integers, FiniteSets, Functions, FiniteSetTheorems, WellFoundedInduction, TLAPS

----------------------------------------------------------------------------
(* Induction *)

\* A non-empty set of naturals has a least element.
LEMMA LeastNat ==
    ASSUME NEW T \in SUBSET Nat, T # {}
    PROVE  \E n \in T : \A m \in T : n <= m
<1> DEFINE Less == {pair \in Nat \X Nat : pair[1] < pair[2]}
<1>1. IsWellFoundedOn(Less, Nat)
  BY NatLessThanWellFounded DEF OpToRel
<1> HIDE DEF Less
<1>2. PICK n \in T : \A m \in T : ~(<<m, n>> \in Less)
  BY <1>1, WFMin
<1>3. ASSUME NEW m \in T PROVE n <= m
  <2>1. <<m, n>> \in Nat \X Nat /\ <<m, n>>[1] = m /\ <<m, n>>[2] = n
    OBVIOUS
  <2>2. ~(m < n)
    BY <1>2, <2>1 DEF Less
  <2> QED BY <2>2
<1> QED BY <1>3

\* A set of subsets of a finite set that has the empty set, and every set whose
\* subsets of one element less it has, has all of them.
LEMMA SubsetInduction ==
    ASSUME NEW S, IsFiniteSet(S), NEW Q \in SUBSET (SUBSET S),
           {} \in Q,
           \A s \in SUBSET S : s # {} /\ (\A x \in s : s \ {x} \in Q) => s \in Q
    PROVE  Q = SUBSET S
<1> DEFINE T == {n \in Nat : \E s \in SUBSET S : s \notin Q /\ Cardinality(s) = n}
<1>1. SUFFICES ASSUME \E s \in SUBSET S : s \notin Q PROVE FALSE
  OBVIOUS
<1>2. \A s \in SUBSET S : IsFiniteSet(s) /\ Cardinality(s) \in Nat
  BY FS_Subset, FS_CardinalityType
<1>3. T # {}
  BY <1>1, <1>2
<1>4. PICK n \in T : \A m \in T : n <= m
  BY <1>3, LeastNat
<1>5. PICK s \in SUBSET S : s \notin Q /\ Cardinality(s) = n
  BY <1>4
<1>6. ASSUME NEW x \in s PROVE s \ {x} \in Q
  <2>1. s \ {x} \in SUBSET S
    OBVIOUS
  <2>2. IsFiniteSet(s) /\ Cardinality(s) \in Nat /\ Cardinality(s \ {x}) \in Nat
    BY <1>2, <2>1
  <2>3. Cardinality(s \ {x}) = Cardinality(s) - 1
    BY <2>2, FS_RemoveElement
  <2>4. ~(n <= Cardinality(s \ {x}))
    BY <1>5, <2>2, <2>3
  <2> QED BY <1>4, <2>1, <2>2, <2>4
<1>7. s # {}
  BY <1>5
<1> QED BY <1>5, <1>6, <1>7

\* Induction up to a bound.
LEMMA UpToInduction ==
    ASSUME NEW n \in Nat, NEW Q \in SUBSET (0 .. n), 0 \in Q,
           \A k \in Q : k < n => k + 1 \in Q
    PROVE  Q = 0 .. n
<1> DEFINE T == (0 .. n) \ Q
<1>1. SUFFICES ASSUME T # {} PROVE FALSE
  OBVIOUS
<1>2. PICK m \in T : \A k \in T : m <= k
  <2>1. T \in SUBSET Nat
    OBVIOUS
  <2> HIDE DEF T
  <2> QED BY <1>1, <2>1, LeastNat
<1>3. m # 0 /\ m - 1 \in 0 .. n /\ ~(m <= m - 1)
  BY <1>2
<1>4. m - 1 \in Q
  BY <1>2, <1>3
<1> QED BY <1>2, <1>3, <1>4

----------------------------------------------------------------------------
(* What SumFunctionOnSet computes *)

PickOf(s) == CHOOSE x \in s : TRUE

\* The recursion behind SumFunctionOnSet(f, S), as a predicate of its function.
SumsOver(f, S, g) ==
    g = [s \in SUBSET S |-> IF s = {} THEN 0 ELSE f[PickOf(s)] + g[s \ {PickOf(s)}]]

\* PickOf is an element.
LEMMA PickIn ==
    ASSUME NEW s, s # {}
    PROVE  PickOf(s) \in s
BY DEF PickOf

\* SumFunctionOnSet takes some function with that recursion.
LEMMA SumChoice ==
    ASSUME NEW f, NEW S
    PROVE  SumFunctionOnSet(f, S) = (CHOOSE g : SumsOver(f, S, g))[S]
BY DEF SumFunctionOnSet, FoldFunctionOnSet, MapThenFoldSet, SumsOver, PickOf

\* There is one, on the subsets of a finite set.
LEMMA SumExists ==
    ASSUME NEW f, NEW S, IsFiniteSet(S)
    PROVE  \E g : SumsOver(f, S, g)
<1> DEFINE Small(n) == {s \in SUBSET S : Cardinality(s) <= n}
           Sums(g, n) == g = [s \in Small(n) |->
                                 IF s = {} THEN 0 ELSE f[PickOf(s)] + g[s \ {PickOf(s)}]]
           T == {n \in Nat : ~ \E g : Sums(g, n)}
<1>1. \A s \in SUBSET S : /\ IsFiniteSet(s) /\ Cardinality(s) \in Nat
                          /\ Cardinality(s) = 0 <=> s = {}
                          /\ Cardinality(s) <= Cardinality(S)
  BY FS_Subset, FS_CardinalityType, FS_EmptySet
<1>2. Cardinality(S) \in Nat
  BY <1>1
<1>3. Small(Cardinality(S)) = SUBSET S
  BY <1>1
<1>4. T = {}
  <2>1. SUFFICES ASSUME T # {} PROVE FALSE
    OBVIOUS
  <2>2. PICK n \in T : \A m \in T : n <= m
    <3> HIDE DEF T
    <3>1. T \in SUBSET Nat
      BY DEF T
    <3> QED BY <2>1, <3>1, LeastNat
  <2>3. n \in Nat /\ ~ \E g : Sums(g, n)
    OBVIOUS
  <2>4. CASE n = 0
    <3>1. Small(n) = {{}}
      BY <1>1, <2>4
    <3>2. Sums([s \in {{}} |-> 0], n)
      BY <3>1
    <3> QED BY <2>3, <3>2
  <2>5. CASE n # 0
    <3>1. n - 1 \in Nat /\ ~(n <= n - 1)
      BY <2>3, <2>5
    <3>2. PICK g : Sums(g, n - 1)
      BY <2>2, <3>1
    <3> DEFINE h == [s \in Small(n) |->
                        IF s = {} THEN 0 ELSE f[PickOf(s)] + g[s \ {PickOf(s)}]]
    <3>3. ASSUME NEW s \in Small(n), s # {}
          PROVE  h[s \ {PickOf(s)}] = g[s \ {PickOf(s)}]
      <4> DEFINE t == s \ {PickOf(s)}
      <4>1. PickOf(s) \in s
        BY <3>3, PickIn
      <4>2. Cardinality(t) = Cardinality(s) - 1
        BY <1>1, <4>1, FS_RemoveElement
      <4>3. t \in Small(n) /\ t \in Small(n - 1)
        BY <1>1, <2>3, <4>2
      <4> HIDE DEF t
      <4>4. h[t] = g[t]
        BY <3>2, <4>3
      <4> QED BY <4>4 DEF t
    <3>4. h = [s \in Small(n) |->
                  IF s = {} THEN 0 ELSE f[PickOf(s)] + h[s \ {PickOf(s)}]]
      BY <3>3
    <3> HIDE DEF h
    <3> QED BY <2>3, <3>4
  <2> QED BY <2>4, <2>5
<1>5. \E g : Sums(g, Cardinality(S))
  BY <1>2, <1>4
<1> QED BY <1>3, <1>5 DEF SumsOver

\* Such functions agree on the subsets they share.
LEMMA SumUnique ==
    ASSUME NEW f, NEW S, NEW T \in SUBSET S, NEW g, NEW h, IsFiniteSet(S),
           SumsOver(f, S, g), SumsOver(f, T, h)
    PROVE  g[T] = h[T]
<1> DEFINE Q == {s \in SUBSET T : g[s] = h[s]}
<1>1. IsFiniteSet(T)
  BY FS_Subset
<1>2. {} \in Q
  BY DEF SumsOver
<1>3. ASSUME NEW s \in SUBSET T, s # {}, \A x \in s : s \ {x} \in Q
      PROVE  s \in Q
  <2>1. g[s] = f[PickOf(s)] + g[s \ {PickOf(s)}] /\ h[s] = f[PickOf(s)] + h[s \ {PickOf(s)}]
    BY <1>3 DEF SumsOver
  <2>2. g[s \ {PickOf(s)}] = h[s \ {PickOf(s)}]
    BY <1>3, PickIn
  <2> QED BY <2>1, <2>2
<1>4. Q = SUBSET T
  <2> HIDE DEF Q
  <2>1. Q \in SUBSET (SUBSET T)
    BY DEF Q
  <2> QED BY <1>1, <1>2, <1>3, <2>1, SubsetInduction
<1> QED BY <1>4

\* The sum over a finite set is the value of any function with the recursion.
LEMMA SumValue ==
    ASSUME NEW f, NEW S, IsFiniteSet(S), NEW g, SumsOver(f, S, g), NEW T \in SUBSET S
    PROVE  SumFunctionOnSet(f, T) = g[T]
<1> DEFINE h == CHOOSE k : SumsOver(f, T, k)
<1>1. IsFiniteSet(T)
  BY FS_Subset
<1>2. SumsOver(f, T, h)
  BY <1>1, SumExists
<1> HIDE DEF h
<1>3. g[T] = h[T]
  BY <1>2, SumUnique
<1> QED BY <1>3, SumChoice DEF h

\* The empty sum.
LEMMA SumEmpty ==
    ASSUME NEW f
    PROVE  SumFunctionOnSet(f, {}) = 0
<1>1. IsFiniteSet({})
  BY FS_EmptySet
<1>2. PICK g : SumsOver(f, {}, g)
  BY <1>1, SumExists
<1>3. g[{}] = 0
  BY <1>2 DEF SumsOver
<1> QED BY <1>1, <1>2, <1>3, SumValue

\* The sum takes one element first, whichever CHOOSE picks.
LEMMA SumPick ==
    ASSUME NEW f, NEW S, IsFiniteSet(S), S # {}
    PROVE  SumFunctionOnSet(f, S) = f[PickOf(S)] + SumFunctionOnSet(f, S \ {PickOf(S)})
<1>1. PICK g : SumsOver(f, S, g)
  BY SumExists
<1>2. g[S] = f[PickOf(S)] + g[S \ {PickOf(S)}]
  BY <1>1 DEF SumsOver
<1>3. SumFunctionOnSet(f, S) = g[S]
  BY <1>1, SumValue
<1>4. SumFunctionOnSet(f, S \ {PickOf(S)}) = g[S \ {PickOf(S)}]
  BY <1>1, SumValue
<1> QED BY <1>2, <1>3, <1>4

----------------------------------------------------------------------------
(* The algebra of sums *)

\* A sum of integers is an integer.
LEMMA SumInt ==
    ASSUME NEW f, NEW S, IsFiniteSet(S), \A x \in S : f[x] \in Int
    PROVE  SumFunctionOnSet(f, S) \in Int
<1> DEFINE Q == {s \in SUBSET S : SumFunctionOnSet(f, s) \in Int}
<1>1. {} \in Q
  BY SumEmpty
<1>2. ASSUME NEW s \in SUBSET S, s # {}, \A x \in s : s \ {x} \in Q
      PROVE  s \in Q
  <2>1. IsFiniteSet(s) /\ PickOf(s) \in s
    BY <1>2, FS_Subset, PickIn
  <2>2. SumFunctionOnSet(f, s) = f[PickOf(s)] + SumFunctionOnSet(f, s \ {PickOf(s)})
    BY <1>2, <2>1, SumPick
  <2> QED BY <1>2, <2>1, <2>2
<1>3. Q = SUBSET S
  <2> HIDE DEF Q
  <2>1. Q \in SUBSET (SUBSET S)
    BY DEF Q
  <2> QED BY <1>1, <1>2, <2>1, SubsetInduction
<1> QED BY <1>3

\* Any element can be taken first.
LEMMA SumRemove ==
    ASSUME NEW f, NEW S, IsFiniteSet(S), \A x \in S : f[x] \in Int, NEW e \in S
    PROVE  SumFunctionOnSet(f, S) = f[e] + SumFunctionOnSet(f, S \ {e})
<1> DEFINE Total(s) == SumFunctionOnSet(f, s)
           Q == {s \in SUBSET S : \A x \in s : Total(s) = f[x] + Total(s \ {x})}
<1>1. {} \in Q
  OBVIOUS
<1>2. ASSUME NEW s \in SUBSET S, s # {}, \A x \in s : s \ {x} \in Q, NEW x \in s
      PROVE  Total(s) = f[x] + Total(s \ {x})
  <2> DEFINE p == PickOf(s)
  <2>1. IsFiniteSet(s) /\ p \in s
    BY <1>2, FS_Subset, PickIn
  <2>2. Total(s) = f[p] + Total(s \ {p})
    BY <1>2, <2>1, SumPick
  <2>3. ASSUME x # p PROVE Total(s) = f[x] + Total(s \ {x})
    <3>1. Total(s \ {p}) = f[x] + Total((s \ {p}) \ {x})
      BY <1>2, <2>1, <2>3
    <3>2. Total(s \ {x}) = f[p] + Total((s \ {x}) \ {p})
      BY <1>2, <2>1, <2>3
    <3>3. (s \ {p}) \ {x} = (s \ {x}) \ {p}
      OBVIOUS
    <3>4. IsFiniteSet((s \ {x}) \ {p})
      BY <2>1, FS_Subset
    <3>5. Total((s \ {x}) \ {p}) \in Int /\ f[p] \in Int /\ f[x] \in Int
      BY <2>1, <3>4, SumInt
    <3>6. \A n \in Int : f[p] + (f[x] + n) = f[x] + (f[p] + n)
      BY <3>5
    <3> HIDE DEF Total, p
    <3> QED BY <2>2, <3>1, <3>2, <3>3, <3>5, <3>6
  <2> QED BY <2>2, <2>3
<1>3. Q = SUBSET S
  <2>1. \A s \in SUBSET S : s # {} /\ (\A x \in s : s \ {x} \in Q) => s \in Q
    BY <1>2
  <2> HIDE DEF Q
  <2>2. Q \in SUBSET (SUBSET S)
    BY DEF Q
  <2> QED BY <1>1, <2>1, <2>2, SubsetInduction
<1>4. S \in Q
  BY <1>3
<1> QED BY <1>4

\* One element more.
LEMMA SumAdd ==
    ASSUME NEW f, NEW S, IsFiniteSet(S), NEW e, e \notin S,
           \A x \in S \cup {e} : f[x] \in Int
    PROVE  SumFunctionOnSet(f, S \cup {e}) = f[e] + SumFunctionOnSet(f, S)
<1>1. IsFiniteSet(S \cup {e}) /\ (S \cup {e}) \ {e} = S
  BY FS_AddElement
<1> QED BY <1>1, SumRemove

\* Only the values on the set count.
LEMMA SumSame ==
    ASSUME NEW f, NEW g, NEW S, IsFiniteSet(S), \A x \in S : f[x] = g[x]
    PROVE  SumFunctionOnSet(f, S) = SumFunctionOnSet(g, S)
<1> DEFINE Q == {s \in SUBSET S : SumFunctionOnSet(f, s) = SumFunctionOnSet(g, s)}
<1>1. {} \in Q
  BY SumEmpty
<1>2. ASSUME NEW s \in SUBSET S, s # {}, \A x \in s : s \ {x} \in Q
      PROVE  s \in Q
  <2>1. IsFiniteSet(s) /\ PickOf(s) \in s
    BY <1>2, FS_Subset, PickIn
  <2>2. /\ SumFunctionOnSet(f, s) = f[PickOf(s)] + SumFunctionOnSet(f, s \ {PickOf(s)})
        /\ SumFunctionOnSet(g, s) = g[PickOf(s)] + SumFunctionOnSet(g, s \ {PickOf(s)})
    BY <1>2, <2>1, SumPick
  <2> QED BY <1>2, <2>1, <2>2
<1>3. Q = SUBSET S
  <2> HIDE DEF Q
  <2>1. Q \in SUBSET (SUBSET S)
    BY DEF Q
  <2> QED BY <1>1, <1>2, <2>1, SubsetInduction
<1> QED BY <1>3

\* One value changed.
LEMMA SumChange ==
    ASSUME NEW f, NEW g, NEW S, IsFiniteSet(S), NEW e \in S,
           \A x \in S : f[x] \in Int /\ g[x] \in Int,
           \A x \in S \ {e} : g[x] = f[x]
    PROVE  SumFunctionOnSet(g, S) = SumFunctionOnSet(f, S) + (g[e] - f[e])
<1>1. IsFiniteSet(S \ {e})
  BY FS_Subset
<1>2. SumFunctionOnSet(f, S) = f[e] + SumFunctionOnSet(f, S \ {e})
  BY SumRemove
<1>3. SumFunctionOnSet(g, S) = g[e] + SumFunctionOnSet(g, S \ {e})
  BY SumRemove
<1>4. SumFunctionOnSet(f, S \ {e}) = SumFunctionOnSet(g, S \ {e})
  BY <1>1, SumSame
<1>5. SumFunctionOnSet(f, S \ {e}) \in Int
  BY <1>1, SumInt
<1> QED BY <1>2, <1>3, <1>4, <1>5

\* Two values changed.
LEMMA SumChangeTwo ==
    ASSUME NEW f, NEW g, NEW S, IsFiniteSet(S), NEW d \in S, NEW e \in S, d # e,
           \A x \in S : f[x] \in Int /\ g[x] \in Int,
           \A x \in S \ {d, e} : g[x] = f[x]
    PROVE  SumFunctionOnSet(g, S) = SumFunctionOnSet(f, S) + (g[d] - f[d]) + (g[e] - f[e])
<1> DEFINE h == [x \in S |-> IF x = d THEN g[x] ELSE f[x]]
<1>1. /\ \A x \in S : h[x] \in Int
      /\ \A x \in S \ {d} : h[x] = f[x]
      /\ \A x \in S \ {e} : g[x] = h[x]
      /\ h[d] = g[d] /\ h[e] = f[e]
  OBVIOUS
<1> HIDE DEF h
<1>2. SumFunctionOnSet(h, S) = SumFunctionOnSet(f, S) + (h[d] - f[d])
  BY <1>1, SumChange
<1>3. SumFunctionOnSet(g, S) = SumFunctionOnSet(h, S) + (g[e] - h[e])
  BY <1>1, SumChange
<1>4. SumFunctionOnSet(f, S) \in Int
  BY SumInt
<1> QED BY <1>1, <1>2, <1>3, <1>4

\* Three values changed.
LEMMA SumChangeThree ==
    ASSUME NEW f, NEW g, NEW S, IsFiniteSet(S), NEW c \in S, NEW d \in S, NEW e \in S,
           c # d, c # e, d # e,
           \A x \in S : f[x] \in Int /\ g[x] \in Int,
           \A x \in S \ {c, d, e} : g[x] = f[x]
    PROVE  SumFunctionOnSet(g, S) =
              SumFunctionOnSet(f, S) + (g[c] - f[c]) + (g[d] - f[d]) + (g[e] - f[e])
<1> DEFINE h == [x \in S |-> IF x = c THEN g[x] ELSE f[x]]
<1>1. /\ \A x \in S : h[x] \in Int
      /\ \A x \in S \ {c} : h[x] = f[x]
      /\ \A x \in S \ {d, e} : g[x] = h[x]
      /\ h[c] = g[c] /\ h[d] = f[d] /\ h[e] = f[e]
  OBVIOUS
<1> HIDE DEF h
<1>2. SumFunctionOnSet(h, S) = SumFunctionOnSet(f, S) + (h[c] - f[c])
  BY <1>1, SumChange
<1>3. SumFunctionOnSet(g, S) = SumFunctionOnSet(h, S) + (g[d] - h[d]) + (g[e] - h[e])
  BY <1>1, SumChangeTwo
<1> QED BY <1>1, <1>2, <1>3

\* A sum of non-negative values is at least each of them.
LEMMA SumNat ==
    ASSUME NEW f, NEW S, IsFiniteSet(S), \A x \in S : f[x] \in Nat
    PROVE  /\ SumFunctionOnSet(f, S) \in Nat
           /\ \A x \in S : f[x] <= SumFunctionOnSet(f, S)
<1> DEFINE Q == {s \in SUBSET S : SumFunctionOnSet(f, s) \in Nat}
<1>1. {} \in Q
  BY SumEmpty
<1>2. ASSUME NEW s \in SUBSET S, s # {}, \A x \in s : s \ {x} \in Q
      PROVE  s \in Q
  <2>1. IsFiniteSet(s) /\ PickOf(s) \in s
    BY <1>2, FS_Subset, PickIn
  <2>2. SumFunctionOnSet(f, s) = f[PickOf(s)] + SumFunctionOnSet(f, s \ {PickOf(s)})
    BY <1>2, <2>1, SumPick
  <2> QED BY <1>2, <2>1, <2>2
<1>3. Q = SUBSET S
  <2> HIDE DEF Q
  <2>1. Q \in SUBSET (SUBSET S)
    BY DEF Q
  <2> QED BY <1>1, <1>2, <2>1, SubsetInduction
<1>4. ASSUME NEW x \in S PROVE f[x] <= SumFunctionOnSet(f, S)
  <2>1. SumFunctionOnSet(f, S) = f[x] + SumFunctionOnSet(f, S \ {x})
    BY SumRemove
  <2>2. SumFunctionOnSet(f, S \ {x}) \in Nat
    BY <1>3
  <2> QED BY <2>1, <2>2
<1> QED BY <1>3, <1>4

\* A sum of zeros.
LEMMA SumZero ==
    ASSUME NEW f, NEW S, IsFiniteSet(S), \A x \in S : f[x] = 0
    PROVE  SumFunctionOnSet(f, S) = 0
<1> DEFINE Q == {s \in SUBSET S : SumFunctionOnSet(f, s) = 0}
<1>1. {} \in Q
  BY SumEmpty
<1>2. ASSUME NEW s \in SUBSET S, s # {}, \A x \in s : s \ {x} \in Q
      PROVE  s \in Q
  <2>1. IsFiniteSet(s) /\ PickOf(s) \in s
    BY <1>2, FS_Subset, PickIn
  <2>2. SumFunctionOnSet(f, s) = f[PickOf(s)] + SumFunctionOnSet(f, s \ {PickOf(s)})
    BY <1>2, <2>1, SumPick
  <2> QED BY <1>2, <2>1, <2>2
<1>3. Q = SUBSET S
  <2> HIDE DEF Q
  <2>1. Q \in SUBSET (SUBSET S)
    BY DEF Q
  <2> QED BY <1>1, <1>2, <2>1, SubsetInduction
<1> QED BY <1>3

\* A sum over part of a set: the other elements count nothing.
LEMMA SumMasked ==
    ASSUME NEW f, NEW S, IsFiniteSet(S), NEW T \in SUBSET S, \A x \in T : f[x] \in Int
    PROVE  SumFunctionOnSet(f, T) = SumFunctionOnSet([x \in S |-> IF x \in T THEN f[x] ELSE 0], S)
<1> DEFINE g == [x \in S |-> IF x \in T THEN f[x] ELSE 0]
           Q == {s \in SUBSET S : SumFunctionOnSet(f, s \cap T) = SumFunctionOnSet(g, s)}
<1>1. {} \in Q
  BY SumEmpty
<1>2. ASSUME NEW s \in SUBSET S, s # {}, \A x \in s : s \ {x} \in Q
      PROVE  s \in Q
  <2> DEFINE p == PickOf(s)
  <2>1. IsFiniteSet(s) /\ p \in s /\ IsFiniteSet(s \cap T) /\ IsFiniteSet(s \ {p})
    BY <1>2, FS_Subset, PickIn
  <2> HIDE DEF p
  <2>2. \A x \in S : g[x] \in Int
    OBVIOUS
  <2>3. SumFunctionOnSet(g, s) = g[p] + SumFunctionOnSet(g, s \ {p})
    BY <2>1, <2>2, SumRemove
  <2>4. SumFunctionOnSet(f, (s \ {p}) \cap T) = SumFunctionOnSet(g, s \ {p})
    BY <1>2, <2>1
  <2>5. CASE p \in T
    <3>1. SumFunctionOnSet(f, s \cap T) = f[p] + SumFunctionOnSet(f, (s \cap T) \ {p})
      BY <2>1, <2>5, SumRemove
    <3>2. (s \cap T) \ {p} = (s \ {p}) \cap T
      OBVIOUS
    <3>3. g[p] = f[p]
      BY <2>1, <2>5
    <3>4. SumFunctionOnSet(f, s \cap T) = SumFunctionOnSet(g, s)
      BY <2>3, <2>4, <3>1, <3>2, <3>3
    <3> QED BY <3>4
  <2>6. CASE p \notin T
    <3>1. s \cap T = (s \ {p}) \cap T /\ g[p] = 0
      BY <2>1, <2>6
    <3>2. SumFunctionOnSet(g, s \ {p}) \in Int
      BY <2>1, <2>2, SumInt
    <3>3. SumFunctionOnSet(f, s \cap T) = SumFunctionOnSet(g, s)
      BY <2>3, <2>4, <3>1, <3>2
    <3> QED BY <3>3
  <2> QED BY <2>5, <2>6
<1>3. Q = SUBSET S
  <2> HIDE DEF Q
  <2>1. Q \in SUBSET (SUBSET S)
    BY DEF Q
  <2> QED BY <1>1, <1>2, <2>1, SubsetInduction
<1>4. S \in Q /\ S \cap T = T
  BY <1>3
<1> QED BY <1>4

\* The difference of two sums.
LEMMA SumMinus ==
    ASSUME NEW f, NEW g, NEW h, NEW S, IsFiniteSet(S),
           \A x \in S : f[x] \in Int /\ g[x] \in Int /\ h[x] = f[x] - g[x]
    PROVE  SumFunctionOnSet(h, S) = SumFunctionOnSet(f, S) - SumFunctionOnSet(g, S)
<1> DEFINE Total(k, s) == SumFunctionOnSet(k, s)
           Q == {s \in SUBSET S : Total(h, s) = Total(f, s) - Total(g, s)}
<1>1. {} \in Q
  BY SumEmpty
<1>2. ASSUME NEW s \in SUBSET S, s # {}, \A x \in s : s \ {x} \in Q
      PROVE  s \in Q
  <2> DEFINE p == PickOf(s)
  <2>1. IsFiniteSet(s) /\ p \in s /\ IsFiniteSet(s \ {p})
    BY <1>2, FS_Subset, PickIn
  <2>2. /\ Total(f, s) = f[p] + Total(f, s \ {p})
        /\ Total(g, s) = g[p] + Total(g, s \ {p})
        /\ Total(h, s) = h[p] + Total(h, s \ {p})
    BY <1>2, <2>1, SumPick
  <2>3. Total(f, s \ {p}) \in Int /\ Total(g, s \ {p}) \in Int
    BY <2>1, SumInt
  <2>4. Total(h, s \ {p}) = Total(f, s \ {p}) - Total(g, s \ {p})
    BY <1>2, <2>1
  <2>5. f[p] \in Int /\ g[p] \in Int /\ h[p] = f[p] - g[p]
    BY <2>1
  <2> HIDE DEF Total, p
  <2>6. Total(h, s) = Total(f, s) - Total(g, s)
    BY <2>2, <2>3, <2>4, <2>5
  <2> QED BY <2>6
<1>3. Q = SUBSET S
  <2> HIDE DEF Q
  <2>1. Q \in SUBSET (SUBSET S)
    BY DEF Q
  <2> QED BY <1>1, <1>2, <2>1, SubsetInduction
<1>4. S \in Q
  BY <1>3
<1> QED BY <1>4

\* A sum splits into that over a part and that over the rest.
LEMMA SumSplit ==
    ASSUME NEW f, NEW S, IsFiniteSet(S), NEW T \in SUBSET S, \A x \in S : f[x] \in Int
    PROVE  SumFunctionOnSet(f, S) = SumFunctionOnSet(f, T) + SumFunctionOnSet(f, S \ T)
<1> DEFINE Total(s) == SumFunctionOnSet(f, s)
           Q == {s \in SUBSET T : Total(S) = Total(s) + Total(S \ s)}
<1>1. {} \in Q
  <2>1. S \ {} = S /\ Total({}) = 0 /\ Total(S) \in Int
    BY SumEmpty, SumInt
  <2> HIDE DEF Total
  <2> QED BY <2>1
<1>2. ASSUME NEW s \in SUBSET T, s # {}, \A x \in s : s \ {x} \in Q
      PROVE  s \in Q
  <2> DEFINE p == PickOf(s)
             r == S \ (s \ {p})
  <2>1. /\ IsFiniteSet(s) /\ p \in s /\ p \in S /\ IsFiniteSet(r) /\ p \in r
        /\ IsFiniteSet(s \ {p}) /\ IsFiniteSet(S \ s)
    BY <1>2, FS_Subset, PickIn
  <2>2. Total(s) = f[p] + Total(s \ {p})
    BY <1>2, <2>1, SumPick
  <2>3. r \ {p} = S \ s
    BY <2>1
  <2>4. Total(r) = f[p] + Total(S \ s)
    BY <2>1, <2>3, SumRemove
  <2>5. Total(S) = Total(s \ {p}) + Total(r)
    BY <1>2, <2>1
  <2>6. f[p] \in Int /\ Total(s \ {p}) \in Int /\ Total(S \ s) \in Int
    BY <2>1, SumInt
  <2> HIDE DEF Total, p, r
  <2>7. Total(S) = Total(s) + Total(S \ s)
    BY <2>2, <2>4, <2>5, <2>6
  <2> QED BY <2>7
<1>3. Q = SUBSET T
  <2>1. IsFiniteSet(T)
    BY FS_Subset
  <2> HIDE DEF Q
  <2>2. Q \in SUBSET (SUBSET T)
    BY DEF Q
  <2> QED BY <1>1, <1>2, <2>1, <2>2, SubsetInduction
<1>4. T \in Q
  BY <1>3
<1> QED BY <1>4

\* A sum of smaller values is smaller.
LEMMA SumAtMost ==
    ASSUME NEW f, NEW g, NEW S, IsFiniteSet(S),
           \A x \in S : f[x] \in Int /\ g[x] \in Int /\ f[x] <= g[x]
    PROVE  SumFunctionOnSet(f, S) <= SumFunctionOnSet(g, S)
<1> DEFINE h == [x \in S |-> g[x] - f[x]]
<1>1. \A x \in S : h[x] \in Nat /\ h[x] = g[x] - f[x]
  OBVIOUS
<1> HIDE DEF h
<1>2. SumFunctionOnSet(h, S) = SumFunctionOnSet(g, S) - SumFunctionOnSet(f, S)
  BY <1>1, SumMinus
<1>3. SumFunctionOnSet(h, S) \in Nat
  BY <1>1, SumNat
<1>4. SumFunctionOnSet(f, S) \in Int /\ SumFunctionOnSet(g, S) \in Int
  BY SumInt
<1> QED BY <1>2, <1>3, <1>4

----------------------------------------------------------------------------
(* Sums over intervals *)

\* Intervals are finite.
LEMMA IntervalFinite ==
    ASSUME NEW a \in Int, NEW b \in Int
    PROVE  IsFiniteSet(a .. b)
BY FS_Interval

\* One index more.
LEMMA SumUpTo ==
    ASSUME NEW f, NEW a \in Int, NEW b \in Int, a <= b + 1,
           \A i \in a .. (b + 1) : f[i] \in Int
    PROVE  SumFunctionOnSet(f, a .. (b + 1)) = SumFunctionOnSet(f, a .. b) + f[b + 1]
<1>1. a .. (b + 1) = (a .. b) \cup {b + 1} /\ b + 1 \notin a .. b /\ IsFiniteSet(a .. b)
  BY IntervalFinite
<1>2. SumFunctionOnSet(f, a .. (b + 1)) = f[b + 1] + SumFunctionOnSet(f, a .. b)
  BY <1>1, SumAdd
<1>3. SumFunctionOnSet(f, a .. b) \in Int
  BY <1>1, SumInt
<1> QED BY <1>2, <1>3
=============================================================================
