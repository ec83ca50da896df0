--------------------------- MODULE EdgeNodeProofs ----------------------------
(***************************************************************************)
(* Lemmas about sums over finite sets, in which the accounting of the edge *)
(* nodes is stated, for the proofs of every component that uses the nodes. *)
(*                                                                         *)
(* The operators of the community modules recurse over the subsets of the  *)
(* set.  Induction is done here by the smallest exception: the subsets of  *)
(* a finite set are well founded, so a set of exceptions that is not empty *)
(* has a minimal one, which the lemmas then refute.                        *)
(***************************************************************************)
EXTENDS EdgeNode, FiniteSetTheorems, TLAPS

\* The sum of f over S.
SumOver(f, S) == MapThenSumSet(LAMBDA x : f[x], S)

Picked(s) == CHOOSE x \in s : TRUE

\* g adds up f over every subset of S, in the order of Picked.
Adds(g, f, S) ==
  g = [s \in SUBSET S |-> IF s = {} THEN 0 ELSE f[Picked(s)] + g[s \ {Picked(s)}]]

\* SumOver is the value at S of the function that MapThenFoldSet recurses on.
LEMMA SumUnfold ==
  ASSUME NEW S, NEW f
  PROVE  SumOver(f, S) = (CHOOSE g : Adds(g, f, S))[S]
BY DEF SumOver, MapThenSumSet, MapThenFoldSet, Adds, Picked

\* The element that is taken out first is an element.
LEMMA PickedIn == ASSUME NEW s, s # {} PROVE Picked(s) \in s
BY DEF Picked

\* Induction over finite sets, as the existence of a smallest exception.
LEMMA MinimalSubset ==
  ASSUME NEW S, IsFiniteSet(S), NEW B, B \subseteq SUBSET S, B # {}
  PROVE  \E M \in B : \A U \in B : ~(U \subseteq M /\ U # M)
<1>1. B \subseteq FiniteSubsetsOf(S)
  BY FS_Subset DEF FiniteSubsetsOf
<1>2. PICK M \in B : \A U \in B : ~(<<U, M>> \in StrictSubsetOrdering(S))
  BY <1>1, FS_StrictSubsetOrderingWellFounded, WFMin
<1>3. ASSUME NEW U \in B, U \subseteq M, U # M
      PROVE  FALSE
  BY <1>2, <1>3 DEF StrictSubsetOrdering
<1> QED
  BY <1>3

\* One step of the recursion.
LEMMA AddsValue ==
  ASSUME NEW f, NEW S, NEW g, Adds(g, f, S), NEW s \in SUBSET S
  PROVE  g[s] = IF s = {} THEN 0 ELSE f[Picked(s)] + g[s \ {Picked(s)}]
BY DEF Adds

\* Two such functions agree wherever the summands do, so the recursion has one
\* solution.
LEMMA AddsAgree ==
  ASSUME NEW S, IsFiniteSet(S), NEW T, NEW U, S \subseteq T, S \subseteq U,
         NEW f, NEW h, \A x \in S : f[x] = h[x],
         NEW g, Adds(g, f, T), NEW k, Adds(k, h, U)
  PROVE  g[S] = k[S]
<1> DEFINE B == {s \in SUBSET S : g[s] # k[s]}
<1>1. SUFFICES ASSUME B # {} PROVE FALSE
  BY DEF B
<1>2. PICK M \in B : \A W \in B : ~(W \subseteq M /\ W # M)
  <2>1. B \subseteq SUBSET S
    OBVIOUS
  <2> HIDE DEF B
  <2> QED
    BY <1>1, <2>1, MinimalSubset
<1>0. M \subseteq S /\ g[M] # k[M]
  OBVIOUS
<1>3. /\ g[M] = IF M = {} THEN 0 ELSE f[Picked(M)] + g[M \ {Picked(M)}]
      /\ k[M] = IF M = {} THEN 0 ELSE h[Picked(M)] + k[M \ {Picked(M)}]
  <2> HIDE DEF B
  <2> QED
    BY <1>0, AddsValue
<1>4. M # {}
  BY <1>3
<1>5. Picked(M) \in M /\ M \ {Picked(M)} # M /\ M \ {Picked(M)} \subseteq S
  BY <1>4, PickedIn
<1>6. g[M \ {Picked(M)}] = k[M \ {Picked(M)}]
  BY <1>2, <1>5
<1> QED
  BY <1>3, <1>4, <1>5, <1>6

\* The recursion has a solution.
LEMMA AddsExists ==
  ASSUME NEW S, IsFiniteSet(S), NEW f
  PROVE  \E g : Adds(g, f, S)
<1> DEFINE B == {s \in SUBSET S : ~ \E g : Adds(g, f, s)}
<1>1. SUFFICES ASSUME B # {} PROVE FALSE
  BY DEF B
<1>2. PICK M \in B : \A W \in B : ~(W \subseteq M /\ W # M)
  <2>1. B \subseteq SUBSET S
    OBVIOUS
  <2> HIDE DEF B
  <2> QED
    BY <1>1, <2>1, MinimalSubset
<1> DEFINE part(s) == CHOOSE g : Adds(g, f, s)
           val(s) == IF s = {} THEN 0
                     ELSE f[Picked(s)] + part(s \ {Picked(s)})[s \ {Picked(s)}]
           g == [s \in SUBSET M |-> val(s)]
<1>3. ASSUME NEW s \in SUBSET M, s # M
      PROVE  Adds(part(s), f, s)
  BY <1>2, <1>3
<1>4. ASSUME NEW s \in SUBSET M, s # M
      PROVE  g[s] = part(s)[s]
  <2> DEFINE r == s \ {Picked(s)}
  <2>1. CASE s = {}
    BY <1>3, <1>4, <2>1, AddsValue
  <2>2. CASE s # {}
    <3>1. Picked(s) \in s /\ r \in SUBSET M /\ r # M /\ r \subseteq s
      BY <2>2, PickedIn
    <3>2. Adds(part(s), f, s) /\ Adds(part(r), f, r)
      BY <1>3, <1>4, <3>1
    <3>3. IsFiniteSet(r)
      BY <3>1, FS_Subset
    <3> HIDE DEF part
    <3>4. part(s)[r] = part(r)[r]
      BY <3>1, <3>2, <3>3, AddsAgree
    <3>5. part(s)[s] = f[Picked(s)] + part(s)[r]
      BY <2>2, <3>2, AddsValue
    <3> QED
      BY <2>2, <3>4, <3>5
  <2> QED
    BY <2>1, <2>2
<1>5. ASSUME NEW s \in SUBSET M, s # {}
      PROVE  val(s) = f[Picked(s)] + g[s \ {Picked(s)}]
  <2>1. Picked(s) \in s /\ s \ {Picked(s)} \in SUBSET M /\ s \ {Picked(s)} # M
    BY <1>5, PickedIn
  <2>2. g[s \ {Picked(s)}] = part(s \ {Picked(s)})[s \ {Picked(s)}]
    BY <1>4, <2>1
  <2> HIDE DEF part, g
  <2> QED
    BY <1>5, <2>2
<1>6. Adds(g, f, M)
  <2>1. \A s \in SUBSET M :
          val(s) = IF s = {} THEN 0 ELSE f[Picked(s)] + g[s \ {Picked(s)}]
    <3> TAKE s \in SUBSET M
    <3>1. CASE s = {}
      BY <3>1
    <3>2. CASE s # {}
      <4>1. val(s) = f[Picked(s)] + g[s \ {Picked(s)}]
        BY <1>5, <3>2
      <4> HIDE DEF g, val
      <4> QED
        BY <3>2, <4>1
    <3> QED
      BY <3>1, <3>2
  <2>2. g = [s \in SUBSET M |-> val(s)]
    OBVIOUS
  <2> HIDE DEF g, val
  <2> QED
    BY <2>1, <2>2 DEF Adds
<1> QED
  BY <1>2, <1>6

\* The sum is the value of a solution.
LEMMA SumAdds ==
  ASSUME NEW S, IsFiniteSet(S), NEW f
  PROVE  \E g : Adds(g, f, S) /\ SumOver(f, S) = g[S]
BY AddsExists, SumUnfold

\* Only the values at the elements count.
LEMMA SumSame ==
  ASSUME NEW S, IsFiniteSet(S), NEW f, NEW h, \A x \in S : f[x] = h[x]
  PROVE  SumOver(f, S) = SumOver(h, S)
BY SumAdds, AddsAgree

\* The empty sum.
LEMMA SumEmpty == ASSUME NEW f PROVE SumOver(f, {}) = 0
<1>1. PICK g : Adds(g, f, {}) /\ SumOver(f, {}) = g[{}]
  BY SumAdds, FS_EmptySet
<1> QED
  BY <1>1, AddsValue

\* A sum is its first element and the sum of the rest.
LEMMA SumPicked ==
  ASSUME NEW S, IsFiniteSet(S), S # {}, NEW f
  PROVE  SumOver(f, S) = f[Picked(S)] + SumOver(f, S \ {Picked(S)})
<1> DEFINE R == S \ {Picked(S)}
<1>1. IsFiniteSet(R) /\ R \subseteq S
  BY FS_Subset
<1>2. PICK g : Adds(g, f, S) /\ SumOver(f, S) = g[S]
  BY SumAdds
<1>3. PICK k : Adds(k, f, R) /\ SumOver(f, R) = k[R]
  BY <1>1, SumAdds
<1>4. g[R] = k[R]
  BY <1>1, <1>2, <1>3, AddsAgree
<1>5. g[S] = f[Picked(S)] + g[R]
  BY <1>2, AddsValue
<1> QED
  BY <1>2, <1>3, <1>4, <1>5

\* A sum of naturals is a natural.
LEMMA SumNat ==
  ASSUME NEW S, IsFiniteSet(S), NEW f, \A x \in S : f[x] \in Nat
  PROVE  SumOver(f, S) \in Nat
<1> DEFINE B == {s \in SUBSET S : SumOver(f, s) \notin Nat}
<1>1. SUFFICES ASSUME B # {} PROVE FALSE
  BY DEF B
<1>2. PICK M \in B : \A W \in B : ~(W \subseteq M /\ W # M)
  <2>1. B \subseteq SUBSET S
    OBVIOUS
  <2> HIDE DEF B
  <2> QED
    BY <1>1, <2>1, MinimalSubset
<1>3. M \subseteq S /\ IsFiniteSet(M) /\ M # {}
  <2>1. M \subseteq S /\ SumOver(f, M) \notin Nat
    OBVIOUS
  <2> HIDE DEF B
  <2>2. CASE M = {}
    <3>1. SumOver(f, {}) \notin Nat
      BY <2>1, <2>2
    <3> QED
      BY <3>1, SumEmpty
  <2> QED
    BY <2>1, <2>2, FS_Subset
<1>4. Picked(M) \in M /\ M \ {Picked(M)} # M /\ M \ {Picked(M)} \subseteq S
  BY <1>3, PickedIn
<1>5. SumOver(f, M \ {Picked(M)}) \in Nat
  BY <1>2, <1>4
<1>6. SumOver(f, M) = f[Picked(M)] + SumOver(f, M \ {Picked(M)})
  BY <1>3, SumPicked
<1> QED
  BY <1>3, <1>4, <1>5, <1>6

\* Any element may be taken out, not only the first.
LEMMA SumRemove ==
  ASSUME NEW S, IsFiniteSet(S), NEW f, \A y \in S : f[y] \in Nat, NEW x \in S
  PROVE  SumOver(f, S) = f[x] + SumOver(f, S \ {x})
<1> DEFINE B == {s \in SUBSET S : \E y \in s : SumOver(f, s) # f[y] + SumOver(f, s \ {y})}
<1>1. SUFFICES ASSUME B # {} PROVE FALSE
  BY DEF B
<1>2. PICK M \in B : \A W \in B : ~(W \subseteq M /\ W # M)
  <2>1. B \subseteq SUBSET S
    OBVIOUS
  <2> HIDE DEF B
  <2> QED
    BY <1>1, <2>1, MinimalSubset
<1>3. M \subseteq S
  OBVIOUS
<1>4. PICK y \in M : SumOver(f, M) # f[y] + SumOver(f, M \ {y})
  OBVIOUS
<1>5. ASSUME NEW W, W \subseteq M, W # M, NEW z \in W
      PROVE  SumOver(f, W) = f[z] + SumOver(f, W \ {z})
  BY <1>2, <1>3, <1>5
<1> HIDE DEF B
<1> DEFINE c == Picked(M)
<1>6. IsFiniteSet(M) /\ c \in M
  BY <1>3, PickedIn, FS_Subset
<1>7. SumOver(f, M) = f[c] + SumOver(f, M \ {c})
  BY <1>4, <1>6, SumPicked
<1> HIDE DEF c
<1>8. c # y
  BY <1>4, <1>7
<1>9. SumOver(f, M \ {c}) = f[y] + SumOver(f, (M \ {c}) \ {y})
  BY <1>5, <1>6, <1>8
<1>10. SumOver(f, M \ {y}) = f[c] + SumOver(f, (M \ {y}) \ {c})
  BY <1>5, <1>6, <1>8
<1>11. (M \ {c}) \ {y} = (M \ {y}) \ {c}
  OBVIOUS
<1>12. f[c] \in Nat /\ f[y] \in Nat /\ SumOver(f, (M \ {c}) \ {y}) \in Nat
  <2>1. IsFiniteSet((M \ {c}) \ {y}) /\ \A z \in (M \ {c}) \ {y} : f[z] \in Nat
    BY <1>3, <1>6, FS_Subset
  <2> QED
    BY <1>3, <1>6, <2>1, SumNat
<1> QED
  BY <1>4, <1>7, <1>9, <1>10, <1>11, <1>12

\* An element may be added.
LEMMA SumAdd ==
  ASSUME NEW S, IsFiniteSet(S), NEW x, x \notin S, NEW f,
         \A y \in S \cup {x} : f[y] \in Nat
  PROVE  SumOver(f, S \cup {x}) = SumOver(f, S) + f[x]
<1>1. IsFiniteSet(S \cup {x}) /\ x \in S \cup {x} /\ (S \cup {x}) \ {x} = S
  BY FS_AddElement
<1>2. SumOver(f, S \cup {x}) = f[x] + SumOver(f, S)
  BY <1>1, SumRemove
<1>3. SumOver(f, S) \in Nat /\ f[x] \in Nat
  BY SumNat
<1> QED
  BY <1>2, <1>3

\* What one element contributes is no more than the sum.
LEMMA SumContains ==
  ASSUME NEW S, IsFiniteSet(S), NEW f, \A y \in S : f[y] \in Nat, NEW x \in S
  PROVE  f[x] <= SumOver(f, S) /\ SumOver(f, S \ {x}) = SumOver(f, S) - f[x]
<1>1. IsFiniteSet(S \ {x}) /\ \A y \in S \ {x} : f[y] \in Nat
  BY FS_Subset
<1>2. SumOver(f, S \ {x}) \in Nat /\ f[x] \in Nat
  BY <1>1, SumNat
<1>3. SumOver(f, S) = f[x] + SumOver(f, S \ {x})
  BY SumRemove
<1> QED
  BY <1>2, <1>3

\* A sum in which one summand grows by one grows by one.
LEMMA SumBump ==
  ASSUME NEW S, IsFiniteSet(S), NEW f \in [S -> Nat], NEW x \in S
  PROVE  SumOver([f EXCEPT ![x] = @ + 1], S) = SumOver(f, S) + 1
<1> DEFINE h == [f EXCEPT ![x] = @ + 1]
<1>1. /\ h \in [S -> Nat] /\ h[x] = f[x] + 1 /\ f[x] \in Nat
      /\ \A y \in S \ {x} : h[y] = f[y]
  OBVIOUS
<1> HIDE DEF h
<1>2. IsFiniteSet(S \ {x}) /\ \A y \in S \ {x} : f[y] \in Nat
  BY FS_Subset
<1>3. SumOver(h, S) = h[x] + SumOver(h, S \ {x})
  BY <1>1, SumRemove
<1>4. SumOver(f, S) = f[x] + SumOver(f, S \ {x})
  BY SumRemove
<1>5. SumOver(h, S \ {x}) = SumOver(f, S \ {x})
  BY <1>1, <1>2, SumSame
<1>6. SumOver(f, S \ {x}) \in Nat
  BY <1>2, SumNat
<1> QED
  BY <1>1, <1>3, <1>4, <1>5, <1>6 DEF h

\* A sum of zeros.
LEMMA SumZero ==
  ASSUME NEW S, IsFiniteSet(S), NEW f, \A x \in S : f[x] = 0
  PROVE  SumOver(f, S) = 0
<1> DEFINE B == {s \in SUBSET S : SumOver(f, s) # 0}
<1>1. SUFFICES ASSUME B # {} PROVE FALSE
  BY DEF B
<1>2. PICK M \in B : \A W \in B : ~(W \subseteq M /\ W # M)
  <2>1. B \subseteq SUBSET S
    OBVIOUS
  <2> HIDE DEF B
  <2> QED
    BY <1>1, <2>1, MinimalSubset
<1>3. M \subseteq S /\ SumOver(f, M) # 0
  OBVIOUS
<1>4. ASSUME NEW W, W \subseteq M, W # M
      PROVE  SumOver(f, W) = 0
  BY <1>2, <1>3, <1>4
<1> HIDE DEF B
<1>5. M # {}
  <2>1. CASE M = {}
    <3>1. SumOver(f, {}) # 0
      BY <1>3, <2>1
    <3> QED
      BY <3>1, SumEmpty
  <2> QED
    BY <2>1
<1>6. Picked(M) \in M /\ IsFiniteSet(M)
  BY <1>3, <1>5, PickedIn, FS_Subset
<1>7. SumOver(f, M) = f[Picked(M)] + SumOver(f, M \ {Picked(M)})
  BY <1>5, <1>6, SumPicked
<1>8. SumOver(f, M \ {Picked(M)}) = 0 /\ f[Picked(M)] = 0
  BY <1>3, <1>4, <1>6
<1> QED
  BY <1>3, <1>7, <1>8
=============================================================================
