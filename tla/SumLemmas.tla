----------------------------- MODULE SumLemmas ------------------------------
(***************************************************************************)
(* What the sum of a function over a finite set does when the function or  *)
(* the set changes: worth of the orders in flight, the sizes of the orders *)
(* of a job.  SumFunctionOnSet is a recursive function over the subsets of *)
(* the set.  Each fact about it is shown by taking a smallest subset of    *)
(* which it is false: it is true of that subset less one element.          *)
(* And what a fold over a sequence is, when what it folds keeps to a type: *)
(* the last of as many runs as there are elements.                         *)
(***************************************************************************)
EXTENDS SequencesExt, FiniteSetTheorems, SequenceTheorems, WellFoundedInduction, TLAPS

\* A non-empty collection of finite sets has one that contains no other of them.
LEMMA MinimalSubset ==
  ASSUME NEW S, IsFiniteSet(S), NEW T \in SUBSET SUBSET S, T # {}
  PROVE  \E A \in T : \A B \in T : ~(B \subseteq A /\ B # A)
<1>1. IsWellFoundedOn(StrictSubsetOrdering(S), FiniteSubsetsOf(S))
  BY FS_StrictSubsetOrderingWellFounded
<1>2. FiniteSubsetsOf(S) = SUBSET S
  BY FS_FiniteSubsetsOfFinite
<1>3. PICK A \in T : \A B \in T : ~(<<B, A>> \in StrictSubsetOrdering(S))
  BY <1>1, <1>2, WFMin
<1>4. ASSUME NEW B \in T
      PROVE ~(B \subseteq A /\ B # A)
  <2>1. <<B, A>> \in (SUBSET S) \X (SUBSET S)
    OBVIOUS
  <2> QED BY <1>3, <2>1 DEF StrictSubsetOrdering
<1> QED BY <1>4

\* What the definition of SumFunctionOnSet is built from, by name.
Chosen(s) == CHOOSE x \in s : TRUE
SumStep(f, g, s) == IF s = {} THEN 0 ELSE f[Chosen(s)] + g[s \ {Chosen(s)}]
Summed(f, A, g) == g = [s \in SUBSET A |-> SumStep(f, g, s)]
Sums(f, A) == CHOOSE g : Summed(f, A, g)

\* The sum is the value, at the set, of the function that sums every subset.
LEMMA Unfold == ASSUME NEW f, NEW A PROVE SumFunctionOnSet(f, A) = Sums(f, A)[A]
BY DEF SumFunctionOnSet, FoldFunctionOnSet, MapThenFoldSet, Sums, SumStep, Chosen, Summed

\* The element a sum is taken apart at is one of the set.
LEMMA ChosenIsIn == ASSUME NEW s, s # {} PROVE Chosen(s) \in s
BY DEF Chosen

\* Two such functions agree on the subsets on which what they sum agrees.
LEMMA SumsAgree ==
  ASSUME NEW e, NEW f, NEW A, NEW B, NEW g, NEW h, IsFiniteSet(A),
         Summed(e, A, g), Summed(f, B, h), \A x \in A \cap B : e[x] = f[x]
  PROVE  \A s \in SUBSET (A \cap B) : g[s] = h[s]
<1> DEFINE bad == {s \in SUBSET (A \cap B) : g[s] # h[s]}
<1>1. SUFFICES ASSUME bad # {} PROVE FALSE
  OBVIOUS
<1>2. PICK s \in bad : \A t \in bad : ~(t \subseteq s /\ t # s)
  <2>1. bad \in SUBSET SUBSET A /\ bad # {}
    BY <1>1
  <2> HIDE DEF bad
  <2> QED BY <2>1, MinimalSubset
<1>3. g[s] = SumStep(e, g, s) /\ h[s] = SumStep(f, h, s)
  BY DEF Summed
<1>4. s # {}
  BY <1>3 DEF SumStep
<1>5. Chosen(s) \in s
  BY <1>4, ChosenIsIn
<1>6. g[s \ {Chosen(s)}] = h[s \ {Chosen(s)}]
  BY <1>2, <1>5
<1>7. e[Chosen(s)] = f[Chosen(s)]
  BY <1>5
<1> QED BY <1>3, <1>4, <1>6, <1>7 DEF SumStep

\* There is such a function: the recursion is one.
LEMMA SumsExist ==
  ASSUME NEW f, NEW S, IsFiniteSet(S)
  PROVE  Summed(f, S, Sums(f, S))
<1> DEFINE bad == {A \in SUBSET S : ~ \E g : Summed(f, A, g)}
<1>1. SUFFICES ASSUME bad # {} PROVE FALSE
  BY DEF Sums
<1>2. PICK A \in bad : \A B \in bad : ~(B \subseteq A /\ B # A)
  <2>1. bad \in SUBSET SUBSET S /\ bad # {}
    BY <1>1
  <2> HIDE DEF bad
  <2> QED BY <2>1, MinimalSubset
<1>3. ASSUME NEW s \in SUBSET A, s # A
      PROVE  Summed(f, s, Sums(f, s))
  BY <1>2, <1>3 DEF Sums
<1> DEFINE g == [s \in SUBSET A |->
                   IF s # A THEN Sums(f, s)[s]
                   ELSE IF A = {} THEN 0
                   ELSE f[Chosen(A)] + Sums(f, A \ {Chosen(A)})[A \ {Chosen(A)}]]
<1>4. ASSUME NEW s \in SUBSET A
      PROVE  g[s] = SumStep(f, g, s)
  <2>1. CASE s = {}
    <3>1. CASE s = A BY <2>1, <3>1 DEF SumStep
    <3>2. CASE s # A
      <4>1. Summed(f, s, Sums(f, s)) BY <1>3, <3>2
      <4>2. Sums(f, s)[s] = SumStep(f, Sums(f, s), s) BY <4>1 DEF Summed
      <4> QED BY <2>1, <3>2, <4>2 DEF SumStep
    <3> QED BY <3>1, <3>2
  <2>2. CASE s # {}
    <3> DEFINE r == s \ {Chosen(s)}
    <3>1. r \in SUBSET A /\ r # A /\ r # s /\ r \in SUBSET s
      BY <2>2, ChosenIsIn
    <3>2. g[r] = Sums(f, r)[r]
      BY <3>1
    <3>3. CASE s = A
      BY <2>2, <3>2, <3>3 DEF SumStep
    <3>4. CASE s # A
      <4>1. Summed(f, s, Sums(f, s)) /\ Summed(f, r, Sums(f, r))
        BY <1>3, <3>4, <3>1
      <4>2. IsFiniteSet(s)
        BY FS_Subset
      <4>3. Sums(f, s)[r] = Sums(f, r)[r]
        BY <4>1, <4>2, <3>1, SumsAgree
      <4>4. Sums(f, s)[s] = SumStep(f, Sums(f, s), s) BY <4>1 DEF Summed
      <4> QED BY <2>2, <3>2, <3>4, <4>3, <4>4 DEF SumStep
    <3> QED BY <3>3, <3>4
  <2> QED BY <2>1, <2>2
<1>5. Summed(f, A, g)
  BY <1>4 DEF Summed
<1> QED BY <1>2, <1>5
-----------------------------------------------------------------------------
\* Nothing sums to zero.
LEMMA SumEmpty == ASSUME NEW f PROVE SumFunctionOnSet(f, {}) = 0
<1>1. Summed(f, {}, Sums(f, {}))
  BY SumsExist, FS_EmptySet
<1>2. Sums(f, {})[{}] = 0
  BY <1>1 DEF Summed, SumStep
<1> QED BY <1>2, Unfold

\* The sum of a subset does not depend on the set it was taken from.
LEMMA SumsInside ==
  ASSUME NEW f, NEW A, IsFiniteSet(A), NEW B \in SUBSET A
  PROVE  Sums(f, A)[B] = Sums(f, B)[B]
<1>1. IsFiniteSet(B)
  BY FS_Subset
<1>2. Summed(f, A, Sums(f, A)) /\ Summed(f, B, Sums(f, B))
  BY <1>1, SumsExist
<1>3. B \in SUBSET (A \cap B)
  OBVIOUS
<1> QED BY <1>2, <1>3, SumsAgree

\* A sum is the element it is taken apart at and the sum of the others.
LEMMA SumChosen ==
  ASSUME NEW f, NEW A, IsFiniteSet(A), A # {}
  PROVE  SumFunctionOnSet(f, A)
           = f[Chosen(A)] + SumFunctionOnSet(f, A \ {Chosen(A)})
<1>1. Summed(f, A, Sums(f, A))
  BY SumsExist
<1>2. Sums(f, A)[A] = SumStep(f, Sums(f, A), A)
  BY <1>1 DEF Summed
<1>3. Sums(f, A)[A \ {Chosen(A)}] = Sums(f, A \ {Chosen(A)})[A \ {Chosen(A)}]
  BY SumsInside
<1> QED BY <1>2, <1>3, Unfold DEF SumStep

\* Natural numbers sum to a natural number.
LEMMA SumType ==
  ASSUME NEW f, NEW A, IsFiniteSet(A), \A x \in A : f[x] \in Nat
  PROVE  SumFunctionOnSet(f, A) \in Nat
<1> DEFINE bad == {B \in SUBSET A : SumFunctionOnSet(f, B) \notin Nat}
<1>1. SUFFICES ASSUME bad # {} PROVE FALSE
  OBVIOUS
<1>2. PICK B \in bad : \A C \in bad : ~(C \subseteq B /\ C # B)
  <2>1. bad \in SUBSET SUBSET A /\ bad # {}
    BY <1>1
  <2> HIDE DEF bad
  <2> QED BY <2>1, MinimalSubset
<1>3. B # {}
  BY SumEmpty
<1>4. IsFiniteSet(B) /\ Chosen(B) \in B
  BY <1>3, FS_Subset, ChosenIsIn
<1>5. SumFunctionOnSet(f, B \ {Chosen(B)}) \in Nat
  BY <1>2, <1>4
<1>6. f[Chosen(B)] \in Nat
  BY <1>4
<1> QED BY <1>3, <1>4, <1>5, <1>6, SumChosen

\* Whole numbers sum to a whole number.
LEMMA SumWhole ==
  ASSUME NEW f, NEW A, IsFiniteSet(A), \A x \in A : f[x] \in Int
  PROVE  SumFunctionOnSet(f, A) \in Int
<1> DEFINE bad == {B \in SUBSET A : SumFunctionOnSet(f, B) \notin Int}
<1>1. SUFFICES ASSUME bad # {} PROVE FALSE
  OBVIOUS
<1>2. PICK B \in bad : \A C \in bad : ~(C \subseteq B /\ C # B)
  <2>1. bad \in SUBSET SUBSET A /\ bad # {}
    BY <1>1
  <2> HIDE DEF bad
  <2> QED BY <2>1, MinimalSubset
<1>3. B # {}
  BY SumEmpty
<1>4. IsFiniteSet(B) /\ Chosen(B) \in B
  BY <1>3, FS_Subset, ChosenIsIn
<1>5. SumFunctionOnSet(f, B \ {Chosen(B)}) \in Int
  BY <1>2, <1>4
<1>6. f[Chosen(B)] \in Int
  BY <1>4
<1> QED BY <1>3, <1>4, <1>5, <1>6, SumChosen

\* Any element may be taken out of a sum first.
LEMMA SumRemove ==
  ASSUME NEW f, NEW A, IsFiniteSet(A), \A x \in A : f[x] \in Nat, NEW x \in A
  PROVE  SumFunctionOnSet(f, A) = f[x] + SumFunctionOnSet(f, A \ {x})
<1> DEFINE Splits(B) == \A y \in B : SumFunctionOnSet(f, B)
                                       = f[y] + SumFunctionOnSet(f, B \ {y})
           bad == {B \in SUBSET A : ~Splits(B)}
<1>1. SUFFICES ASSUME bad # {} PROVE FALSE
  OBVIOUS
<1>2. PICK B \in bad : \A C \in bad : ~(C \subseteq B /\ C # B)
  <2>1. bad \in SUBSET SUBSET A /\ bad # {}
    BY <1>1
  <2> HIDE DEF bad
  <2> QED BY <2>1, MinimalSubset
<1>3. PICK y \in B : SumFunctionOnSet(f, B) # f[y] + SumFunctionOnSet(f, B \ {y})
  OBVIOUS
<1> DEFINE c == Chosen(B)
<1>4. c \in B /\ IsFiniteSet(B)
  BY FS_Subset, ChosenIsIn
<1>5. SumFunctionOnSet(f, B) = f[c] + SumFunctionOnSet(f, B \ {c})
  BY <1>4, SumChosen
<1>6. y # c
  BY <1>3, <1>5
<1> DEFINE D == (B \ {c}) \ {y}
<1>7. Splits(B \ {c}) /\ Splits(B \ {y})
  <2>1. (B \ {c}) \in SUBSET A /\ (B \ {c}) \subseteq B /\ (B \ {c}) # B
    BY <1>4
  <2>2. (B \ {y}) \in SUBSET A /\ (B \ {y}) \subseteq B /\ (B \ {y}) # B
    OBVIOUS
  <2> HIDE DEF Splits
  <2> QED BY <2>1, <2>2, <1>2
<1>8. (B \ {y}) \ {c} = D
  OBVIOUS
<1>9. y \in B \ {c} /\ c \in B \ {y}
  BY <1>4, <1>6
<1>10. SumFunctionOnSet(f, B \ {c}) = f[y] + SumFunctionOnSet(f, D)
  BY <1>7, <1>9
<1>11. SumFunctionOnSet(f, B \ {y}) = f[c] + SumFunctionOnSet(f, D)
  <2>1. SumFunctionOnSet(f, B \ {y}) = f[c] + SumFunctionOnSet(f, (B \ {y}) \ {c})
    BY <1>7, <1>9
  <2> QED BY <2>1, <1>8
<1>12. f[y] \in Nat /\ f[c] \in Nat
  BY <1>4
<1>13. SumFunctionOnSet(f, D) \in Nat
  <2>1. IsFiniteSet(D)
    BY <1>4, FS_Subset
  <2> QED BY <2>1, SumType
<1> HIDE DEF c, D
<1> QED BY <1>3, <1>5, <1>10, <1>11, <1>12, <1>13

\* Functions that agree on a set have the same sum over it.
LEMMA SumEqual ==
  ASSUME NEW e, NEW f, NEW A, IsFiniteSet(A), \A x \in A : e[x] = f[x]
  PROVE  SumFunctionOnSet(e, A) = SumFunctionOnSet(f, A)
<1>1. Summed(e, A, Sums(e, A)) /\ Summed(f, A, Sums(f, A))
  BY SumsExist
<1>2. A \in SUBSET (A \cap A)
  OBVIOUS
<1> QED BY <1>1, <1>2, SumsAgree, Unfold

\* A function that changes at one element changes its sum by as much.
LEMMA SumUpdate ==
  ASSUME NEW e, NEW f, NEW A, IsFiniteSet(A), NEW x \in A,
         \A y \in A : e[y] \in Nat /\ f[y] \in Nat,
         \A y \in A \ {x} : e[y] = f[y]
  PROVE  SumFunctionOnSet(e, A) + f[x] = SumFunctionOnSet(f, A) + e[x]
<1> DEFINE B == A \ {x}
<1>1. IsFiniteSet(B)
  BY FS_Subset
<1>2. SumFunctionOnSet(e, A) = e[x] + SumFunctionOnSet(e, B)
  BY SumRemove
<1>3. SumFunctionOnSet(f, A) = f[x] + SumFunctionOnSet(f, B)
  BY SumRemove
<1>4. SumFunctionOnSet(e, B) = SumFunctionOnSet(f, B)
  BY <1>1, SumEqual
<1>5. SumFunctionOnSet(f, B) \in Nat
  BY <1>1, SumType
<1>6. e[x] \in Nat /\ f[x] \in Nat
  OBVIOUS
<1> HIDE DEF B
<1> QED BY <1>2, <1>3, <1>4, <1>5, <1>6

\* What is nowhere less sums to no less.
LEMMA SumMonotone ==
  ASSUME NEW e, NEW f, NEW A, IsFiniteSet(A),
         \A x \in A : e[x] \in Nat /\ f[x] \in Nat /\ e[x] <= f[x]
  PROVE  SumFunctionOnSet(e, A) <= SumFunctionOnSet(f, A)
<1> DEFINE bad == {B \in SUBSET A : ~(SumFunctionOnSet(e, B) <= SumFunctionOnSet(f, B))}
<1>1. SUFFICES ASSUME bad # {} PROVE FALSE
  OBVIOUS
<1>2. PICK B \in bad : \A C \in bad : ~(C \subseteq B /\ C # B)
  <2>1. bad \in SUBSET SUBSET A /\ bad # {}
    BY <1>1
  <2> HIDE DEF bad
  <2> QED BY <2>1, MinimalSubset
<1>3. B # {}
  BY SumEmpty
<1>4. IsFiniteSet(B)
  BY FS_Subset
<1>5. PICK x \in B : TRUE
  BY <1>3
<1> DEFINE C == B \ {x}
<1>6. IsFiniteSet(C)
  BY <1>4, FS_Subset
<1>7. SumFunctionOnSet(e, C) <= SumFunctionOnSet(f, C)
  BY <1>2
<1>8. SumFunctionOnSet(e, B) = e[x] + SumFunctionOnSet(e, C)
  BY <1>4, SumRemove
<1>9. SumFunctionOnSet(f, B) = f[x] + SumFunctionOnSet(f, C)
  BY <1>4, SumRemove
<1>10. SumFunctionOnSet(e, C) \in Nat /\ SumFunctionOnSet(f, C) \in Nat
  BY <1>6, SumType
<1>11. e[x] \in Nat /\ f[x] \in Nat /\ e[x] <= f[x]
  OBVIOUS
<1>12. ~(SumFunctionOnSet(e, B) <= SumFunctionOnSet(f, B))
  OBVIOUS
<1> HIDE DEF C
<1> QED BY <1>7, <1>8, <1>9, <1>10, <1>11, <1>12

\* What is nowhere more than m sums to no more than m for each element.
LEMMA SumBound ==
  ASSUME NEW f, NEW A, IsFiniteSet(A), NEW m \in Nat, \A x \in A : f[x] \in 0 .. m
  PROVE  SumFunctionOnSet(f, A) <= Cardinality(A) * m
<1> DEFINE bad == {B \in SUBSET A : ~(SumFunctionOnSet(f, B) <= Cardinality(B) * m)}
<1>1. SUFFICES ASSUME bad # {} PROVE FALSE
  OBVIOUS
<1>2. PICK B \in bad : \A C \in bad : ~(C \subseteq B /\ C # B)
  <2>1. bad \in SUBSET SUBSET A /\ bad # {}
    BY <1>1
  <2> HIDE DEF bad
  <2> QED BY <2>1, MinimalSubset
<1>3. B # {}
  BY SumEmpty, FS_EmptySet
<1>4. IsFiniteSet(B)
  BY FS_Subset
<1>5. PICK x \in B : TRUE
  BY <1>3
<1> DEFINE C == B \ {x}
<1>6. IsFiniteSet(C) /\ Cardinality(C) \in Nat
  BY <1>4, FS_Subset, FS_CardinalityType
<1>7. SumFunctionOnSet(f, C) <= Cardinality(C) * m
  BY <1>2
<1>8. SumFunctionOnSet(f, B) = f[x] + SumFunctionOnSet(f, C)
  BY <1>4, SumRemove
<1>9. Cardinality(B) = Cardinality(C) + 1
  <2>1. B = C \cup {x} /\ x \notin C
    OBVIOUS
  <2> HIDE DEF C
  <2> QED BY <2>1, <1>6, FS_AddElement
<1>10. SumFunctionOnSet(f, C) \in Nat
  BY <1>6, SumType
<1>11. f[x] \in Nat /\ f[x] <= m
  OBVIOUS
<1>12. ~(SumFunctionOnSet(f, B) <= Cardinality(B) * m)
  OBVIOUS
<1> HIDE DEF C
<1>13. Cardinality(B) * m = Cardinality(C) * m + m
  BY <1>6, <1>9
<1> QED BY <1>6, <1>7, <1>8, <1>10, <1>11, <1>12, <1>13

\* The sum over two sets that have nothing in common.
LEMMA SumSplit ==
  ASSUME NEW f, NEW A, NEW B, IsFiniteSet(A), IsFiniteSet(B), A \cap B = {},
         \A x \in A \cup B : f[x] \in Nat
  PROVE  SumFunctionOnSet(f, A \cup B) = SumFunctionOnSet(f, A) + SumFunctionOnSet(f, B)
<1> DEFINE Joint(C) == SumFunctionOnSet(f, C \cup B)
           Parts(C) == SumFunctionOnSet(f, C) + SumFunctionOnSet(f, B)
           bad == {C \in SUBSET A : Joint(C) # Parts(C)}
<1>1. SUFFICES ASSUME bad # {} PROVE FALSE
  OBVIOUS
<1>2. PICK C \in bad : \A D \in bad : ~(D \subseteq C /\ D # C)
  <2>1. bad \in SUBSET SUBSET A /\ bad # {}
    BY <1>1
  <2> HIDE DEF bad
  <2> QED BY <2>1, MinimalSubset
<1>3. SumFunctionOnSet(f, B) \in Nat
  BY SumType
<1>4. C # {}
  <2>1. {} \cup B = B
    OBVIOUS
  <2> QED BY <2>1, <1>3, SumEmpty
<1>5. PICK x \in C : TRUE
  BY <1>4
<1> DEFINE D == C \ {x}
<1>6. Joint(D) = Parts(D)
  BY <1>2
<1>7. IsFiniteSet(C) /\ IsFiniteSet(D) /\ IsFiniteSet(C \cup B)
  BY FS_Subset, FS_Union
<1>8. SumFunctionOnSet(f, C) = f[x] + SumFunctionOnSet(f, D)
  BY <1>7, SumRemove
<1>9. SumFunctionOnSet(f, C \cup B) = f[x] + SumFunctionOnSet(f, D \cup B)
  <2>1. (C \cup B) \ {x} = D \cup B
    OBVIOUS
  <2>2. x \in C \cup B /\ \A y \in C \cup B : f[y] \in Nat
    OBVIOUS
  <2> QED BY <2>1, <2>2, <1>7, SumRemove
<1>10. SumFunctionOnSet(f, D) \in Nat /\ f[x] \in Nat
  BY <1>7, SumType
<1>11. Joint(C) # Parts(C)
  OBVIOUS
<1> HIDE DEF D
<1> QED BY <1>3, <1>6, <1>8, <1>9, <1>10, <1>11

\* When each element has one of its own with at least as much, the sum is no more.
LEMMA SumInjection ==
  ASSUME NEW A, NEW D, IsFiniteSet(A), IsFiniteSet(D), NEW m \in [D -> A],
         \A x, y \in D : m[x] = m[y] => x = y,
         NEW f, NEW q, \A x \in A : f[x] \in Nat,
         \A d \in D : q[d] \in Nat /\ q[d] <= f[m[d]]
  PROVE  SumFunctionOnSet(q, D) <= SumFunctionOnSet(f, A)
<1> DEFINE Image(B) == {m[d] : d \in B}
           Fits(B) == SumFunctionOnSet(q, B) <= SumFunctionOnSet(f, Image(B))
           bad == {B \in SUBSET D : ~Fits(B)}
<1>1. bad = {}
  <2>1. SUFFICES ASSUME bad # {} PROVE FALSE
    OBVIOUS
  <2>2. PICK B \in bad : \A C \in bad : ~(C \subseteq B /\ C # B)
    <3>1. bad \in SUBSET SUBSET D /\ bad # {}
      BY <2>1
    <3> HIDE DEF bad
    <3> QED BY <3>1, MinimalSubset
  <2>3. B # {}
    <3>1. Image({}) = {}
      OBVIOUS
    <3> QED BY <3>1, SumEmpty
  <2>4. PICK x \in B : TRUE
    BY <2>3
  <2> DEFINE C == B \ {x}
  <2>5. Fits(C)
    BY <2>2
  <2>6. /\ m[x] \in Image(B) /\ Image(B) \in SUBSET A
        /\ Image(B) \ {m[x]} = Image(C)
    OBVIOUS
  <2>7. IsFiniteSet(B) /\ IsFiniteSet(C) /\ IsFiniteSet(Image(B)) /\ IsFiniteSet(Image(C))
    BY <2>6, FS_Subset
  <2>8. SumFunctionOnSet(q, B) = q[x] + SumFunctionOnSet(q, C)
    BY <2>7, SumRemove
  <2>9. SumFunctionOnSet(f, Image(B)) = f[m[x]] + SumFunctionOnSet(f, Image(C))
    <3>1. \A y \in Image(B) : f[y] \in Nat
      BY <2>6
    <3>2. PICK E, y : E = Image(B) /\ y = m[x]
      OBVIOUS
    <3>3. IsFiniteSet(E) /\ y \in E /\ \A z \in E : f[z] \in Nat
      BY <3>1, <3>2, <2>6, <2>7
    <3>4. SumFunctionOnSet(f, E) = f[y] + SumFunctionOnSet(f, E \ {y})
      BY <3>3, SumRemove
    <3> QED BY <3>2, <3>4, <2>6
  <2>10. SumFunctionOnSet(q, C) \in Nat /\ SumFunctionOnSet(f, Image(C)) \in Nat
    BY <2>6, <2>7, SumType
  <2>11. q[x] \in Nat /\ f[m[x]] \in Nat /\ q[x] <= f[m[x]]
    OBVIOUS
  <2>12. ~Fits(B)
    OBVIOUS
  <2> HIDE DEF C, Image
  <2> QED BY <2>5, <2>8, <2>9, <2>10, <2>11, <2>12
<1>2. Fits(D)
  BY <1>1
<1>3. Image(D) \in SUBSET A
  OBVIOUS
<1> HIDE DEF Image
<1> DEFINE R == A \ Image(D)
<1>4. IsFiniteSet(Image(D)) /\ IsFiniteSet(R)
  BY <1>3, FS_Subset
<1>5. /\ Image(D) \cap R = {} /\ Image(D) \cup R = A
      /\ \A x \in Image(D) \cup R : f[x] \in Nat
  BY <1>3
<1>6. SumFunctionOnSet(f, R) \in Nat /\ SumFunctionOnSet(f, Image(D)) \in Nat
  BY <1>3, <1>4, SumType
<1> HIDE DEF R
<1>7. SumFunctionOnSet(f, A) = SumFunctionOnSet(f, Image(D)) + SumFunctionOnSet(f, R)
  BY <1>4, <1>5, SumSplit
<1>8. SumFunctionOnSet(q, D) \in Nat
  BY SumType
<1> QED BY <1>2, <1>6, <1>7, <1>8

\* Each of some demands can be granted by adding it to what its element has already.
LEMMA SumClaims ==
  ASSUME NEW A, NEW D, IsFiniteSet(A), IsFiniteSet(D), NEW m \in [D -> A],
         NEW c \in [A -> Nat], NEW q, \A d \in D : q[d] \in Nat
  PROVE  \E e \in [A -> Nat] :
           /\ \A x \in A : c[x] <= e[x]
           /\ \A d \in D : q[d] <= e[m[d]]
           /\ SumFunctionOnSet(e, A) <= SumFunctionOnSet(c, A) + SumFunctionOnSet(q, D)
<1> DEFINE Grants(e, B) ==
             /\ \A x \in A : c[x] <= e[x]
             /\ \A d \in B : q[d] <= e[m[d]]
             /\ SumFunctionOnSet(e, A) <= SumFunctionOnSet(c, A) + SumFunctionOnSet(q, B)
           bad == {B \in SUBSET D : ~\E e \in [A -> Nat] : Grants(e, B)}
<1>1. bad = {}
  <2>1. SUFFICES ASSUME bad # {} PROVE FALSE
    OBVIOUS
  <2>2. PICK B \in bad : \A C \in bad : ~(C \subseteq B /\ C # B)
    <3>1. bad \in SUBSET SUBSET D /\ bad # {}
      BY <2>1
    <3> HIDE DEF bad
    <3> QED BY <3>1, MinimalSubset
  <2>3. SumFunctionOnSet(c, A) \in Nat
    BY SumType
  <2>4. B # {}
    <3>1. Grants(c, {})
      BY <2>3, SumEmpty
    <3> QED BY <3>1
  <2>5. PICK x \in B : TRUE
    BY <2>4
  <2> DEFINE C == B \ {x}
  <2>6. PICK e \in [A -> Nat] : Grants(e, C)
    BY <2>2
  <2>7. m[x] \in A /\ q[x] \in Nat /\ B \in SUBSET D
    OBVIOUS
  <2> DEFINE g == [e EXCEPT ![m[x]] = @ + q[x]]
  <2>8. g \in [A -> Nat] /\ g[m[x]] = e[m[x]] + q[x] /\ \A y \in A \ {m[x]} : g[y] = e[y]
    BY <2>7
  <2>9. \A y \in A : e[y] \in Nat /\ g[y] \in Nat /\ e[y] <= g[y]
    BY <2>7, <2>8
  <2>10. IsFiniteSet(B) /\ IsFiniteSet(C)
    BY FS_Subset
  <2> HIDE DEF g
  <2>11. SumFunctionOnSet(g, A) + e[m[x]] = SumFunctionOnSet(e, A) + g[m[x]]
    BY <2>7, <2>8, <2>9, SumUpdate
  <2>12. SumFunctionOnSet(q, B) = q[x] + SumFunctionOnSet(q, C)
    BY <2>7, <2>10, SumRemove
  <2>13. /\ SumFunctionOnSet(q, C) \in Nat /\ SumFunctionOnSet(e, A) \in Nat
         /\ SumFunctionOnSet(g, A) \in Nat
    BY <2>7, <2>9, <2>10, SumType
  <2>14. SumFunctionOnSet(g, A) <= SumFunctionOnSet(c, A) + SumFunctionOnSet(q, B)
    <3>1. SumFunctionOnSet(e, A) <= SumFunctionOnSet(c, A) + SumFunctionOnSet(q, C)
      BY <2>6
    <3>2. e[m[x]] \in Nat
      BY <2>7
    <3> HIDE DEF C
    <3> QED BY <3>1, <3>2, <2>3, <2>7, <2>8, <2>11, <2>12, <2>13
  <2>15. \A y \in A : c[y] <= g[y]
    <3>1. \A y \in A : c[y] \in Nat /\ c[y] <= e[y]
      BY <2>6
    <3> QED BY <3>1, <2>9
  <2>16. \A d \in B : q[d] <= g[m[d]]
    <3>1. TAKE d \in B
    <3>2. q[d] \in Nat /\ m[d] \in A
      BY <2>7
    <3>3. CASE d = x
      <4>1. e[m[x]] \in Nat
        BY <2>7
      <4> QED BY <4>1, <3>3, <2>7, <2>8
    <3>4. CASE d # x
      <4>1. q[d] <= e[m[d]]
        BY <2>6, <3>4
      <4> QED BY <4>1, <3>2, <2>9
    <3> QED BY <3>3, <3>4
  <2>17. Grants(g, B)
    BY <2>14, <2>15, <2>16
  <2> QED BY <2>8, <2>17
<1>2. \E e \in [A -> Nat] : Grants(e, D)
  BY <1>1
<1> QED BY <1>2

\* The last of a row may be taken out of its sum.
LEMMA SumLast ==
  ASSUME NEW f, NEW A, NEW k \in Nat \ {0}, A = 1 .. k, \A i \in A : f[i] \in Nat
  PROVE  SumFunctionOnSet(f, A) = f[k] + SumFunctionOnSet(f, 1 .. (k - 1))
<1>1. IsFiniteSet(A) /\ k \in A
  BY FS_Interval
<1>2. A \ {k} = 1 .. (k - 1)
  OBVIOUS
<1>3. SumFunctionOnSet(f, A) = f[k] + SumFunctionOnSet(f, A \ {k})
  BY <1>1, SumRemove
<1> QED BY <1>2, <1>3

\* The differences of what follows one another add up to the difference of the last and the
\* first.
LEMMA SumTelescopes ==
  ASSUME NEW n \in Nat, NEW f, NEW u, \A i \in 0 .. n : u[i] \in Nat,
         \A i \in 1 .. n : f[i] \in Nat /\ f[i] = u[i] - u[i - 1]
  PROVE  \A k \in 0 .. n : SumFunctionOnSet(f, 1 .. k) = u[k] - u[0]
<1>a. PICK N : N = 1 .. n
  OBVIOUS
<1>b. IsFiniteSet(N)
  BY <1>a, FS_Interval
<1> DEFINE bad == {B \in SUBSET N :
                     \E k \in 0 .. n : B = 1 .. k /\ SumFunctionOnSet(f, B) # u[k] - u[0]}
<1>1. bad = {}
  <2>1. SUFFICES ASSUME bad # {} PROVE FALSE
    OBVIOUS
  <2>2. PICK B \in bad : \A C \in bad : ~(C \subseteq B /\ C # B)
    <3>1. bad \in SUBSET SUBSET N /\ bad # {}
      BY <2>1
    <3> HIDE DEF bad
    <3> QED BY <3>1, <1>b, MinimalSubset
  <2>3. PICK k \in 0 .. n : B = 1 .. k /\ SumFunctionOnSet(f, B) # u[k] - u[0]
    OBVIOUS
  <2>4. k # 0
    <3>1. 1 .. 0 = {}
      OBVIOUS
    <3>2. u[0] \in Nat
      OBVIOUS
    <3> QED BY <3>1, <3>2, <2>3, SumEmpty
  <2>5. /\ k \in 1 .. n /\ k - 1 \in 0 .. n /\ B \ {k} = 1 .. (k - 1)
        /\ B \ {k} \in SUBSET N /\ B \ {k} \subseteq B /\ B \ {k} # B
    <3>1. k \in 1 .. n /\ k - 1 \in 0 .. n /\ B = 1 .. k
      BY <2>3, <2>4
    <3>2. (1 .. k) \ {k} = 1 .. (k - 1)
      BY <3>1
    <3>3. (1 .. k) \ {k} \subseteq N /\ k \in 1 .. k
      BY <3>1, <1>a
    <3> HIDE DEF bad
    <3> QED BY <3>1, <3>2, <3>3
  <2>6. SumFunctionOnSet(f, B \ {k}) = u[k - 1] - u[0]
    BY <2>2, <2>5
  <2>7. SumFunctionOnSet(f, B) = f[k] + SumFunctionOnSet(f, B \ {k})
    <3>1. B = 1 .. k /\ k \in Nat \ {0} /\ \A i \in B : f[i] \in Nat
      BY <2>3, <2>5
    <3>2. SumFunctionOnSet(f, B) = f[k] + SumFunctionOnSet(f, 1 .. (k - 1))
      BY <3>1, SumLast
    <3> QED BY <3>2, <2>5
  <2>8. f[k] = u[k] - u[k - 1] /\ u[k] \in Nat /\ u[k - 1] \in Nat /\ u[0] \in Nat
    BY <2>5
  <2> QED BY <2>3, <2>6, <2>7, <2>8
<1>2. TAKE k \in 0 .. n
<1>3. 1 .. k \in SUBSET N
  BY <1>a
<1> QED BY <1>1, <1>3
-----------------------------------------------------------------------------
\* What holds of 0, and of each number when it holds of the one before, holds of all.
LEMMA Induct ==
  ASSUME NEW N \in Nat, NEW T, 0 \in T, \A n \in 1 .. N : n - 1 \in T => n \in T
  PROVE  \A n \in 0 .. N : n \in T
<1> DEFINE bad == {n \in 0 .. N : n \notin T}
<1>1. SUFFICES ASSUME bad # {} PROVE FALSE
  OBVIOUS
<1>2. bad \subseteq Nat
  OBVIOUS
<1>3. PICK n \in bad : \A m \in bad : ~(<<m, n>> \in OpToRel(<, Nat))
  <2> HIDE DEF bad
  <2> QED BY <1>1, <1>2, NatLessThanWellFounded, WFMin
<1>4. \A m \in bad : ~(m < n)
  BY <1>2, <1>3 DEF OpToRel
<1>5. n # 0
  OBVIOUS
<1>6. n - 1 \in 0 .. N /\ n \in 1 .. N
  BY <1>5
<1>7. n - 1 \notin bad
  BY <1>4, <1>6
<1> QED BY <1>6, <1>7

\* The last of the first numbers.
LEMMA MaxIsLast ==
  ASSUME NEW n \in Nat, NEW s \in SUBSET (1 .. n), n \in s
  PROVE  Max(s) = n
<1>1. \A y \in s : n >= y
  OBVIOUS
<1>2. Max(s) \in s /\ \A y \in s : Max(s) >= y
  BY <1>1 DEF Max
<1>3. PICK m \in 1 .. n : m = Max(s) /\ m >= n
  BY <1>2
<1>4. QED
  BY <1>3

\* The first numbers are the last of them and the ones before.
LEMMA FirstNumbers ==
  ASSUME NEW N \in Nat, NEW n \in 1 .. N
  PROVE  /\ 1 .. n \in SUBSET (1 .. N) /\ 1 .. n # {} /\ Max(1 .. n) = n
         /\ (1 .. n) \ {n} = 1 .. (n - 1)
<1>1. /\ 1 .. n \in SUBSET (1 .. N) /\ n \in 1 .. n /\ (1 .. n) \ {n} = 1 .. (n - 1)
      /\ n \in Nat
  OBVIOUS
<1>2. PICK s \in SUBSET (1 .. n) : s = 1 .. n
  OBVIOUS
<1>3. Max(s) = n
  BY <1>1, <1>2, MaxIsLast
<1>4. QED
  BY <1>1, <1>2, <1>3

\* What the definition of FoldLeft is built from, by name.
FoldStep(Op(_, _), base, seq, g, s) ==
  IF s = {} THEN base ELSE Op(g[s \ {Max(s)}], seq[Max(s)])
IsFold(Op(_, _), base, seq, g) ==
  g = [s \in SUBSET DOMAIN seq |-> FoldStep(Op, base, seq, g, s)]

\* A step for each number makes a value for each set of the first numbers.
FoldsBy(base, step, n, g) ==
  \A s \in SUBSET (1 .. n) :
    g[s] = IF s = {} THEN base ELSE step[<<g[s \ {Max(s)}], Max(s)>>]

\* There is such a fold.
LEMMA FoldExists ==
  ASSUME NEW N \in Nat, NEW X, NEW base \in X, NEW step \in [X \X (1 .. N) -> X]
  PROVE  \E g \in [SUBSET (1 .. N) -> X] : FoldsBy(base, step, N, g)
<1> DEFINE T == {n \in 0 .. N : \E g \in [SUBSET (1 .. n) -> X] : FoldsBy(base, step, n, g)}
<1>1. 0 \in T
  <2> DEFINE g == [s \in SUBSET (1 .. 0) |-> base]
  <2>1. g \in [SUBSET (1 .. 0) -> X]
    OBVIOUS
  <2>2. FoldsBy(base, step, 0, g)
    <3>1. 1 .. 0 = {}
      OBVIOUS
    <3>2. QED
      BY <3>1 DEF FoldsBy
  <2>3. QED
    BY <2>1, <2>2
<1>2. ASSUME NEW n \in 1 .. N, n - 1 \in T
      PROVE  n \in T
  <2>1. PICK h \in [SUBSET (1 .. (n - 1)) -> X] : FoldsBy(base, step, n - 1, h)
    BY <1>2
  <2> DEFINE g == [s \in SUBSET (1 .. n) |->
                     IF n \in s THEN step[<<h[s \ {n}], n>>] ELSE h[s]]
  <2>2. \A s \in SUBSET (1 .. n) :
          /\ n \in s => s \ {n} \in SUBSET (1 .. (n - 1))
          /\ n \notin s => s \in SUBSET (1 .. (n - 1))
    OBVIOUS
  <2>3. g \in [SUBSET (1 .. n) -> X]
    BY <2>2
  <2>4. ASSUME NEW s \in SUBSET (1 .. n)
        PROVE  g[s] = IF s = {} THEN base ELSE step[<<g[s \ {Max(s)}], Max(s)>>]
    <3>1. CASE n \in s
      <4>1. Max(s) = n
        BY <3>1, MaxIsLast
      <4>2. g[s \ {n}] = h[s \ {n}]
        BY <2>2, <3>1
      <4>3. QED
        BY <3>1, <4>1, <4>2
    <3>2. CASE n \notin s
      <4>1. s \in SUBSET (1 .. (n - 1)) /\ g[s] = h[s]
        BY <2>2, <3>2
      <4>2. s \ {Max(s)} \in SUBSET (1 .. n) /\ n \notin s \ {Max(s)}
        BY <3>2
      <4>3. g[s \ {Max(s)}] = h[s \ {Max(s)}]
        BY <4>2
      <4>4. h[s] = IF s = {} THEN base ELSE step[<<h[s \ {Max(s)}], Max(s)>>]
        BY <2>1, <4>1 DEF FoldsBy
      <4>5. QED
        BY <4>1, <4>3, <4>4
    <3>3. QED
      BY <3>1, <3>2
  <2>5. FoldsBy(base, step, n, g)
    BY <2>4 DEF FoldsBy
  <2> HIDE DEF g
  <2>6. QED
    BY <2>3, <2>5
<1> HIDE DEF T
<1>3. \A n \in 0 .. N : n \in T
  BY <1>1, <1>2, Induct
<1>4. N \in T
  BY <1>3
<1>5. QED
  BY <1>4 DEF T

\* The largest of some of the first numbers is one of them.
LEMMA MaxIsIn ==
  ASSUME NEW n \in Nat, NEW s \in SUBSET (1 .. n), s # {}
  PROVE  Max(s) \in s
<1> DEFINE Tops(t) == {x \in t : \A y \in t : x >= y}
           T == {m \in 0 .. n : \A t \in SUBSET (1 .. m) : t # {} => Tops(t) # {}}
<1>1. 0 \in T
  <2>1. 1 .. 0 = {} /\ 0 \in 0 .. n
    OBVIOUS
  <2>2. \A t \in SUBSET (1 .. 0) : t = {}
    BY <2>1
  <2>3. QED
    BY <2>1, <2>2
<1>2. ASSUME NEW m \in 1 .. n, m - 1 \in T
      PROVE  m \in T
  <2>1. ASSUME NEW t \in SUBSET (1 .. m), t # {}
        PROVE  Tops(t) # {}
    <3>1. CASE m \in t
      <4>1. m \in Tops(t)
        BY <3>1
      <4>2. QED
        BY <4>1
    <3>2. CASE m \notin t
      <4>1. t \in SUBSET (1 .. (m - 1))
        BY <3>2
      <4>2. QED
        BY <1>2, <2>1, <4>1
    <3>3. QED
      BY <3>1, <3>2
  <2>2. QED
    BY <2>1
<1>3. n \in T
  <2> HIDE DEF T
  <2>1. \A m \in 0 .. n : m \in T
    BY <1>1, <1>2, Induct
  <2>2. QED
    BY <2>1
<1>4. Tops(s) # {}
  BY <1>3
<1>5. QED
  BY <1>4 DEF Max

\* Steps from base, within X, end in last.
RunsTo(X, base, step, N, last) ==
  \E f \in [0 .. N -> X] :
    /\ f[0] = base /\ last = f[N]
    /\ \A n \in 1 .. N : f[n] = step[<<f[n - 1], n>>]

\* A value for each set of the first numbers, made from the value for the set without its
\* largest number, is made step by step.
StepsUp(X, step, N, g) ==
  \A n \in 1 .. N : g[1 .. (n - 1)] \in X => g[1 .. n] = step[<<g[1 .. (n - 1)], n>>]

\* A fold goes through the sequence one element after the other.
LEMMA FoldRuns ==
  ASSUME NEW N \in Nat, NEW X, NEW base \in X, NEW step \in [X \X (1 .. N) -> X],
         NEW g, g[{}] = base, StepsUp(X, step, N, g)
  PROVE  RunsTo(X, base, step, N, g[1 .. N])
<1> DEFINE f == [n \in 0 .. N |-> g[1 .. n]]
           T == {n \in 0 .. N : f[n] \in X}
<1>1. f[0] = base /\ f[N] = g[1 .. N]
  <2>1. 1 .. 0 = {} /\ f[0] = g[1 .. 0]
    OBVIOUS
  <2>2. QED
    BY <2>1
<1>2. ASSUME NEW n \in 1 .. N, f[n - 1] \in X
      PROVE  f[n] = step[<<f[n - 1], n>>] /\ f[n] \in X
  <2>1. f[n - 1] = g[1 .. (n - 1)] /\ f[n] = g[1 .. n]
    OBVIOUS
  <2>2. f[n] = step[<<f[n - 1], n>>]
    BY <1>2, <2>1 DEF StepsUp
  <2>3. <<f[n - 1], n>> \in X \X (1 .. N)
    BY <1>2
  <2>4. QED
    BY <2>2, <2>3
<1> HIDE DEF f
<1>3. 0 \in T
  BY <1>1
<1>4. ASSUME NEW n \in 1 .. N, n - 1 \in T
      PROVE  n \in T
  <2>1. f[n] \in X
    BY <1>2, <1>4
  <2>2. QED
    BY <2>1
<1> HIDE DEF T
<1>5. \A n \in 0 .. N : n \in T
  BY <1>3, <1>4, Induct
<1>6. \A n \in 0 .. N : f[n] \in X
  BY <1>5 DEF T
<1>7. f \in [0 .. N -> X]
  BY <1>6 DEF f
<1>8. \A n \in 1 .. N : f[n] = step[<<f[n - 1], n>>]
  BY <1>2, <1>6
<1>9. QED
  BY <1>1, <1>7, <1>8 DEF RunsTo

\* What a fold makes of each set of the first numbers, as long as it keeps to X.
Unfolds(X, base, step, N, h) ==
  \A s \in SUBSET (1 .. N) :
    /\ s = {} => h[s] = base
    /\ s # {} /\ h[s \ {Max(s)}] \in X => h[s] = step[<<h[s \ {Max(s)}], Max(s)>>]

\* So it goes through the sequence one element after the other.
LEMMA UnfoldedRuns ==
  ASSUME NEW N \in Nat, NEW X, NEW base \in X, NEW step \in [X \X (1 .. N) -> X], NEW h,
         Unfolds(X, base, step, N, h)
  PROVE  RunsTo(X, base, step, N, h[1 .. N])
<1>1. h[{}] = base
  BY DEF Unfolds
<1>2. ASSUME NEW n \in 1 .. N, h[1 .. (n - 1)] \in X
      PROVE  h[1 .. n] = step[<<h[1 .. (n - 1)], n>>]
  <2>1. /\ 1 .. n \in SUBSET (1 .. N) /\ 1 .. n # {} /\ Max(1 .. n) = n
        /\ (1 .. n) \ {n} = 1 .. (n - 1)
    BY FirstNumbers
  <2>2. QED
    BY <1>2, <2>1 DEF Unfolds
<1>3. StepsUp(X, step, N, h)
  BY <1>2 DEF StepsUp
<1>4. QED
  BY <1>1, <1>3, FoldRuns

\* Two runs that begin alike and go on alike end alike.
LEMMA RunsAgree ==
  ASSUME NEW N \in Nat, NEW e, NEW f, e[0] = f[0],
         \A n \in 1 .. N : e[n - 1] = f[n - 1] => e[n] = f[n]
  PROVE  e[N] = f[N]
<1> DEFINE T == {n \in 0 .. N : e[n] = f[n]}
<1>1. 0 \in T
  OBVIOUS
<1>2. ASSUME NEW n \in 1 .. N, n - 1 \in T PROVE n \in T
  BY <1>2
<1> HIDE DEF T
<1>3. \A n \in 0 .. N : n \in T
  BY <1>1, <1>2, Induct
<1>4. QED
  BY <1>3 DEF T

\* A set that is finite is counted by a sequence, each element once.
LEMMA SetToSeqCounts ==
  ASSUME NEW S, IsFiniteSet(S)
  PROVE  /\ SetToSeq(S) \in Seq(S) /\ Len(SetToSeq(S)) = Cardinality(S)
         /\ \A i, j \in DOMAIN SetToSeq(S) : SetToSeq(S)[i] = SetToSeq(S)[j] => i = j
         /\ ToSet(SetToSeq(S)) = S
<1>1. Cardinality(S) \in Nat /\ ExistsBijection(1 .. Cardinality(S), S)
  BY FS_CardinalityType
<1>2. PICK n \in Nat : n = Cardinality(S)
  BY <1>1
<1>3. PICK f \in [1 .. n -> S] : \A i, j \in 1 .. n : f[i] = f[j] => i = j
  BY <1>1, <1>2 DEF ExistsBijection, Bijection, Injection, IsInjective
<1>4. IsInjective(f)
  BY <1>3 DEF IsInjective
<1>5. SetToSeq(S) \in [1 .. n -> S] /\ IsInjective(SetToSeq(S))
  BY <1>2, <1>3, <1>4 DEF SetToSeq
<1>6. PICK g : g = SetToSeq(S)
  OBVIOUS
<1>7. g \in [1 .. n -> S] /\ \A i, j \in 1 .. n : g[i] = g[j] => i = j
  BY <1>5, <1>6 DEF IsInjective
<1>8. g \in Seq(S) /\ Len(g) = n /\ DOMAIN g = 1 .. n
  BY <1>7
<1>9. \A x \in S : \E i \in 1 .. n : g[i] = x
  <2>1. IsFiniteSet(1 .. n) /\ Cardinality(1 .. n) = n
    BY FS_Interval
  <2>2. g \in Injection(1 .. n, S)
    BY <1>7 DEF Injection, IsInjective
  <2>3. g \in Surjection(1 .. n, S)
    BY <1>2, <2>1, <2>2, FS_Injection
  <2>4. QED
    BY <2>3 DEF Surjection
<1>10. ToSet(g) = S
  BY <1>7, <1>8, <1>9 DEF ToSet
<1>11. QED
  BY <1>2, <1>6, <1>7, <1>8, <1>10
=============================================================================
