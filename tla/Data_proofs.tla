----------------------------- MODULE Data_proofs -----------------------------
(***************************************************************************)
(* What the operators on data return that several components use: the sums *)
(* of the community modules, the orders of Orders, and recursion along a   *)
(* sequence, of which FlattenSeq is one.  None of the provers does         *)
(* induction over data; a set of counterexamples has a least one instead.  *)
(***************************************************************************)
EXTENDS Integers, Sequences, FiniteSets, FiniteSetsExt, SequencesExt, Orders,
        FiniteSetTheorems, SequenceTheorems, TLAPS

-----------------------------------------------------------------------------
(* What SumFunctionOnSet is worth over finite sets of naturals: the        *)
(* recursion it is folded by, and what follows when terms are added, left  *)
(* out, changed or renumbered.                                             *)

\* Induction over the subsets of a finite set, as a fact about a set of sets:
\* one that has each set of which it has all the smaller ones has them all.
LEMMA SubsetInduction ==
  ASSUME NEW S, IsFiniteSet(S), NEW C,
         \A T \in SUBSET S : (\A U \in SUBSET T : U # T => U \in C) => T \in C
  PROVE  SUBSET S \subseteq C
<1> DEFINE Missing == (SUBSET S) \ C
<1>1. SUFFICES ASSUME Missing # {} PROVE FALSE
  OBVIOUS
<1>2. Missing \subseteq FiniteSubsetsOf(S)
  BY FS_Subset DEF FiniteSubsetsOf
<1> HIDE DEF Missing
<1>3. PICK T \in Missing : \A U \in Missing : ~(<<U, T>> \in StrictSubsetOrdering(S))
  <2>1. IsWellFoundedOn(StrictSubsetOrdering(S), FiniteSubsetsOf(S))
    BY FS_StrictSubsetOrderingWellFounded
  <2>. QED BY <2>1, <1>1, <1>2, WFMin
<1> USE DEF Missing
<1>4. T \in SUBSET S /\ T \notin C
  OBVIOUS
<1>5. ASSUME NEW U \in SUBSET T, U # T PROVE U \in C
  <2>1. U \in SUBSET S
    BY <1>4, <1>5
  <2>2. <<U, T>> \in StrictSubsetOrdering(S)
    BY <2>1, <1>4, <1>5 DEF StrictSubsetOrdering
  <2>. QED BY <2>1, <2>2, <1>3
<1>. QED BY <1>4, <1>5

\* An element of a set, always the same one.
Some(s) == CHOOSE x \in s : TRUE

\* The recursion a fold over the subsets of S is made of.
IsSum(f, S, iter) ==
  iter = [s \in SUBSET S |-> IF s = {} THEN 0 ELSE f[Some(s)] + iter[s \ {Some(s)}]]

\* What is chosen from a set is in it.
LEMMA SomeIn == ASSUME NEW s, s # {} PROVE Some(s) \in s
  BY DEF Some

\* SumFunctionOnSet, with its recursion named.
LEMMA SumDef ==
  ASSUME NEW f, NEW S
  PROVE  SumFunctionOnSet(f, S) = (CHOOSE iter : IsSum(f, S, iter))[S]
  BY DEF SumFunctionOnSet, FoldFunctionOnSet, MapThenFoldSet, IsSum, Some

\* The recursion has one solution at most.
LEMMA SumUnique ==
  ASSUME NEW f, NEW S, IsFiniteSet(S), NEW g, NEW h, IsSum(f, S, g), IsSum(f, S, h)
  PROVE  g = h
<1> DEFINE C == {T \in SUBSET S : g[T] = h[T]}
<1>1. ASSUME NEW T \in SUBSET S, \A U \in SUBSET T : U # T => U \in C
      PROVE  T \in C
  <2>1. CASE T = {}
    BY <2>1 DEF IsSum
  <2>2. CASE T # {}
    <3>1. Some(T) \in T
      BY <2>2, SomeIn
    <3>2. T \ {Some(T)} \in SUBSET T /\ T \ {Some(T)} # T
      BY <3>1
    <3>3. g[T \ {Some(T)}] = h[T \ {Some(T)}]
      BY <3>2, <1>1
    <3>4. g[T] = f[Some(T)] + g[T \ {Some(T)}]
      BY <2>2 DEF IsSum
    <3>5. h[T] = f[Some(T)] + h[T \ {Some(T)}]
      BY <2>2 DEF IsSum
    <3>. QED BY <3>3, <3>4, <3>5
  <2>. QED BY <2>1, <2>2
<1> HIDE DEF C
<1>2. SUBSET S \subseteq C
  BY <1>1, SubsetInduction
<1>3. \A T \in SUBSET S : g[T] = h[T]
  BY <1>2 DEF C
<1>4. g = [T \in SUBSET S |-> g[T]] /\ h = [T \in SUBSET S |-> h[T]]
  BY DEF IsSum
<1>. QED BY <1>3, <1>4

\* One term of the sum, and the sum of the others.
LEMMA SumRecursion ==
  ASSUME NEW f, NEW S, IsFiniteSet(S)
  PROVE  SumFunctionOnSet(f, S) =
           IF S = {} THEN 0 ELSE f[Some(S)] + SumFunctionOnSet(f, S \ {Some(S)})
<1> DEFINE Sum(s) == SumFunctionOnSet(f, s)
           Rest(s) == IF s = {} THEN 0 ELSE f[Some(s)] + Sum(s \ {Some(s)})
           C == {T \in SUBSET S : Sum(T) = Rest(T)}
<1> HIDE DEF Sum
<1>1. ASSUME NEW T \in SUBSET S, \A U \in SUBSET T : U # T => U \in C
      PROVE  T \in C
  <2> DEFINE G == [s \in SUBSET T |-> Rest(s)]
  <2>1. ASSUME NEW s \in SUBSET T, s # {}
        PROVE  G[s \ {Some(s)}] = Sum(s \ {Some(s)})
    <3>1. Some(s) \in s
      BY <2>1, SomeIn
    <3>2. s \ {Some(s)} \in SUBSET T /\ s \ {Some(s)} # T
      BY <3>1
    <3>3. s \ {Some(s)} \in C
      BY <3>2, <1>1
    <3>. QED BY <3>2, <3>3
  <2>2. IsSum(f, T, G)
    BY <2>1 DEF IsSum
  <2> HIDE DEF G
  <2>3. IsSum(f, T, CHOOSE iter : IsSum(f, T, iter))
    BY <2>2
  <2>4. IsFiniteSet(T)
    BY FS_Subset
  <2>5. (CHOOSE iter : IsSum(f, T, iter)) = G
    BY <2>2, <2>3, <2>4, SumUnique
  <2>6. Sum(T) = G[T]
    BY <2>5, SumDef DEF Sum
  <2>7. G[T] = Rest(T)
    BY DEF G
  <2>. QED BY <2>6, <2>7
<1> HIDE DEF C
<1>2. S \in C
  BY <1>1, SubsetInduction
<1>. QED BY <1>2 DEF C, Sum

\* Nothing adds up to nothing.
LEMMA SumEmpty == ASSUME NEW f PROVE SumFunctionOnSet(f, {}) = 0
  BY SumRecursion, FS_EmptySet

\* A sum of naturals is a natural.
LEMMA SumNat ==
  ASSUME NEW f, NEW S, IsFiniteSet(S), \A x \in S : f[x] \in Nat
  PROVE  SumFunctionOnSet(f, S) \in Nat
<1> DEFINE Sum(s) == SumFunctionOnSet(f, s)
           C == {T \in SUBSET S : Sum(T) \in Nat}
<1>1. ASSUME NEW T \in SUBSET S, \A U \in SUBSET T : U # T => U \in C
      PROVE  T \in C
  <2>1. IsFiniteSet(T)
    BY FS_Subset
  <2>2. Sum(T) = IF T = {} THEN 0 ELSE f[Some(T)] + Sum(T \ {Some(T)})
    BY <2>1, SumRecursion
  <2>3. CASE T = {}
    BY <2>2, <2>3
  <2>4. CASE T # {}
    <3>1. Some(T) \in T
      BY <2>4, SomeIn
    <3>2. T \ {Some(T)} \in SUBSET T /\ T \ {Some(T)} # T
      BY <3>1
    <3>3. Sum(T \ {Some(T)}) \in Nat
      BY <3>2, <1>1
    <3>4. f[Some(T)] \in Nat
      BY <3>1
    <3>. HIDE DEF Sum
    <3>. QED BY <2>2, <2>4, <3>3, <3>4 DEF C
  <2>. QED BY <2>3, <2>4
<1> HIDE DEF C
<1>2. S \in C
  BY <1>1, SubsetInduction
<1>. QED BY <1>2 DEF C

\* Any element may be the one that is taken out.
LEMMA SumTakeOut ==
  ASSUME NEW f, NEW S, IsFiniteSet(S), \A x \in S : f[x] \in Nat, NEW x \in S
  PROVE  SumFunctionOnSet(f, S) = f[x] + SumFunctionOnSet(f, S \ {x})
<1> DEFINE Sum(s) == SumFunctionOnSet(f, s)
           C == {T \in SUBSET S : \A y \in T : Sum(T) = f[y] + Sum(T \ {y})}
<1>1. ASSUME NEW T \in SUBSET S, \A U \in SUBSET T : U # T => U \in C
      PROVE  T \in C
  <2>1. SUFFICES ASSUME NEW y \in T PROVE Sum(T) = f[y] + Sum(T \ {y})
    OBVIOUS
  <2>2. IsFiniteSet(T)
    BY FS_Subset
  <2>3. PICK z \in T : Sum(T) = f[z] + Sum(T \ {z})
    <3>1. Some(T) \in T
      BY SomeIn
    <3>2. Sum(T) = f[Some(T)] + Sum(T \ {Some(T)})
      BY <2>2, SumRecursion
    <3>. QED BY <3>1, <3>2
  <2>4. CASE y = z
    BY <2>3, <2>4
  <2>5. CASE y # z
    <3>1. T \ {z} \in C /\ y \in T \ {z}
      <4>1. T \ {z} \in SUBSET T /\ T \ {z} # T
        OBVIOUS
      <4>. QED BY <4>1, <1>1, <2>5
    <3>2. Sum(T \ {z}) = f[y] + Sum((T \ {z}) \ {y})
      BY <3>1
    <3>3. T \ {y} \in C /\ z \in T \ {y}
      <4>1. T \ {y} \in SUBSET T /\ T \ {y} # T
        OBVIOUS
      <4>. QED BY <4>1, <1>1, <2>5
    <3>4. Sum(T \ {y}) = f[z] + Sum((T \ {y}) \ {z})
      BY <3>3
    <3>5. (T \ {y}) \ {z} = (T \ {z}) \ {y}
      OBVIOUS
    <3>6. Sum((T \ {z}) \ {y}) \in Nat
      <4>1. IsFiniteSet((T \ {z}) \ {y})
        BY <2>2, FS_RemoveElement
      <4>. QED BY <4>1, SumNat
    <3>7. f[y] \in Nat /\ f[z] \in Nat
      OBVIOUS
    <3>. DEFINE rest == Sum((T \ {z}) \ {y})
    <3>8. Sum(T) = f[z] + (f[y] + rest) /\ Sum(T \ {y}) = f[z] + rest
      BY <2>3, <3>2, <3>4, <3>5
    <3>. HIDE DEF rest, Sum
    <3>. QED BY <3>6, <3>7, <3>8 DEF rest
  <2>. QED BY <2>4, <2>5
<1> HIDE DEF C
<1>2. S \in C
  BY <1>1, SubsetInduction
<1>. QED BY <1>2 DEF C

\* The sum of what is added term by term, and the order of two sums.
LEMMA SumPlus ==
  ASSUME NEW f, NEW g, NEW h, NEW S, IsFiniteSet(S),
         \A x \in S : f[x] \in Nat /\ g[x] \in Nat /\ h[x] = f[x] + g[x]
  PROVE  SumFunctionOnSet(h, S) = SumFunctionOnSet(f, S) + SumFunctionOnSet(g, S)
<1> DEFINE Sum(e, s) == SumFunctionOnSet(e, s)
           C == {T \in SUBSET S : Sum(h, T) = Sum(f, T) + Sum(g, T)}
<1>1. ASSUME NEW T \in SUBSET S, \A U \in SUBSET T : U # T => U \in C
      PROVE  T \in C
  <2>1. IsFiniteSet(T) /\ \A x \in T : f[x] \in Nat /\ g[x] \in Nat /\ h[x] \in Nat
    BY FS_Subset
  <2>2. CASE T = {}
    <3>1. Sum(h, T) = 0 /\ Sum(f, T) = 0 /\ Sum(g, T) = 0
      BY <2>2, SumEmpty
    <3>. QED BY <3>1
  <2>3. CASE T # {}
    <3>1. PICK x \in T : TRUE
      BY <2>3
    <3>2. T \ {x} \in SUBSET T /\ T \ {x} # T /\ IsFiniteSet(T \ {x})
      BY <2>1, FS_RemoveElement
    <3>3. Sum(h, T \ {x}) = Sum(f, T \ {x}) + Sum(g, T \ {x})
      BY <3>2, <1>1
    <3>4. Sum(h, T) = h[x] + Sum(h, T \ {x})
      BY <2>1, SumTakeOut
    <3>5. Sum(f, T) = f[x] + Sum(f, T \ {x})
      BY <2>1, SumTakeOut
    <3>6. Sum(g, T) = g[x] + Sum(g, T \ {x})
      BY <2>1, SumTakeOut
    <3>7. Sum(f, T \ {x}) \in Nat /\ Sum(g, T \ {x}) \in Nat
      BY <2>1, <3>2, SumNat
    <3>8. f[x] \in Nat /\ g[x] \in Nat /\ h[x] = f[x] + g[x]
      OBVIOUS
    <3>9. Sum(h, T) = Sum(f, T) + Sum(g, T)
      <4> HIDE DEF Sum
      <4>. QED BY <3>3, <3>4, <3>5, <3>6, <3>7, <3>8
    <3>. QED BY <3>9
  <2>. QED BY <2>2, <2>3
<1> HIDE DEF C
<1>2. S \in C
  BY <1>1, SubsetInduction
<1>. QED BY <1>2 DEF C

\* Sums over the same terms are the same.
LEMMA SumSame ==
  ASSUME NEW f, NEW g, NEW S, IsFiniteSet(S), \A x \in S : f[x] \in Nat /\ g[x] = f[x]
  PROVE  SumFunctionOnSet(g, S) = SumFunctionOnSet(f, S)
<1> DEFINE Sum(e, s) == SumFunctionOnSet(e, s)
           C == {T \in SUBSET S : Sum(g, T) = Sum(f, T)}
<1>1. ASSUME NEW T \in SUBSET S, \A U \in SUBSET T : U # T => U \in C
      PROVE  T \in C
  <2>1. IsFiniteSet(T)
    BY FS_Subset
  <2>2. CASE T = {}
    BY <2>2, SumEmpty
  <2>3. CASE T # {}
    <3>1. PICK x \in T : TRUE
      BY <2>3
    <3>2. T \ {x} \in SUBSET T /\ T \ {x} # T
      OBVIOUS
    <3>3. Sum(g, T \ {x}) = Sum(f, T \ {x})
      BY <3>2, <1>1
    <3>4. Sum(g, T) = g[x] + Sum(g, T \ {x})
      BY <2>1, SumTakeOut
    <3>5. Sum(f, T) = f[x] + Sum(f, T \ {x})
      BY <2>1, SumTakeOut
    <3>. QED BY <3>3, <3>4, <3>5
  <2>. QED BY <2>2, <2>3
<1> HIDE DEF C
<1>2. S \in C
  BY <1>1, SubsetInduction
<1>. QED BY <1>2 DEF C

\* Terms that are zero add nothing.
LEMMA SumZero ==
  ASSUME NEW f, NEW S, IsFiniteSet(S), \A x \in S : f[x] = 0
  PROVE  SumFunctionOnSet(f, S) = 0
<1> DEFINE total == SumFunctionOnSet(f, S)
<1>1. total = total + total
  BY SumPlus
<1>2. total \in Nat
  BY SumNat
<1> HIDE DEF total
<1>3. total = 0
  BY <1>1, <1>2
<1>. QED BY <1>3 DEF total

\* The sum of some of the terms is no more than the sum of them all.
LEMMA SumPart ==
  ASSUME NEW f, NEW S, IsFiniteSet(S), \A x \in S : f[x] \in Nat, NEW P \in SUBSET S
  PROVE  SumFunctionOnSet(f, P) <= SumFunctionOnSet(f, S)
<1> DEFINE Sum(s) == SumFunctionOnSet(f, s)
           C == {T \in SUBSET S : P \subseteq T => Sum(P) <= Sum(T)}
<1>0. \A T \in SUBSET S : Sum(T) \in Nat
  BY FS_Subset, SumNat
<1>1. ASSUME NEW T \in SUBSET S, \A U \in SUBSET T : U # T => U \in C
      PROVE  T \in C
  <2>1. CASE P = T \/ ~(P \subseteq T)
    BY <2>1, <1>0
  <2>2. CASE P # T /\ P \subseteq T
    <3>1. PICK x \in T : x \notin P
      BY <2>2
    <3>2. T \ {x} \in SUBSET T /\ T \ {x} # T /\ P \subseteq T \ {x} /\ T \ {x} \in SUBSET S
      BY <2>2, <3>1
    <3>3. Sum(P) <= Sum(T \ {x})
      BY <3>2, <1>1
    <3>4. Sum(T) = f[x] + Sum(T \ {x})
      BY FS_Subset, SumTakeOut
    <3>5. f[x] \in Nat /\ Sum(P) \in Nat /\ Sum(T \ {x}) \in Nat
      BY <1>0, <3>2
    <3>6. Sum(P) <= Sum(T)
      <4> HIDE DEF Sum
      <4>. QED BY <3>3, <3>4, <3>5
    <3>. QED BY <3>6
  <2>. QED BY <2>1, <2>2
<1> HIDE DEF C
<1>2. S \in C
  BY <1>1, SubsetInduction
<1>. QED BY <1>2 DEF C

\* The only term that is not zero is the sum.
LEMMA SumOfOne ==
  ASSUME NEW f, NEW S, IsFiniteSet(S), NEW x \in S, f[x] \in Nat,
         \A y \in S : y # x => f[y] = 0
  PROVE  SumFunctionOnSet(f, S) = f[x]
<1>1. SumFunctionOnSet(f, S) = f[x] + SumFunctionOnSet(f, S \ {x})
  BY SumTakeOut
<1>2. IsFiniteSet(S \ {x})
  BY FS_RemoveElement
<1>3. SumFunctionOnSet(f, S \ {x}) = 0
  BY <1>2, SumZero
<1>. QED BY <1>1, <1>3

\* A term that is one more makes the sum one more.
LEMMA SumOneMore ==
  ASSUME NEW f, NEW g, NEW S, IsFiniteSet(S), NEW x \in S, \A y \in S : f[y] \in Nat,
         g[x] = f[x] + 1, \A y \in S : y # x => g[y] = f[y]
  PROVE  SumFunctionOnSet(g, S) = SumFunctionOnSet(f, S) + 1
<1> DEFINE rest == SumFunctionOnSet(f, S \ {x})
<1>1. IsFiniteSet(S \ {x}) /\ \A y \in S : g[y] \in Nat
  BY FS_RemoveElement
<1>2. SumFunctionOnSet(f, S) = f[x] + rest
  BY SumTakeOut
<1>3. SumFunctionOnSet(g, S) = g[x] + SumFunctionOnSet(g, S \ {x})
  BY <1>1, SumTakeOut
<1>4. SumFunctionOnSet(g, S \ {x}) = rest
  BY <1>1, SumSame
<1>5. rest \in Nat
  BY <1>1, SumNat
<1> HIDE DEF rest
<1>. QED BY <1>2, <1>3, <1>4, <1>5

\* It does not matter how the terms are named.
LEMMA SumRenamed ==
  ASSUME NEW f, NEW g, NEW S, IsFiniteSet(S), NEW up,
         \A x \in S : f[x] \in Nat /\ g[up[x]] = f[x],
         \A x, y \in S : up[x] = up[y] => x = y
  PROVE  SumFunctionOnSet(g, {up[x] : x \in S}) = SumFunctionOnSet(f, S)
<1> DEFINE Sum(e, s) == SumFunctionOnSet(e, s)
           Up(T) == {up[x] : x \in T}
           C == {T \in SUBSET S : Sum(g, Up(T)) = Sum(f, T)}
<1>1. ASSUME NEW T \in SUBSET S, \A U \in SUBSET T : U # T => U \in C
      PROVE  T \in C
  <2>1. IsFiniteSet(T) /\ IsFiniteSet(Up(T))
    <3>1. [x \in T |-> up[x]] \in Surjection(T, Up(T))
      BY DEF Surjection
    <3>2. IsFiniteSet(T)
      BY FS_Subset
    <3>. QED BY <3>1, <3>2, FS_Surjection
  <2>2. CASE T = {}
    <3>1. Up(T) = {}
      BY <2>2
    <3>. QED BY <2>2, <3>1, SumEmpty
  <2>3. CASE T # {}
    <3>1. PICK x \in T : TRUE
      BY <2>3
    <3>2. T \ {x} \in SUBSET T /\ T \ {x} # T
      OBVIOUS
    <3>3. Sum(g, Up(T \ {x})) = Sum(f, T \ {x})
      BY <3>2, <1>1
    <3>4. Up(T \ {x}) = Up(T) \ {up[x]} /\ up[x] \in Up(T)
      OBVIOUS
    <3>5. \A y \in Up(T) : g[y] \in Nat
      OBVIOUS
    <3>6. Sum(g, Up(T)) = g[up[x]] + Sum(g, Up(T) \ {up[x]})
      BY <2>1, <3>4, <3>5, SumTakeOut
    <3>7. Sum(f, T) = f[x] + Sum(f, T \ {x})
      BY <2>1, SumTakeOut
    <3>. QED BY <3>3, <3>4, <3>6, <3>7
  <2>. QED BY <2>2, <2>3
<1> HIDE DEF C
<1>2. S \in C
  BY <1>1, SubsetInduction
<1>. QED BY <1>2 DEF C

\* The terms may be numbered one higher.
LEMMA SumShift ==
  ASSUME NEW f, NEW g, NEW S
  PROVE  /\ IsFiniteSet(S) /\ S \subseteq Int
         /\ \A x \in S : f[x] \in Nat /\ g[x + 1] = f[x]
         => SumFunctionOnSet(g, {x + 1 : x \in S}) = SumFunctionOnSet(f, S)
<1>1. ASSUME IsFiniteSet(S), S \subseteq Int, \A x \in S : f[x] \in Nat /\ g[x + 1] = f[x]
      PROVE  SumFunctionOnSet(g, {x + 1 : x \in S}) = SumFunctionOnSet(f, S)
  <2> DEFINE up == [x \in S |-> x + 1]
  <2>1. \A x, y \in S : up[x] = up[y] => x = y
    BY <1>1
  <2>2. {up[x] : x \in S} = {x + 1 : x \in S}
    BY <1>1
  <2>3. \A x \in S : f[x] \in Nat /\ g[up[x]] = f[x]
    BY <1>1
  <2>4. IsFiniteSet(S)
    BY <1>1
  <2> HIDE DEF up
  <2>5. SumFunctionOnSet(g, {up[x] : x \in S}) = SumFunctionOnSet(f, S)
    BY <2>1, <2>3, <2>4, SumRenamed
  <2>. QED BY <2>2, <2>5
<1>. QED BY <1>1

\* Terms of two sets that have none in common.
LEMMA SumUnion ==
  ASSUME NEW f, NEW A, NEW B, IsFiniteSet(A), IsFiniteSet(B), A \cap B = {},
         \A x \in A \cup B : f[x] \in Nat
  PROVE  SumFunctionOnSet(f, A \cup B) = SumFunctionOnSet(f, A) + SumFunctionOnSet(f, B)
<1> DEFINE Sum(s) == SumFunctionOnSet(f, s)
           C == {T \in SUBSET B : Sum(A \cup T) = Sum(A) + Sum(T)}
<1>1. ASSUME NEW T \in SUBSET B, \A U \in SUBSET T : U # T => U \in C
      PROVE  T \in C
  <2>1. IsFiniteSet(T) /\ IsFiniteSet(A \cup T) /\ Sum(A) \in Nat /\ \A x \in T : f[x] \in Nat
    <3>1. IsFiniteSet(T)
      BY FS_Subset
    <3>. QED BY <3>1, FS_Union, SumNat
  <2>2. CASE T = {}
    <3>1. Sum(T) = 0 /\ A \cup T = A
      BY <2>2, SumEmpty
    <3> HIDE DEF Sum
    <3>2. Sum(A \cup T) = Sum(A) + Sum(T)
      BY <2>1, <3>1
    <3>. QED BY <3>2
  <2>3. CASE T # {}
    <3>1. PICK x \in T : TRUE
      BY <2>3
    <3>2. T \ {x} \in SUBSET T /\ T \ {x} # T /\ IsFiniteSet(T \ {x})
      BY <2>1, FS_RemoveElement
    <3>3. Sum(A \cup (T \ {x})) = Sum(A) + Sum(T \ {x})
      BY <3>2, <1>1
    <3>4. x \in A \cup T /\ (A \cup T) \ {x} = A \cup (T \ {x})
      OBVIOUS
    <3>5. Sum(A \cup T) = f[x] + Sum(A \cup (T \ {x}))
      BY <2>1, <3>4, SumTakeOut
    <3>6. Sum(T) = f[x] + Sum(T \ {x})
      BY <2>1, SumTakeOut
    <3>7. Sum(T \ {x}) \in Nat /\ f[x] \in Nat
      BY <2>1, <3>2, SumNat
    <3>8. Sum(A \cup T) = Sum(A) + Sum(T)
      <4> HIDE DEF Sum
      <4>. QED BY <2>1, <3>3, <3>5, <3>6, <3>7
    <3>. QED BY <3>8
  <2>. QED BY <2>2, <2>3
<1> HIDE DEF C
<1>2. B \in C
  BY <1>1, SubsetInduction
<1>. QED BY <1>2 DEF C

-----------------------------------------------------------------------------
(* Sums over intervals.                                                    *)

\* f[a] + f[a + 1] + ... + f[b]
Partial(f, a, b) == SumFunctionOnSet(f, a..b)

\* Intervals are finite.
LEMMA IntervalFinite == \A a, b \in Int : IsFiniteSet(a..b)
  BY FS_Interval

\* A sum of naturals is a natural.
LEMMA PartialNat ==
  ASSUME NEW f, NEW a \in Int, NEW b \in Int, \A i \in a..b : f[i] \in Nat
  PROVE  Partial(f, a, b) \in Nat
  BY IntervalFinite, SumNat DEF Partial

\* What a sum is made of on both sides of a point.
LEMMA PartialSplit ==
  ASSUME NEW f, NEW a \in Int, NEW b \in Int, NEW m \in Int, a <= m + 1, m <= b,
         \A i \in a..b : f[i] \in Nat
  PROVE  Partial(f, a, b) = Partial(f, a, m) + Partial(f, m + 1, b)
<1> DEFINE A == a..m
           B == (m + 1)..b
<1>1. /\ IsFiniteSet(A) /\ IsFiniteSet(B)
      /\ A \cap B = {} /\ A \cup B = a..b
  BY IntervalFinite
<1>2. \A x \in A \cup B : f[x] \in Nat
  BY <1>1
<1>3. Partial(f, a, m) = SumFunctionOnSet(f, A) /\ Partial(f, m + 1, b) = SumFunctionOnSet(f, B)
      /\ Partial(f, a, b) = SumFunctionOnSet(f, A \cup B)
  BY <1>1 DEF Partial
<1> HIDE DEF A, B
<1>. QED BY <1>1, <1>2, <1>3, SumUnion

\* No term and one term.
LEMMA PartialShort ==
  ASSUME NEW f, NEW a \in Int, f[a] \in Nat
  PROVE  Partial(f, a, a) = f[a] /\ Partial(f, a + 1, a) = 0
<1>1. a..a = {a} /\ (a + 1)..a = {}
  OBVIOUS
<1>2. SumFunctionOnSet(f, {}) = 0
  BY SumEmpty
<1>3. SumFunctionOnSet(f, {a}) = f[a]
  <2> DEFINE S == {a}
  <2>1. IsFiniteSet(S) /\ a \in S /\ f[a] \in Nat /\ \A y \in S : y # a => f[y] = 0
    BY FS_Singleton
  <2> HIDE DEF S
  <2>2. SumFunctionOnSet(f, S) = f[a]
    BY <2>1, SumOfOne
  <2>. QED BY <2>2 DEF S
<1>. QED BY <1>1, <1>2, <1>3 DEF Partial

\* The same terms, one place higher.
LEMMA PartialShift ==
  ASSUME NEW f, NEW g, NEW a \in Int, NEW b \in Int,
         \A i \in a..b : f[i] \in Nat /\ g[i + 1] = f[i]
  PROVE  Partial(g, a + 1, b + 1) = Partial(f, a, b)
<1>1. {i + 1 : i \in a..b} = (a + 1)..(b + 1)
  <2>1. \A j \in (a + 1)..(b + 1) : j = (j - 1) + 1 /\ j - 1 \in a..b
    OBVIOUS
  <2>. QED BY <2>1
<1> DEFINE S == a..b
<1>2. IsFiniteSet(S) /\ S \subseteq Int /\ \A i \in S : f[i] \in Nat /\ g[i + 1] = f[i]
  BY IntervalFinite
<1>3. {i + 1 : i \in S} = (a + 1)..(b + 1)
  BY <1>1
<1> HIDE DEF S
<1>4. SumFunctionOnSet(g, {i + 1 : i \in S}) = SumFunctionOnSet(f, S)
  BY <1>2, SumShift
<1>. QED BY <1>3, <1>4 DEF S, Partial

\* Terms of the same values have the same sum.
LEMMA PartialSame ==
  ASSUME NEW f, NEW g, NEW a \in Int, NEW b \in Int,
         \A i \in a..b : f[i] \in Nat /\ g[i] = f[i]
  PROVE  Partial(g, a, b) = Partial(f, a, b)
<1> DEFINE S == a..b
<1>1. IsFiniteSet(S) /\ \A i \in S : f[i] \in Nat /\ g[i] = f[i]
  BY IntervalFinite
<1> HIDE DEF S
<1>2. SumFunctionOnSet(g, S) = SumFunctionOnSet(f, S)
  BY <1>1, SumSame
<1>. QED BY <1>2 DEF S, Partial

-----------------------------------------------------------------------------
(* Orders.                                                                 *)

\* Induction up to a number, as a fact about a set.
LEMMA UpTo ==
  ASSUME NEW N \in Nat, NEW C, 0 \in C, \A n \in 0 .. N - 1 : n \in C => n + 1 \in C
  PROVE  0 .. N \subseteq C
<1> DEFINE Missing == (0 .. N) \ C
<1>1. SUFFICES ASSUME Missing # {} PROVE FALSE
  OBVIOUS
<1>2. Missing \subseteq Nat
  OBVIOUS
<1> HIDE DEF Missing
<1>3. PICK n \in Missing : \A m \in Missing : ~(<<m, n>> \in OpToRel(<, Nat))
  BY <1>1, <1>2, NatLessThanWellFounded, WFMin
<1> USE DEF Missing
<1>4. n \in 1 .. N /\ n \notin C
  OBVIOUS
<1>5. <<n - 1, n>> \in OpToRel(<, Nat)
  BY <1>4 DEF OpToRel
<1>6. n - 1 \notin Missing
  BY <1>3, <1>5
<1>7. n - 1 \in 0 .. N - 1 /\ n - 1 \in C
  BY <1>4, <1>6
<1>. QED BY <1>4, <1>7

\* R orders S strictly and without ties; the elements of S from the first to the
\* last.
Orders(R, S) ==
  /\ \A x \in S : <<x, x>> \notin R
  /\ \A x, y \in S : x # y => <<x, y>> \in R \/ <<y, x>> \in R
  /\ \A x, y, z \in S : <<x, y>> \in R /\ <<y, z>> \in R => <<x, z>> \in R

Preceding(R, S, x) == {y \in S : <<y, x>> \in R}

Sorted(R, S) ==
  [n \in 1 .. Cardinality(S) |->
      CHOOSE x \in S : Cardinality({y \in S : <<y, x>> \in R}) = n - 1]

\* What stands before an element is less than the whole, and less than what
\* stands before a later one.
LEMMA RankGrows ==
  ASSUME NEW S, IsFiniteSet(S), NEW R, Orders(R, S)
  PROVE  /\ Cardinality(S) \in Nat
         /\ \A x \in S : Cardinality(Preceding(R, S, x)) \in 0 .. Cardinality(S) - 1
         /\ \A x, y \in S : <<x, y>> \in R =>
              Cardinality(Preceding(R, S, x)) < Cardinality(Preceding(R, S, y))
<1> DEFINE Below(x) == Preceding(R, S, x)
<1>1. Cardinality(S) \in Nat
  BY FS_CardinalityType
<1>2. \A x \in S : Below(x) \in SUBSET S /\ x \notin Below(x)
  BY DEF Preceding, Orders
<1>3. ASSUME NEW x \in S, NEW y \in S, <<x, y>> \in R
      PROVE  Below(x) \in SUBSET Below(y) /\ x \in Below(y)
  BY <1>3 DEF Preceding, Orders
<1> HIDE DEF Below
<1>4. \A x \in S : IsFiniteSet(Below(x)) /\ Cardinality(Below(x)) \in Nat
  BY <1>2, FS_Subset, FS_CardinalityType
<1>5. ASSUME NEW x \in S PROVE Cardinality(Below(x)) \in 0 .. Cardinality(S) - 1
  <2>1. Cardinality(Below(x)) <= Cardinality(S) /\ Cardinality(Below(x)) # Cardinality(S)
    BY <1>2, <1>5, FS_Subset
  <2>. QED BY <1>1, <1>4, <1>5, <2>1
<1>6. ASSUME NEW x \in S, NEW y \in S, <<x, y>> \in R
      PROVE  Cardinality(Below(x)) < Cardinality(Below(y))
  <2>1. Cardinality(Below(x)) <= Cardinality(Below(y)) /\ Cardinality(Below(x)) # Cardinality(Below(y))
    BY <1>2, <1>3, <1>4, <1>6, FS_Subset
  <2>. QED BY <1>4, <1>6, <2>1
<1>. QED BY <1>1, <1>5, <1>6 DEF Below

\* An element is known by its place.
LEMMA RankTells ==
  ASSUME NEW S, IsFiniteSet(S), NEW R, Orders(R, S), NEW x \in S, NEW y \in S,
         Cardinality(Preceding(R, S, x)) = Cardinality(Preceding(R, S, y))
  PROVE  x = y
<1>1. <<x, y>> \notin R /\ <<y, x>> \notin R
  <2>1. \A z \in S : Cardinality(Preceding(R, S, z)) \in 0 .. Cardinality(S) - 1
    BY RankGrows
  <2>2. Cardinality(Preceding(R, S, x)) \in Int /\ Cardinality(S) \in Nat
    BY <2>1, RankGrows
  <2>. QED BY <2>2, RankGrows
<1>. QED BY <1>1 DEF Orders

\* In a strict order of a finite set each place is taken.
LEMMA PlaceTaken ==
  ASSUME NEW S, IsFiniteSet(S), NEW R, Orders(R, S), NEW n \in 1 .. Cardinality(S)
  PROVE  \E x \in S : Cardinality(Preceding(R, S, x)) = n - 1
<1> DEFINE N == Cardinality(S)
           place == [x \in S |-> Cardinality(Preceding(R, S, x)) + 1]
<1>1. N \in Nat
  BY RankGrows
<1>2. \A x \in S : Cardinality(Preceding(R, S, x)) \in 0 .. N - 1
  BY RankGrows
<1>3. place \in [S -> 1 .. N]
  BY <1>1, <1>2
<1>4. ASSUME NEW x \in S, NEW y \in S, place[x] = place[y] PROVE x = y
  <2>1. Cardinality(Preceding(R, S, x)) = Cardinality(Preceding(R, S, y))
    BY <1>1, <1>2, <1>4
  <2>. QED BY <2>1, RankTells
<1> HIDE DEF place
<1>5. place \in Injection(S, 1 .. N)
  BY <1>3, <1>4 DEF Injection, IsInjective
<1>6. IsFiniteSet(1 .. N) /\ Cardinality(1 .. N) = N
  BY <1>1, FS_Interval
<1>7. place \in Surjection(S, 1 .. N)
  BY <1>5, <1>6, FS_Injection
<1>8. PICK x \in S : place[x] = n
  BY <1>7 DEF Surjection
<1>9. Cardinality(Preceding(R, S, x)) = n - 1
  BY <1>2, <1>8 DEF place
<1>. QED BY <1>9

\* Sorting puts each element at one place, the earlier before the later.
LEMMA SortedAll ==
  ASSUME NEW S, IsFiniteSet(S), NEW R, Orders(R, S)
  PROVE  /\ Cardinality(S) \in Nat
         /\ \A n \in 1 .. Cardinality(S) :
              Sorted(R, S)[n] \in S /\ Cardinality(Preceding(R, S, Sorted(R, S)[n])) = n - 1
         /\ \A x \in S : \E n \in 1 .. Cardinality(S) : Sorted(R, S)[n] = x
         /\ \A m, n \in 1 .. Cardinality(S) :
              m < n => <<Sorted(R, S)[m], Sorted(R, S)[n]>> \in R
<1> DEFINE N == Cardinality(S)
           nth == Sorted(R, S)
<1>1. N \in Nat /\ \A x \in S : Cardinality(Preceding(R, S, x)) \in 0 .. N - 1
  BY RankGrows
<1>2. \A n \in 1 .. N : nth[n] = CHOOSE x \in S : Cardinality(Preceding(R, S, x)) = n - 1
  BY DEF Sorted, Preceding
<1>3. \A n \in 1 .. N : nth[n] \in S /\ Cardinality(Preceding(R, S, nth[n])) = n - 1
  BY <1>2, PlaceTaken
<1> HIDE DEF nth
<1>4. ASSUME NEW x \in S PROVE \E n \in 1 .. N : nth[n] = x
  <2> DEFINE n == Cardinality(Preceding(R, S, x)) + 1
  <2>1. n \in 1 .. N /\ Cardinality(Preceding(R, S, x)) = n - 1
    BY <1>1
  <2> HIDE DEF n
  <2>2. nth[n] = x
    BY <1>3, <2>1, RankTells
  <2>. QED BY <2>1, <2>2
<1>5. ASSUME NEW m \in 1 .. N, NEW n \in 1 .. N, m < n PROVE <<nth[m], nth[n]>> \in R
  <2>1. /\ nth[m] \in S /\ Cardinality(Preceding(R, S, nth[m])) = m - 1
        /\ nth[n] \in S /\ Cardinality(Preceding(R, S, nth[n])) = n - 1
    BY <1>3
  <2>2. nth[m] # nth[n] /\ <<nth[n], nth[m]>> \notin R
    BY <1>1, <1>5, <2>1, RankGrows
  <2>. QED BY <2>1, <2>2 DEF Orders
<1>. QED BY <1>1, <1>3, <1>4, <1>5 DEF nth

\* The same for a set of numbers.
Ascending(P) ==
  [n \in 1 .. Cardinality(P) |->
      CHOOSE x \in P : Cardinality({y \in P : y < x}) = n - 1]

Less == {p \in Nat \X Nat : p[1] < p[2]}

\* Numbers are in such an order, and one is known by how many are less.
LEMMA NumbersOrdered ==
  ASSUME NEW P \in SUBSET Nat
  PROVE  /\ Orders(Less, P)
         /\ \A x \in P : Preceding(Less, P, x) = {y \in P : y < x}
         /\ \A n \in 1 .. Cardinality(P) : Ascending(P)[n] = Sorted(Less, P)[n]
<1>1. Orders(Less, P)
  BY DEF Orders, Less
<1>2. \A x \in P : {y \in P : <<y, x>> \in Less} = {y \in P : y < x}
  BY DEF Less
<1>3. ASSUME NEW n \in 1 .. Cardinality(P)
      PROVE  (CHOOSE x \in P : Cardinality({y \in P : y < x}) = n - 1) =
             (CHOOSE x \in P : Cardinality({y \in P : <<y, x>> \in Less}) = n - 1)
  BY <1>2
<1>4. \A n \in 1 .. Cardinality(P) : Ascending(P)[n] = Sorted(Less, P)[n]
  <2> SUFFICES ASSUME NEW n \in 1 .. Cardinality(P)
               PROVE  Ascending(P)[n] = Sorted(Less, P)[n]
    OBVIOUS
  <2>1. Ascending(P)[n] = CHOOSE x \in P : Cardinality({y \in P : y < x}) = n - 1
    BY DEF Ascending
  <2>2. Sorted(Less, P)[n] =
          CHOOSE x \in P : Cardinality({y \in P : <<y, x>> \in Less}) = n - 1
    BY DEF Sorted
  <2>. QED BY <1>3, <2>1, <2>2
<1>. QED BY <1>1, <1>2, <1>4 DEF Preceding

\* In ascending order every number of a finite set comes once.
LEMMA AscendingAll ==
  ASSUME NEW P \in SUBSET Nat, IsFiniteSet(P)
  PROVE  /\ Cardinality(P) \in Nat
         /\ \A n \in 1 .. Cardinality(P) :
              /\ Ascending(P)[n] \in P
              /\ Cardinality({y \in P : y < Ascending(P)[n]}) = n - 1
         /\ \A x \in P : \E n \in 1 .. Cardinality(P) : Ascending(P)[n] = x
         /\ \A m, n \in 1 .. Cardinality(P) : m < n => Ascending(P)[m] < Ascending(P)[n]
<1> DEFINE nth == Ascending(P)
<1>1. (\A n \in 1 .. Cardinality(P) : nth[n] = Sorted(Less, P)[n]) /\ Orders(Less, P)
  BY NumbersOrdered
<1> HIDE DEF nth
<1>2. /\ Cardinality(P) \in Nat
      /\ \A n \in 1 .. Cardinality(P) :
           nth[n] \in P /\ Cardinality(Preceding(Less, P, nth[n])) = n - 1
      /\ \A x \in P : \E n \in 1 .. Cardinality(P) : nth[n] = x
      /\ \A m, n \in 1 .. Cardinality(P) : m < n => <<nth[m], nth[n]>> \in Less
  BY <1>1, SortedAll
<1>3. \A m, n \in 1 .. Cardinality(P) : m < n => nth[m] < nth[n]
  BY <1>2 DEF Less
<1>4. \A n \in 1 .. Cardinality(P) : Cardinality({y \in P : y < nth[n]}) = n - 1
  BY <1>2, NumbersOrdered
<1>. QED BY <1>2, <1>3, <1>4 DEF nth

\* The first of a set of numbers are the same in a larger set whose others
\* follow.
LEMMA FirstOfMore ==
  ASSUME NEW Q \in SUBSET Nat, IsFiniteSet(Q), NEW P \in SUBSET Q,
         \A p \in P, q \in Q \ P : p < q
  PROVE  /\ IsFiniteSet(P) /\ Cardinality(P) <= Cardinality(Q)
         /\ \A n \in 1 .. Cardinality(P) : Ascending(Q)[n] = Ascending(P)[n]
<1>1. IsFiniteSet(P) /\ Cardinality(P) <= Cardinality(Q)
  BY FS_Subset
<1>2. Cardinality(P) \in Nat /\ Cardinality(Q) \in Nat
  BY <1>1, FS_CardinalityType
<1>3. ASSUME NEW n \in 1 .. Cardinality(P) PROVE Ascending(Q)[n] = Ascending(P)[n]
  <2> DEFINE x == Ascending(P)[n]
             y == Ascending(Q)[n]
  <2>1. P \in SUBSET Nat /\ n \in 1 .. Cardinality(Q)
    BY <1>1, <1>2
  <2>2. x \in P /\ Cardinality({z \in P : z < x}) = n - 1
    BY <1>1, <2>1, AscendingAll
  <2>3. y \in Q /\ Cardinality({z \in Q : z < y}) = n - 1
    BY <2>1, AscendingAll
  <2> HIDE DEF x, y
  <2>4. {z \in Q : z < x} = {z \in P : z < x}
    <3>1. ASSUME NEW z \in Q, z < x PROVE z \in P
      <4>1. z \in Q \ P => x < z
        BY <2>2
      <4>2. x \in Nat /\ z \in Nat
        BY <2>1, <2>2
      <4>. QED BY <3>1, <4>1, <4>2
    <3>. QED BY <3>1
  <2>5. Cardinality(Preceding(Less, Q, x)) = Cardinality(Preceding(Less, Q, y)) /\ Orders(Less, Q)
    BY <2>2, <2>3, <2>4, NumbersOrdered
  <2>6. x = y
    BY <2>2, <2>3, <2>5, RankTells
  <2>. QED BY <2>6 DEF x, y
<1>. QED BY <1>1, <1>3

\* What At gives, without the order as a parameter.
LEMMA AtAscending ==
  ASSUME NEW seq, NEW P
  PROVE  At(seq, P) = [n \in 1 .. Cardinality(P) |-> seq[Ascending(P)[n]]]
  BY DEF At, Nth, Ascending

\* The elements at some places of a sequence are elements of it.
LEMMA AtSeq ==
  ASSUME NEW T, NEW seq \in Seq(T), NEW places \in SUBSET (DOMAIN seq)
  PROVE  /\ At(seq, places) \in Seq(T)
         /\ Len(At(seq, places)) = Cardinality(places)
         /\ IsFiniteSet(places)
         /\ \A n \in 1 .. Cardinality(places) : \E i \in places : At(seq, places)[n] = seq[i]
<1>1. DOMAIN seq = 1 .. Len(seq) /\ Len(seq) \in Nat
  BY LenProperties
<1>2. IsFiniteSet(places)
  <2>1. IsFiniteSet(1 .. Len(seq))
    BY <1>1, FS_Interval
  <2>. QED BY <1>1, <2>1, FS_Subset
<1>3. Cardinality(places) \in Nat
  BY <1>2, FS_CardinalityType
<1>4. places \in SUBSET Nat
  BY <1>1
<1>5. \A n \in 1 .. Cardinality(places) : Ascending(places)[n] \in places
  BY <1>2, <1>4, AscendingAll
<1> DEFINE at == At(seq, places)
<1>6. at = [n \in 1 .. Cardinality(places) |-> seq[Ascending(places)[n]]]
  BY AtAscending
<1> HIDE DEF at
<1>7. \A n \in 1 .. Cardinality(places) : at[n] = seq[Ascending(places)[n]] /\ at[n] \in T
  BY <1>1, <1>5, <1>6, ElementOfSeq
<1>8. at \in Seq(T) /\ Len(at) = Cardinality(places)
  BY <1>3, <1>6, <1>7
<1>. QED BY <1>2, <1>5, <1>7, <1>8 DEF at

\* One place more, behind the others, is one element more at the end.
LEMMA AtNext ==
  ASSUME NEW T, NEW seq \in Seq(T), NEW P \in SUBSET (DOMAIN seq), NEW m \in DOMAIN seq,
         \A p \in P : p < m
  PROVE  At(seq, P \cup {m}) = Append(At(seq, P), seq[m])
<1> DEFINE Q == P \cup {m}
           a == At(seq, P)
           b == At(seq, Q)
<1>1. DOMAIN seq = 1 .. Len(seq) /\ Len(seq) \in Nat
  BY LenProperties
<1>2. Q \in SUBSET (DOMAIN seq) /\ P \in SUBSET Q /\ Q \in SUBSET Nat /\ m \notin P
  BY <1>1
<1>3. \A p \in P, q \in Q \ P : p < q
  OBVIOUS
<1>4. /\ IsFiniteSet(P) /\ IsFiniteSet(Q)
      /\ a \in Seq(T) /\ Len(a) = Cardinality(P) /\ b \in Seq(T) /\ Len(b) = Cardinality(Q)
  BY <1>2, AtSeq
<1>5. Cardinality(Q) = Cardinality(P) + 1 /\ Cardinality(P) \in Nat
  BY <1>2, <1>4, FS_AddElement, FS_CardinalityType
<1>6. /\ a = [n \in 1 .. Cardinality(P) |-> seq[Ascending(P)[n]]]
      /\ b = [n \in 1 .. Cardinality(Q) |-> seq[Ascending(Q)[n]]]
  BY AtAscending
<1>7. \A n \in 1 .. Cardinality(P) : Ascending(Q)[n] = Ascending(P)[n]
  BY <1>2, <1>3, <1>4, FirstOfMore
<1>8. Ascending(Q)[Cardinality(P) + 1] = m
  <2>1. PICK n \in 1 .. Cardinality(Q) : Ascending(Q)[n] = m
    BY <1>2, <1>4, AscendingAll
  <2>2. n \in 1 .. Cardinality(P) => Ascending(P)[n] \in P
    BY <1>2, <1>4, AscendingAll
  <2>3. n \notin 1 .. Cardinality(P)
    BY <1>2, <1>7, <2>1, <2>2
  <2>4. n \in 1 .. Cardinality(P) + 1
    BY <1>5, <2>1
  <2>5. n = Cardinality(P) + 1
    BY <1>5, <2>3, <2>4
  <2>. QED BY <2>1, <2>5
<1> HIDE DEF a, b, Q
<1>9. \A n \in 1 .. Cardinality(P) : b[n] = a[n]
  BY <1>5, <1>6, <1>7
<1>10. b[Cardinality(P) + 1] = seq[m]
  BY <1>5, <1>6, <1>8
<1>11. b = Append(a, seq[m])
  <2>1. seq[m] \in T
    BY ElementOfSeq
  <2>2. /\ Append(a, seq[m]) \in Seq(T) /\ Len(Append(a, seq[m])) = Cardinality(P) + 1
        /\ \A n \in 1 .. Cardinality(P) : Append(a, seq[m])[n] = a[n]
        /\ Append(a, seq[m])[Cardinality(P) + 1] = seq[m]
    BY <1>4, <2>1, AppendProperties
  <2>3. \A n \in 1 .. Cardinality(P) + 1 : b[n] = Append(a, seq[m])[n]
    BY <1>5, <1>9, <1>10, <2>2
  <2>. QED BY <1>4, <1>5, <2>2, <2>3, SeqEqual
<1>. QED BY <1>11 DEF a, b, Q

\* The elements at the first places are a prefix of those at all of them.
LEMMA AtPrefix ==
  ASSUME NEW T, NEW seq \in Seq(T), NEW Q \in SUBSET (DOMAIN seq), NEW P \in SUBSET Q,
         \A p \in P, q \in Q \ P : p < q
  PROVE  IsPrefix(At(seq, P), At(seq, Q))
<1> DEFINE a == At(seq, P)
           b == At(seq, Q)
           k == Cardinality(P)
<1>1. DOMAIN seq = 1 .. Len(seq) /\ Len(seq) \in Nat
  BY LenProperties
<1>2. Q \in SUBSET Nat /\ P \in SUBSET (DOMAIN seq)
  BY <1>1
<1>3. /\ IsFiniteSet(P) /\ IsFiniteSet(Q)
      /\ a \in Seq(T) /\ Len(a) = k /\ b \in Seq(T) /\ Len(b) = Cardinality(Q)
  BY <1>2, AtSeq
<1>4. k <= Cardinality(Q) /\ \A n \in 1 .. k : Ascending(Q)[n] = Ascending(P)[n]
  BY <1>2, <1>3, FirstOfMore
<1>5. k \in Nat /\ Cardinality(Q) \in Nat
  BY <1>3, FS_CardinalityType
<1>6. /\ a = [n \in 1 .. k |-> seq[Ascending(P)[n]]]
      /\ b = [n \in 1 .. Cardinality(Q) |-> seq[Ascending(Q)[n]]]
  BY AtAscending
<1> HIDE DEF a, b, k
<1>7. \A n \in 1 .. k : b[n] = a[n]
  BY <1>4, <1>5, <1>6
<1>8. SubSeq(a, 1, k) = SubSeq(b, 1, k)
  BY <1>3, <1>4, <1>5, <1>7
<1>. QED BY <1>3, <1>4, <1>8 DEF a, b, k, IsPrefix

\* Two finite sets without a common element have the elements of both.
LEMMA CardinalityParts ==
  ASSUME NEW P, NEW Q, IsFiniteSet(P), IsFiniteSet(Q), P \cap Q = {}
  PROVE  /\ IsFiniteSet(P \cup Q) /\ Cardinality(P) \in Nat /\ Cardinality(Q) \in Nat
         /\ Cardinality(P \cup Q) = Cardinality(P) + Cardinality(Q)
<1>1. Cardinality(P) \in Nat /\ Cardinality(Q) \in Nat
  BY FS_CardinalityType
<1>2. /\ IsFiniteSet(P \cup Q)
      /\ Cardinality(P \cup Q) = Cardinality(P) + Cardinality(Q) - Cardinality(P \cap Q)
  BY FS_Union
<1>3. Cardinality(P \cap Q) = 0
  BY FS_EmptySet
<1>. QED BY <1>1, <1>2, <1>3

\* The elements at the places of P, and behind them those at the places of Q, are
\* the elements at all of them.
LEMMA AtConcat ==
  ASSUME NEW T, NEW seq \in Seq(T), NEW P \in SUBSET (DOMAIN seq), NEW Q \in SUBSET (DOMAIN seq),
         \A p \in P, q \in Q : p < q
  PROVE  At(seq, P \cup Q) = At(seq, P) \o At(seq, Q)
<1> DEFINE A == P \cup Q
           a == At(seq, P)
           b == At(seq, Q)
           c == At(seq, A)
           k == Cardinality(P)
           l == Cardinality(Q)
<1>1. DOMAIN seq = 1 .. Len(seq) /\ Len(seq) \in Nat
  BY LenProperties
<1>2. /\ A \in SUBSET (DOMAIN seq) /\ A \in SUBSET Nat /\ P \in SUBSET A
      /\ P \in SUBSET Nat /\ Q \in SUBSET Nat /\ P \cap Q = {}
  BY <1>1
<1>3. \A p \in P, q \in A \ P : p < q
  OBVIOUS
<1>4. /\ IsFiniteSet(P) /\ IsFiniteSet(Q) /\ IsFiniteSet(A)
      /\ a \in Seq(T) /\ Len(a) = k /\ b \in Seq(T) /\ Len(b) = l
      /\ c \in Seq(T) /\ Len(c) = Cardinality(A)
  BY <1>2, AtSeq
<1>5. k \in Nat /\ l \in Nat /\ Cardinality(A) = k + l
  BY <1>2, <1>4, CardinalityParts
<1>6. /\ a = [n \in 1 .. k |-> seq[Ascending(P)[n]]]
      /\ b = [n \in 1 .. l |-> seq[Ascending(Q)[n]]]
      /\ c = [n \in 1 .. Cardinality(A) |-> seq[Ascending(A)[n]]]
  BY AtAscending
<1>7. \A n \in 1 .. k : Ascending(A)[n] = Ascending(P)[n]
  BY <1>2, <1>3, <1>4, FirstOfMore
<1>8. ASSUME NEW m \in 1 .. l PROVE Ascending(A)[k + m] = Ascending(Q)[m]
  <2> DEFINE x == Ascending(Q)[m]
             y == Ascending(A)[k + m]
             below == {z \in Q : z < x}
  <2>1. x \in Q /\ Cardinality(below) = m - 1
    BY <1>2, <1>4, AscendingAll
  <2>2. k + m \in 1 .. Cardinality(A)
    BY <1>5
  <2>3. y \in A /\ Cardinality({z \in A : z < y}) = (k + m) - 1
    BY <1>2, <1>4, <2>2, AscendingAll
  <2> HIDE DEF x, y
  <2>4. {z \in A : z < x} = P \cup below /\ P \cap below = {} /\ below \in SUBSET Q
    BY <1>2, <2>1
  <2>5. IsFiniteSet(below)
    BY <1>4, <2>4, FS_Subset
  <2> HIDE DEF below
  <2>6. Cardinality({z \in A : z < x}) = (k + m) - 1
    <3>1. Cardinality(P \cup below) = Cardinality(P) + Cardinality(below)
      BY <1>4, <2>4, <2>5, CardinalityParts
    <3>2. Cardinality({z \in A : z < x}) = Cardinality(P) + (m - 1)
      BY <2>1, <2>4, <3>1
    <3>. QED BY <1>5, <3>2
  <2>7. Cardinality(Preceding(Less, A, x)) = Cardinality(Preceding(Less, A, y)) /\ Orders(Less, A)
    BY <1>2, <2>1, <2>3, <2>6, NumbersOrdered
  <2>8. x = y
    BY <1>4, <2>1, <2>3, <2>7, RankTells
  <2>. QED BY <2>8 DEF x, y
<1> HIDE DEF a, b, c, A, k, l
<1>9. /\ a \o b \in Seq(T) /\ Len(a \o b) = k + l
      /\ \A n \in 1 .. k + l : (a \o b)[n] = IF n <= k THEN a[n] ELSE b[n - k]
  BY <1>4, ConcatProperties
<1>10. ASSUME NEW n \in 1 .. k + l PROVE c[n] = (a \o b)[n]
  <2>1. CASE n <= k
    BY <1>5, <1>6, <1>7, <1>9, <2>1
  <2>2. CASE n > k
    <3>1. n - k \in 1 .. l /\ k + (n - k) = n
      BY <1>5, <2>2
    <3>. QED BY <1>5, <1>6, <1>8, <1>9, <2>2, <3>1
  <2>3. n <= k \/ n > k
    BY <1>5
  <2>. QED BY <2>1, <2>2, <2>3
<1>11. c = a \o b
  BY <1>4, <1>5, <1>9, <1>10, SeqEqual
<1>. QED BY <1>11 DEF a, b, c, A

\* Only what stands at the places counts.
LEMMA AtSame ==
  ASSUME NEW P \in SUBSET Nat, IsFiniteSet(P), NEW s, NEW t, \A p \in P : s[p] = t[p]
  PROVE  At(s, P) = At(t, P)
<1>1. \A n \in 1 .. Cardinality(P) : Ascending(P)[n] \in P
  BY AscendingAll
<1>2. \A n \in 1 .. Cardinality(P) : s[Ascending(P)[n]] = t[Ascending(P)[n]]
  BY <1>1
<1>. QED BY <1>2, AtAscending

\* No place and one place.
LEMMA AtShort ==
  ASSUME NEW T, NEW seq \in Seq(T)
  PROVE  At(seq, {}) = <<>> /\ \A m \in DOMAIN seq : At(seq, {m}) = <<seq[m]>>
<1>1. At(seq, {}) = <<>>
  <2>1. At(seq, {}) \in Seq(T) /\ Len(At(seq, {})) = 0
    BY FS_EmptySet, AtSeq
  <2>. QED BY <2>1, EmptySeq
<1>2. ASSUME NEW m \in DOMAIN seq PROVE At(seq, {m}) = <<seq[m]>>
  <2>1. At(seq, {} \cup {m}) = Append(At(seq, {}), seq[m])
    BY AtNext
  <2>2. {} \cup {m} = {m} /\ Append(<<>>, seq[m]) = <<seq[m]>>
    OBVIOUS
  <2>. QED BY <1>1, <2>1, <2>2
<1>. QED BY <1>1, <1>2

\* A set of naturals has a least element, and below a bound a greatest one.
LEMMA LeastIn ==
  ASSUME NEW S \in SUBSET Nat, S # {}
  PROVE  Min(S) \in S /\ \A y \in S : Min(S) =< y
<1>1. PICK x \in S : \A y \in S : ~(<<y, x>> \in OpToRel(<, Nat))
  BY NatLessThanWellFounded, WFMin
<1>2. ASSUME NEW y \in S PROVE x =< y
  <2>1. y < x => <<y, x>> \in OpToRel(<, Nat)
    BY DEF OpToRel
  <2>2. x \in Nat /\ y \in Nat /\ ~(y < x)
    BY <1>1, <2>1
  <2>. QED BY <2>2
<1>. QED BY <1>2 DEF Min

LEMMA GreatestIn ==
  ASSUME NEW N \in Nat, NEW S \in SUBSET (1 .. N), S # {}
  PROVE  Max(S) \in S /\ \A y \in S : Max(S) >= y
<1> DEFINE C == {N - x : x \in S}
<1>1. \A x \in S : x \in 1 .. N /\ N - x \in Nat
  OBVIOUS
<1>2. C \in SUBSET Nat /\ C # {}
  BY <1>1
<1> HIDE DEF C
<1>3. Min(C) \in C /\ \A n \in C : Min(C) =< n
  BY <1>2, LeastIn
<1>4. PICK x \in S : Min(C) = N - x
  BY <1>3 DEF C
<1>5. ASSUME NEW y \in S PROVE x >= y
  <2>1. N - x =< N - y
    BY <1>3, <1>4 DEF C
  <2>2. x \in Nat /\ y \in Nat
    BY <1>1
  <2>. QED BY <2>1, <2>2
<1>. QED BY <1>5 DEF Max

-----------------------------------------------------------------------------
(* Recursion along a sequence.                                             *)

\* A step of A for each number up to n leads from a to somewhere.
Leads(n, A, a, g) ==
  \E u \in [0 .. n -> A] : u[0] = a /\ \A k \in 1 .. n : u[k] = g[<<k, u[k - 1]>>]

LEMMA Recursion ==
  ASSUME NEW n \in Nat, NEW A, NEW a \in A, NEW g \in [(1 .. n) \X A -> A]
  PROVE  Leads(n, A, a, g)
<1> DEFINE Solves(u, m) ==
             /\ u \in [0 .. m -> A] /\ u[0] = a
             /\ \A k \in 1 .. m : u[k] = g[<<k, u[k - 1]>>]
           C == {m \in 0 .. n : \E u \in [0 .. m -> A] : Solves(u, m)}
<1>1. 0 \in C
  <2> DEFINE u == [k \in 0 .. 0 |-> a]
  <2>1. u \in [0 .. 0 -> A] /\ Solves(u, 0)
    OBVIOUS
  <2> HIDE DEF u
  <2>. QED BY <2>1
<1>2. ASSUME NEW m \in 0 .. n - 1, m \in C PROVE m + 1 \in C
  <2>1. PICK u \in [0 .. m -> A] : Solves(u, m)
    BY <1>2
  <2> DEFINE v == [k \in 0 .. m + 1 |-> IF k <= m THEN u[k] ELSE g[<<m + 1, u[m]>>]]
  <2>2. /\ \A k \in 0 .. m : v[k] = u[k]
        /\ v[m + 1] = g[<<m + 1, u[m]>>]
    OBVIOUS
  <2>3. v[m + 1] \in A
    <3>1. <<m + 1, u[m]>> \in (1 .. n) \X A
      BY <2>1
    <3>. QED BY <2>2, <3>1
  <2>4. v \in [0 .. m + 1 -> A]
    BY <2>1, <2>3
  <2> HIDE DEF v
  <2>5. ASSUME NEW k \in 1 .. m + 1 PROVE v[k] = g[<<k, v[k - 1]>>]
    <3>1. CASE k = m + 1
      <4>1. k - 1 = m /\ v[m] = u[m]
        BY <2>2, <3>1
      <4>. QED BY <2>2, <3>1, <4>1
    <3>2. CASE k \in 1 .. m
      <4>1. k - 1 \in 0 .. m
        BY <3>2
      <4>. QED BY <2>1, <2>2, <3>2, <4>1
    <3>. QED BY <2>5, <3>1, <3>2
  <2>6. Solves(v, m + 1)
    <3>1. v[0] = a
      BY <2>1, <2>2
    <3>. QED BY <2>4, <2>5, <3>1
  <2>. QED BY <2>4, <2>6
<1> HIDE DEF C
<1>3. n \in C
  <2>1. 0 .. n \subseteq C
    BY <1>1, <1>2, UpTo
  <2>. QED BY <2>1
<1>. QED BY <1>3 DEF C, Leads

\* Two functions that start alike and go on alike are alike.
LEMMA SameUpTo ==
  ASSUME NEW n \in Nat, NEW u, NEW w, w[0] = u[0],
         \A k \in 1 .. n : w[k - 1] = u[k - 1] => w[k] = u[k]
  PROVE  \A k \in 0 .. n : w[k] = u[k]
<1> DEFINE C == {k \in 0 .. n : w[k] = u[k]}
<1>1. 0 \in C
  OBVIOUS
<1>2. ASSUME NEW m \in 0 .. n - 1, m \in C PROVE m + 1 \in C
  <2>1. m + 1 \in 1 .. n /\ (m + 1) - 1 = m
    OBVIOUS
  <2>. QED BY <1>2, <2>1
<1> HIDE DEF C
<1>3. 0 .. n \subseteq C
  BY <1>1, <1>2, UpTo
<1>. QED BY <1>3 DEF C

\* FlattenSeq puts one sequence behind the other.
Flat(ss, f) == f = [i \in 1 .. Len(ss) |-> IF i = 1 THEN ss[i] ELSE f[i - 1] \o ss[i]]

LEMMA FlattenStepwise ==
  ASSUME NEW T, NEW ss \in Seq(Seq(T))
  PROVE  \E u \in [0 .. Len(ss) -> Seq(T)] :
           /\ u[0] = <<>>
           /\ \A k \in 1 .. Len(ss) : u[k] = u[k - 1] \o ss[k]
           /\ FlattenSeq(ss) = u[Len(ss)]
<1> DEFINE n == Len(ss)
           A == Seq(T)
           g == [p \in (1 .. n) \X A |-> p[2] \o ss[p[1]]]
<1>1. n \in Nat /\ \A k \in 1 .. n : ss[k] \in A
  BY LenProperties, ElementOfSeq
<1>2. g \in [(1 .. n) \X A -> A] /\ <<>> \in A
  BY <1>1, ConcatProperties, EmptySeq
<1>3. \A k \in 1 .. n, x \in A : g[<<k, x>>] = x \o ss[k]
  OBVIOUS
<1> HIDE DEF g, n, A
<1>4. PICK u \in [0 .. n -> A] : u[0] = <<>> /\ \A k \in 1 .. n : u[k] = g[<<k, u[k - 1]>>]
  <2>1. Leads(n, A, <<>>, g)
    BY <1>1, <1>2, Recursion
  <2>. QED BY <2>1 DEF Leads
<1>5. ASSUME NEW k \in 1 .. n PROVE u[k - 1] \in A /\ u[k] = u[k - 1] \o ss[k]
  <2>1. k - 1 \in 0 .. n
    BY <1>1
  <2>. QED BY <1>3, <1>4, <2>1
<1>6. FlattenSeq(ss) = u[n]
  <2>1. CASE n = 0
    <3>1. ss = <<>>
      BY <2>1, EmptySeq DEF n
    <3>2. FlattenSeq(ss) = ss
      BY <2>1 DEF FlattenSeq, n
    <3>. QED BY <1>4, <2>1, <3>1, <3>2
  <2>2. CASE n > 0
    <3> DEFINE f == [i \in 1 .. n |-> u[i]]
               w == CHOOSE h : Flat(ss, h)
    <3>1. ASSUME NEW i \in 1 .. n
          PROVE  f[i] = IF i = 1 THEN ss[i] ELSE f[i - 1] \o ss[i]
      <4>1. CASE i = 1
        <5>1. u[1] = <<>> \o ss[1]
          <6>1. 1 \in 1 .. n /\ 1 - 1 = 0
            BY <1>1, <2>2
          <6>. QED BY <1>4, <1>5, <6>1
        <5>. QED BY <1>1, <4>1, <5>1, ConcatEmptySeq DEF A
      <4>2. CASE i # 1
        <5>1. i - 1 \in 1 .. n
          BY <1>1, <4>2
        <5>. QED BY <1>5, <4>2, <5>1
      <4>. QED BY <4>1, <4>2
    <3>2. f = [i \in 1 .. n |-> f[i]]
      OBVIOUS
    <3> HIDE DEF f
    <3>3. Flat(ss, f)
      BY <3>1, <3>2 DEF Flat, n
    <3>4. Flat(ss, w)
      BY <3>3
    <3> HIDE DEF w
    <3>5. \A i \in 1 .. n : w[i] = IF i = 1 THEN ss[i] ELSE w[i - 1] \o ss[i]
      BY <3>4 DEF Flat, n
    <3> DEFINE C == {k \in 0 .. n - 1 : w[k + 1] = f[k + 1]}
    <3>6. 0 \in C
      BY <1>1, <2>2, <3>1, <3>5
    <3>7. ASSUME NEW m \in 0 .. (n - 1) - 1, m \in C PROVE m + 1 \in C
      <4>1. (m + 1) + 1 \in 1 .. n /\ (m + 1) + 1 # 1 /\ ((m + 1) + 1) - 1 = m + 1
        BY <1>1
      <4>2. w[(m + 1) + 1] = w[m + 1] \o ss[(m + 1) + 1]
        BY <3>5, <4>1
      <4>3. f[(m + 1) + 1] = f[m + 1] \o ss[(m + 1) + 1]
        BY <3>1, <4>1
      <4>4. m + 1 \in 0 .. n - 1
        BY <1>1
      <4>. QED BY <3>7, <4>2, <4>3, <4>4
    <3> HIDE DEF C
    <3>8. n - 1 \in C
      <4>1. n - 1 \in Nat
        BY <1>1, <2>2
      <4>2. 0 .. n - 1 \subseteq C
        BY <3>6, <3>7, <4>1, UpTo
      <4>. QED BY <4>1, <4>2
    <3>9. w[n] = f[n]
      BY <1>1, <3>8 DEF C
    <3>10. FlattenSeq(ss) = w[n]
      BY <2>2 DEF FlattenSeq, Flat, w, n
    <3>. QED BY <1>1, <2>2, <3>9, <3>10 DEF f
  <2>. QED BY <1>1, <2>1, <2>2
<1>7. \A k \in 1 .. n : u[k] = u[k - 1] \o ss[k]
  BY <1>5
<1>. QED BY <1>4, <1>6, <1>7 DEF n, A

\* What is put together from sequences over a set is one.
LEMMA FlattenSeqType ==
  ASSUME NEW T, NEW ss \in Seq(Seq(T))
  PROVE  FlattenSeq(ss) \in Seq(T)
<1>1. Len(ss) \in Nat
  BY LenProperties
<1>2. Len(ss) \in 0 .. Len(ss)
  BY <1>1
<1>3. PICK u \in [0 .. Len(ss) -> Seq(T)] : FlattenSeq(ss) = u[Len(ss)]
  BY FlattenStepwise
<1>. QED BY <1>2, <1>3

=============================================================================
