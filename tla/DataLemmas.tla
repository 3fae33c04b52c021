----------------------------- MODULE DataLemmas ------------------------------
(***************************************************************************)
(* What the proofs need to know of the data the models are built from:     *)
(* sums over a finite set, and lists of lists joined into one.  Both are   *)
(* recursive functions, so the facts about them are proved by induction,   *)
(* stated here of sets, which the provers can instantiate.                 *)
(***************************************************************************)
EXTENDS Integers, Sequences, FiniteSets, Functions, SequencesExt, FiniteSetTheorems, SequenceTheorems, TLAPS

------------------------------------------------------------------------------
(* No infinite descent among the numbers. *)
LEMMA NatOrder == IsWellFoundedOn({ss \in Nat \X Nat : ss[1] < ss[2]}, Nat)
BY NatLessThanWellFounded DEF OpToRel

(* A set of numbers that is not empty has a least one. *)
LEMMA LeastNumber ==
  ASSUME NEW T, T \subseteq Nat, T # {}
  PROVE  \E x \in T : \A y \in T : x <= y
<1> DEFINE R == {ss \in Nat \X Nat : ss[1] < ss[2]}
<1>1. PICK x \in T : \A y \in T : ~ (<<y, x>> \in R)
  <2> HIDE DEF R
  <2>1. IsWellFoundedOn(R, Nat)
    BY NatOrder DEF R
  <2> QED BY <2>1, WFMin
<1>2. ASSUME NEW y \in T, y < x PROVE FALSE
  <2> DEFINE p == <<y, x>>
  <2>1. p \in Nat \X Nat /\ p[1] < p[2]
    BY <1>2
  <2>2. p \in R
    <3> HIDE DEF p
    <3> QED BY <2>1
  <2> QED BY <1>1, <2>2
<1>3. \A y \in T : ~ (y < x)
  BY <1>2
<1>4. \A y \in T : x \in Int /\ y \in Int
  OBVIOUS
<1> QED BY <1>3, <1>4

(* Induction over the numbers, for the set of those that have a property. *)
LEMMA CountingUp ==
  ASSUME NEW I, 0 \in I, \A n \in Nat : n \in I => n + 1 \in I
  PROVE  Nat \subseteq I
<1> SUFFICES ASSUME NEW m \in Nat \ I PROVE FALSE
  OBVIOUS
<1>1. PICK x \in Nat \ I : \A y \in Nat \ I : x <= y
  <2> Nat \ I \subseteq Nat /\ Nat \ I # {}
    OBVIOUS
  <2> QED BY LeastNumber
<1>2. x - 1 \in Nat /\ (x - 1) + 1 = x
  BY <1>1
<1>3. x - 1 \in I
  BY <1>1, <1>2
<1> QED BY <1>1, <1>2, <1>3

(* Induction over a finite set: a property that a set has when it has it
   without any one of its elements is one of every subset. *)
LEMMA SmallerFirst ==
  ASSUME NEW S, IsFiniteSet(S), NEW I,
         \A T \in SUBSET S : (\A x \in T : T \ {x} \in I) => T \in I
  PROVE  SUBSET S \subseteq I
<1> DEFINE Sized == {n \in Nat : \A T \in SUBSET S : Cardinality(T) = n => T \in I}
<1>1. \A T \in SUBSET S : IsFiniteSet(T) /\ Cardinality(T) \in Nat
  BY FS_Subset, FS_CardinalityType
<1>2. 0 \in Sized
  <2> SUFFICES ASSUME NEW T \in SUBSET S, Cardinality(T) = 0 PROVE T \in I
    OBVIOUS
  <2>1. T = {}
    BY <1>1, FS_EmptySet
  <2> QED BY <2>1
<1>3. ASSUME NEW n \in Nat, n \in Sized PROVE n + 1 \in Sized
  <2> SUFFICES ASSUME NEW T \in SUBSET S, Cardinality(T) = n + 1, NEW x \in T PROVE T \ {x} \in I
    OBVIOUS
  <2>1. Cardinality(T \ {x}) = n
    <3> HIDE DEF Sized
    <3>1. IsFiniteSet(T)
      BY <1>1
    <3>2. Cardinality(T \ {x}) = Cardinality(T) - 1
      BY <3>1, FS_RemoveElement
    <3> QED BY <3>2
  <2> QED BY <1>3, <2>1
<1>4. Nat \subseteq Sized
  <2> HIDE DEF Sized
  <2> QED BY <1>2, <1>3, CountingUp
<1> QED BY <1>1, <1>4

------------------------------------------------------------------------------
(* The library's choice of the element that is summed first. *)
Some(s) == CHOOSE x \in s : TRUE
SumRule(f, S, g) == g = [s \in SUBSET S |-> IF s = {} THEN 0 ELSE f[Some(s)] + g[s \ {Some(s)}]]

(* The choice is made from the set. *)
LEMMA SomeIn == ASSUME NEW s, s # {} PROVE Some(s) \in s
BY DEF Some

(* A sum is what the recursive function of the library gives. *)
LEMMA SumUnfolded ==
  ASSUME NEW f, NEW S
  PROVE  SumFunctionOnSet(f, S) = (CHOOSE g : SumRule(f, S, g))[S]
BY DEF SumFunctionOnSet, FoldFunctionOnSet, MapThenFoldSet, SumRule, Some

(* One step of that function. *)
LEMMA SumRuleAt ==
  ASSUME NEW f, NEW S, NEW g, SumRule(f, S, g), NEW s \in SUBSET S
  PROVE  g[s] = IF s = {} THEN 0 ELSE f[Some(s)] + g[s \ {Some(s)}]
BY DEF SumRule

(* There is such a function for every finite set. *)
LEMMA SumRuleHolds ==
  ASSUME NEW f, NEW S, IsFiniteSet(S)
  PROVE  \E g : SumRule(f, S, g)
<1> DEFINE
     Small(n) == {s \in SUBSET S : Cardinality(s) <= n}
     Val(g, s) == IF s = {} THEN 0 ELSE f[Some(s)] + g[s \ {Some(s)}]
     I == {n \in Nat : \E g : \A s \in Small(n) : g[s] = Val(g, s)}
<1>0. \A s \in SUBSET S : IsFiniteSet(s) /\ Cardinality(s) \in Nat
  BY FS_Subset, FS_CardinalityType
<1>1. 0 \in I
  <2> DEFINE g == [s \in SUBSET S |-> 0]
  <2>1. \A s \in Small(0) : s = {}
    BY <1>0, FS_EmptySet
  <2>2. \A s \in Small(0) : g[s] = Val(g, s)
    BY <2>1
  <2> HIDE DEF g, Small, Val
  <2> QED BY <2>2
<1>2. ASSUME NEW n \in Nat, n \in I PROVE n + 1 \in I
  <2>1. PICK g : \A s \in Small(n) : g[s] = Val(g, s)
    BY <1>2
  <2> DEFINE h == [s \in SUBSET S |-> Val(g, s)]
  <2>2. \A s \in Small(n) : h[s] = g[s]
    <3> HIDE DEF Val
    <3> QED BY <2>1
  <2>3. ASSUME NEW s \in Small(n + 1), s # {} PROVE s \ {Some(s)} \in Small(n)
    <3>1. Some(s) \in s
      BY <2>3, SomeIn
    <3>2. Cardinality(s \ {Some(s)}) = Cardinality(s) - 1
      BY <1>0, <3>1, FS_RemoveElement
    <3>3. Cardinality(s) \in Nat /\ Cardinality(s) <= n + 1
      BY <1>0
    <3> QED BY <3>2, <3>3
  <2>4. \A s \in Small(n + 1) : Val(g, s) = Val(h, s)
    <3> HIDE DEF h, Small
    <3> QED BY <2>2, <2>3
  <2>5. \A s \in Small(n + 1) : h[s] = Val(h, s)
    <3> HIDE DEF Val
    <3> QED BY <2>4
  <2> HIDE DEF Small, Val, h
  <2> QED BY <2>5
<1>3. Nat \subseteq I
  <2> HIDE DEF I
  <2> QED BY <1>1, <1>2, CountingUp
<1>4. PICK g : \A s \in Small(Cardinality(S)) : g[s] = Val(g, s)
  BY <1>0, <1>3
<1>5. Small(Cardinality(S)) = SUBSET S
  <2>1. \A s \in SUBSET S : Cardinality(s) <= Cardinality(S)
    BY FS_Subset
  <2> QED BY <2>1
<1> DEFINE h == [s \in SUBSET S |-> Val(g, s)]
<1>6. \A s \in SUBSET S : h[s] = g[s]
  <2> HIDE DEF Val, Small
  <2> QED BY <1>4, <1>5
<1>7. \A s \in SUBSET S : Val(g, s) = Val(h, s)
  <2> HIDE DEF h
  <2> QED BY <1>6
<1>8. h = [s \in SUBSET S |-> Val(h, s)]
  <2> HIDE DEF Val
  <2> QED BY <1>7
<1>9. SumRule(f, S, h)
  <2> HIDE DEF h
  <2> QED BY <1>8 DEF SumRule
<1> QED BY <1>9

(* Functions for two sets give the same sum of a common part on which the
   summands agree. *)
LEMMA SumsAgree ==
  ASSUME NEW S, IsFiniteSet(S), NEW T, IsFiniteSet(T), NEW U \in SUBSET (S \cap T),
         NEW f, NEW g, SumRule(f, S, g), NEW e, NEW h, SumRule(e, T, h),
         \A x \in U : f[x] = e[x]
  PROVE  g[U] = h[U]
<1> DEFINE I == {V \in SUBSET U : g[V] = h[V]}
<1>1. IsFiniteSet(U)
  BY FS_Subset
<1>2. ASSUME NEW V \in SUBSET U, \A x \in V : V \ {x} \in I PROVE V \in I
  <2> DEFINE p == Some(V)
  <2>1. g[V] = IF V = {} THEN 0 ELSE f[p] + g[V \ {p}]
    BY SumRuleAt
  <2>2. h[V] = IF V = {} THEN 0 ELSE e[p] + h[V \ {p}]
    BY SumRuleAt
  <2>3. V # {} => p \in V
    BY SomeIn
  <2> HIDE DEF p
  <2> QED BY <1>2, <2>1, <2>2, <2>3
<1>3. SUBSET U \subseteq I
  <2> HIDE DEF I
  <2> QED BY <1>1, <1>2, SmallerFirst
<1> QED BY <1>3

(* So the function for a set knows the sums of its subsets. *)
LEMMA SumIs ==
  ASSUME NEW S, IsFiniteSet(S), NEW T \in SUBSET S, NEW f, NEW g, SumRule(f, S, g)
  PROVE  g[T] = SumFunctionOnSet(f, T)
<1>1. IsFiniteSet(T)
  BY FS_Subset
<1>2. SumRule(f, T, CHOOSE h : SumRule(f, T, h))
  BY <1>1, SumRuleHolds
<1>3. g[T] = (CHOOSE h : SumRule(f, T, h))[T]
  BY <1>1, <1>2, SumsAgree
<1> QED BY <1>3, SumUnfolded

(* The sum of nothing is 0. *)
LEMMA SumOfNothing == ASSUME NEW f PROVE SumFunctionOnSet(f, {}) = 0
<1>1. IsFiniteSet({})
  BY FS_EmptySet
<1>2. PICK g : SumRule(f, {}, g)
  BY <1>1, SumRuleHolds
<1>3. g[{}] = 0
  BY <1>2, SumRuleAt
<1> QED BY <1>1, <1>2, <1>3, SumIs

(* The sum depends on the summands of the set only. *)
LEMMA SumCongruent ==
  ASSUME NEW S, IsFiniteSet(S), NEW f, NEW e, \A x \in S : f[x] = e[x]
  PROVE  SumFunctionOnSet(f, S) = SumFunctionOnSet(e, S)
<1>1. PICK g : SumRule(f, S, g)
  BY SumRuleHolds
<1>2. PICK h : SumRule(e, S, h)
  BY SumRuleHolds
<1>3. g[S] = h[S]
  BY <1>1, <1>2, SumsAgree
<1> QED BY <1>1, <1>2, <1>3, SumIs

(* A sum of integers is one. *)
LEMMA SumIsInteger ==
  ASSUME NEW S, IsFiniteSet(S), NEW f, \A x \in S : f[x] \in Int
  PROVE  SumFunctionOnSet(f, S) \in Int
<1> DEFINE I == {T \in SUBSET S : SumFunctionOnSet(f, T) \in Int}
<1>1. PICK g : SumRule(f, S, g)
  BY SumRuleHolds
<1>2. \A T \in SUBSET S : g[T] = SumFunctionOnSet(f, T)
  BY <1>1, SumIs
<1>3. ASSUME NEW T \in SUBSET S, \A x \in T : T \ {x} \in I PROVE T \in I
  <2> DEFINE p == Some(T)
  <2>1. g[T] = IF T = {} THEN 0 ELSE f[p] + g[T \ {p}]
    BY ONLY <1>1, SumRuleAt, T \in SUBSET S
  <2>2. T # {} => p \in T
    BY SomeIn
  <2> HIDE DEF p
  <2>3. T # {} => g[T \ {p}] \in Int
    BY <1>2, <1>3, <2>2
  <2>4. g[T] \in Int
    BY <2>1, <2>2, <2>3
  <2> QED BY <1>2, <2>4
<1>4. SUBSET S \subseteq I
  <2> HIDE DEF I
  <2> QED BY <1>3, SmallerFirst
<1> QED BY <1>4

(* Any element may be summed last, whatever the library chooses. *)
LEMMA SumWithout ==
  ASSUME NEW S, IsFiniteSet(S), NEW f, \A x \in S : f[x] \in Int, NEW y \in S
  PROVE  SumFunctionOnSet(f, S) = f[y] + SumFunctionOnSet(f, S \ {y})
<1> DEFINE Sum(T) == SumFunctionOnSet(f, T)
           I == {T \in SUBSET S : \A z \in T : Sum(T) = f[z] + Sum(T \ {z})}
<1>1. PICK g : SumRule(f, S, g)
  BY SumRuleHolds
<1>2. \A T \in SUBSET S : g[T] = Sum(T)
  BY <1>1, SumIs
<1>3. \A T \in SUBSET S : Sum(T) \in Int
  BY FS_Subset, SumIsInteger
<1>4. ASSUME NEW T \in SUBSET S, \A x \in T : T \ {x} \in I, NEW z \in T PROVE Sum(T) = f[z] + Sum(T \ {z})
  <2> DEFINE p == Some(T)
  <2>1. p \in T
    BY SomeIn
  <2>2. g[T] = f[p] + g[T \ {p}]
    BY <1>1, SumRuleAt
  <2> HIDE DEF p
  <2>3. Sum(T) = f[p] + Sum(T \ {p})
    <3> HIDE DEF Sum
    <3> QED BY <1>2, <2>2
  <2>4. CASE p = z
    BY <2>3, <2>4
  <2>5. CASE p # z
    <3>1. Sum(T \ {p}) = f[z] + Sum((T \ {p}) \ {z})
      <4> HIDE DEF Sum
      <4> QED BY <1>4, <2>1, <2>5
    <3>2. Sum(T \ {z}) = f[p] + Sum((T \ {z}) \ {p})
      <4> HIDE DEF Sum
      <4> QED BY <1>4, <2>1, <2>5
    <3>3. (T \ {p}) \ {z} = (T \ {z}) \ {p}
      OBVIOUS
    <3>4. f[z] \in Int /\ f[p] \in Int /\ Sum((T \ {z}) \ {p}) \in Int
      <4> HIDE DEF Sum
      <4> QED BY <1>3, <2>1
    <3> HIDE DEF Sum
    <3>5. Sum(T \ {p}) = f[z] + Sum((T \ {z}) \ {p})
      BY <3>1, <3>3
    <3> QED BY <2>3, <3>2, <3>4, <3>5
  <2> QED BY <2>4, <2>5
<1>5. \A T \in SUBSET S : (\A x \in T : T \ {x} \in I) => T \in I
  <2> HIDE DEF Sum
  <2> QED BY <1>4
<1>6. SUBSET S \subseteq I
  <2> HIDE DEF I
  <2> QED BY <1>5, SmallerFirst
<1> QED BY <1>6

(* One element more. *)
LEMMA SumWith ==
  ASSUME NEW S, IsFiniteSet(S), NEW y, y \notin S, NEW f, \A x \in S \cup {y} : f[x] \in Int
  PROVE  SumFunctionOnSet(f, S \cup {y}) = SumFunctionOnSet(f, S) + f[y]
<1>1. IsFiniteSet(S \cup {y}) /\ y \in S \cup {y} /\ (S \cup {y}) \ {y} = S
  BY FS_AddElement
<1>2. SumFunctionOnSet(f, S \cup {y}) = f[y] + SumFunctionOnSet(f, S)
  BY <1>1, SumWithout
<1>3. f[y] \in Int /\ SumFunctionOnSet(f, S) \in Int
  BY SumIsInteger
<1> QED BY <1>2, <1>3

(* A sequence of summands that gets one more. *)
LEMMA SumGrows ==
  ASSUME NEW n \in Nat, NEW f, DOMAIN f = 1..n, \A i \in 1..n : f[i] \in Int,
         NEW e, DOMAIN e = 1..(n + 1), \A i \in 1..n : e[i] = f[i], e[n + 1] \in Int
  PROVE  SumFunction(e) = SumFunction(f) + e[n + 1] /\ SumFunction(f) \in Int
<1> DEFINE S == 1..n
<1>1. IsFiniteSet(S)
  BY FS_Interval
<1>2. n + 1 \notin S /\ 1..(n + 1) = S \cup {n + 1}
  OBVIOUS
<1>3. \A x \in S \cup {n + 1} : e[x] \in Int
  OBVIOUS
<1>4. \A x \in S : e[x] = f[x] /\ f[x] \in Int
  OBVIOUS
<1>5. SumFunction(e) = SumFunctionOnSet(e, S \cup {n + 1}) /\ SumFunction(f) = SumFunctionOnSet(f, S)
  BY <1>2 DEF SumFunction
<1> HIDE DEF S
<1>6. PICK y : y = n + 1
  OBVIOUS
<1>7. SumFunctionOnSet(e, S \cup {y}) = SumFunctionOnSet(e, S) + e[y]
  BY <1>1, <1>2, <1>3, <1>6, SumWith
<1>8. SumFunctionOnSet(e, S) = SumFunctionOnSet(f, S) /\ SumFunctionOnSet(f, S) \in Int
  BY <1>1, <1>4, SumCongruent, SumIsInteger
<1> QED BY <1>5, <1>6, <1>7, <1>8

(* One summand changed. *)
LEMMA SumChanged ==
  ASSUME NEW S, IsFiniteSet(S), NEW y \in S, NEW f, \A x \in S : f[x] \in Int,
         NEW e, e[y] \in Int, \A x \in S \ {y} : e[x] = f[x]
  PROVE  SumFunctionOnSet(e, S) = SumFunctionOnSet(f, S) - f[y] + e[y]
<1>1. SumFunctionOnSet(f, S) = f[y] + SumFunctionOnSet(f, S \ {y})
  BY SumWithout
<1>2. SumFunctionOnSet(e, S) = e[y] + SumFunctionOnSet(e, S \ {y})
  <2>1. \A x \in S : e[x] \in Int
    OBVIOUS
  <2> QED BY <2>1, SumWithout
<1>3. IsFiniteSet(S \ {y})
  BY FS_Subset
<1>4. SumFunctionOnSet(e, S \ {y}) = SumFunctionOnSet(f, S \ {y})
  BY <1>3, SumCongruent
<1>5. SumFunctionOnSet(f, S \ {y}) \in Int
  BY <1>3, SumIsInteger
<1> QED BY <1>1, <1>2, <1>4, <1>5

(* A sum of zeros is 0. *)
LEMMA SumOfZeros ==
  ASSUME NEW S, IsFiniteSet(S), NEW f, \A x \in S : f[x] = 0
  PROVE  SumFunctionOnSet(f, S) = 0
<1> DEFINE I == {T \in SUBSET S : SumFunctionOnSet(f, T) = 0}
<1>1. ASSUME NEW T \in SUBSET S, \A x \in T : T \ {x} \in I PROVE T \in I
  <2>1. CASE T = {}
    BY <2>1, SumOfNothing
  <2>2. CASE T # {}
    <3>1. PICK y \in T : TRUE
      BY <2>2
    <3>2. IsFiniteSet(T) /\ \A x \in T : f[x] \in Int
      BY FS_Subset
    <3>3. SumFunctionOnSet(f, T) = f[y] + SumFunctionOnSet(f, T \ {y})
      BY <3>2, SumWithout
    <3>4. SumFunctionOnSet(f, T \ {y}) = 0 /\ f[y] = 0
      BY <1>1
    <3> QED BY <3>3, <3>4
  <2> QED BY <2>1, <2>2
<1>2. SUBSET S \subseteq I
  <2> HIDE DEF I
  <2> QED BY <1>1, SmallerFirst
<1> QED BY <1>2

------------------------------------------------------------------------------
(* Induction over the sequences, for the set of those with a property. *)
LEMMA GrowingSequence ==
  ASSUME NEW S, NEW I, <<>> \in I,
         \A s \in Seq(S) : \A e \in S : s \in I => Append(s, e) \in I
  PROVE  Seq(S) \subseteq I
<1> DEFINE Long == {n \in Nat : \A s \in Seq(S) : Len(s) = n => s \in I}
<1>1. 0 \in Long
  <2> SUFFICES ASSUME NEW s \in Seq(S), Len(s) = 0 PROVE s \in I
    OBVIOUS
  <2>1. s = <<>>
    BY EmptySeq
  <2> QED BY <2>1
<1>2. ASSUME NEW n \in Nat, n \in Long PROVE n + 1 \in Long
  <2> SUFFICES ASSUME NEW s \in Seq(S), Len(s) = n + 1 PROVE s \in I
    OBVIOUS
  <2>1. s # <<>>
    <3> SUFFICES ASSUME s = <<>> PROVE FALSE
      OBVIOUS
    <3>1. Len(s) = 0
      BY EmptySeq
    <3> QED BY <3>1
  <2>2. PICK t \in Seq(S), e \in S : s = Append(t, e)
    BY <2>1, SequenceEmptyOrAppend
  <2>3. Len(t) = n
    <3>1. Len(s) = Len(t) + 1 /\ Len(t) \in Nat
      BY <2>2, AppendProperties, LenProperties
    <3> QED BY <3>1
  <2>4. t \in I
    BY <1>2, <2>3
  <2> QED BY <2>2, <2>4
<1>3. Nat \subseteq Long
  <2> HIDE DEF Long
  <2> QED BY <1>1, <1>2, CountingUp
<1> QED BY <1>3, LenProperties

(* The function by which the library joins lists. *)
FlatRule(s, n, g) == g = [i \in 1..n |-> IF i = 1 THEN s[i] ELSE g[i - 1] \o s[i]]

(* One step of the function that joins the first i lists. *)
LEMMA FlatRuleAt ==
  ASSUME NEW s, NEW n, NEW g, FlatRule(s, n, g), NEW i \in 1..n
  PROVE  g[i] = IF i = 1 THEN s[i] ELSE g[i - 1] \o s[i]
BY DEF FlatRule

(* A flattened sequence is what that function gives. *)
LEMMA FlatUnfolded ==
  ASSUME NEW s, Len(s) # 0
  PROVE  FlattenSeq(s) = (CHOOSE g : FlatRule(s, Len(s), g))[Len(s)]
BY DEF FlattenSeq, FlatRule

(* There is such a function for every length. *)
LEMMA FlatRuleHolds ==
  ASSUME NEW s, NEW n \in Nat
  PROVE  \E g : FlatRule(s, n, g)
<1> DEFINE
     Val(g, i) == IF i = 1 THEN s[i] ELSE g[i - 1] \o s[i]
     I == {m \in Nat : \E g : \A i \in 1..m : g[i] = Val(g, i)}
<1>1. 0 \in I
  <2>1. \A g : \A i \in 1..0 : g[i] = Val(g, i)
    OBVIOUS
  <2> HIDE DEF Val
  <2> QED BY <2>1
<1>2. ASSUME NEW m \in Nat, m \in I PROVE m + 1 \in I
  <2>1. PICK g : \A i \in 1..m : g[i] = Val(g, i)
    BY <1>2
  <2> DEFINE h == [i \in 1..m + 1 |-> Val(g, i)]
  <2>2. \A i \in 1..m : h[i] = g[i]
    <3> HIDE DEF Val
    <3> QED BY <2>1
  <2>3. \A i \in 1..m + 1 : Val(g, i) = Val(h, i)
    <3> HIDE DEF h
    <3>1. \A i \in 1..m + 1 : i # 1 => i - 1 \in 1..m
      OBVIOUS
    <3> QED BY <2>2, <3>1
  <2>4. \A i \in 1..m + 1 : h[i] = Val(h, i)
    <3> HIDE DEF Val
    <3> QED BY <2>3
  <2> HIDE DEF Val, h
  <2> QED BY <2>4
<1>3. Nat \subseteq I
  <2> HIDE DEF I
  <2> QED BY <1>1, <1>2, CountingUp
<1>4. PICK g : \A i \in 1..n : g[i] = Val(g, i)
  BY <1>3
<1> DEFINE h == [i \in 1..n |-> Val(g, i)]
<1>5. \A i \in 1..n : h[i] = g[i]
  <2> HIDE DEF Val
  <2> QED BY <1>4
<1>6. \A i \in 1..n : Val(g, i) = Val(h, i)
  <2> HIDE DEF h
  <2>1. \A i \in 1..n : i # 1 => i - 1 \in 1..n
    OBVIOUS
  <2> QED BY <1>5, <2>1
<1>7. h = [i \in 1..n |-> Val(h, i)]
  <2> HIDE DEF Val
  <2> QED BY <1>6
<1>8. FlatRule(s, n, h)
  <2> HIDE DEF h
  <2> QED BY <1>7 DEF FlatRule
<1> QED BY <1>8

(* Functions for a sequence and for a longer one agree on the common part. *)
LEMMA FlatsAgree ==
  ASSUME NEW s, NEW t, NEW n \in Nat, \A i \in 1..n : t[i] = s[i],
         NEW g, FlatRule(t, n + 1, g), NEW h, FlatRule(s, n, h)
  PROVE  \A i \in 1..n : g[i] = h[i]
<1> DEFINE I == {j \in Nat : j \in 1..n => g[j] = h[j]}
<1>1. 0 \in I
  OBVIOUS
<1>2. ASSUME NEW j \in Nat, j \in I PROVE j + 1 \in I
  <2> SUFFICES ASSUME j + 1 \in 1..n PROVE g[j + 1] = h[j + 1]
    OBVIOUS
  <2>1. j + 1 \in 1..n + 1 /\ (j + 1) - 1 = j /\ (j + 1 # 1 => j \in 1..n)
    OBVIOUS
  <2>2. g[j + 1] = IF j + 1 = 1 THEN t[j + 1] ELSE g[(j + 1) - 1] \o t[j + 1]
    BY ONLY <2>1, FlatRuleAt, FlatRule(t, n + 1, g)
  <2>3. h[j + 1] = IF j + 1 = 1 THEN s[j + 1] ELSE h[(j + 1) - 1] \o s[j + 1]
    BY ONLY j + 1 \in 1..n, FlatRuleAt, FlatRule(s, n, h)
  <2> QED BY <1>2, <2>1, <2>2, <2>3
<1>3. Nat \subseteq I
  <2> HIDE DEF I
  <2> QED BY <1>1, <1>2, CountingUp
<1> QED BY <1>3

(* No lists joined give an empty one. *)
LEMMA FlattenNothing == FlattenSeq(<<>>) = <<>>
BY EmptySeq DEF FlattenSeq

(* One list more, of the function. *)
LEMMA FlatPrefix ==
  ASSUME NEW s, NEW t, NEW n \in Nat, Len(s) = n, Len(t) = n + 1, \A i \in 1..n : t[i] = s[i]
  PROVE  FlattenSeq(t) = IF n = 0 THEN t[1] ELSE FlattenSeq(s) \o t[n + 1]
<1>1. PICK g : g = CHOOSE f : FlatRule(t, n + 1, f)
  OBVIOUS
<1>2. FlatRule(t, n + 1, g)
  BY <1>1, FlatRuleHolds
<1>3. FlattenSeq(t) = g[n + 1]
  BY <1>1, FlatUnfolded
<1>4. g[n + 1] = IF n + 1 = 1 THEN t[n + 1] ELSE g[(n + 1) - 1] \o t[n + 1]
  BY ONLY n \in Nat, n + 1 \in 1..n + 1, <1>2, FlatRuleAt
<1>5. PICK h : h = CHOOSE f : FlatRule(s, n, f)
  OBVIOUS
<1>6. FlatRule(s, n, h)
  BY <1>5, FlatRuleHolds
<1>7. n # 0 => FlattenSeq(s) = h[n]
  BY <1>5, FlatUnfolded
<1>8. \A i \in 1..n : g[i] = h[i]
  BY ONLY n \in Nat, \A i \in 1..n : t[i] = s[i], <1>2, <1>6, FlatsAgree
<1> QED BY <1>3, <1>4, <1>7, <1>8

(* A list appended to the lists is joined at the end. *)
LEMMA FlattenSeqAppend ==
  ASSUME NEW S, NEW s \in Seq(Seq(S)), NEW e \in Seq(S)
  PROVE  FlattenSeq(Append(s, e)) = FlattenSeq(s) \o e
<1>1. PICK t : t = Append(s, e)
  OBVIOUS
<1>2. /\ Len(s) \in Nat /\ Len(t) = Len(s) + 1 /\ t[Len(s) + 1] = e /\ \A i \in 1..Len(s) : t[i] = s[i]
  BY <1>1, AppendProperties, LenProperties
<1>3. FlattenSeq(t) = IF Len(s) = 0 THEN t[1] ELSE FlattenSeq(s) \o t[Len(s) + 1]
  BY <1>2, FlatPrefix
<1>4. CASE Len(s) = 0
  <2>1. s = <<>> /\ <<>> \o e = e
    BY <1>4, EmptySeq, ConcatEmptySeq
  <2> QED BY <1>1, <1>2, <1>3, <1>4, <2>1, FlattenNothing
<1>5. CASE Len(s) # 0
  BY <1>1, <1>2, <1>3, <1>5
<1> QED BY <1>4, <1>5

(* Lists over a set joined are a list over it. *)
LEMMA FlattenSeqType ==
  ASSUME NEW S, NEW s \in Seq(Seq(S))
  PROVE  FlattenSeq(s) \in Seq(S)
<1> DEFINE I == {t \in Seq(Seq(S)) : FlattenSeq(t) \in Seq(S)}
<1>1. <<>> \in I
  BY FlattenNothing, EmptySeq
<1>2. ASSUME NEW t \in Seq(Seq(S)), NEW e \in Seq(S), t \in I PROVE Append(t, e) \in I
  <2>1. FlattenSeq(Append(t, e)) = FlattenSeq(t) \o e
    BY FlattenSeqAppend
  <2>2. FlattenSeq(t) \o e \in Seq(S)
    BY <1>2, ConcatProperties
  <2>3. Append(t, e) \in Seq(Seq(S))
    BY AppendProperties
  <2> QED BY <2>1, <2>2, <2>3
<1>3. Seq(Seq(S)) \subseteq I
  <2> HIDE DEF I
  <2> QED BY <1>1, <1>2, GrowingSequence
<1> QED BY <1>3

(* An element appended to the second of two lists. *)
LEMMA ConcatAppend ==
  ASSUME NEW S, NEW s \in Seq(S), NEW t \in Seq(S), NEW e \in S
  PROVE  s \o Append(t, e) = Append(s \o t, e)
<1>1. <<e>> \in Seq(S)
  OBVIOUS
<1>2. s \o Append(t, e) = s \o (t \o <<e>>)
  BY AppendIsConcat
<1>3. (s \o t) \o <<e>> = s \o (t \o <<e>>)
  BY <1>1, ConcatAssociative
<1>4. Append(s \o t, e) = (s \o t) \o <<e>>
  BY ConcatProperties, AppendIsConcat
<1> QED BY <1>2, <1>3, <1>4

(* Lists of lists one behind the other, joined. *)
LEMMA FlattenSeqConcat ==
  ASSUME NEW S, NEW s \in Seq(Seq(S)), NEW t \in Seq(Seq(S))
  PROVE  FlattenSeq(s \o t) = FlattenSeq(s) \o FlattenSeq(t)
<1> DEFINE I == {u \in Seq(Seq(S)) : FlattenSeq(s \o u) = FlattenSeq(s) \o FlattenSeq(u)}
<1>0. FlattenSeq(s) \in Seq(S)
  BY FlattenSeqType
<1>1. <<>> \in I
  <2>1. s \o <<>> = s /\ FlattenSeq(s) \o <<>> = FlattenSeq(s) /\ <<>> \in Seq(Seq(S))
    BY <1>0, ConcatEmptySeq, EmptySeq
  <2> QED BY <2>1, FlattenNothing
<1>2. ASSUME NEW u \in Seq(Seq(S)), NEW e \in Seq(S), u \in I PROVE Append(u, e) \in I
  <2>1. Append(u, e) \in Seq(Seq(S))
    BY AppendProperties
  <2>2. s \o Append(u, e) = Append(s \o u, e)
    BY ConcatAppend
  <2>3. FlattenSeq(Append(s \o u, e)) = FlattenSeq(s \o u) \o e
    <3> s \o u \in Seq(Seq(S))
      BY ConcatProperties
    <3> QED BY FlattenSeqAppend
  <2>4. FlattenSeq(Append(u, e)) = FlattenSeq(u) \o e
    BY FlattenSeqAppend
  <2>5. (FlattenSeq(s) \o FlattenSeq(u)) \o e = FlattenSeq(s) \o (FlattenSeq(u) \o e)
    BY <1>0, FlattenSeqType, ConcatAssociative, SMTT(60)
  <2> QED BY <1>2, <2>1, <2>2, <2>3, <2>4, <2>5
<1>3. Seq(Seq(S)) \subseteq I
  <2> HIDE DEF I
  <2> QED BY <1>1, <1>2, GrowingSequence
<1> QED BY <1>3

(* A single list, joined. *)
LEMMA FlattenSeqOne ==
  ASSUME NEW S, NEW e \in Seq(S)
  PROVE  FlattenSeq(<<e>>) = e
<1>1. FlattenSeq(Append(<<>>, e)) = FlattenSeq(<<>>) \o e
  BY EmptySeq, FlattenSeqAppend
<1>2. Append(<<>>, e) = <<e>>
  OBVIOUS
<1>3. <<>> \o e = e
  BY ConcatEmptySeq
<1> QED BY <1>1, <1>2, <1>3, FlattenNothing

(* The first list taken off. *)
LEMMA FlattenSeqHead ==
  ASSUME NEW S, NEW s \in Seq(Seq(S)), s # <<>>
  PROVE  FlattenSeq(s) = Head(s) \o FlattenSeq(Tail(s))
<1>1. Head(s) \in Seq(S) /\ Tail(s) \in Seq(Seq(S)) /\ <<Head(s)>> \in Seq(Seq(S))
  BY HeadTailProperties
<1>2. s = <<Head(s)>> \o Tail(s)
  <2>1. /\ Len(s) \in Nat \ {0} /\ Len(Tail(s)) = Len(s) - 1 /\ Len(<<Head(s)>>) = 1
        /\ \A i \in 1..Len(Tail(s)) : Tail(s)[i] = s[i + 1]
    BY HeadTailProperties, EmptySeq, LenProperties
  <2>2. Len(<<Head(s)>> \o Tail(s)) = Len(s) /\ <<Head(s)>> \o Tail(s) \in Seq(Seq(S))
    BY <1>1, <2>1, ConcatProperties
  <2>3. ASSUME NEW i \in 1..Len(s) PROVE s[i] = (<<Head(s)>> \o Tail(s))[i]
    <3>1. (<<Head(s)>> \o Tail(s))[i] = IF i <= 1 THEN <<Head(s)>>[i] ELSE Tail(s)[i - 1]
      BY <1>1, <2>1, ConcatProperties
    <3>2. CASE i = 1
      BY <3>1, <3>2
    <3>3. CASE i # 1
      <4>1. i - 1 \in 1..Len(Tail(s)) /\ (i - 1) + 1 = i /\ ~ (i <= 1)
        BY <2>1, <3>3
      <4> QED BY <2>1, <3>1, <4>1
    <3> QED BY <3>2, <3>3
  <2> QED BY <2>2, <2>3, SeqEqual
<1>3. FlattenSeq(<<Head(s)>> \o Tail(s)) = FlattenSeq(<<Head(s)>>) \o FlattenSeq(Tail(s))
  BY <1>1, FlattenSeqConcat
<1>4. FlattenSeq(<<Head(s)>>) = Head(s)
  BY <1>1, FlattenSeqOne
<1> QED BY <1>2, <1>3, <1>4

(* Lists behind each other may be put together in any order. *)
LEMMA Regrouped ==
  ASSUME NEW S, NEW s \in Seq(S), NEW t \in Seq(S), NEW u \in Seq(S)
  PROVE  (s \o t) \o u = s \o (t \o u)
BY ConcatAssociative

(* The same of four. *)
LEMMA FourRegrouped ==
  ASSUME NEW S, NEW s \in Seq(S), NEW t \in Seq(S), NEW u \in Seq(S), NEW v \in Seq(S),
         NEW m, m = t \o u
  PROVE  (s \o t) \o (u \o v) = s \o (m \o v)
<1>1. PICK w : w = u \o v
  OBVIOUS
<1>2. w \in Seq(S)
  BY <1>1, ConcatProperties
<1>3. (s \o t) \o w = s \o (t \o w)
  BY ONLY <1>2, Regrouped, SMTT(60)
<1>4. t \o w = m \o v
  BY <1>1, Regrouped, SMTT(60)
<1> QED BY <1>1, <1>3, <1>4

(* A sequence cut in two, and put together again. *)
LEMMA CutInTwo ==
  ASSUME NEW S, NEW s \in Seq(S), NEW n \in 0..Len(s)
  PROVE  /\ Len(s) \in Nat
         /\ SubSeq(s, 1, n) \in Seq(S) /\ Len(SubSeq(s, 1, n)) = n
         /\ SubSeq(s, n + 1, Len(s)) \in Seq(S) /\ Len(SubSeq(s, n + 1, Len(s))) = Len(s) - n
         /\ \A i \in 1..(Len(s) - n) : SubSeq(s, n + 1, Len(s))[i] = s[n + i]
         /\ SubSeq(s, 1, n) \o SubSeq(s, n + 1, Len(s)) = s
<1>1. Len(s) \in Nat /\ n \in Nat /\ n <= Len(s) /\ \A i \in 1..Len(s) : s[i] \in S
  BY LenProperties
<1>2. SubSeq(s, 1, n) \in Seq(S) /\ Len(SubSeq(s, 1, n)) = n
  BY <1>1, SubSeqProperties
<1>3. /\ SubSeq(s, n + 1, Len(s)) \in Seq(S) /\ Len(SubSeq(s, n + 1, Len(s))) = Len(s) - n
      /\ \A i \in 1..(Len(s) - n) : SubSeq(s, n + 1, Len(s))[i] = s[n + i]
  <2>1. PICK m : m = n + 1
    OBVIOUS
  <2>2. m \in Int /\ m >= 1 /\ Len(s) - m + 1 = Len(s) - n /\ \A i \in m..Len(s) : s[i] \in S
    BY <1>1, <2>1
  <2>3. /\ SubSeq(s, m, Len(s)) \in Seq(S)
        /\ Len(SubSeq(s, m, Len(s))) = (IF m <= Len(s) THEN Len(s) - m + 1 ELSE 0)
        /\ \A i \in 1..(Len(s) - m + 1) : SubSeq(s, m, Len(s))[i] = s[m + i - 1]
    BY <1>1, <2>2, SubSeqProperties
  <2>4. Len(SubSeq(s, m, Len(s))) = Len(s) - n
    BY <1>1, <2>1, <2>3
  <2>5. ASSUME NEW i \in 1..(Len(s) - n) PROVE SubSeq(s, m, Len(s))[i] = s[n + i]
    <3>1. i \in 1..(Len(s) - m + 1) /\ m + i - 1 = n + i
      BY <1>1, <2>1
    <3> QED BY ONLY <2>3, <3>1
  <2> QED BY <2>1, <2>3, <2>4, <2>5
<1>4. SubSeq(s, 1, n) \o SubSeq(s, n + 1, Len(s)) = s
  <2>1. /\ 1 \in 1..(Len(s) + 1) /\ n \in (1 - 1)..Len(s) /\ Len(s) \in n..Len(s)
    BY <1>1
  <2>2. SubSeq(s, 1, n) \o SubSeq(s, n + 1, Len(s)) = SubSeq(s, 1, Len(s))
    BY <2>1, ConcatAdjacentSubSeq
  <2> QED BY <2>2, SubSeqFull
<1> QED BY <1>1, <1>2, <1>3, <1>4

(* A list put before the lists is joined before them. *)
LEMMA FlattenSeqFront ==
  ASSUME NEW S, NEW s \in Seq(Seq(S)), NEW e \in Seq(S)
  PROVE  FlattenSeq(<<e>> \o s) = e \o FlattenSeq(s)
<1>1. <<e>> \in Seq(Seq(S))
  OBVIOUS
<1>2. FlattenSeq(<<e>> \o s) = FlattenSeq(<<e>>) \o FlattenSeq(s)
  BY <1>1, FlattenSeqConcat
<1> QED BY <1>2, FlattenSeqOne

(* Nothing comes of lists only when they are empty. *)
LEMMA FlattenSeqEmpty ==
  ASSUME NEW S, NEW s \in Seq(Seq(S)), FlattenSeq(s) = <<>>, s # <<>>
  PROVE  Head(s) = <<>>
<1>1. Head(s) \in Seq(S) /\ Tail(s) \in Seq(Seq(S))
  BY HeadTailProperties
<1>2. FlattenSeq(Tail(s)) \in Seq(S)
  BY <1>1, FlattenSeqType
<1>3. Head(s) \o FlattenSeq(Tail(s)) = <<>>
  BY FlattenSeqHead
<1> QED BY <1>1, <1>2, <1>3, ConcatEqualIffEmpty

(* Lists joined, of things that have a key each: what is in them is in one of
   the lists, and no key comes twice when it does not in the lists. *)
KeysApart(K, ss) ==
  \A a, b \in 1..Len(ss) : \A i \in 1..Len(ss[a]) : \A j \in 1..Len(ss[b]) :
    K[ss[a][i]] = K[ss[b][j]] => a = b /\ i = j
Joined(K, ss, f) ==
  /\ \A i \in 1..Len(f) : \E a \in 1..Len(ss) : \E j \in 1..Len(ss[a]) : f[i] = ss[a][j]
  /\ \A a \in 1..Len(ss) : \A j \in 1..Len(ss[a]) : \E i \in 1..Len(f) : f[i] = ss[a][j]
  /\ \A i, j \in 1..Len(f) : K[f[i]] = K[f[j]] => i = j

(* What is in the lists is in the joined one, and only that, each key once. *)
LEMMA FlattenKeyed ==
  ASSUME NEW S, NEW K, NEW ss \in Seq(Seq(S)), KeysApart(K, ss)
  PROVE  Joined(K, ss, FlattenSeq(ss))
<1> DEFINE From(tt, f) == \A i \in 1..Len(f) : \E a \in 1..Len(tt) : \E j \in 1..Len(tt[a]) : f[i] = tt[a][j]
           Into(tt, f) == \A a \in 1..Len(tt) : \A j \in 1..Len(tt[a]) : \E i \in 1..Len(f) : f[i] = tt[a][j]
           Once(f) == \A i, j \in 1..Len(f) : K[f[i]] = K[f[j]] => i = j
           I == {tt \in Seq(Seq(S)) : KeysApart(K, tt) => Joined(K, tt, FlattenSeq(tt))}
<1>1. <<>> \in I
  <2>1. FlattenSeq(<<>>) = <<>> /\ <<>> \in Seq(Seq(S)) /\ Len(<<>>) = 0
    BY FlattenNothing, EmptySeq
  <2>2. Joined(K, <<>>, <<>>)
    BY <2>1 DEF Joined
  <2> QED BY <2>1, <2>2
<1>2. ASSUME NEW tt \in Seq(Seq(S)), NEW e \in Seq(S), tt \in I PROVE Append(tt, e) \in I
  <2> SUFFICES ASSUME KeysApart(K, Append(tt, e)) PROVE Joined(K, Append(tt, e), FlattenSeq(Append(tt, e)))
    BY AppendProperties
  <2>1. PICK uu, n : uu = Append(tt, e) /\ n = Len(tt)
    OBVIOUS
  <2>2. /\ n \in Nat /\ Len(uu) = n + 1 /\ uu[n + 1] = e /\ \A i \in 1..n : uu[i] = tt[i]
        /\ \A i \in 1..n : tt[i] \in Seq(S)
    BY <2>1, AppendProperties, LenProperties, ElementOfSeq
  <2>3. PICK f, g : f = FlattenSeq(tt) /\ g = f \o e
    OBVIOUS
  <2>4. f \in Seq(S) /\ g \in Seq(S) /\ FlattenSeq(uu) = g
    <3>1. f \in Seq(S)
      BY <2>3, FlattenSeqType
    <3>2. g \in Seq(S)
      BY <2>3, <3>1, ConcatProperties
    <3>3. FlattenSeq(uu) = g
      BY <2>1, <2>3, FlattenSeqAppend
    <3> QED BY <3>1, <3>2, <3>3
  <2>5. PICK m, l : m = Len(f) /\ l = Len(e)
    OBVIOUS
  <2>6. /\ m \in Nat /\ l \in Nat /\ Len(g) = m + l
        /\ \A i \in 1..m : g[i] = f[i]
        /\ \A i \in 1..l : g[m + i] = e[i]
    <3>1. Len(g) = m + l /\ \A i \in 1..Len(g) : g[i] = IF i <= m THEN f[i] ELSE e[i - m]
      BY <2>3, <2>4, <2>5, ConcatProperties
    <3>2. m \in Nat /\ l \in Nat
      BY <2>4, <2>5, LenProperties
    <3>3. \A i \in 1..m : i \in 1..(m + l) /\ i <= m
      BY <3>2
    <3>4. \A i \in 1..l : m + i \in 1..(m + l) /\ ~ (m + i <= m) /\ (m + i) - m = i
      BY <3>2
    <3> QED BY ONLY <3>1, <3>2, <3>3, <3>4
  <2>7. KeysApart(K, uu)
    BY <2>1
  <2>8. KeysApart(K, tt)
    <3>1. \A a \in 1..n : a \in 1..(n + 1) /\ uu[a] = tt[a]
      BY <2>2
    <3> QED BY ONLY <2>1, <2>2, <2>7, <3>1 DEF KeysApart
  <2>9. From(tt, f) /\ Into(tt, f) /\ Once(f)
    <3>1. Joined(K, tt, f)
      BY ONLY <1>2, <2>3, <2>8
    <3> QED BY ONLY <3>1 DEF Joined
  <2>10. n + 1 \in 1..(n + 1) /\ \A a \in 1..n : a \in 1..(n + 1) /\ a # n + 1
    BY <2>2
  <2>11. ASSUME NEW i \in 1..Len(g)
         PROVE  \/ i \in 1..m /\ g[i] = f[i]
                \/ \E j \in 1..l : i = m + j /\ g[i] = e[j]
    <3>1. CASE i <= m
      BY <2>6, <3>1
    <3>2. CASE ~ (i <= m)
      <4>1. i - m \in 1..l /\ i = m + (i - m)
        BY <2>6, <3>2
      <4> QED BY <2>6, <4>1
    <3> QED BY <3>1, <3>2
  <2>12. From(uu, g)
    <3> SUFFICES ASSUME NEW i \in 1..Len(g) PROVE \E a \in 1..Len(uu) : \E j \in 1..Len(uu[a]) : g[i] = uu[a][j]
      OBVIOUS
    <3>1. CASE i \in 1..m /\ g[i] = f[i]
      <4>1. PICK a \in 1..n : \E j \in 1..Len(tt[a]) : f[i] = tt[a][j]
        BY <2>1, <2>5, <2>9, <3>1
      <4> QED BY <2>2, <2>10, <3>1, <4>1
    <3>2. CASE \E j \in 1..l : i = m + j /\ g[i] = e[j]
      BY <2>2, <2>5, <2>10, <3>2
    <3> QED BY <2>11, <3>1, <3>2
  <2>13. Into(uu, g)
    <3> SUFFICES ASSUME NEW a \in 1..Len(uu), NEW j \in 1..Len(uu[a]) PROVE \E i \in 1..Len(g) : g[i] = uu[a][j]
      OBVIOUS
    <3>1. CASE a \in 1..n
      <4>1. PICK i \in 1..m : f[i] = tt[a][j]
        BY <2>1, <2>2, <2>5, <2>9, <3>1
      <4>2. i \in 1..Len(g)
        BY <2>6
      <4> QED BY <2>2, <2>6, <3>1, <4>1, <4>2
    <3>2. CASE a = n + 1
      <4>1. j \in 1..l /\ uu[a][j] = e[j] /\ m + j \in 1..Len(g)
        BY <2>2, <2>5, <2>6, <3>2
      <4> QED BY <2>6, <4>1
    <3>3. a \in 1..n \/ a = n + 1
      BY ONLY <2>2, a \in 1..Len(uu)
    <3> QED BY ONLY <3>1, <3>2, <3>3
  <2>14. Once(g)
    <3> SUFFICES ASSUME NEW i \in 1..Len(g), NEW j \in 1..Len(g), K[g[i]] = K[g[j]] PROVE i = j
      OBVIOUS
    <3>1. ASSUME NEW x \in 1..m, NEW y \in 1..l PROVE K[f[x]] # K[e[y]]
      <4>1. PICK a \in 1..n : \E z \in 1..Len(tt[a]) : f[x] = tt[a][z]
        BY <2>1, <2>5, <2>9, <3>1
      <4>2. PICK z \in 1..Len(tt[a]) : f[x] = tt[a][z]
        BY <4>1
      <4>3. uu[a] = tt[a] /\ a \in 1..Len(uu) /\ n + 1 \in 1..Len(uu) /\ a # n + 1 /\ uu[n + 1] = e /\ y \in 1..Len(e)
        BY <2>2, <2>5, <2>10
      <4>4. z \in 1..Len(uu[a]) /\ y \in 1..Len(uu[n + 1])
        BY <4>2, <4>3
      <4>5. K[uu[a][z]] = K[uu[n + 1][y]] => a = n + 1
        BY ONLY <2>7, <4>3, <4>4 DEF KeysApart
      <4> QED BY ONLY <4>2, <4>3, <4>5
    <3>2. \A x, y \in 1..l : K[e[x]] = K[e[y]] => x = y
      <4>1. n + 1 \in 1..Len(uu) /\ uu[n + 1] = e
        BY <2>2, <2>10
      <4>2. \A x, y \in 1..Len(uu[n + 1]) : K[uu[n + 1][x]] = K[uu[n + 1][y]] => x = y
        BY ONLY <2>7, <4>1 DEF KeysApart
      <4> QED BY ONLY <2>5, <4>1, <4>2
    <3>3. CASE i \in 1..m /\ g[i] = f[i] /\ j \in 1..m /\ g[j] = f[j]
      BY <2>5, <2>9, <3>3
    <3>4. CASE i \in 1..m /\ g[i] = f[i] /\ \E y \in 1..l : j = m + y /\ g[j] = e[y]
      BY <3>1, <3>4
    <3>5. CASE (\E x \in 1..l : i = m + x /\ g[i] = e[x]) /\ j \in 1..m /\ g[j] = f[j]
      BY <3>1, <3>5
    <3>6. CASE (\E x \in 1..l : i = m + x /\ g[i] = e[x]) /\ \E y \in 1..l : j = m + y /\ g[j] = e[y]
      BY <3>2, <3>6
    <3> QED BY <2>11, <3>3, <3>4, <3>5, <3>6
  <2>15. Joined(K, uu, g)
    BY ONLY <2>12, <2>13, <2>14 DEF Joined
  <2> QED BY ONLY <2>1, <2>4, <2>15
<1>3. Seq(Seq(S)) \subseteq I
  <2> HIDE DEF I
  <2> QED BY <1>1, <1>2, GrowingSequence
<1> QED BY <1>3

(* Distinct things of a finite set in a row are no more than it has, ... *)
LEMMA RowFits ==
  ASSUME NEW T, IsFiniteSet(T), NEW n \in Nat, NEW f \in [1..n -> T],
         \A i, j \in 1..n : f[i] = f[j] => i = j
  PROVE  n <= Cardinality(T) /\ Cardinality(T) \in Nat
<1>1. IsFiniteSet(1..n) /\ Cardinality(1..n) = n
  <2>1. IsFiniteSet(1..n) /\ Cardinality(1..n) = IF 1 > n THEN 0 ELSE n - 1 + 1
    BY FS_Interval
  <2> QED BY <2>1
<1>2. Cardinality(T) \in Nat
  BY FS_CardinalityType
<1>3. ~ (Cardinality(T) < n)
  <2> SUFFICES ASSUME Cardinality(T) < n PROVE FALSE
    OBVIOUS
  <2>1. \E x, y \in 1..n : x # y /\ f[x] = f[y]
    BY <1>1, FS_PigeonHole
  <2> QED BY <2>1
<1> QED BY <1>2, <1>3

(* ... and exactly as many when each of them is there. *)
LEMMA RowCounts ==
  ASSUME NEW T, IsFiniteSet(T), NEW n \in Nat, NEW f \in [1..n -> T],
         \A i, j \in 1..n : f[i] = f[j] => i = j,
         \A x \in T : \E i \in 1..n : f[i] = x
  PROVE  n = Cardinality(T)
<1>1. n <= Cardinality(T) /\ Cardinality(T) \in Nat
  BY RowFits
<1>2. ExistsSurjection(1..n, T)
  BY DEF ExistsSurjection, Surjection
<1>3. Cardinality(T) <= n
  BY <1>2, FS_SurjCardinalityBound
<1> QED BY <1>1, <1>3

(* Steps from a first value: a function that takes them, one after another. *)
Stepped(n, S, base, step, g) ==
  g \in [0..n -> S] /\ g[0] = base /\ \A i \in 1..n : g[i] = step[<<i, g[i - 1]>>]

(* Such a function exists, whatever the steps. *)
LEMMA StepsExist ==
  ASSUME NEW n \in Nat, NEW S, NEW base \in S, NEW step \in [(1..n) \X S -> S]
  PROVE  \E g : Stepped(n, S, base, step, g)
<1> DEFINE Goes(g, m) == g \in [0..m -> S] /\ g[0] = base /\ \A i \in 1..m : g[i] = step[<<i, g[i - 1]>>]
           I == {m \in Nat : m <= n => \E g : Goes(g, m)}
<1>1. 0 \in I
  <2>1. PICK g : g = [i \in 0..0 |-> base]
    OBVIOUS
  <2>2. g \in [0..0 -> S] /\ g[0] = base /\ \A i \in 1..0 : FALSE
    BY <2>1
  <2>3. Goes(g, 0)
    BY <2>2
  <2> QED BY <2>3
<1>2. ASSUME NEW m \in Nat, m \in I PROVE m + 1 \in I
  <2> SUFFICES ASSUME m + 1 <= n PROVE \E g : Goes(g, m + 1)
    OBVIOUS
  <2>1. PICK g : Goes(g, m)
    BY <1>2
  <2>2. PICK e : e = step[<<m + 1, g[m]>>]
    OBVIOUS
  <2>3. e \in S
    BY <2>1, <2>2
  <2>4. PICK h : h = [i \in 0..(m + 1) |-> IF i = m + 1 THEN e ELSE g[i]]
    OBVIOUS
  <2>5. \A i \in 0..m : i \in 0..(m + 1) /\ i # m + 1 /\ h[i] = g[i]
    BY <2>4
  <2>6. h[m + 1] = e /\ h[0] = base
    BY <2>1, <2>4
  <2>7. h \in [0..(m + 1) -> S]
    BY <2>1, <2>3, <2>4
  <2>8. \A i \in 1..(m + 1) : h[i] = step[<<i, h[i - 1]>>]
    <3> SUFFICES ASSUME NEW i \in 1..(m + 1) PROVE h[i] = step[<<i, h[i - 1]>>]
      OBVIOUS
    <3>1. CASE i = m + 1
      <4>1. i - 1 = m /\ m \in 0..m
        BY <3>1
      <4> QED BY <2>2, <2>5, <2>6, <3>1, <4>1
    <3>2. CASE i # m + 1
      <4>1. i \in 1..m /\ i \in 0..m /\ i - 1 \in 0..m
        BY <3>2
      <4> QED BY <2>1, <2>5, <4>1
    <3> QED BY <3>1, <3>2
  <2> QED BY <2>6, <2>7, <2>8
<1>3. Nat \subseteq I
  <2> HIDE DEF I
  <2> QED BY <1>1, <1>2, CountingUp
<1>4. PICK g : Goes(g, n)
  BY <1>3
<1> QED BY <1>4 DEF Stepped
=============================================================================
