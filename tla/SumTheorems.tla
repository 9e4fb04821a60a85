------------------------------ MODULE SumTheorems ------------------------------
(***************************************************************************)
(* What a sum over a finite set is worth: SumFunctionOnSet of the community *)
(* modules, which takes the elements in an order of its own choosing, split *)
(* by an element, added to another sum, and carried over to other indices. *)
(***************************************************************************)
EXTENDS Integers, FiniteSets, Functions, FiniteSetTheorems, WellFoundedInduction, TLAPS

-----------------------------------------------------------------------------
(* Induction over the naturals, and over the subsets of a finite set.         *)

LEMMA InductionOnNat ==
  ASSUME NEW S, 0 \in S, \A n \in Nat : n \in S => n + 1 \in S
  PROVE  \A n \in Nat : n \in S
<1> SUFFICES ASSUME NEW m \in Nat, m \notin S PROVE FALSE
  OBVIOUS
<1> DEFINE below == {p \in Nat \X Nat : p[1] < p[2]}
           Bad == {n \in Nat : n \notin S}
<1>1. IsWellFoundedOn(below, Nat)
  BY NatLessThanWellFounded DEF OpToRel
<1>2. PICK x \in Bad : \A y \in Bad : <<y, x>> \notin below
  <2> HIDE DEF below
  <2> QED BY <1>1, WFMin
<1>3. x \in Nat /\ x # 0 /\ x - 1 \in Nat /\ (x - 1) + 1 = x
  BY <1>2
<1>4. x - 1 \in Bad
  BY <1>2, <1>3
<1>5. <<x - 1, x>> \in below
  BY <1>3
<1> QED BY <1>2, <1>4, <1>5

\* A set of sets that holds the empty set, and any finite set that is in it without
\* one of its elements, holds every finite set: all are subsets of D.
LEMMA InductionOnSubsets ==
  ASSUME NEW D, IsFiniteSet(D), NEW Good,
         {} \in Good,
         \A s \in SUBSET D : s # {} /\ (\A t \in SUBSET D : t \subseteq s /\ t # s => t \in Good)
                               => s \in Good
  PROVE  \A s \in SUBSET D : s \in Good
<1> DEFINE Upto == {n \in Nat : \A s \in SUBSET D : Cardinality(s) <= n => s \in Good}
<1>0. \A s \in SUBSET D : IsFiniteSet(s) /\ Cardinality(s) \in Nat
  BY FS_Subset, FS_CardinalityType
<1>1. 0 \in Upto
  <2>1. \A s \in SUBSET D : Cardinality(s) <= 0 => s = {}
    BY <1>0, FS_EmptySet
  <2> QED BY <2>1
<1>2. ASSUME NEW n \in Nat, n \in Upto PROVE n + 1 \in Upto
  <2> SUFFICES ASSUME NEW s \in SUBSET D, Cardinality(s) <= n + 1 PROVE s \in Good
    BY DEF Upto
  <2>1. ASSUME NEW t \in SUBSET D, t \subseteq s, t # s PROVE t \in Good
    <3>1. Cardinality(t) < Cardinality(s)
      BY <1>0, <2>1, FS_Subset
    <3>2. Cardinality(t) <= n
      BY <1>0, <3>1
    <3> QED BY <1>2, <3>2
  <2> QED BY <2>1
<1>3. \A n \in Nat : n \in Upto
  <2> HIDE DEF Upto
  <2> QED BY <1>1, <1>2, InductionOnNat
<1> QED BY <1>0, <1>3

-----------------------------------------------------------------------------
(* The recursive function behind the sum.                                     *)

Pick(s) == CHOOSE x \in s : TRUE

Term(f, it, s) == IF s = {} THEN 0 ELSE f[Pick(s)] + it[s \ {Pick(s)}]

\* it[s] is the sum of f over s, for every subset s of D.
Sums(f, D, it) == it = [s \in SUBSET D |-> Term(f, it, s)]

LEMMA PickIs == ASSUME NEW s, s # {} PROVE Pick(s) \in s
BY DEF Pick

LEMMA SumsExist ==
  ASSUME NEW f, NEW D, IsFiniteSet(D)
  PROVE  \E it : Sums(f, D, it)
<1> DEFINE Small(n) == {s \in SUBSET D : Cardinality(s) <= n}
           Has == {n \in Nat : \E it : it = [s \in Small(n) |-> Term(f, it, s)]}
<1>0. \A s \in SUBSET D : IsFiniteSet(s) /\ Cardinality(s) \in Nat
                          /\ (Cardinality(s) = 0 <=> s = {})
  BY FS_Subset, FS_CardinalityType, FS_EmptySet
<1>1. 0 \in Has
  <2> DEFINE it == [s \in Small(0) |-> 0]
  <2>1. \A s \in Small(0) : Term(f, it, s) = 0
    BY <1>0 DEF Term
  <2>2. it = [s \in Small(0) |-> Term(f, it, s)]
    BY <2>1
  <2> QED BY <2>2
<1>2. ASSUME NEW n \in Nat, n \in Has PROVE n + 1 \in Has
  <2>1. PICK it : it = [s \in Small(n) |-> Term(f, it, s)]
    BY <1>2
  <2> DEFINE jt == [s \in Small(n + 1) |-> Term(f, it, s)]
  <2>2. \A t \in Small(n) : t \in Small(n + 1) /\ jt[t] = it[t]
    BY <1>0, <2>1
  <2>3. ASSUME NEW s \in Small(n + 1), s # {} PROVE s \ {Pick(s)} \in Small(n)
    <3>1. Pick(s) \in s
      BY <2>3, PickIs
    <3>2. Cardinality(s \ {Pick(s)}) = Cardinality(s) - 1
      BY <1>0, <3>1, FS_RemoveElement
    <3> QED BY <1>0, <3>2
  <2>4. \A s \in Small(n + 1) : Term(f, jt, s) = Term(f, it, s)
    BY <2>2, <2>3 DEF Term
  <2>5. jt = [s \in Small(n + 1) |-> Term(f, jt, s)]
    BY <2>4
  <2> HIDE DEF jt, Small
  <2> QED BY <2>5
<1>3. \A n \in Nat : n \in Has
  <2> HIDE DEF Has
  <2> QED BY <1>1, <1>2, InductionOnNat
<1>4. Cardinality(D) \in Has /\ Small(Cardinality(D)) = SUBSET D
  <2>1. \A s \in SUBSET D : Cardinality(s) <= Cardinality(D)
    BY FS_Subset
  <2>2. Small(Cardinality(D)) = SUBSET D
    BY <2>1
  <2> HIDE DEF Has
  <2> QED BY <1>0, <1>3, <2>2
<1> QED BY <1>4 DEF Sums

LEMMA SumsAgree ==
  ASSUME NEW f, NEW g, NEW D, NEW E, NEW it, NEW jt, Sums(f, D, it), Sums(g, E, jt),
         NEW S, IsFiniteSet(S), S \subseteq D, S \subseteq E, \A x \in S : f[x] = g[x]
  PROVE  it[S] = jt[S]
<1> DEFINE Good == {s \in SUBSET S : it[s] = jt[s]}
<1>1. \A s \in SUBSET S : it[s] = Term(f, it, s) /\ jt[s] = Term(g, jt, s)
  BY DEF Sums
<1>2. {} \in Good
  BY <1>1 DEF Term
<1>3. ASSUME NEW s \in SUBSET S, s # {}, \A t \in SUBSET S : t \subseteq s /\ t # s => t \in Good
      PROVE  s \in Good
  <2>1. Pick(s) \in s
    BY <1>3, PickIs
  <2>2. s \ {Pick(s)} \in Good
    BY <1>3, <2>1
  <2> QED BY <1>1, <1>3, <2>1, <2>2 DEF Term
<1>4. \A s \in SUBSET S : s \in Good
  <2> HIDE DEF Good
  <2> QED BY <1>2, <1>3, InductionOnSubsets
<1> QED BY <1>4

LEMMA SumIs ==
  ASSUME NEW f, NEW D, IsFiniteSet(D)
  PROVE  \E it : Sums(f, D, it) /\ SumFunctionOnSet(f, D) = it[D]
<1> DEFINE it == CHOOSE jt : jt = [s \in SUBSET D |->
                   IF s = {} THEN 0
                   ELSE f[CHOOSE x \in s : TRUE] + jt[s \ {CHOOSE x \in s : TRUE}]]
<1>1. SumFunctionOnSet(f, D) = it[D]
  BY DEF SumFunctionOnSet, FoldFunctionOnSet, MapThenFoldSet
<1>2. Sums(f, D, it)
  <2>1. \E jt : jt = [s \in SUBSET D |->
                   IF s = {} THEN 0
                   ELSE f[CHOOSE x \in s : TRUE] + jt[s \ {CHOOSE x \in s : TRUE}]]
    <3>1. PICK jt : Sums(f, D, jt)
      BY SumsExist
    <3> QED BY <3>1, Zenon DEF Sums, Term, Pick
  <2>2. it = [s \in SUBSET D |->
               IF s = {} THEN 0
               ELSE f[CHOOSE x \in s : TRUE] + it[s \ {CHOOSE x \in s : TRUE}]]
    BY <2>1, Zenon
  <2> QED BY <2>2 DEF Sums, Term, Pick
<1> QED BY <1>1, <1>2

-----------------------------------------------------------------------------
(* The sum of a function over a finite set, whatever the order.               *)

LEMMA SumEmpty ==
  ASSUME NEW f
  PROVE  SumFunctionOnSet(f, {}) = 0
<1>1. PICK it : Sums(f, {}, it) /\ SumFunctionOnSet(f, {}) = it[{}]
  BY SumIs, FS_EmptySet
<1> QED BY <1>1 DEF Sums, Term

LEMMA SumSame ==
  ASSUME NEW f, NEW g, NEW D, IsFiniteSet(D), \A x \in D : f[x] = g[x]
  PROVE  SumFunctionOnSet(f, D) = SumFunctionOnSet(g, D)
<1>1. PICK it : Sums(f, D, it) /\ SumFunctionOnSet(f, D) = it[D]
  BY SumIs
<1>2. PICK jt : Sums(g, D, jt) /\ SumFunctionOnSet(g, D) = jt[D]
  BY SumIs
<1> QED BY <1>1, <1>2, SumsAgree

LEMMA SumPick ==
  ASSUME NEW f, NEW D, IsFiniteSet(D), D # {}
  PROVE  SumFunctionOnSet(f, D) = f[Pick(D)] + SumFunctionOnSet(f, D \ {Pick(D)})
<1> DEFINE E == D \ {Pick(D)}
<1>1. PICK it : Sums(f, D, it) /\ SumFunctionOnSet(f, D) = it[D]
  BY SumIs
<1>2. IsFiniteSet(E) /\ E \subseteq D
  BY FS_Subset
<1>3. PICK jt : Sums(f, E, jt) /\ SumFunctionOnSet(f, E) = jt[E]
  BY <1>2, SumIs
<1>4. it[E] = jt[E]
  BY <1>1, <1>2, <1>3, SumsAgree
<1>5. it[D] = f[Pick(D)] + it[E]
  BY <1>1 DEF Sums, Term
<1> QED BY <1>1, <1>3, <1>4, <1>5

LEMMA SumInt ==
  ASSUME NEW f, NEW D, IsFiniteSet(D), \A x \in D : f[x] \in Int
  PROVE  SumFunctionOnSet(f, D) \in Int
<1> DEFINE Good == {s \in SUBSET D : SumFunctionOnSet(f, s) \in Int}
<1>1. {} \in Good
  BY SumEmpty
<1>2. ASSUME NEW s \in SUBSET D, s # {}, \A t \in SUBSET D : t \subseteq s /\ t # s => t \in Good
      PROVE  s \in Good
  <2>1. Pick(s) \in s /\ IsFiniteSet(s)
    BY <1>2, PickIs, FS_Subset
  <2>2. s \ {Pick(s)} \in Good
    BY <1>2, <2>1
  <2>3. SumFunctionOnSet(f, s) = f[Pick(s)] + SumFunctionOnSet(f, s \ {Pick(s)})
    BY <1>2, <2>1, SumPick
  <2> QED BY <2>1, <2>2, <2>3
<1>3. \A s \in SUBSET D : s \in Good
  <2> HIDE DEF Good
  <2> QED BY <1>1, <1>2, InductionOnSubsets
<1> QED BY <1>3

\* Any element may be taken out first.
LEMMA SumSplit ==
  ASSUME NEW f, NEW D, IsFiniteSet(D), \A x \in D : f[x] \in Int, NEW e \in D
  PROVE  SumFunctionOnSet(f, D) = f[e] + SumFunctionOnSet(f, D \ {e})
<1> DEFINE Sum(s) == SumFunctionOnSet(f, s)
           Good == {s \in SUBSET D : \A x \in s : Sum(s) = f[x] + Sum(s \ {x})}
<1>0. \A s \in SUBSET D : IsFiniteSet(s) /\ Sum(s) \in Int
  <2>1. ASSUME NEW s \in SUBSET D PROVE IsFiniteSet(s) /\ Sum(s) \in Int
    <3>1. IsFiniteSet(s)
      BY FS_Subset
    <3> QED BY <3>1, SumInt
  <2> QED BY <2>1
<1>1. {} \in Good
  OBVIOUS
<1>2. ASSUME NEW s \in SUBSET D, s # {}, \A t \in SUBSET D : t \subseteq s /\ t # s => t \in Good
      PROVE  s \in Good
  <2> SUFFICES ASSUME NEW x \in s PROVE Sum(s) = f[x] + Sum(s \ {x})
    OBVIOUS
  <2> DEFINE p == Pick(s)
             rest == (s \ {p}) \ {x}
  <2>1. p \in s /\ IsFiniteSet(s) /\ Sum(s) = f[p] + Sum(s \ {p})
    BY <1>0, <1>2, PickIs, SumPick
  <2> HIDE DEF p, Sum
  <2>2. CASE x = p
    BY <2>1, <2>2
  <2>3. CASE x # p
    <3>1. s \ {p} \in Good /\ s \ {x} \in Good
      BY <1>2, <2>1
    <3>2. Sum(s \ {p}) = f[x] + Sum(rest)
      BY <2>3, <3>1
    <3>3. Sum(s \ {x}) = f[p] + Sum(rest)
      <4>1. Sum(s \ {x}) = f[p] + Sum((s \ {x}) \ {p}) /\ (s \ {x}) \ {p} = rest
        BY <2>1, <2>3, <3>1
      <4> HIDE DEF rest
      <4> QED BY <4>1
    <3>4. f[x] \in Int /\ f[p] \in Int /\ rest \in SUBSET D
      BY <2>1
    <3>5. Sum(rest) \in Int
      BY <1>0, <3>4
    <3> HIDE DEF rest
    <3> QED BY <2>1, <3>2, <3>3, <3>4, <3>5
  <2> QED BY <2>2, <2>3
<1>3. \A s \in SUBSET D : s \in Good
  <2> HIDE DEF Good
  <2> QED BY <1>1, <1>2, InductionOnSubsets
<1> QED BY <1>3

LEMMA SumAdded ==
  ASSUME NEW f, NEW g, NEW h, NEW D, IsFiniteSet(D),
         \A x \in D : f[x] \in Int /\ g[x] \in Int /\ h[x] = f[x] + g[x]
  PROVE  SumFunctionOnSet(h, D) = SumFunctionOnSet(f, D) + SumFunctionOnSet(g, D)
<1> DEFINE Good == {s \in SUBSET D : /\ SumFunctionOnSet(f, s) \in Int
                                     /\ SumFunctionOnSet(g, s) \in Int
                                     /\ SumFunctionOnSet(h, s) = SumFunctionOnSet(f, s)
                                                                  + SumFunctionOnSet(g, s)}
<1>1. {} \in Good
  BY SumEmpty
<1>2. ASSUME NEW s \in SUBSET D, s # {}, \A t \in SUBSET D : t \subseteq s /\ t # s => t \in Good
      PROVE  s \in Good
  <2>1. Pick(s) \in s /\ IsFiniteSet(s)
    BY <1>2, PickIs, FS_Subset
  <2>2. s \ {Pick(s)} \in Good
    BY <1>2, <2>1
  <2>3. /\ SumFunctionOnSet(f, s) = f[Pick(s)] + SumFunctionOnSet(f, s \ {Pick(s)})
        /\ SumFunctionOnSet(g, s) = g[Pick(s)] + SumFunctionOnSet(g, s \ {Pick(s)})
        /\ SumFunctionOnSet(h, s) = h[Pick(s)] + SumFunctionOnSet(h, s \ {Pick(s)})
    BY <1>2, <2>1, SumPick
  <2> QED BY <2>1, <2>2, <2>3
<1>3. \A s \in SUBSET D : s \in Good
  <2> HIDE DEF Good
  <2> QED BY <1>1, <1>2, InductionOnSubsets
<1> QED BY <1>3

\* Indices that add nothing may be left out.
LEMMA SumOfZeros ==
  ASSUME NEW f, NEW D, IsFiniteSet(D), NEW E \in SUBSET D, \A x \in D : f[x] \in Int,
         \A x \in D \ E : f[x] = 0
  PROVE  SumFunctionOnSet(f, D) = SumFunctionOnSet(f, E)
<1> DEFINE Good == {s \in SUBSET D : SumFunctionOnSet(f, s) = SumFunctionOnSet(f, s \cap E)}
<1>1. {} \in Good
  OBVIOUS
<1>2. ASSUME NEW s \in SUBSET D, s # {}, \A t \in SUBSET D : t \subseteq s /\ t # s => t \in Good
      PROVE  s \in Good
  <2>0. IsFiniteSet(s)
    BY FS_Subset
  <2>1. CASE s \subseteq E
    <3>1. s \cap E = s
      BY <2>1
    <3> QED BY <3>1
  <2>2. ASSUME NEW x \in s \ E
        PROVE  s \in Good
    <3>1. s \ {x} \in Good /\ (s \ {x}) \cap E = s \cap E
      BY <1>2, <2>2
    <3>2. SumFunctionOnSet(f, s) = f[x] + SumFunctionOnSet(f, s \ {x})
      BY <2>0, <2>2, SumSplit
    <3>3. SumFunctionOnSet(f, s \ {x}) \in Int
      <4>1. IsFiniteSet(s \ {x})
        BY <2>0, FS_Subset
      <4> QED BY <4>1, SumInt
    <3>4. f[x] = 0 /\ SumFunctionOnSet(f, s \ {x}) = SumFunctionOnSet(f, s \cap E)
      BY <2>2, <3>1
    <3>5. SumFunctionOnSet(f, s) = SumFunctionOnSet(f, s \cap E)
      BY <3>2, <3>3, <3>4
    <3> QED BY <3>5
  <2> QED BY <2>1, <2>2
<1>3. \A s \in SUBSET D : s \in Good
  <2> HIDE DEF Good
  <2> QED BY <1>1, <1>2, InductionOnSubsets
<1>4. D \cap E = E /\ D \in Good
  BY <1>3
<1> QED BY <1>4

\* A sum over other indices, one for each.
LEMMA SumReindexed ==
  ASSUME NEW f, NEW D, IsFiniteSet(D), NEW h, NEW g,
         \A x \in D : f[x] \in Int /\ h[g[x]] = f[x],
         \A x, y \in D : g[x] = g[y] => x = y
  PROVE  SumFunctionOnSet(f, D) = SumFunctionOnSet(h, {g[x] : x \in D})
<1> DEFINE Image(s) == {g[x] : x \in s}
           Good == {s \in SUBSET D : /\ IsFiniteSet(Image(s))
                                     /\ SumFunctionOnSet(f, s) = SumFunctionOnSet(h, Image(s))}
<1>1. {} \in Good
  <2>1. Image({}) = {}
    OBVIOUS
  <2> QED BY <2>1, SumEmpty, FS_EmptySet
<1>2. ASSUME NEW s \in SUBSET D, s # {}, \A t \in SUBSET D : t \subseteq s /\ t # s => t \in Good
      PROVE  s \in Good
  <2> DEFINE p == Pick(s)
  <2>1. p \in s /\ IsFiniteSet(s)
    BY <1>2, PickIs, FS_Subset
  <2>2. IsFiniteSet(Image(s)) /\ g[p] \in Image(s)
    <3>1. s \ {p} \in Good
      BY <1>2, <2>1
    <3>2. IsFiniteSet(Image(s \ {p}))
      BY <3>1
    <3>3. Image(s) = Image(s \ {p}) \cup {g[p]}
      BY <2>1
    <3> HIDE DEF Image, Good, p
    <3>4. IsFiniteSet(Image(s \ {p}) \cup {g[p]})
      BY <3>2, FS_AddElement
    <3> QED BY <3>3, <3>4
  <2>3. \A y \in Image(s) : h[y] \in Int
    OBVIOUS
  <2>4. SumFunctionOnSet(f, s) = f[p] + SumFunctionOnSet(f, s \ {p})
    BY <1>2, <2>1, SumPick
  <2>5. SumFunctionOnSet(h, Image(s)) = h[g[p]] + SumFunctionOnSet(h, Image(s) \ {g[p]})
    BY <2>2, <2>3, SumSplit
  <2>6. Image(s) \ {g[p]} = Image(s \ {p})
    BY <2>1
  <2>7. s \ {p} \in Good
    BY <1>2, <2>1
  <2> QED BY <2>1, <2>2, <2>4, <2>5, <2>6, <2>7
<1>3. \A s \in SUBSET D : s \in Good
  <2> HIDE DEF Good
  <2> QED BY <1>1, <1>2, InductionOnSubsets
<1> QED BY <1>3

=============================================================================
