----------------------------- MODULE SumProofs -----------------------------
(***************************************************************************)
(* What SumFunctionOnSet computes, for every finite set: nothing in its    *)
(* definition says that the function it recurs on exists, or that the      *)
(* order in which elements are chosen does not matter.                     *)
(*                                                                         *)
(* The induction is on subsets of a finite set: a nonempty set of them has *)
(* a smallest one.                                                         *)
(***************************************************************************)
EXTENDS Integers, FiniteSets, Functions, FiniteSetTheorems, WellFoundedInduction, TLAPS

Less == {p \in Nat \X Nat : p[1] < p[2]}

\* A nonempty set of naturals has a least element.
LEMMA MinExists ==
    ASSUME NEW S \in SUBSET Nat, S # {}
    PROVE  \E m \in S : \A n \in S : m <= n
<1>1. IsWellFoundedOn(Less, Nat)
  BY NatLessThanWellFounded DEF Less, OpToRel
<1>2. PICK m \in S : \A n \in S : ~(<<n, m>> \in Less)
  BY <1>1, WFMin
<1>3. ASSUME NEW n \in S PROVE m <= n
  <2>1. <<n, m>> \notin Less /\ n \in Nat /\ m \in Nat
    BY <1>2
  <2>2. ~(n < m)
    BY <2>1 DEF Less
  <2> QED
    BY <2>1, <2>2
<1> QED
  BY <1>3

\* Among subsets of a finite set there is one that contains no other.
LEMMA SmallestExists ==
    ASSUME NEW S, IsFiniteSet(S), NEW Bad \in SUBSET (SUBSET S), Bad # {}
    PROVE  \E s \in Bad : \A t \in Bad : t \subseteq s => t = s
<1> DEFINE N == {Cardinality(s) : s \in Bad}
<1>1. \A s \in Bad : IsFiniteSet(s) /\ Cardinality(s) \in Nat
  BY FS_Subset, FS_CardinalityType
<1>2. N \in SUBSET Nat /\ N # {}
  BY <1>1
<1>3. PICK n \in N : \A m \in N : n <= m
  <2> HIDE DEF N
  <2> QED
    BY <1>2, MinExists
<1>4. PICK s \in Bad : n = Cardinality(s)
  BY <1>3
<1>5. ASSUME NEW t \in Bad, t \subseteq s PROVE t = s
  <2>1. Cardinality(s) <= Cardinality(t) /\ Cardinality(t) \in N
    BY <1>3, <1>4
  <2>2. Cardinality(t) <= Cardinality(s) /\ (Cardinality(s) = Cardinality(t) => s = t)
    BY <1>1, <1>5, FS_Subset
  <2> QED
    BY <1>1, <2>1, <2>2
<1> QED
  BY <1>4, <1>5

-----------------------------------------------------------------------------

Pick(s) == CHOOSE x \in s : TRUE

\* g is the function that SumFunctionOnSet recurs on.
Recurs(f, S, g) ==
    g = [s \in SUBSET S |-> IF s = {} THEN 0 ELSE f[Pick(s)] + g[s \ {Pick(s)}]]

\* The sum is the value of such a function, if there is one.
LEMMA SumIsChosen ==
    ASSUME NEW f, NEW S
    PROVE  SumFunctionOnSet(f, S) = (CHOOSE g : Recurs(f, S, g))[S]
  BY DEF SumFunctionOnSet, FoldFunctionOnSet, MapThenFoldSet, Recurs, Pick

\* What the sum is made of.
Unfolds(f, s) ==
    SumFunctionOnSet(f, s)
      = IF s = {} THEN 0 ELSE f[Pick(s)] + SumFunctionOnSet(f, s \ {Pick(s)})

\* The step of the induction: the function exists on the subsets of s because the sums of
\* smaller sets unfold, and there is only one.
LEMMA UnfoldsNext ==
    ASSUME NEW f, NEW S, IsFiniteSet(S), \A t \in SUBSET S : t # S => Unfolds(f, t)
    PROVE  Unfolds(f, S)
<1> DEFINE Val(t) == IF t = {} THEN 0 ELSE f[Pick(t)] + SumFunctionOnSet(f, t \ {Pick(t)})
           g == [t \in SUBSET S |-> Val(t)]
<1>1. ASSUME NEW t \in SUBSET S, t # {} PROVE Pick(t) \in t
  BY <1>1 DEF Pick
<1>2. ASSUME NEW t \in SUBSET S, t # {}
      PROVE  g[t \ {Pick(t)}] = SumFunctionOnSet(f, t \ {Pick(t)})
  <2> DEFINE u == t \ {Pick(t)}
  <2>1. u \in SUBSET S /\ u # S
    BY <1>1, <1>2
  <2>2. SumFunctionOnSet(f, u) = Val(u)
    BY <2>1 DEF Unfolds
  <2> HIDE DEF u, Val
  <2>3. g[u] = Val(u)
    BY <2>1
  <2> QED
    BY <2>2, <2>3 DEF u
<1>3. Recurs(f, S, g)
  <2>1. ASSUME NEW t \in SUBSET S
        PROVE  Val(t) = IF t = {} THEN 0 ELSE f[Pick(t)] + g[t \ {Pick(t)}]
    <3>1. CASE t = {}
      BY <3>1
    <3>2. CASE t # {}
      <4>1. Val(t) = f[Pick(t)] + SumFunctionOnSet(f, t \ {Pick(t)})
        BY <3>2
      <4> HIDE DEF g, Val
      <4> QED
        BY <3>2, <4>1, <1>2
    <3> QED
      BY <3>1, <3>2
  <2>2. g = [t \in SUBSET S |-> Val(t)]
    OBVIOUS
  <2> HIDE DEF g, Val
  <2>3. [t \in SUBSET S |-> Val(t)]
          = [t \in SUBSET S |-> IF t = {} THEN 0 ELSE f[Pick(t)] + g[t \ {Pick(t)}]]
    BY <2>1
  <2> QED
    BY <2>2, <2>3 DEF Recurs
<1>4. PICK h : h = (CHOOSE x : Recurs(f, S, x)) /\ Recurs(f, S, h)
  <2>1. \E x : Recurs(f, S, x)
    BY <1>3
  <2> QED
    BY <2>1
<1>5. ASSUME NEW t \in SUBSET S
      PROVE  /\ h[t] = IF t = {} THEN 0 ELSE f[Pick(t)] + h[t \ {Pick(t)}]
             /\ g[t] = IF t = {} THEN 0 ELSE f[Pick(t)] + g[t \ {Pick(t)}]
  <2> HIDE DEF g
  <2> QED
    BY <1>3, <1>4 DEF Recurs
<1>6. h[S] = g[S]
  <2> DEFINE Bad == {t \in SUBSET S : h[t] # g[t]}
  <2>1. SUFFICES ASSUME Bad # {} PROVE FALSE
    <3> HIDE DEF g
    <3> QED
      OBVIOUS
  <2> HIDE DEF g
  <2>2. PICK t \in Bad : \A u \in Bad : u \subseteq t => u = t
    <3>1. Bad \in SUBSET (SUBSET S)
      OBVIOUS
    <3> HIDE DEF Bad
    <3> QED
      BY <2>1, <3>1, SmallestExists
  <2>3. t \in SUBSET S /\ h[t] # g[t]
    BY <2>2
  <2>4. t # {}
    BY <1>5, <2>3
  <2>5. Pick(t) \in t /\ t \ {Pick(t)} \in SUBSET S /\ t \ {Pick(t)} # t /\ t \ {Pick(t)} \subseteq t
    BY <1>1, <2>3, <2>4
  <2>6. t \ {Pick(t)} \notin Bad
    <3> HIDE DEF Bad
    <3> QED
      BY <2>2, <2>5
  <2>7. h[t \ {Pick(t)}] = g[t \ {Pick(t)}]
    BY <2>5, <2>6
  <2> QED
    BY <1>5, <2>3, <2>4, <2>7
<1>7. SumFunctionOnSet(f, S) = h[S]
  BY <1>4, SumIsChosen
<1>8. g[S] = Val(S)
  <2> HIDE DEF Val
  <2> QED
    OBVIOUS
<1>9. SumFunctionOnSet(f, S) = Val(S)
  BY <1>6, <1>7, <1>8
<1> QED
  BY <1>9 DEF Unfolds

\* A sum is nothing, or one chosen element and the rest.
LEMMA SumUnfolds ==
    ASSUME NEW f, NEW S, IsFiniteSet(S)
    PROVE  Unfolds(f, S)
<1> DEFINE Bad == {t \in SUBSET S : ~Unfolds(f, t)}
<1>1. SUFFICES ASSUME Bad # {} PROVE FALSE
  OBVIOUS
<1>2. PICK t \in Bad : \A u \in Bad : u \subseteq t => u = t
  <2>1. Bad \in SUBSET (SUBSET S)
    OBVIOUS
  <2> HIDE DEF Bad
  <2> QED
    BY <1>1, <2>1, SmallestExists
<1>3. t \in SUBSET S /\ ~Unfolds(f, t)
  BY <1>2
<1>4. \A u \in SUBSET t : u # t => Unfolds(f, u)
  BY <1>2, <1>3
<1>5. IsFiniteSet(t)
  BY <1>3, FS_Subset
<1> QED
  BY <1>3, <1>4, <1>5, UnfoldsNext

-----------------------------------------------------------------------------

\* Nothing adds up to zero.
LEMMA SumEmpty ==
    ASSUME NEW f
    PROVE  SumFunctionOnSet(f, {}) = 0
  BY SumUnfolds, FS_EmptySet DEF Unfolds

\* Integers add up to an integer.
LEMMA SumInt ==
    ASSUME NEW f, NEW S, IsFiniteSet(S), \A x \in S : f[x] \in Int
    PROVE  SumFunctionOnSet(f, S) \in Int
<1> DEFINE Bad == {t \in SUBSET S : SumFunctionOnSet(f, t) \notin Int}
<1>1. SUFFICES ASSUME Bad # {} PROVE FALSE
  OBVIOUS
<1>2. PICK t \in Bad : \A u \in Bad : u \subseteq t => u = t
  <2>1. Bad \in SUBSET (SUBSET S)
    OBVIOUS
  <2> HIDE DEF Bad
  <2> QED
    BY <1>1, <2>1, SmallestExists
<1>3. t \in SUBSET S /\ SumFunctionOnSet(f, t) \notin Int
  BY <1>2
<1>4. t # {}
  BY <1>3, SumEmpty
<1>5. Pick(t) \in t /\ t \ {Pick(t)} # t
  BY <1>4 DEF Pick
<1>6. SumFunctionOnSet(f, t \ {Pick(t)}) \in Int
  BY <1>2, <1>3, <1>5
<1>7. SumFunctionOnSet(f, t) = f[Pick(t)] + SumFunctionOnSet(f, t \ {Pick(t)})
  BY <1>3, <1>4, FS_Subset, SumUnfolds DEF Unfolds
<1> QED
  BY <1>3, <1>5, <1>6, <1>7

\* Any element may be taken first.
LEMMA SumRemove ==
    ASSUME NEW f, NEW S, IsFiniteSet(S), \A x \in S : f[x] \in Int, NEW x \in S
    PROVE  SumFunctionOnSet(f, S) = f[x] + SumFunctionOnSet(f, S \ {x})
<1> DEFINE Sum(t) == SumFunctionOnSet(f, t)
           Bad == {t \in SUBSET S : \E y \in t : Sum(t) # f[y] + Sum(t \ {y})}
<1>1. SUFFICES ASSUME Bad # {} PROVE FALSE
  <2>1. S \notin Bad
    BY <1>1
  <2> QED
    BY <2>1
<1>2. PICK t \in Bad : \A u \in Bad : u \subseteq t => u = t
  <2>1. Bad \in SUBSET (SUBSET S)
    OBVIOUS
  <2> HIDE DEF Bad
  <2> QED
    BY <1>1, <2>1, SmallestExists
<1>3. t \in SUBSET S
  BY <1>2
<1>4. PICK y \in t : Sum(t) # f[y] + Sum(t \ {y})
  BY <1>2
<1> DEFINE z == Pick(t)
           r == t \ {y, z}
<1>5. z \in t /\ Sum(t) = f[z] + Sum(t \ {z})
  <2>1. IsFiniteSet(t)
    BY <1>3, FS_Subset
  <2> QED
    BY <1>4, <2>1, SumUnfolds DEF Unfolds, Pick
<1>6. y # z
  BY <1>4, <1>5
<1>7. \A u \in SUBSET t : u # t => \A w \in u : Sum(u) = f[w] + Sum(u \ {w})
  <2>1. ASSUME NEW u \in SUBSET t, u # t PROVE u \notin Bad
    <3> HIDE DEF Bad
    <3> QED
      BY <1>2, <2>1
  <2> QED
    BY <2>1, <1>3
<1> HIDE DEF Sum, z
<1>8. Sum(t \ {z}) = f[y] + Sum(r)
  <2>1. (t \ {z}) \ {y} = r
    OBVIOUS
  <2>2. t \ {z} # t /\ y \in t \ {z}
    BY <1>5, <1>6
  <2> QED
    BY <1>7, <2>1, <2>2
<1>9. Sum(t \ {y}) = f[z] + Sum(r)
  <2>1. (t \ {y}) \ {z} = r
    OBVIOUS
  <2>2. t \ {y} # t /\ z \in t \ {y}
    BY <1>5, <1>6
  <2> QED
    BY <1>7, <2>1, <2>2
<1>10. Sum(r) \in Int /\ f[y] \in Int /\ f[z] \in Int
  <2>1. IsFiniteSet(r) /\ r \subseteq S
    BY <1>3, FS_Subset
  <2> QED
    BY <1>3, <1>5, <2>1, SumInt DEF Sum
<1>11. Sum(t) = f[y] + Sum(t \ {y})
  <2> HIDE DEF r
  <2> QED
    BY <1>5, <1>8, <1>9, <1>10
<1> QED
  BY <1>4, <1>11

\* One more element.
LEMMA SumAdd ==
    ASSUME NEW f, NEW S, IsFiniteSet(S), \A y \in S : f[y] \in Int,
           NEW x, x \notin S, f[x] \in Int
    PROVE  SumFunctionOnSet(f, S \cup {x}) = f[x] + SumFunctionOnSet(f, S)
<1>1. IsFiniteSet(S \cup {x}) /\ (S \cup {x}) \ {x} = S
  BY FS_AddElement
<1>2. \A y \in S \cup {x} : f[y] \in Int
  OBVIOUS
<1> QED
  BY <1>1, <1>2, SumRemove

\* Where every element is at most its counterpart, so are the sums.
LEMMA SumAtMost ==
    ASSUME NEW f, NEW g, NEW S, IsFiniteSet(S),
           \A x \in S : f[x] \in Int /\ g[x] \in Int /\ f[x] <= g[x]
    PROVE  SumFunctionOnSet(f, S) <= SumFunctionOnSet(g, S)
<1> DEFINE Bad == {t \in SUBSET S : ~(SumFunctionOnSet(f, t) <= SumFunctionOnSet(g, t))}
<1>1. SUFFICES ASSUME Bad # {} PROVE FALSE
  OBVIOUS
<1>2. PICK t \in Bad : \A u \in Bad : u \subseteq t => u = t
  <2>1. Bad \in SUBSET (SUBSET S)
    OBVIOUS
  <2> HIDE DEF Bad
  <2> QED
    BY <1>1, <2>1, SmallestExists
<1>3. t \in SUBSET S /\ ~(SumFunctionOnSet(f, t) <= SumFunctionOnSet(g, t))
  BY <1>2
<1>4. PICK x \in t : TRUE
  BY <1>3, SumEmpty
<1>5. IsFiniteSet(t) /\ IsFiniteSet(t \ {x})
  BY <1>3, FS_Subset
<1>6. SumFunctionOnSet(f, t \ {x}) <= SumFunctionOnSet(g, t \ {x})
  BY <1>2, <1>3, <1>4
<1>7. /\ SumFunctionOnSet(f, t) = f[x] + SumFunctionOnSet(f, t \ {x})
      /\ SumFunctionOnSet(g, t) = g[x] + SumFunctionOnSet(g, t \ {x})
  BY <1>3, <1>4, <1>5, SumRemove
<1>8. SumFunctionOnSet(f, t \ {x}) \in Int /\ SumFunctionOnSet(g, t \ {x}) \in Int
  BY <1>3, <1>5, SumInt
<1>9. f[x] \in Int /\ g[x] \in Int /\ f[x] <= g[x]
  BY <1>3, <1>4
<1> QED
  BY <1>3, <1>6, <1>7, <1>8, <1>9

\* Equal elements, equal sums.
LEMMA SumSame ==
    ASSUME NEW f, NEW g, NEW S, IsFiniteSet(S), \A x \in S : f[x] \in Int /\ f[x] = g[x]
    PROVE  SumFunctionOnSet(f, S) = SumFunctionOnSet(g, S)
<1>1. \A x \in S : f[x] \in Int /\ g[x] \in Int /\ f[x] <= g[x] /\ g[x] <= f[x]
  OBVIOUS
<1>2. SumFunctionOnSet(f, S) \in Int /\ SumFunctionOnSet(g, S) \in Int
  BY <1>1, SumInt
<1>3. /\ SumFunctionOnSet(f, S) <= SumFunctionOnSet(g, S)
      /\ SumFunctionOnSet(g, S) <= SumFunctionOnSet(f, S)
  BY <1>1, SumAtMost
<1> QED
  BY <1>2, <1>3

\* A sum of sums.
LEMMA SumOfTwo ==
    ASSUME NEW f, NEW g, NEW h, NEW S, IsFiniteSet(S),
           \A x \in S : g[x] \in Int /\ h[x] \in Int /\ f[x] = g[x] + h[x]
    PROVE  SumFunctionOnSet(f, S) = SumFunctionOnSet(g, S) + SumFunctionOnSet(h, S)
<1> DEFINE Bad == {t \in SUBSET S : SumFunctionOnSet(f, t)
                                      # SumFunctionOnSet(g, t) + SumFunctionOnSet(h, t)}
<1>1. SUFFICES ASSUME Bad # {} PROVE FALSE
  OBVIOUS
<1>2. PICK t \in Bad : \A u \in Bad : u \subseteq t => u = t
  <2>1. Bad \in SUBSET (SUBSET S)
    OBVIOUS
  <2> HIDE DEF Bad
  <2> QED
    BY <1>1, <2>1, SmallestExists
<1>3. /\ t \in SUBSET S
      /\ SumFunctionOnSet(f, t) # SumFunctionOnSet(g, t) + SumFunctionOnSet(h, t)
  BY <1>2
<1>4. PICK x \in t : TRUE
  BY <1>3, SumEmpty
<1>5. IsFiniteSet(t) /\ IsFiniteSet(t \ {x})
  BY <1>3, FS_Subset
<1>6. \A y \in t : f[y] \in Int /\ g[y] \in Int /\ h[y] \in Int /\ f[y] = g[y] + h[y]
  BY <1>3
<1>7. SumFunctionOnSet(f, t \ {x}) = SumFunctionOnSet(g, t \ {x}) + SumFunctionOnSet(h, t \ {x})
  BY <1>2, <1>3, <1>4
<1>8. /\ SumFunctionOnSet(f, t) = f[x] + SumFunctionOnSet(f, t \ {x})
      /\ SumFunctionOnSet(g, t) = g[x] + SumFunctionOnSet(g, t \ {x})
      /\ SumFunctionOnSet(h, t) = h[x] + SumFunctionOnSet(h, t \ {x})
  BY <1>5, <1>6, SumRemove
<1>9. SumFunctionOnSet(g, t \ {x}) \in Int /\ SumFunctionOnSet(h, t \ {x}) \in Int
  BY <1>5, <1>6, SumInt
<1> QED
  BY <1>3, <1>6, <1>7, <1>8, <1>9

\* The sum over two parts of a set.
LEMMA SumUnion ==
    ASSUME NEW f, NEW S, NEW T, IsFiniteSet(S), IsFiniteSet(T), S \cap T = {},
           \A x \in S \cup T : f[x] \in Int
    PROVE  SumFunctionOnSet(f, S \cup T) = SumFunctionOnSet(f, S) + SumFunctionOnSet(f, T)
<1> DEFINE Bad == {t \in SUBSET T : SumFunctionOnSet(f, S \cup t)
                                      # SumFunctionOnSet(f, S) + SumFunctionOnSet(f, t)}
<1>0. SumFunctionOnSet(f, S) \in Int
  BY SumInt
<1>1. SUFFICES ASSUME Bad # {} PROVE FALSE
  OBVIOUS
<1>2. PICK t \in Bad : \A u \in Bad : u \subseteq t => u = t
  <2>1. Bad \in SUBSET (SUBSET T)
    OBVIOUS
  <2> HIDE DEF Bad
  <2> QED
    BY <1>1, <2>1, SmallestExists
<1>3. t \in SUBSET T /\ SumFunctionOnSet(f, S \cup t) # SumFunctionOnSet(f, S) + SumFunctionOnSet(f, t)
  BY <1>2
<1>4. PICK x \in t : TRUE
  <2>1. t # {}
    <3>1. SUFFICES ASSUME t = {} PROVE FALSE
      OBVIOUS
    <3>2. S \cup t = S /\ SumFunctionOnSet(f, t) = 0
      BY <3>1, SumEmpty
    <3>3. SumFunctionOnSet(f, S \cup t) = SumFunctionOnSet(f, S)
      BY <3>2, Zenon
    <3> QED
      BY <1>0, <1>3, <3>2, <3>3
  <2> QED
    BY <2>1
<1>5. IsFiniteSet(t) /\ IsFiniteSet(t \ {x}) /\ IsFiniteSet(S \cup t)
  BY <1>3, FS_Subset, FS_Union
<1>6. SumFunctionOnSet(f, S \cup (t \ {x})) = SumFunctionOnSet(f, S) + SumFunctionOnSet(f, t \ {x})
  BY <1>2, <1>3, <1>4
<1>7. (S \cup t) \ {x} = S \cup (t \ {x})
  BY <1>3, <1>4
<1>8. SumFunctionOnSet(f, S \cup t) = f[x] + SumFunctionOnSet(f, S \cup (t \ {x}))
  BY <1>3, <1>4, <1>5, <1>7, SumRemove
<1>9. SumFunctionOnSet(f, t) = f[x] + SumFunctionOnSet(f, t \ {x})
  BY <1>3, <1>4, <1>5, SumRemove
<1>10. SumFunctionOnSet(f, t \ {x}) \in Int /\ f[x] \in Int
  BY <1>3, <1>4, <1>5, SumInt
<1> QED
  BY <1>0, <1>3, <1>6, <1>8, <1>9, <1>10

\* Zeros add up to zero, naturals to a natural.
LEMMA SumNat ==
    ASSUME NEW f, NEW S, IsFiniteSet(S), \A x \in S : f[x] \in Nat
    PROVE  SumFunctionOnSet(f, S) \in Nat
<1> DEFINE z == [x \in S |-> 0]
<1>1. SumFunctionOnSet(z, S) = SumFunctionOnSet(z, S) + SumFunctionOnSet(z, S)
  <2>1. \A x \in S : z[x] \in Int /\ z[x] = z[x] + z[x]
    OBVIOUS
  <2> HIDE DEF z
  <2> QED
    BY <2>1, SumOfTwo
<1>2. SumFunctionOnSet(z, S) \in Int /\ SumFunctionOnSet(f, S) \in Int
  <2>1. \A x \in S : z[x] \in Int /\ f[x] \in Int
    OBVIOUS
  <2> HIDE DEF z
  <2> QED
    BY <2>1, SumInt
<1>3. SumFunctionOnSet(z, S) <= SumFunctionOnSet(f, S)
  <2>1. \A x \in S : z[x] \in Int /\ f[x] \in Int /\ z[x] <= f[x]
    OBVIOUS
  <2> HIDE DEF z
  <2> QED
    BY <2>1, SumAtMost
<1> HIDE DEF z
<1> QED
  BY <1>1, <1>2, <1>3

\* A part of a sum of naturals is at most the whole.
LEMMA SumOfPart ==
    ASSUME NEW f, NEW S, NEW T \in SUBSET S, IsFiniteSet(S), \A x \in S : f[x] \in Nat
    PROVE  SumFunctionOnSet(f, T) <= SumFunctionOnSet(f, S)
<1>1. IsFiniteSet(T) /\ IsFiniteSet(S \ T) /\ T \cap (S \ T) = {} /\ T \cup (S \ T) = S
  BY FS_Subset
<1>2. SumFunctionOnSet(f, S) = SumFunctionOnSet(f, T) + SumFunctionOnSet(f, S \ T)
  BY <1>1, SumUnion
<1>3. SumFunctionOnSet(f, T) \in Nat /\ SumFunctionOnSet(f, S \ T) \in Nat
  BY <1>1, SumNat
<1> QED
  BY <1>2, <1>3

\* Two sums are in the order of their elements when different elements have different
\* counterparts.
LEMMA SumInjected ==
    ASSUME NEW f, NEW g, NEW S, NEW T, IsFiniteSet(S), IsFiniteSet(T), NEW m \in [S -> T],
           \A x, y \in S : m[x] = m[y] => x = y,
           \A x \in S : f[x] = g[m[x]],
           \A y \in T : g[y] \in Nat
    PROVE  SumFunctionOnSet(f, S) <= SumFunctionOnSet(g, T)
<1> DEFINE Image(s) == {m[x] : x \in s}
           Bad == {s \in SUBSET S : SumFunctionOnSet(f, s) # SumFunctionOnSet(g, Image(s))}
<1>1. Image(S) \in SUBSET T
  OBVIOUS
<1>2. SUFFICES ASSUME Bad # {} PROVE FALSE
  <2>1. SumFunctionOnSet(f, S) = SumFunctionOnSet(g, Image(S))
    BY <1>2
  <2>2. SumFunctionOnSet(g, Image(S)) <= SumFunctionOnSet(g, T)
    <3> HIDE DEF Image
    <3> QED
      BY <1>1, SumOfPart
  <2> QED
    BY <2>1, <2>2
<1>3. PICK t \in Bad : \A u \in Bad : u \subseteq t => u = t
  <2>1. Bad \in SUBSET (SUBSET S)
    OBVIOUS
  <2> HIDE DEF Bad
  <2> QED
    BY <1>2, <2>1, SmallestExists
<1>4. t \in SUBSET S /\ SumFunctionOnSet(f, t) # SumFunctionOnSet(g, Image(t))
  BY <1>3
<1>5. PICK x \in t : TRUE
  <2>1. SUFFICES ASSUME t = {} PROVE FALSE
    OBVIOUS
  <2>2. SumFunctionOnSet(f, t) = 0
    BY <2>1, SumEmpty
  <2>3. Image(t) = {}
    BY <2>1
  <2>4. SumFunctionOnSet(g, Image(t)) = 0
    BY <2>3, SumEmpty
  <2> QED
    BY <1>4, <2>2, <2>4
<1>6. IsFiniteSet(t) /\ IsFiniteSet(t \ {x}) /\ IsFiniteSet(Image(t)) /\ Image(t) \subseteq T
  <2>1. Image(t) \in SUBSET T
    BY <1>4
  <2> HIDE DEF Image
  <2> QED
    BY <1>4, <2>1, FS_Subset
<1>7. Image(t) \ {m[x]} = Image(t \ {x}) /\ m[x] \in Image(t)
  BY <1>4, <1>5
<1>8. SumFunctionOnSet(f, t \ {x}) = SumFunctionOnSet(g, Image(t \ {x}))
  BY <1>3, <1>4, <1>5
<1>9. \A y \in t : f[y] \in Int
  BY <1>4
<1>10. \A y \in Image(t) : g[y] \in Int
  <2> HIDE DEF Image
  <2> QED
    BY <1>6
<1>11. SumFunctionOnSet(f, t) = f[x] + SumFunctionOnSet(f, t \ {x})
  BY <1>5, <1>6, <1>9, SumRemove
<1>12. SumFunctionOnSet(g, Image(t)) = g[m[x]] + SumFunctionOnSet(g, Image(t) \ {m[x]})
  <2> HIDE DEF Image
  <2> QED
    BY <1>6, <1>7, <1>10, SumRemove
<1>13. f[x] = g[m[x]]
  BY <1>4, <1>5
<1> HIDE DEF Image
<1> QED
  BY <1>4, <1>7, <1>8, <1>11, <1>12, <1>13

\* Elements that are zero do not count.
LEMMA SumZero ==
    ASSUME NEW f, NEW S, IsFiniteSet(S), \A x \in S : f[x] = 0
    PROVE  SumFunctionOnSet(f, S) = 0
<1>1. \A x \in S : f[x] \in Int /\ f[x] = f[x] + f[x]
  OBVIOUS
<1>2. SumFunctionOnSet(f, S) = SumFunctionOnSet(f, S) + SumFunctionOnSet(f, S)
  BY <1>1, SumOfTwo
<1>3. SumFunctionOnSet(f, S) \in Int
  BY <1>1, SumInt
<1> QED
  BY <1>2, <1>3, SMTT(30)

\* What is taken from the elements of D is taken from the sum.
LEMMA SumLess ==
    ASSUME NEW f, NEW g, NEW d, NEW S, NEW D, IsFiniteSet(S),
           \A x \in S : f[x] \in Int /\ g[x] \in Int,
           \A x \in S \cap D : d[x] \in Int /\ f[x] = g[x] + d[x],
           \A x \in S \ D : f[x] = g[x]
    PROVE  /\ SumFunctionOnSet(f, S) = SumFunctionOnSet(g, S) + SumFunctionOnSet(d, D \cap S)
           /\ SumFunctionOnSet(d, D \cap S) \in Int
<1> DEFINE A == D \cap S
           B == S \ D
<1>1. IsFiniteSet(A) /\ IsFiniteSet(B) /\ A \cup B = S /\ A \cap B = {}
  <2>1. A \in SUBSET S /\ B \in SUBSET S
    OBVIOUS
  <2>2. A \cup B = S /\ A \cap B = {}
    OBVIOUS
  <2> HIDE DEF A, B
  <2> QED
    BY <2>1, <2>2, FS_Subset
<1>2. \A x \in A : f[x] \in Int /\ g[x] \in Int /\ d[x] \in Int /\ f[x] = g[x] + d[x]
  OBVIOUS
<1>3. \A x \in B : f[x] \in Int /\ g[x] \in Int /\ f[x] = g[x]
  OBVIOUS
<1> HIDE DEF A, B
<1>4. /\ SumFunctionOnSet(f, S) = SumFunctionOnSet(f, A) + SumFunctionOnSet(f, B)
      /\ SumFunctionOnSet(g, S) = SumFunctionOnSet(g, A) + SumFunctionOnSet(g, B)
  <2>1. \A x \in A \cup B : f[x] \in Int /\ g[x] \in Int
    BY <1>2, <1>3
  <2>2. /\ SumFunctionOnSet(f, A \cup B) = SumFunctionOnSet(f, A) + SumFunctionOnSet(f, B)
        /\ SumFunctionOnSet(g, A \cup B) = SumFunctionOnSet(g, A) + SumFunctionOnSet(g, B)
    BY <1>1, <2>1, SumUnion
  <2> QED
    BY <1>1, <2>2, Zenon
<1>5. SumFunctionOnSet(f, A) = SumFunctionOnSet(g, A) + SumFunctionOnSet(d, A)
  BY <1>1, <1>2, SumOfTwo
<1>6. SumFunctionOnSet(f, B) = SumFunctionOnSet(g, B)
  BY <1>1, <1>3, SumSame
<1>7. /\ SumFunctionOnSet(g, A) \in Int /\ SumFunctionOnSet(d, A) \in Int
      /\ SumFunctionOnSet(g, B) \in Int
  BY <1>1, <1>2, <1>3, SumInt
<1>8. SumFunctionOnSet(f, S) = SumFunctionOnSet(g, S) + SumFunctionOnSet(d, A)
  BY <1>4, <1>5, <1>6, <1>7
<1> QED
  BY <1>7, <1>8 DEF A

\* One element is its own sum.
LEMMA SumSingleton ==
    ASSUME NEW f, NEW x, NEW n \in Int, f[x] = n
    PROVE  SumFunctionOnSet(f, {x}) = n
<1>1. IsFiniteSet({x}) /\ {x} \ {x} = {} /\ \A y \in {x} : f[y] \in Int
  BY FS_Singleton
<1>2. SumFunctionOnSet(f, {x}) = f[x] + SumFunctionOnSet(f, {x} \ {x})
  BY <1>1, SumRemove
<1>3. SumFunctionOnSet(f, {x} \ {x}) = 0
  BY <1>1, SumEmpty
<1> QED
  BY <1>2, <1>3

=============================================================================
