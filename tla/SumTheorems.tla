---- MODULE SumTheorems ----
(***************************************************************************)
(* What MapThenSumSet computes, for finite sets of any size.  Induction    *)
(* over a finite set is a choice among its subsets: of those for which a   *)
(* statement fails a smallest one exists (WFMin), and one element less     *)
(* makes it hold.                                                          *)
(***************************************************************************)
EXTENDS Integers, Sequences, FiniteSets, FiniteSetsExt, SequencesExt, FiniteSetTheorems, WellFoundedInduction, TLAPS

\* The sum of f over S, and the recursion MapThenSumSet defines it by.
Total(f, S) == MapThenSumSet(LAMBDA x : f[x], S)
Pick(s) == CHOOSE x \in s : TRUE
Sums(f, S, g) == g = [s \in SUBSET S |-> IF s = {} THEN 0 ELSE f[Pick(s)] + g[s \ {Pick(s)}]]

(* Among some subsets of a finite set there is a smallest one.               *)
LEMMA Smallest ==
    ASSUME NEW S, IsFiniteSet(S), NEW T, T \subseteq SUBSET S, T # {}
    PROVE  \E s \in T : \A t \in T : t \subseteq s => t = s
<1>1. IsWellFoundedOn(StrictSubsetOrdering(S), SUBSET S)
  BY FS_StrictSubsetOrderingWellFounded, FS_FiniteSubsetsOfFinite
<1>2. PICK s \in T : \A t \in T : ~ (<<t, s>> \in StrictSubsetOrdering(S))
  BY <1>1, WFMin
<1>3. ASSUME NEW t \in T, t \subseteq s
      PROVE  t = s
  BY <1>2, <1>3 DEF StrictSubsetOrdering
<1> QED
  BY <1>3

LEMMA Picked == \A s : s # {} => Pick(s) \in s
BY DEF Pick

(* Two sums of the same numbers agree wherever both are defined.             *)
LEMMA SumsUnique ==
    ASSUME NEW f, NEW S, NEW h, NEW T, NEW g, Sums(f, S, g), Sums(f, T, h),
           NEW s \in SUBSET S, s \subseteq T, IsFiniteSet(s)
    PROVE  g[s] = h[s]
<1> DEFINE Bad == {t \in SUBSET s : g[t] # h[t]}
<1>1. SUFFICES ASSUME Bad # {}
               PROVE  FALSE
  BY <1>1
<1>2. PICK b \in Bad : \A t \in Bad : t \subseteq b => t = b
  <2>1. Bad \subseteq SUBSET s
    OBVIOUS
  <2> HIDE DEF Bad
  <2> QED
    BY <1>1, <2>1, Smallest
<1>3. g[b] = IF b = {} THEN 0 ELSE f[Pick(b)] + g[b \ {Pick(b)}]
  BY <1>2 DEF Sums
<1>4. h[b] = IF b = {} THEN 0 ELSE f[Pick(b)] + h[b \ {Pick(b)}]
  BY <1>2 DEF Sums
<1>5. b # {}
  BY <1>2, <1>3, <1>4
<1>6. b \ {Pick(b)} \in SUBSET s /\ b \ {Pick(b)} # b
  BY <1>2, <1>5, Picked
<1>7. g[b \ {Pick(b)}] = h[b \ {Pick(b)}]
  BY <1>2, <1>6
<1> QED
  BY <1>2, <1>3, <1>4, <1>5, <1>7

(* A sum for a set is one for its subsets.                                   *)
LEMMA SumsRestrict ==
    ASSUME NEW f, NEW S, NEW g, Sums(f, S, g), NEW T \in SUBSET S
    PROVE  Sums(f, T, [s \in SUBSET T |-> g[s]])
<1> DEFINE r == [s \in SUBSET T |-> g[s]]
<1>1. ASSUME NEW s \in SUBSET T
      PROVE  r[s] = IF s = {} THEN 0 ELSE f[Pick(s)] + r[s \ {Pick(s)}]
  <2>1. g[s] = IF s = {} THEN 0 ELSE f[Pick(s)] + g[s \ {Pick(s)}]
    BY DEF Sums
  <2> QED
    BY <2>1
<1> QED
  BY <1>1 DEF Sums

(* Every finite set has a sum: the sums of its proper subsets, put together. *)
LEMMA SumsExist ==
    ASSUME NEW f, NEW S, IsFiniteSet(S)
    PROVE  \E g : Sums(f, S, g)
<1> DEFINE Bad == {t \in SUBSET S : ~ \E g : Sums(f, t, g)}
<1>1. SUFFICES ASSUME Bad # {}
               PROVE  FALSE
  BY <1>1
<1>2. PICK b \in Bad : \A t \in Bad : t \subseteq b => t = b
  <2>1. Bad \subseteq SUBSET S
    OBVIOUS
  <2> HIDE DEF Bad
  <2> QED
    BY <1>1, <2>1, Smallest
<1> DEFINE below(t) == CHOOSE g : Sums(f, t, g)
           less(t) == IF t = {} THEN 0 ELSE f[Pick(t)] + below(t \ {Pick(t)})[t \ {Pick(t)}]
           G == [t \in SUBSET b |-> less(t)]
<1>3. ASSUME NEW t \in SUBSET b, t # b
      PROVE  Sums(f, t, below(t)) /\ IsFiniteSet(t)
  BY <1>2, <1>3, FS_Subset
<1>4. ASSUME NEW t \in SUBSET b, t # b
      PROVE  below(t)[t] = less(t)
  <2>1. CASE t = {}
    <3> HIDE DEF below
    <3>1. Sums(f, t, below(t))
      BY <1>3, <1>4
    <3> QED
      BY <2>1, <3>1 DEF Sums
  <2>2. CASE t # {}
    <3> DEFINE u == t \ {Pick(t)}
    <3>1. u \in SUBSET t /\ u \in SUBSET b /\ u # b
      BY <1>4, <2>2, Picked
    <3>2. Sums(f, t, below(t)) /\ Sums(f, u, below(u)) /\ IsFiniteSet(u)
      <4> HIDE DEF below, u
      <4> QED BY <1>3, <1>4, <3>1
    <3>3. below(t)[u] = below(u)[u]
      <4> HIDE DEF below, u
      <4> QED BY <3>1, <3>2, SumsUnique
    <3>4. below(t)[t] = f[Pick(t)] + below(t)[u]
      <4> HIDE DEF below
      <4> QED BY <3>2, <2>2 DEF Sums
    <3> QED
      BY <3>3, <3>4, <2>2
  <2> QED
    BY <2>1, <2>2
<1>5. ASSUME NEW t \in SUBSET b
      PROVE  G[t] = IF t = {} THEN 0 ELSE f[Pick(t)] + G[t \ {Pick(t)}]
  <2>1. CASE t = {}
    BY <2>1
  <2>2. CASE t # {}
    <3>1. t \ {Pick(t)} \in SUBSET b /\ t \ {Pick(t)} # b
      BY <2>2, Picked
    <3>2. G[t \ {Pick(t)}] = below(t \ {Pick(t)})[t \ {Pick(t)}]
      BY <3>1, <1>4
    <3>3. G[t] = less(t)
      OBVIOUS
    <3> QED
      BY <3>2, <3>3, <2>2
  <2> QED
    BY <2>1, <2>2
<1>6. Sums(f, b, G)
  <2> HIDE DEF less
  <2>1. G = [t \in SUBSET b |-> G[t]]
    OBVIOUS
  <2> HIDE DEF G
  <2> QED
    BY <1>5, <2>1 DEF Sums
<1> QED
  BY <1>2, <1>6

(* Total is that sum.                                                        *)
LEMMA TotalSums ==
    ASSUME NEW f, NEW S, IsFiniteSet(S), NEW g, Sums(f, S, g)
    PROVE  Total(f, S) = g[S]
<1> DEFINE h == CHOOSE k : Sums(f, S, k)
<1>1. Total(f, S) = h[S]
  BY DEF Total, MapThenSumSet, MapThenFoldSet, Sums, Pick
<1>2. Sums(f, S, h)
  OBVIOUS
<1> HIDE DEF h
<1> QED
  BY <1>1, <1>2, SumsUnique

(***************************************************************************)
(* Sums of finite sets.                                                    *)
(***************************************************************************)
LEMMA TotalEmpty == \A f : Total(f, {}) = 0
<1>1. ASSUME NEW f
      PROVE  Total(f, {}) = 0
  <2>1. PICK g : Sums(f, {}, g)
    BY SumsExist, FS_EmptySet
  <2>2. Total(f, {}) = g[{}]
    BY <2>1, TotalSums, FS_EmptySet
  <2>3. g[{}] = 0
    BY <2>1 DEF Sums
  <2> QED
    BY <2>2, <2>3
<1> QED
  BY <1>1

LEMMA TotalPick ==
    ASSUME NEW f, NEW S, IsFiniteSet(S), S # {}
    PROVE  /\ Pick(S) \in S /\ IsFiniteSet(S \ {Pick(S)})
           /\ Total(f, S) = f[Pick(S)] + Total(f, S \ {Pick(S)})
<1> DEFINE T == S \ {Pick(S)}
<1>1. T \in SUBSET S /\ Pick(S) \in S /\ IsFiniteSet(T)
  BY Picked, FS_Subset
<1>2. PICK g : Sums(f, S, g)
  BY SumsExist
<1>3. g[S] = f[Pick(S)] + g[T]
  BY <1>2 DEF Sums
<1>4. Total(f, T) = g[T]
  <2> DEFINE r == [s \in SUBSET T |-> g[s]]
  <2> HIDE DEF T
  <2>1. Sums(f, T, r)
    BY <1>1, <1>2, SumsRestrict
  <2>2. r[T] = g[T]
    OBVIOUS
  <2> HIDE DEF r
  <2> QED
    BY <1>1, <2>1, <2>2, TotalSums
<1> QED
  BY <1>1, <1>2, <1>3, <1>4, TotalSums

(* A sum of integers is an integer.                                          *)
LEMMA TotalInt ==
    ASSUME NEW f, NEW S, IsFiniteSet(S), \A x \in S : f[x] \in Int
    PROVE  Total(f, S) \in Int
<1> DEFINE Bad == {t \in SUBSET S : Total(f, t) \notin Int}
<1>1. SUFFICES ASSUME Bad # {}
               PROVE  FALSE
  BY <1>1
<1>2. PICK b \in Bad : \A t \in Bad : t \subseteq b => t = b
  <2>1. Bad \subseteq SUBSET S
    OBVIOUS
  <2> HIDE DEF Bad
  <2> QED
    BY <1>1, <2>1, Smallest
<1>3. IsFiniteSet(b) /\ b \in SUBSET S
  BY <1>2, FS_Subset
<1>4. CASE b = {}
  BY <1>2, <1>4, TotalEmpty
<1>5. CASE b # {}
  <2>1. /\ Pick(b) \in b /\ Total(f, b) = f[Pick(b)] + Total(f, b \ {Pick(b)})
    BY <1>3, <1>5, TotalPick
  <2>2. Total(f, b \ {Pick(b)}) \in Int
    BY <1>2, <1>3, <2>1
  <2> QED
    BY <1>2, <1>3, <2>1, <2>2
<1> QED
  BY <1>4, <1>5

(* It does not matter which element is taken first.                          *)
LEMMA TotalRemove ==
    ASSUME NEW f, NEW S, IsFiniteSet(S), \A x \in S : f[x] \in Int, NEW e \in S
    PROVE  Total(f, S) = f[e] + Total(f, S \ {e})
<1> DEFINE Bad == {t \in SUBSET S : \E x \in t : Total(f, t) # f[x] + Total(f, t \ {x})}
<1>1. SUFFICES ASSUME Bad # {}
               PROVE  FALSE
  BY <1>1
<1>2. PICK b \in Bad : \A t \in Bad : t \subseteq b => t = b
  <2>1. Bad \subseteq SUBSET S
    OBVIOUS
  <2> HIDE DEF Bad
  <2> QED
    BY <1>1, <2>1, Smallest
<1>3. PICK x \in b : Total(f, b) # f[x] + Total(f, b \ {x})
  BY <1>2
<1> DEFINE p == Pick(b)
<1>4. IsFiniteSet(b) /\ b \in SUBSET S
  BY <1>2, FS_Subset
<1>5. /\ p \in b /\ Total(f, b) = f[p] + Total(f, b \ {p})
  BY <1>3, <1>4, TotalPick
<1> HIDE DEF p
<1>6. x # p
  BY <1>3, <1>5
<1>7. Total(f, b \ {p}) = f[x] + Total(f, (b \ {p}) \ {x})
  <2>1. b \ {p} \notin Bad
    BY <1>2, <1>5
  <2> QED
    BY <1>4, <1>6, <2>1
<1>8. Total(f, b \ {x}) = f[p] + Total(f, (b \ {x}) \ {p})
  <2>1. b \ {x} \notin Bad
    BY <1>2, <1>3
  <2> QED
    BY <1>4, <1>5, <1>6, <2>1
<1> DEFINE rest == (b \ {x}) \ {p}
<1>9. (b \ {p}) \ {x} = rest
  OBVIOUS
<1>10. f[x] \in Int /\ f[p] \in Int /\ Total(f, rest) \in Int
  <2>1. (b \ {x}) \ {p} \in SUBSET b
    OBVIOUS
  <2>2. IsFiniteSet((b \ {x}) \ {p})
    BY <1>4, <2>1, FS_Subset
  <2>3. Total(f, (b \ {x}) \ {p}) \in Int
    BY <1>4, <2>2, TotalInt
  <2> QED
    BY <1>3, <1>4, <1>5, <2>3
<1>11. /\ Total(f, b \ {p}) = f[x] + Total(f, rest)
       /\ Total(f, b \ {x}) = f[p] + Total(f, rest)
  BY <1>7, <1>8, <1>9
<1> HIDE DEF rest
<1>12. f[p] + (f[x] + Total(f, rest)) = f[x] + (f[p] + Total(f, rest))
  BY <1>10
<1> QED
  BY <1>3, <1>5, <1>11, <1>12

LEMMA TotalAdd ==
    ASSUME NEW f, NEW S, IsFiniteSet(S), \A x \in S : f[x] \in Int, NEW e, e \notin S, f[e] \in Int
    PROVE  Total(f, S \cup {e}) = Total(f, S) + f[e]
<1>1. IsFiniteSet(S \cup {e}) /\ (S \cup {e}) \ {e} = S
  BY FS_AddElement
<1>2. Total(f, S \cup {e}) = f[e] + Total(f, (S \cup {e}) \ {e})
  <2> DEFINE T == S \cup {e}
  <2>1. e \in T /\ \A x \in T : f[x] \in Int
    OBVIOUS
  <2> HIDE DEF T
  <2> QED
    BY <1>1, <2>1, TotalRemove DEF T
<1>3. Total(f, S) \in Int
  BY TotalInt
<1>4. Total(f, S \cup {e}) = f[e] + Total(f, S)
  BY <1>1, <1>2
<1> QED
  BY <1>3, <1>4

(* Only the numbers of the set count.                                        *)
LEMMA TotalSame ==
    ASSUME NEW f, NEW h, NEW S, IsFiniteSet(S), \A x \in S : f[x] = h[x]
    PROVE  Total(f, S) = Total(h, S)
<1> DEFINE Bad == {t \in SUBSET S : Total(f, t) # Total(h, t)}
<1>1. SUFFICES ASSUME Bad # {}
               PROVE  FALSE
  BY <1>1
<1>2. PICK b \in Bad : \A t \in Bad : t \subseteq b => t = b
  <2>1. Bad \subseteq SUBSET S
    OBVIOUS
  <2> HIDE DEF Bad
  <2> QED
    BY <1>1, <2>1, Smallest
<1>3. IsFiniteSet(b) /\ b \in SUBSET S
  BY <1>2, FS_Subset
<1>4. CASE b = {}
  BY <1>2, <1>4, TotalEmpty
<1>5. CASE b # {}
  <2>1. /\ Pick(b) \in b /\ Total(f, b) = f[Pick(b)] + Total(f, b \ {Pick(b)})
    BY <1>3, <1>5, TotalPick
  <2>2. Total(h, b) = h[Pick(b)] + Total(h, b \ {Pick(b)})
    BY <1>3, <1>5, TotalPick
  <2>3. Total(f, b \ {Pick(b)}) = Total(h, b \ {Pick(b)})
    BY <1>2, <1>3, <2>1
  <2> QED
    BY <1>2, <1>3, <2>1, <2>2, <2>3
<1> QED
  BY <1>4, <1>5

(* One number changes.                                                       *)
LEMMA TotalUpdate ==
    ASSUME NEW f, NEW h, NEW S, IsFiniteSet(S), NEW e \in S,
           \A x \in S : f[x] \in Int /\ h[x] \in Int,
           \A x \in S \ {e} : h[x] = f[x]
    PROVE  Total(h, S) = Total(f, S) - f[e] + h[e]
<1> DEFINE T == S \ {e}
<1>1. IsFiniteSet(T) /\ \A x \in T : h[x] = f[x] /\ f[x] \in Int
  BY FS_RemoveElement
<1>2. Total(f, S) = f[e] + Total(f, T) /\ Total(h, S) = h[e] + Total(h, T)
  BY TotalRemove
<1> HIDE DEF T
<1>3. Total(h, T) = Total(f, T) /\ Total(f, T) \in Int
  BY <1>1, TotalSame, TotalInt
<1>4. f[e] \in Int /\ h[e] \in Int
  OBVIOUS
<1> QED
  BY <1>2, <1>3, <1>4

(* Equal numbers.                                                            *)
LEMMA TotalConst ==
    ASSUME NEW f, NEW S, IsFiniteSet(S), NEW c \in Int, \A x \in S : f[x] = c
    PROVE  Total(f, S) = c * Cardinality(S)
<1> DEFINE Bad == {t \in SUBSET S : Total(f, t) # c * Cardinality(t)}
<1>1. SUFFICES ASSUME Bad # {}
               PROVE  FALSE
  BY <1>1
<1>2. PICK b \in Bad : \A t \in Bad : t \subseteq b => t = b
  <2>1. Bad \subseteq SUBSET S
    OBVIOUS
  <2> HIDE DEF Bad
  <2> QED
    BY <1>1, <2>1, Smallest
<1>3. IsFiniteSet(b) /\ b \in SUBSET S
  BY <1>2, FS_Subset
<1>4. CASE b = {}
  BY <1>2, <1>4, TotalEmpty, FS_EmptySet
<1>5. CASE b # {}
  <2> DEFINE rest == b \ {Pick(b)}
  <2>1. /\ Pick(b) \in b /\ Total(f, b) = c + Total(f, rest)
    BY <1>3, <1>5, TotalPick
  <2>2. Total(f, rest) = c * Cardinality(rest)
    BY <1>2, <1>3, <2>1
  <2>3. Cardinality(rest) = Cardinality(b) - 1 /\ Cardinality(b) \in Nat
    BY <1>3, <2>1, FS_RemoveElement, FS_CardinalityType
  <2> HIDE DEF rest
  <2>4. \A n \in Nat : c + c * (n - 1) = c * n
    OBVIOUS
  <2> QED
    BY <1>2, <2>1, <2>2, <2>3, <2>4
<1> QED
  BY <1>4, <1>5

(* Two sets without a common element.                                        *)
LEMMA TotalUnion ==
    ASSUME NEW f, NEW S, NEW T, IsFiniteSet(S), IsFiniteSet(T), S \cap T = {},
           \A x \in S \cup T : f[x] \in Int
    PROVE  Total(f, S \cup T) = Total(f, S) + Total(f, T)
<1> DEFINE Bad == {t \in SUBSET T : Total(f, S \cup t) # Total(f, S) + Total(f, t)}
<1>1. SUFFICES ASSUME Bad # {}
               PROVE  FALSE
  BY <1>1
<1>2. PICK b \in Bad : \A t \in Bad : t \subseteq b => t = b
  <2>1. Bad \subseteq SUBSET T
    OBVIOUS
  <2> HIDE DEF Bad
  <2> QED
    BY <1>1, <2>1, Smallest
<1>3. IsFiniteSet(b) /\ b \in SUBSET T
  BY <1>2, FS_Subset
<1>4. Total(f, S) \in Int
  BY TotalInt
<1>5. CASE b = {}
  <2> DEFINE both == S \cup b
  <2>1. both = S /\ Total(f, b) = 0
    BY <1>5, TotalEmpty
  <2>2. Total(f, both) # Total(f, S) + Total(f, b)
    BY <1>2
  <2> HIDE DEF Bad, both
  <2> QED
    BY <1>4, <2>1, <2>2
<1>6. CASE b # {}
  <2>1. PICK e \in b : TRUE
    BY <1>6
  <2> DEFINE rest == b \ {e}
  <2>2. IsFiniteSet(rest) /\ IsFiniteSet(S \cup rest) /\ rest \in SUBSET T
    BY <1>3, FS_RemoveElement, FS_Union
  <2>3. e \notin S \cup rest /\ e \notin rest /\ f[e] \in Int
    BY <1>3
  <2>4. S \cup b = (S \cup rest) \cup {e} /\ b = rest \cup {e}
    OBVIOUS
  <2>5. rest \notin Bad
    BY <1>2
  <2>6. Total(f, S \cup rest) = Total(f, S) + Total(f, rest)
    BY <2>2, <2>5
  <2> HIDE DEF rest
  <2>7. Total(f, (S \cup rest) \cup {e}) = Total(f, S \cup rest) + f[e]
    BY <2>2, <2>3, TotalAdd
  <2>8. Total(f, rest \cup {e}) = Total(f, rest) + f[e]
    BY <2>2, <2>3, TotalAdd
  <2>9. Total(f, rest) \in Int
    BY <2>2, TotalInt
  <2>10. Total(f, b) = Total(f, rest) + f[e] /\ Total(f, S \cup b) = Total(f, S) + Total(f, rest) + f[e]
    BY <2>4, <2>6, <2>7, <2>8
  <2> QED
    BY <1>2, <1>4, <2>3, <2>9, <2>10
<1> QED
  BY <1>5, <1>6

(* Numbers no smaller.                                                       *)
LEMMA TotalOrder ==
    ASSUME NEW f, NEW h, NEW S, IsFiniteSet(S),
           \A x \in S : f[x] \in Int /\ h[x] \in Int /\ f[x] <= h[x]
    PROVE  Total(f, S) <= Total(h, S)
<1> DEFINE Bad == {t \in SUBSET S : ~ Total(f, t) <= Total(h, t)}
<1>1. SUFFICES ASSUME Bad # {}
               PROVE  FALSE
  BY <1>1
<1>2. PICK b \in Bad : \A t \in Bad : t \subseteq b => t = b
  <2>1. Bad \subseteq SUBSET S
    OBVIOUS
  <2> HIDE DEF Bad
  <2> QED
    BY <1>1, <2>1, Smallest
<1>3. IsFiniteSet(b) /\ b \in SUBSET S
  BY <1>2, FS_Subset
<1>4. CASE b = {}
  BY <1>2, <1>4, TotalEmpty
<1>5. CASE b # {}
  <2> DEFINE p == Pick(b)
             rest == b \ {p}
  <2>1. p \in b /\ IsFiniteSet(rest) /\ rest \in SUBSET S
    BY <1>3, <1>5, TotalPick
  <2>2. Total(f, b) = f[p] + Total(f, rest) /\ Total(h, b) = h[p] + Total(h, rest)
    BY <1>3, <1>5, TotalPick
  <2>3. Total(f, rest) <= Total(h, rest)
    BY <1>2, <1>3, <2>1
  <2> HIDE DEF rest, p
  <2>4. Total(f, rest) \in Int /\ Total(h, rest) \in Int
    BY <2>1, TotalInt
  <2>5. f[p] \in Int /\ h[p] \in Int /\ f[p] <= h[p]
    BY <1>3, <2>1
  <2>6. ~ Total(f, b) <= Total(h, b)
    BY <1>2
  <2> QED
    BY <2>2, <2>3, <2>4, <2>5, <2>6
<1> QED
  BY <1>4, <1>5

LEMMA TotalNat ==
    ASSUME NEW f, NEW S, IsFiniteSet(S), \A x \in S : f[x] \in Nat
    PROVE  Total(f, S) \in Nat
<1> DEFINE z == [x \in S |-> 0]
<1>1. Total(z, S) = 0 * Cardinality(S)
  BY TotalConst
<1>2. Total(z, S) <= Total(f, S)
  BY TotalOrder
<1>3. Cardinality(S) \in Nat /\ Total(f, S) \in Int
  BY FS_CardinalityType, TotalInt
<1> QED
  BY <1>1, <1>2, <1>3

(* A part of the set.                                                        *)
LEMMA TotalPart ==
    ASSUME NEW f, NEW S, IsFiniteSet(S), \A x \in S : f[x] \in Nat, NEW T \in SUBSET S
    PROVE  Total(f, T) <= Total(f, S)
<1>1. IsFiniteSet(T) /\ IsFiniteSet(S \ T) /\ T \cap (S \ T) = {} /\ T \cup (S \ T) = S
  BY FS_Subset
<1>2. Total(f, S) = Total(f, T) + Total(f, S \ T)
  BY <1>1, TotalUnion
<1>3. Total(f, T) \in Nat /\ Total(f, S \ T) \in Nat
  BY <1>1, TotalNat
<1> QED
  BY <1>2, <1>3

(* The sums by key add up to the sum.                                        *)
LEMMA TotalByKey ==
    ASSUME NEW f, NEW S, IsFiniteSet(S), \A x \in S : f[x] \in Int,
           NEW key, NEW K, IsFiniteSet(K), \A x \in S : key[x] \in K,
           NEW by, \A k \in K : by[k] = Total(f, {x \in S : key[x] = k})
    PROVE  Total(by, K) = Total(f, S)
<1> DEFINE Of(t) == {x \in S : key[x] \in t}
           Bad == {t \in SUBSET K : Total(by, t) # Total(f, Of(t))}
<1>1. Of(K) = S
  OBVIOUS
<1>2. SUFFICES ASSUME Bad # {}
               PROVE  FALSE
  BY <1>1, <1>2
<1>3. PICK b \in Bad : \A t \in Bad : t \subseteq b => t = b
  <2>1. Bad \subseteq SUBSET K
    OBVIOUS
  <2> HIDE DEF Bad
  <2> QED
    BY <1>2, <2>1, Smallest
<1>4. IsFiniteSet(b) /\ b \in SUBSET K
  BY <1>3, FS_Subset
<1>5. CASE b = {}
  <2>1. Of(b) = {}
    BY <1>5
  <2> HIDE DEF Of
  <2> QED
    BY <1>3, <1>5, <2>1, TotalEmpty
<1>6. CASE b # {}
  <2> DEFINE p == Pick(b)
             rest == b \ {p}
             own == {x \in S : key[x] = p}
  <2>1. p \in b /\ IsFiniteSet(rest) /\ rest \in SUBSET K /\ Total(by, b) = by[p] + Total(by, rest)
    BY <1>4, <1>6, TotalPick
  <2>2. rest \notin Bad
    BY <1>3, <2>1
  <2>3. Total(by, rest) = Total(f, Of(rest))
    BY <2>1, <2>2
  <2>4. by[p] = Total(f, own)
    BY <1>4, <2>1
  <2>5. own \cap Of(rest) = {} /\ own \cup Of(rest) = Of(b) /\ own \in SUBSET S /\ Of(rest) \in SUBSET S
    BY <2>1
  <2>6. Total(by, b) # Total(f, Of(b))
    BY <1>3
  <2> HIDE DEF p, rest, own, Of
  <2>7. Total(f, Of(b)) = Total(f, own) + Total(f, Of(rest))
    BY <2>5, FS_Subset, TotalUnion
  <2> QED
    BY <2>1, <2>3, <2>4, <2>6, <2>7
<1> QED
  BY <1>5, <1>6

(* The numbers a function gives are the sums by key.                         *)
SumsByKey(by, K, f, S, key) == \A k \in K : by[k] = Total(f, {x \in S : key[x] = k})

(* Sums by key add up to the sum.                                            *)
LEMMA TotalKeyed ==
    ASSUME NEW f, NEW S, IsFiniteSet(S), \A x \in S : f[x] \in Int, NEW key, NEW K, IsFiniteSet(K), \A x \in S : key[x] \in K,
           NEW by, SumsByKey(by, K, f, S, key)
    PROVE  Total(by, K) = Total(f, S)
BY TotalByKey DEF SumsByKey

(* The image of a finite set is finite and no larger.                        *)
LEMMA FiniteImage ==
    ASSUME NEW S, IsFiniteSet(S), NEW f
    PROVE  IsFiniteSet({f[x] : x \in S}) /\ Cardinality({f[x] : x \in S}) <= Cardinality(S)
<1> DEFINE g == [x \in S |-> f[x]]
<1>1. g \in Surjection(S, {f[x] : x \in S})
  BY DEF Surjection
<1> QED
  BY <1>1, FS_Surjection

(* The numbers of one set are those of another, under other names.           *)
LEMMA TotalRenamed ==
    ASSUME NEW f, NEW S, IsFiniteSet(S), \A x \in S : f[x] \in Int,
           NEW name, \A x, y \in S : name[x] = name[y] => x = y,
           NEW h, \A x \in S : h[name[x]] = f[x]
    PROVE  Total(h, {name[x] : x \in S}) = Total(f, S)
<1> DEFINE Named(t) == {name[x] : x \in t}
           Bad == {t \in SUBSET S : Total(h, Named(t)) # Total(f, t)}
<1>1. SUFFICES ASSUME Bad # {}
               PROVE  FALSE
  BY <1>1
<1>2. PICK b \in Bad : \A t \in Bad : t \subseteq b => t = b
  <2>1. Bad \subseteq SUBSET S
    OBVIOUS
  <2> HIDE DEF Bad
  <2> QED
    BY <1>1, <2>1, Smallest
<1>3. IsFiniteSet(b) /\ b \in SUBSET S
  BY <1>2, FS_Subset
<1>4. CASE b = {}
  <2>1. Named(b) = {}
    BY <1>4
  <2>2. Total(h, Named(b)) # Total(f, b)
    BY <1>2
  <2> HIDE DEF Named
  <2> QED
    BY <1>4, <2>1, <2>2, TotalEmpty
<1>5. CASE b # {}
  <2> DEFINE p == Pick(b)
             rest == b \ {p}
  <2>1. p \in b /\ IsFiniteSet(rest) /\ rest \in SUBSET S /\ Total(f, b) = f[p] + Total(f, rest)
    BY <1>3, <1>5, TotalPick
  <2>2. rest \notin Bad
    BY <1>2, <2>1
  <2>3. Total(h, Named(rest)) = Total(f, rest)
    BY <2>1, <2>2
  <2>4. Named(b) = Named(rest) \cup {name[p]} /\ name[p] \notin Named(rest)
    BY <1>3, <2>1
  <2>5. Total(h, Named(b)) # Total(f, b)
    BY <1>2
  <2>6. /\ \A n \in Named(rest) : h[n] \in Int
        /\ h[name[p]] = f[p] /\ f[p] \in Int
    BY <1>3, <2>1
  <2>7. IsFiniteSet(Named(rest))
    <3> HIDE DEF rest
    <3> QED
      BY <2>1, FiniteImage
  <2> HIDE DEF p, rest, Named
  <2>8. Total(h, Named(rest) \cup {name[p]}) = Total(h, Named(rest)) + h[name[p]]
    BY <2>4, <2>6, <2>7, TotalAdd
  <2>9. Total(f, rest) \in Int
    BY <2>1, TotalInt
  <2> QED
    BY <2>1, <2>3, <2>4, <2>5, <2>6, <2>8, <2>9
<1> QED
  BY <1>4, <1>5

(* A list that names every member of a set once lists its numbers.          *)
LEMMA TotalListed ==
    ASSUME NEW B, NEW I, IsFiniteSet(I), NEW list \in [I -> B],
           \A i, j \in I : list[i] = list[j] => i = j,
           \A v \in B : \E i \in I : list[i] = v,
           NEW h, NEW f, \A i \in I : f[i] \in Int /\ h[list[i]] = f[i]
    PROVE  Total(f, I) = Total(h, B)
<1>1. B = {list[i] : i \in I}
  OBVIOUS
<1>2. Total(h, {list[i] : i \in I}) = Total(f, I)
  BY TotalRenamed
<1> QED
  BY <1>1, <1>2

(* Two sums agree when the names of one stand for names of the other with    *)
(* the same number, and the others of these have none.                       *)
LEMMA TotalMatched ==
    ASSUME NEW D, IsFiniteSet(D), NEW T, IsFiniteSet(T),
           NEW v, \A x \in D : v[x] \in Int, NEW u, \A t \in T : u[t] \in Int,
           NEW name, \A x \in D : name[x] \in T /\ u[name[x]] = v[x],
           \A x, y \in D : name[x] = name[y] => x = y,
           \A t \in T : (\A x \in D : name[x] # t) => u[t] = 0
    PROVE  Total(v, D) = Total(u, T)
<1> DEFINE I == {name[x] : x \in D}
<1>1. Total(u, I) = Total(v, D)
  BY TotalRenamed
<1>2. I \subseteq T /\ IsFiniteSet(I) /\ IsFiniteSet(T \ I)
  BY FS_Subset
<1>3. \A t \in T \ I : u[t] = 0
  OBVIOUS
<1> HIDE DEF I
<1>4. Total(u, T \ I) = 0 * Cardinality(T \ I)
  BY <1>2, <1>3, TotalConst
<1>5. Cardinality(T \ I) \in Nat
  BY <1>2, FS_CardinalityType
<1>6. T = I \cup (T \ I) /\ I \cap (T \ I) = {} /\ \A t \in I \cup (T \ I) : u[t] \in Int
  BY <1>2
<1>7. Total(u, I \cup (T \ I)) = Total(u, I) + Total(u, T \ I)
  BY <1>2, <1>6, TotalUnion
<1>8. Total(u, I) \in Int
  BY <1>2, TotalInt
<1>9. Total(u, T) = Total(u, I) + Total(u, T \ I)
  BY <1>6, <1>7, Zenon
<1>10. Total(u, T \ I) = 0
  BY <1>4, <1>5
<1> QED
  BY <1>1, <1>8, <1>9, <1>10

(* The sum over a single name.                                                *)
LEMMA TotalOne == ASSUME NEW f, NEW x, f[x] \in Int PROVE Total(f, {x}) = f[x]
<1>1. IsFiniteSet({x}) /\ Cardinality({x}) = 1
  BY FS_Singleton
<1>2. Total(f, {x}) = f[x] * Cardinality({x})
  BY <1>1, TotalConst
<1> QED
  BY <1>1, <1>2

(* The sum of multiples is the multiple of the sum, and the sum of sums that of *)
(* the sums.                                                                  *)
LEMMA TotalScaled ==
    ASSUME NEW f, NEW h, NEW S, IsFiniteSet(S), NEW c \in Int, \A x \in S : f[x] \in Int /\ h[x] = c * f[x]
    PROVE  Total(h, S) = c * Total(f, S)
<1> DEFINE Bad == {t \in SUBSET S : Total(h, t) # c * Total(f, t)}
<1>1. SUFFICES ASSUME Bad # {}
               PROVE  FALSE
  BY <1>1
<1>2. PICK b \in Bad : \A t \in Bad : t \subseteq b => t = b
  <2>1. Bad \subseteq SUBSET S
    OBVIOUS
  <2> HIDE DEF Bad
  <2> QED
    BY <1>1, <2>1, Smallest
<1>3. IsFiniteSet(b) /\ b \in SUBSET S
  BY <1>2, FS_Subset
<1>4. CASE b = {}
  BY <1>2, <1>4, TotalEmpty
<1>5. CASE b # {}
  <2> DEFINE p == Pick(b)
             rest == b \ {p}
  <2>1. p \in b /\ IsFiniteSet(rest) /\ rest \in SUBSET S
    BY <1>3, <1>5, TotalPick
  <2>2. Total(f, b) = f[p] + Total(f, rest) /\ Total(h, b) = h[p] + Total(h, rest)
    BY <1>3, <1>5, TotalPick
  <2>3. Total(h, rest) = c * Total(f, rest)
    BY <1>2, <1>3, <2>1
  <2> HIDE DEF rest, p
  <2>4. Total(f, rest) \in Int
    BY <2>1, TotalInt
  <2>5. f[p] \in Int /\ h[p] = c * f[p]
    BY <1>3, <2>1
  <2>6. Total(h, b) # c * Total(f, b)
    BY <1>2
  <2>7. \A x, y \in Int : c * x + c * y = c * (x + y)
    OBVIOUS
  <2> QED
    BY <2>2, <2>3, <2>4, <2>5, <2>6, <2>7
<1> QED
  BY <1>4, <1>5

LEMMA TotalPlus ==
    ASSUME NEW f, NEW g, NEW h, NEW S, IsFiniteSet(S), \A x \in S : f[x] \in Int /\ g[x] \in Int /\ h[x] = f[x] + g[x]
    PROVE  Total(h, S) = Total(f, S) + Total(g, S)
<1> DEFINE Bad == {t \in SUBSET S : Total(h, t) # Total(f, t) + Total(g, t)}
<1>1. SUFFICES ASSUME Bad # {}
               PROVE  FALSE
  BY <1>1
<1>2. PICK b \in Bad : \A t \in Bad : t \subseteq b => t = b
  <2>1. Bad \subseteq SUBSET S
    OBVIOUS
  <2> HIDE DEF Bad
  <2> QED
    BY <1>1, <2>1, Smallest
<1>3. IsFiniteSet(b) /\ b \in SUBSET S
  BY <1>2, FS_Subset
<1>4. CASE b = {}
  BY <1>2, <1>4, TotalEmpty
<1>5. CASE b # {}
  <2> DEFINE p == Pick(b)
             rest == b \ {p}
  <2>1. p \in b /\ IsFiniteSet(rest) /\ rest \in SUBSET S
    BY <1>3, <1>5, TotalPick
  <2>2. /\ Total(f, b) = f[p] + Total(f, rest) /\ Total(g, b) = g[p] + Total(g, rest)
        /\ Total(h, b) = h[p] + Total(h, rest)
    BY <1>3, <1>5, TotalPick
  <2>3. Total(h, rest) = Total(f, rest) + Total(g, rest)
    BY <1>2, <1>3, <2>1
  <2> HIDE DEF rest, p
  <2>4. Total(f, rest) \in Int /\ Total(g, rest) \in Int
    BY <2>1, TotalInt
  <2>5. f[p] \in Int /\ g[p] \in Int /\ h[p] = f[p] + g[p]
    BY <1>3, <2>1
  <2>6. Total(h, b) # Total(f, b) + Total(g, b)
    BY <1>2
  <2> QED
    BY <2>2, <2>3, <2>4, <2>5, <2>6
<1> QED
  BY <1>4, <1>5
-----------------------------------------------------------------------------
\* Any two of a set are comparable, and the comparison carries over.
Comparable(S, R) == \A x, y \in S : <<x, y>> \in R \/ <<y, x>> \in R
Carried(S, R) == \A x, y, z \in S : <<x, y>> \in R /\ <<y, z>> \in R => <<x, z>> \in R
\* Such a set, when finite, has a last element.
LEMMA LastOf ==
    ASSUME NEW S, IsFiniteSet(S), NEW R, Comparable(S, R), Carried(S, R), S # {}
    PROVE  \E x \in S : \A y \in S : <<y, x>> \in R
<1> DEFINE Bad == {t \in SUBSET S : t # {} /\ ~\E x \in t : \A y \in t : <<y, x>> \in R}
<1>1. Bad = {}
  <2>0. SUFFICES ASSUME Bad # {}
                 PROVE  FALSE
    BY <2>0
  <2>1. PICK t \in Bad : \A u \in Bad : u \subseteq t => u = t
    <3>1. Bad \subseteq SUBSET S
      OBVIOUS
    <3> HIDE DEF Bad
    <3> QED
      BY <2>0, <3>1, Smallest
  <2>2. PICK e \in t : TRUE
    OBVIOUS
  <2>3. t \ {e} \notin Bad
    BY <2>1, <2>2
  <2>4. e \in S /\ <<e, e>> \in R
    BY <2>2 DEF Comparable
  <2>5. CASE t \ {e} = {}
    <3>1. \A y \in t : y = e
      BY <2>5
    <3> QED
      BY <2>2, <2>4, <3>1
  <2>6. CASE t \ {e} # {}
    <3>1. PICK x \in t \ {e} : \A y \in t \ {e} : <<y, x>> \in R
      BY <2>3, <2>6
    <3>2. x \in S
      BY <3>1
    <3>3. CASE <<e, x>> \in R
      BY <3>1, <3>3
    <3>4. CASE <<x, e>> \in R
      <4>1. \A y \in t \ {e} : <<y, e>> \in R
        BY <2>4, <3>1, <3>2, <3>4 DEF Carried
      <4>2. \A y \in t : <<y, e>> \in R
        BY <2>4, <4>1
      <4> QED
        BY <2>2, <4>2
    <3> QED
      BY <2>4, <3>2, <3>3, <3>4 DEF Comparable
  <2> QED
    BY <2>5, <2>6
<1> QED
  BY <1>1

\* A list in which no element comes before its predecessor.
InOrder(s, R) == \A i, j \in DOMAIN s : i < j => <<s[i], s[j]>> \in R
\* The set can be listed so: the last element at the end of the rest.
LEMMA ListedInOrder ==
    ASSUME NEW S, IsFiniteSet(S), NEW R, Comparable(S, R), Carried(S, R)
    PROVE  \E s \in SetToSeqs(S) : InOrder(s, R)
<1> DEFINE Good(t) == \E s \in SetToSeqs(t) : InOrder(s, R)
           Bad == {t \in SUBSET S : ~Good(t)}
<1>1. Bad = {}
  <2>0. SUFFICES ASSUME Bad # {}
                 PROVE  FALSE
    BY <2>0
  <2>1. PICK t \in Bad : \A u \in Bad : u \subseteq t => u = t
    <3>1. Bad \subseteq SUBSET S
      OBVIOUS
    <3> HIDE DEF Bad
    <3> QED
      BY <2>0, <3>1, Smallest
  <2>2. IsFiniteSet(t) /\ t \subseteq S
    BY FS_Subset
  <2>3. CASE t = {}
    <3>1. Cardinality(t) = 0
      BY <2>3, FS_EmptySet
    <3> DEFINE s == [i \in 1..0 |-> 0]
    <3>2. s \in SetToSeqs(t)
      <4>1. 1..0 = {}
        OBVIOUS
      <4>2. s \in [1..0 -> t] /\ \A i, j \in 1..0 : i # j => s[i] # s[j]
        BY <4>1
      <4> HIDE DEF s
      <4> QED
        BY <3>1, <4>2 DEF SetToSeqs
    <3>3. InOrder(s, R)
      <4>1. DOMAIN s = 1..0 /\ 1..0 = {}
        OBVIOUS
      <4> HIDE DEF s
      <4>2. \A i \in DOMAIN s : FALSE
        BY <4>1
      <4> QED
        BY <4>2 DEF InOrder
    <3> QED
      BY <2>1, <3>2, <3>3
  <2>4. CASE t # {}
    <3>1. PICK m \in t : \A y \in t : <<y, m>> \in R
      BY <2>2, <2>4, LastOf DEF Comparable, Carried
    <3> DEFINE u == t \ {m}
               n == Cardinality(u)
    <3>2. n \in Nat /\ Cardinality(t) = n + 1
      <4>1. IsFiniteSet(u) /\ Cardinality(u) = Cardinality(t) - 1
        BY <2>2, <3>1, FS_RemoveElement
      <4>2. Cardinality(t) \in Nat
        BY <2>2, FS_CardinalityType
      <4> HIDE DEF u
      <4>3. n \in Nat
        BY <4>1, FS_CardinalityType
      <4> QED
        BY <4>1, <4>2, <4>3
    <3>3. u \notin Bad
      BY <2>1, <3>1
    <3>4. PICK s \in SetToSeqs(u) : InOrder(s, R)
      BY <3>3, <2>2
    <3>5. s \in [1..n -> u] /\ \A i, j \in 1..n : i # j => s[i] # s[j]
      BY <3>4, Zenon DEF SetToSeqs
    <3> HIDE DEF n
    <3> DEFINE q == [i \in 1..(n + 1) |-> IF i = n + 1 THEN m ELSE s[i]]
    <3>6. \A i \in 1..n : q[i] = s[i] /\ q[i] \in u
      BY <3>2, <3>5
    <3>7. q[n + 1] = m
      BY <3>2
    <3>8. q \in [1..(n + 1) -> t]
      BY <3>1, <3>2, <3>5
    <3>9. DOMAIN q = 1..(n + 1)
      OBVIOUS
    <3> HIDE DEF q
    <3>10. \A i \in 1..(n + 1) : i = n + 1 \/ i \in 1..n
      BY <3>2
    <3>11. \A i, j \in 1..(n + 1) : i # j => q[i] # q[j]
      BY <3>5, <3>6, <3>7, <3>10
    <3>12. q \in SetToSeqs(t)
      BY <3>2, <3>8, <3>11 DEF SetToSeqs
    <3>13. ASSUME NEW i \in 1..(n + 1), NEW j \in 1..(n + 1), i < j
           PROVE  <<q[i], q[j]>> \in R
      <4>1. i \in 1..n
        BY <3>2, <3>13
      <4>2. CASE j = n + 1
        BY <3>1, <3>6, <3>7, <4>1, <4>2
      <4>3. CASE j \in 1..n
        BY <3>4, <3>5, <3>6, <3>13, <4>1, <4>3 DEF InOrder
      <4> QED
        BY <3>10, <4>2, <4>3
    <3>14. InOrder(q, R)
      BY <3>9, <3>13 DEF InOrder
    <3> QED
      BY <2>1, <3>12, <3>14
  <2> QED
    BY <2>3, <2>4
<1> QED
  BY <1>1

\* A list of a set, without repetition, has all of it.
LEMMA ListsAll ==
    ASSUME NEW S, IsFiniteSet(S), NEW s \in SetToSeqs(S)
    PROVE  /\ Cardinality(S) \in Nat /\ s \in [1..Cardinality(S) -> S] /\ DOMAIN s = 1..Cardinality(S) /\ Len(s) = Cardinality(S)
           /\ \A i, j \in DOMAIN s : s[i] = s[j] => i = j
           /\ \A x \in S : \E i \in DOMAIN s : s[i] = x
<1> DEFINE n == Cardinality(S)
<1>1. n \in Nat
  BY FS_CardinalityType
<1>2. s \in [1..n -> S] /\ \A i, j \in 1..n : i # j => s[i] # s[j]
  BY Zenon DEF SetToSeqs
<1>3. s \in Injection(1..n, S)
  BY <1>2 DEF Injection, IsInjective
<1>4. IsFiniteSet(1..n) /\ Cardinality(1..n) = n
  BY <1>1, FS_Interval
<1>5. s \in Surjection(1..n, S)
  BY <1>3, <1>4, FS_Injection
<1>6. \A x \in S : \E i \in 1..n : s[i] = x
  BY <1>5 DEF Surjection
<1>7. Len(s) = n /\ DOMAIN s = 1..n
  BY <1>1, <1>2
<1> QED
  BY <1>1, <1>2, <1>6, <1>7

(* A finite set of numbers can be listed in order, and such a list has all.   *)
LEMMA ListedUpwards ==
    ASSUME NEW K, IsFiniteSet(K), K \subseteq Nat
    PROVE  \E q \in [1..Cardinality(K) -> K] : \A i, j \in DOMAIN q : i < j => q[i] < q[j]
<1> DEFINE R == {x \in K \X K : x[1] <= x[2]}
<1>1. \A x, y \in K : <<x, y>> \in R <=> x <= y
  OBVIOUS
<1> HIDE DEF R
<1>2. Comparable(K, R)
  <2>1. \A x, y \in K : x <= y \/ y <= x
    OBVIOUS
  <2> QED
    BY <1>1, <2>1 DEF Comparable
<1>3. Carried(K, R)
  <2>1. \A x, y, z \in K : x <= y /\ y <= z => x <= z
    OBVIOUS
  <2> QED
    BY <1>1, <2>1 DEF Carried
<1>4. PICK q \in SetToSeqs(K) : InOrder(q, R)
  BY <1>2, <1>3, ListedInOrder
<1>5. /\ q \in [1..Cardinality(K) -> K] /\ Cardinality(K) \in Nat /\ DOMAIN q = 1..Cardinality(K)
      /\ \A i, j \in DOMAIN q : q[i] = q[j] => i = j
  BY <1>4, ListsAll
<1>6. ASSUME NEW i \in DOMAIN q, NEW j \in DOMAIN q, i < j
      PROVE  q[i] < q[j]
  <2>1. q[i] \in K /\ q[j] \in K /\ q[i] \in Nat /\ q[j] \in Nat
    BY <1>5
  <2>2. q[i] <= q[j]
    BY <1>1, <1>4, <1>6, <2>1 DEF InOrder
  <2>3. q[i] # q[j]
    BY <1>5, <1>6
  <2> QED
    BY <2>1, <2>2, <2>3
<1> QED
  BY <1>5, <1>6

LEMMA UpwardsListsAll ==
    ASSUME NEW K, IsFiniteSet(K), K \subseteq Nat, NEW q \in [1..Cardinality(K) -> K],
           \A i, j \in DOMAIN q : i < j => q[i] < q[j]
    PROVE  Cardinality(K) \in Nat /\ \A k \in K : \E i \in 1..Cardinality(K) : q[i] = k
<1> DEFINE n == Cardinality(K)
<1>1. n \in Nat
  BY FS_CardinalityType
<1>2. \A i, j \in 1..n : q[i] = q[j] => i = j
  <2> TAKE i, j \in 1..n
  <2> HAVE q[i] = q[j]
  <2>1. q[i] \in Nat /\ q[j] \in Nat
    OBVIOUS
  <2>2. ~ i < j /\ ~ j < i
    BY <2>1
  <2> QED
    BY <1>1, <2>2
<1>3. q \in Injection(1..n, K)
  BY <1>2 DEF Injection, IsInjective
<1>4. IsFiniteSet(1..n) /\ Cardinality(1..n) = n
  BY <1>1, FS_Interval
<1>5. q \in Surjection(1..n, K)
  BY <1>3, <1>4, FS_Injection
<1> QED
  BY <1>1, <1>5 DEF Surjection

\* A finite set of integers has a largest one.
Numbers(S) == S \subseteq Int
LEMMA Largest == ASSUME NEW S, Numbers(S), IsFiniteSet(S), S # {}
                 PROVE  Max(S) \in S /\ \A y \in S : Max(S) >= y
<1> DEFINE Bad == {t \in SUBSET S : t # {} /\ ~\E x \in t : \A y \in t : x >= y}
<1>1. Bad = {}
  <2>0. SUFFICES ASSUME Bad # {}
                 PROVE  FALSE
    BY <2>0
  <2>1. PICK t \in Bad : \A u \in Bad : u \subseteq t => u = t
    <3>1. Bad \subseteq SUBSET S
      OBVIOUS
    <3> HIDE DEF Bad
    <3> QED
      BY <2>0, <3>1, Smallest
  <2>2. PICK e \in t : TRUE
    OBVIOUS
  <2>3. t \ {e} \notin Bad
    BY <2>1, <2>2
  <2>4. CASE t \ {e} = {}
    <3>1. e \in Int /\ \A y \in t : y = e
      BY <2>2, <2>4 DEF Numbers
    <3> QED
      BY <2>1, <2>2, <3>1
  <2>5. CASE t \ {e} # {}
    <3>1. PICK x \in t \ {e} : \A y \in t \ {e} : x >= y
      BY <2>3, <2>5
    <3>2. x \in Int /\ e \in Int /\ t \subseteq Int
      BY <2>2 DEF Numbers
    <3>3. CASE x >= e
      BY <3>1, <3>2, <3>3
    <3>4. CASE ~(x >= e)
      <4>1. \A y \in t : e >= y
        BY <3>1, <3>2, <3>4
      <4> QED
        BY <2>2, <4>1
    <3> QED
      BY <3>3, <3>4
  <2> QED
    BY <2>4, <2>5
<1>2. \E x \in S : \A y \in S : x >= y
  BY <1>1
<1> QED
  BY <1>2 DEF Max
====
