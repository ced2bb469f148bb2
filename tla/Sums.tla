-------------------------------- MODULE Sums --------------------------------
(****************************************************************************)
(* Facts about sums of a function over a finite set (SumFunctionOnSet of    *)
(* module Functions), in which the balances of the managed book, the        *)
(* budget of a session and the reserved quote are stated.                   *)
(*                                                                          *)
(* The argument replaces induction by the smallest counterexample: strict   *)
(* inclusion is well-founded on the subsets of a finite set, so a property  *)
(* that fails for some subset fails for one all of whose proper subsets     *)
(* have it.  This asks for a set of counterexamples only, never for a       *)
(* property as a parameter.                                                 *)
(****************************************************************************)
EXTENDS Functions, Integers, FiniteSets, FiniteSetTheorems, WellFoundedInduction, TLAPS

\* The recursive function behind a sum, with the element it takes out first.
PickOf(T) == CHOOSE x \in T : TRUE
IsSumTable(g, f, S) ==
   g = [T \in SUBSET S |-> IF T = {} THEN 0
          ELSE LET x == PickOf(T) IN f[x] + g[T \ {x}]]
SumTable(f, S) == CHOOSE g : IsSumTable(g, f, S)

\* What the library's definition unfolds to.
LEMMA SumDef ==
  ASSUME NEW f, NEW S PROVE SumFunctionOnSet(f, S) = SumTable(f, S)[S]
  BY DEF SumFunctionOnSet, FoldFunctionOnSet, MapThenFoldSet, IsSumTable, SumTable, PickOf

\* An element is chosen.
LEMMA PickIn == ASSUME NEW T, T # {} PROVE PickOf(T) \in T
  BY DEF PickOf

\* A property of finite sets that fails somewhere fails at a smallest set.
LEMMA SmallestSet ==
  ASSUME NEW S, IsFiniteSet(S), NEW Bad \in SUBSET SUBSET S, Bad # {}
  PROVE  \E T \in Bad : \A U \in Bad : U \subseteq T => U = T
<1>1. IsWellFoundedOn(StrictSubsetOrdering(S), SUBSET S)
  BY FS_StrictSubsetOrderingWellFounded, FS_FiniteSubsetsOfFinite
<1>2. PICK T \in Bad : \A U \in Bad : ~ (<<U, T>> \in StrictSubsetOrdering(S))
  BY <1>1, WFMin
<1>3. ASSUME NEW U \in Bad, U \subseteq T, U # T PROVE FALSE
  <2>1. <<U, T>> \in StrictSubsetOrdering(S)
    BY <1>3 DEF StrictSubsetOrdering
  <2> QED BY <1>2, <2>1
<1> QED BY <1>3

----------------------------------------------------------------------------
(* The recursion is well defined *)

\* Two tables agree wherever both are defined.
LEMMA SumUnique ==
  ASSUME NEW f, NEW S, NEW V, IsFiniteSet(S),
         NEW g, NEW h, IsSumTable(g, f, S), IsSumTable(h, f, V),
         S \subseteq V
  PROVE  \A T \in SUBSET S : g[T] = h[T]
<1> DEFINE Bad == {T \in SUBSET S : g[T] # h[T]}
<1> SUFFICES ASSUME Bad # {} PROVE FALSE
  OBVIOUS
<1>1. PICK T \in Bad : \A U \in Bad : U \subseteq T => U = T
  <2>1. Bad \in SUBSET SUBSET S
    OBVIOUS
  <2> HIDE DEF Bad
  <2> QED BY <2>1, SmallestSet
<1>2. T # {}
  BY DEF IsSumTable
<1>3. PickOf(T) \in T
  BY <1>2, PickIn
<1> DEFINE U == T \ {PickOf(T)}
<1>4. U \in SUBSET S /\ U # T /\ U \subseteq T
  BY <1>3
<1>5. g[U] = h[U]
  BY <1>1, <1>4
<1>6. g[T] = f[PickOf(T)] + g[U]
  BY <1>2 DEF IsSumTable
<1>7. h[T] = f[PickOf(T)] + h[U]
  BY <1>2 DEF IsSumTable
<1> QED BY <1>5, <1>6, <1>7

\* There is a table: its entry for a set is made from the tables of smaller sets.
LEMMA SumExists ==
  ASSUME NEW f, NEW S, IsFiniteSet(S) PROVE IsSumTable(SumTable(f, S), f, S)
<1> DEFINE Bad == {T \in SUBSET S : ~ IsSumTable(SumTable(f, T), f, T)}
<1> SUFFICES ASSUME Bad # {} PROVE FALSE
  OBVIOUS
<1>1. PICK T \in Bad : \A U \in Bad : U \subseteq T => U = T
  <2>1. Bad \in SUBSET SUBSET S
    OBVIOUS
  <2> HIDE DEF Bad
  <2> QED BY <2>1, SmallestSet
<1>2. \A V \in SUBSET T : V # T => IsSumTable(SumTable(f, V), f, V)
  BY <1>1
<1> DEFINE Val(V) == SumTable(f, V)[V]
           g == [V \in SUBSET T |-> IF V = {} THEN 0
                    ELSE f[PickOf(V)] + Val(V \ {PickOf(V)})]
<1>3. ASSUME NEW V \in SUBSET T, V # T PROVE g[V] = Val(V)
  <2>1. IsSumTable(SumTable(f, V), f, V)
    BY <1>2, <1>3
  <2>2. CASE V = {}
    BY <2>1, <2>2 DEF IsSumTable
  <2>3. CASE V # {}
    <3> DEFINE W == V \ {PickOf(V)}
    <3>1. PickOf(V) \in V
      BY <2>3, PickIn
    <3>2. W \in SUBSET T /\ W # T /\ W \subseteq V
      BY <3>1
    <3>3. IsSumTable(SumTable(f, W), f, W) /\ IsFiniteSet(W)
      BY <3>2, <1>2, FS_Subset
    <3>4. SumTable(f, W)[W] = SumTable(f, V)[W]
      BY <2>1, <3>2, <3>3, SumUnique
    <3>5. Val(V) = f[PickOf(V)] + SumTable(f, V)[W]
      BY <2>1, <2>3 DEF IsSumTable
    <3> QED BY <3>4, <3>5, <2>3
  <2> QED BY <2>2, <2>3
<1>4. IsSumTable(g, f, T)
  <2>1. ASSUME NEW V \in SUBSET T, V # {}
        PROVE  g[V] = f[PickOf(V)] + g[V \ {PickOf(V)}]
    <3>1. PickOf(V) \in V
      BY <2>1, PickIn
    <3>2. V \ {PickOf(V)} \in SUBSET T /\ V \ {PickOf(V)} # T
      BY <3>1
    <3>3. g[V \ {PickOf(V)}] = Val(V \ {PickOf(V)})
      BY <3>2, <1>3
    <3>4. g[V] = f[PickOf(V)] + Val(V \ {PickOf(V)})
      BY <2>1
    <3> QED BY <3>3, <3>4
  <2>2. g[{}] = 0
    OBVIOUS
  <2>3. g = [V \in SUBSET T |-> IF V = {} THEN 0 ELSE f[PickOf(V)] + g[V \ {PickOf(V)}]]
    <3>1. g = [V \in SUBSET T |-> g[V]]
      OBVIOUS
    <3> HIDE DEF g
    <3> QED BY <3>1, <2>1, <2>2
  <2> HIDE DEF g
  <2> QED BY <2>3 DEF IsSumTable
<1>5. IsSumTable(SumTable(f, T), f, T)
  BY <1>4 DEF SumTable
<1> QED BY <1>1, <1>5

\* The table of a set holds the sums of its parts.
LEMMA SumOfPart ==
  ASSUME NEW f, NEW S, IsFiniteSet(S), NEW W \in SUBSET S
  PROVE  SumTable(f, W)[W] = SumTable(f, S)[W]
<1>1. IsFiniteSet(W)
  BY FS_Subset
<1>2. IsSumTable(SumTable(f, S), f, S) /\ IsSumTable(SumTable(f, W), f, W)
  BY <1>1, SumExists
<1> QED BY <1>1, <1>2, SumUnique

\* The defining equation of a sum.
LEMMA SumUnfold ==
  ASSUME NEW f, NEW S, IsFiniteSet(S)
  PROVE  SumFunctionOnSet(f, S) = IF S = {} THEN 0 ELSE f[PickOf(S)] + SumFunctionOnSet(f, S \ {PickOf(S)})
<1>1. IsSumTable(SumTable(f, S), f, S)
  BY SumExists
<1>2. CASE S = {}
  BY <1>1, <1>2, SumDef DEF IsSumTable
<1>3. CASE S # {}
  <2> DEFINE W == S \ {PickOf(S)}
  <2>1. SumTable(f, S)[S] = f[PickOf(S)] + SumTable(f, S)[W]
    BY <1>1, <1>3 DEF IsSumTable
  <2>4. SumTable(f, W)[W] = SumTable(f, S)[W]
    BY SumOfPart
  <2> QED BY <1>3, <2>1, <2>4, SumDef
<1> QED BY <1>2, <1>3

----------------------------------------------------------------------------
(* Sums *)

LEMMA SumEmpty == ASSUME NEW f PROVE SumFunctionOnSet(f, {}) = 0
  BY SumUnfold, FS_EmptySet

LEMMA SumInt ==
  ASSUME NEW f, NEW S, IsFiniteSet(S), \A x \in S : f[x] \in Int
  PROVE  SumFunctionOnSet(f, S) \in Int
<1> DEFINE Bad == {T \in SUBSET S : SumFunctionOnSet(f, T) \notin Int}
<1> SUFFICES ASSUME Bad # {} PROVE FALSE
  OBVIOUS
<1>1. PICK T \in Bad : \A U \in Bad : U \subseteq T => U = T
  <2>1. Bad \in SUBSET SUBSET S
    OBVIOUS
  <2> HIDE DEF Bad
  <2> QED BY <2>1, SmallestSet
<1>2. IsFiniteSet(T)
  BY FS_Subset
<1>3. T # {}
  BY SumEmpty
<1> DEFINE x == PickOf(T)
<1>4. x \in T /\ T \ {x} \in SUBSET S /\ T \ {x} # T
  BY <1>3, PickIn
<1>5. SumFunctionOnSet(f, T \ {x}) \in Int
  BY <1>1, <1>4
<1>6. SumFunctionOnSet(f, T) = f[x] + SumFunctionOnSet(f, T \ {x})
  BY <1>2, <1>3, SumUnfold
<1> QED BY <1>4, <1>5, <1>6

\* Any element may be taken out first.
LEMMA SumRemove ==
  ASSUME NEW f, NEW S, IsFiniteSet(S), \A x \in S : f[x] \in Int, NEW x \in S
  PROVE  SumFunctionOnSet(f, S) = f[x] + SumFunctionOnSet(f, S \ {x})
<1> DEFINE Bad == {T \in SUBSET S : \E y \in T : SumFunctionOnSet(f, T) # f[y] + SumFunctionOnSet(f, T \ {y})}
<1> SUFFICES ASSUME Bad # {} PROVE FALSE
  OBVIOUS
<1>1. PICK T \in Bad : \A U \in Bad : U \subseteq T => U = T
  <2>1. Bad \in SUBSET SUBSET S
    OBVIOUS
  <2> HIDE DEF Bad
  <2> QED BY <2>1, SmallestSet
<1>2. PICK y \in T : SumFunctionOnSet(f, T) # f[y] + SumFunctionOnSet(f, T \ {y})
  BY <1>1
<1> DEFINE c == PickOf(T)
           Tc == T \ {c}
           Ty == T \ {y}
           Tyc == T \ {y, c}
<1>3. c \in T
  BY PickIn
<1>4. IsFiniteSet(T) /\ IsFiniteSet(Tyc)
  BY FS_Subset
<1>5. SumFunctionOnSet(f, T) = f[c] + SumFunctionOnSet(f, Tc)
  BY <1>4, SumUnfold
<1>6. c # y
  BY <1>2, <1>5
<1>7. SumFunctionOnSet(f, Tc) = f[y] + SumFunctionOnSet(f, Tyc)
  <2>1. Tc \in SUBSET S /\ Tc # T /\ y \in Tc /\ Tc \ {y} = Tyc
    BY <1>3, <1>6
  <2> QED BY <2>1, <1>1
<1>8. SumFunctionOnSet(f, Ty) = f[c] + SumFunctionOnSet(f, Tyc)
  <2>1. Ty \in SUBSET S /\ Ty # T /\ c \in Ty /\ Ty \ {c} = Tyc
    BY <1>3, <1>6
  <2> QED BY <2>1, <1>1
<1>9. SumFunctionOnSet(f, Tyc) \in Int
  BY <1>4, SumInt
<1> QED BY <1>2, <1>3, <1>5, <1>7, <1>8, <1>9

\* One element more.
LEMMA SumAdd ==
  ASSUME NEW f, NEW S, IsFiniteSet(S), \A y \in S : f[y] \in Int,
         NEW x, x \notin S, f[x] \in Int
  PROVE  SumFunctionOnSet(f, S \cup {x}) = f[x] + SumFunctionOnSet(f, S)
<1>1. IsFiniteSet(S \cup {x})
  BY FS_AddElement
<1>2. (S \cup {x}) \ {x} = S
  OBVIOUS
<1> QED BY <1>1, <1>2, SumRemove

\* The sum over one element.
LEMMA SumOne ==
  ASSUME NEW f, NEW x, f[x] \in Int PROVE SumFunctionOnSet(f, {x}) = f[x]
<1>1. IsFiniteSet({x}) /\ {x} \ {x} = {}
  BY FS_Singleton
<1>2. SumFunctionOnSet(f, {x}) = f[x] + SumFunctionOnSet(f, {x} \ {x})
  <2>1. \A y \in {x} : f[y] \in Int
    OBVIOUS
  <2> QED BY <1>1, <2>1, SumRemove
<1> QED BY <1>1, <1>2, SumEmpty

\* Only the values on the set matter.
LEMMA SumSame ==
  ASSUME NEW f, NEW g, NEW S, IsFiniteSet(S), \A x \in S : f[x] = g[x]
  PROVE  SumFunctionOnSet(f, S) = SumFunctionOnSet(g, S)
<1> DEFINE Bad == {T \in SUBSET S : SumFunctionOnSet(f, T) # SumFunctionOnSet(g, T)}
<1> SUFFICES ASSUME Bad # {} PROVE FALSE
  OBVIOUS
<1>1. PICK T \in Bad : \A U \in Bad : U \subseteq T => U = T
  <2>1. Bad \in SUBSET SUBSET S
    OBVIOUS
  <2> HIDE DEF Bad
  <2> QED BY <2>1, SmallestSet
<1>2. IsFiniteSet(T)
  BY FS_Subset
<1>3. T # {}
  BY SumEmpty
<1> DEFINE x == PickOf(T)
<1>4. x \in T /\ T \ {x} \in SUBSET S /\ T \ {x} # T
  BY <1>3, PickIn
<1>5. SumFunctionOnSet(f, T \ {x}) = SumFunctionOnSet(g, T \ {x})
  BY <1>1, <1>4
<1>6. SumFunctionOnSet(f, T) = f[x] + SumFunctionOnSet(f, T \ {x}) /\ SumFunctionOnSet(g, T) = g[x] + SumFunctionOnSet(g, T \ {x})
  BY <1>2, <1>3, SumUnfold
<1> QED BY <1>4, <1>5, <1>6

\* A sum of zeros.
LEMMA SumZero ==
  ASSUME NEW f, NEW S, IsFiniteSet(S), \A x \in S : f[x] = 0
  PROVE  SumFunctionOnSet(f, S) = 0
<1> DEFINE Bad == {T \in SUBSET S : SumFunctionOnSet(f, T) # 0}
<1> SUFFICES ASSUME Bad # {} PROVE FALSE
  OBVIOUS
<1>1. PICK T \in Bad : \A U \in Bad : U \subseteq T => U = T
  <2>1. Bad \in SUBSET SUBSET S
    OBVIOUS
  <2> HIDE DEF Bad
  <2> QED BY <2>1, SmallestSet
<1>2. IsFiniteSet(T) /\ T # {}
  BY FS_Subset, SumEmpty
<1> DEFINE x == PickOf(T)
<1>3. x \in T /\ T \ {x} \in SUBSET S /\ T \ {x} # T
  BY <1>2, PickIn
<1>4. SumFunctionOnSet(f, T \ {x}) = 0
  BY <1>1, <1>3
<1>5. SumFunctionOnSet(f, T) = f[x] + SumFunctionOnSet(f, T \ {x})
  BY <1>2, SumUnfold
<1> QED BY <1>3, <1>4, <1>5

\* Sums of naturals are naturals, and grow with the set.
LEMMA SumLe ==
  ASSUME NEW f, NEW S, NEW V, IsFiniteSet(V), S \subseteq V,
         \A x \in V : f[x] \in Nat
  PROVE  /\ SumFunctionOnSet(f, S) \in Nat
         /\ SumFunctionOnSet(f, S) <= SumFunctionOnSet(f, V)
<1> DEFINE Bad == {T \in SUBSET V : ~ \A U \in SUBSET T :
                      SumFunctionOnSet(f, U) \in Nat /\ SumFunctionOnSet(f, U) <= SumFunctionOnSet(f, T)}
<1> SUFFICES ASSUME Bad # {} PROVE FALSE
  OBVIOUS
<1>1. PICK T \in Bad : \A U \in Bad : U \subseteq T => U = T
  <2>1. Bad \in SUBSET SUBSET V
    OBVIOUS
  <2> HIDE DEF Bad
  <2> QED BY <2>1, SmallestSet
<1>2. IsFiniteSet(T)
  BY FS_Subset
<1>3. PICK U \in SUBSET T : ~(SumFunctionOnSet(f, U) \in Nat /\ SumFunctionOnSet(f, U) <= SumFunctionOnSet(f, T))
  BY <1>1
<1>4. T # {}
  BY <1>3, SumEmpty
<1>5. ASSUME NEW x \in T
      PROVE /\ SumFunctionOnSet(f, T) = f[x] + SumFunctionOnSet(f, T \ {x})
            /\ \A W \in SUBSET (T \ {x}) : SumFunctionOnSet(f, W) \in Nat /\ SumFunctionOnSet(f, W) <= SumFunctionOnSet(f, T \ {x})
  <2>1. T \ {x} \in SUBSET V /\ T \ {x} # T /\ T \ {x} \subseteq T
    OBVIOUS
  <2>2. T \ {x} \notin Bad
    BY <1>1, <2>1
  <2>3. SumFunctionOnSet(f, T) = f[x] + SumFunctionOnSet(f, T \ {x})
    BY <1>2, SumRemove
  <2> QED BY <2>1, <2>2, <2>3
<1>6. CASE U = T
  <2>1. PICK x \in T : TRUE
    BY <1>4
  <2>2. f[x] \in Nat /\ SumFunctionOnSet(f, T \ {x}) \in Nat
    BY <1>5, <2>1
  <2>3. SumFunctionOnSet(f, T) = f[x] + SumFunctionOnSet(f, T \ {x})
    BY <1>5
  <2>4. SumFunctionOnSet(f, T) \in Nat
    BY <2>2, <2>3
  <2> QED BY <1>3, <1>6, <2>4
<1>7. CASE U # T
  <2>1. PICK x \in T : x \notin U
    BY <1>7
  <2>2. U \in SUBSET (T \ {x})
    BY <2>1
  <2>3. f[x] \in Nat /\ SumFunctionOnSet(f, T \ {x}) \in Nat
    BY <1>5, <2>1
  <2>4. SumFunctionOnSet(f, T) = f[x] + SumFunctionOnSet(f, T \ {x})
    BY <1>5
  <2>5. SumFunctionOnSet(f, U) \in Nat /\ SumFunctionOnSet(f, U) <= SumFunctionOnSet(f, T \ {x})
    BY <1>5, <2>2
  <2>6. SumFunctionOnSet(f, U) <= SumFunctionOnSet(f, T)
    BY <2>3, <2>4, <2>5
  <2> QED BY <1>3, <2>5, <2>6
<1> QED BY <1>6, <1>7

\* Changing the value of one element of the set changes the sum by as much.
LEMMA SumUpdate ==
  ASSUME NEW f, NEW g, NEW S, IsFiniteSet(S), NEW x \in S,
         \A y \in S : f[y] \in Int, g[x] \in Int,
         \A y \in S \ {x} : g[y] = f[y]
  PROVE  SumFunctionOnSet(g, S) = SumFunctionOnSet(f, S) - f[x] + g[x]
<1>1. IsFiniteSet(S \ {x})
  BY FS_Subset
<1>2. SumFunctionOnSet(f, S) = f[x] + SumFunctionOnSet(f, S \ {x})
  BY SumRemove
<1>3. \A y \in S : g[y] \in Int
  OBVIOUS
<1>4. SumFunctionOnSet(g, S) = g[x] + SumFunctionOnSet(g, S \ {x})
  BY <1>3, SumRemove
<1>5. SumFunctionOnSet(g, S \ {x}) = SumFunctionOnSet(f, S \ {x})
  BY <1>1, SumSame
<1>6. SumFunctionOnSet(f, S \ {x}) \in Int
  BY <1>1, SumInt
<1> QED BY <1>2, <1>4, <1>5, <1>6

\* The sum over two disjoint sets is the sum of the two sums.
LEMMA SumUnion ==
  ASSUME NEW f, NEW S, IsFiniteSet(S), NEW V, IsFiniteSet(V), S \cap V = {},
         \A x \in S \cup V : f[x] \in Int
  PROVE  SumFunctionOnSet(f, S \cup V) = SumFunctionOnSet(f, S) + SumFunctionOnSet(f, V)
<1> DEFINE Holds(T) == SumFunctionOnSet(f, S \cup T)
                           = SumFunctionOnSet(f, S) + SumFunctionOnSet(f, T)
           Bad == {T \in SUBSET V : ~ Holds(T)}
<1> SUFFICES ASSUME Bad # {} PROVE FALSE
  OBVIOUS
<1>1. PICK T \in Bad : \A U \in Bad : U \subseteq T => U = T
  <2>1. Bad \in SUBSET SUBSET V
    OBVIOUS
  <2> HIDE DEF Bad
  <2> QED BY <2>1, SmallestSet
<1>2. SumFunctionOnSet(f, S) \in Int
  BY SumInt
<1>3. T # {}
  <2>1. S \cup {} = S
    OBVIOUS
  <2>2. Holds({})
    BY <1>2, <2>1, SumEmpty
  <2> QED BY <2>2
<1>4. PICK x \in T : TRUE
  BY <1>3
<1> DEFINE U == T \ {x}
<1>5. IsFiniteSet(U) /\ IsFiniteSet(T)
  BY FS_Subset
<1>6. IsFiniteSet(S \cup U)
  BY <1>5, FS_Union
<1>7. U \in SUBSET V /\ U # T /\ U \subseteq T
  BY <1>4
<1>8. Holds(U)
  BY <1>1, <1>7
<1>9. S \cup T = (S \cup U) \cup {x} /\ x \notin S \cup U
  OBVIOUS
<1>10. SumFunctionOnSet(f, S \cup T) = f[x] + SumFunctionOnSet(f, S \cup U)
  <2> HIDE DEF U
  <2> QED BY <1>6, <1>7, <1>9, SumAdd
<1>11. SumFunctionOnSet(f, T) = f[x] + SumFunctionOnSet(f, U)
  BY <1>5, SumRemove
<1>12. SumFunctionOnSet(f, U) \in Int
  BY <1>5, SumInt
<1>13. Holds(T)
  <2> HIDE DEF U
  <2> QED BY <1>2, <1>8, <1>10, <1>11, <1>12
<1> QED BY <1>13

\* What is left when a part is taken out.
LEMMA SumMinus ==
  ASSUME NEW f, NEW S, IsFiniteSet(S), NEW V \in SUBSET S, \A x \in S : f[x] \in Int
  PROVE  SumFunctionOnSet(f, S \ V) = SumFunctionOnSet(f, S) - SumFunctionOnSet(f, V)
<1>1. IsFiniteSet(V) /\ IsFiniteSet(S \ V)
  BY FS_Subset
<1>2. (S \ V) \cup V = S /\ (S \ V) \cap V = {}
  OBVIOUS
<1>3. SumFunctionOnSet(f, S) = SumFunctionOnSet(f, S \ V) + SumFunctionOnSet(f, V)
  BY <1>1, <1>2, SumUnion
<1>4. SumFunctionOnSet(f, V) \in Int /\ SumFunctionOnSet(f, S \ V) \in Int
  BY <1>1, SumInt
<1> QED BY <1>3, <1>4
=============================================================================
