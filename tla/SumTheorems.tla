---------------------------- MODULE SumTheorems ----------------------------
(***************************************************************************)
(* Facts about SumFunctionOnSet(f, S), the sum of f over a finite set: how *)
(* it changes when an element joins or leaves S, when f changes at one     *)
(* place, and how sums compare. The sum is defined by taking the elements  *)
(* in the order of CHOOSE; that the order does not matter is shown by      *)
(* looking at a least set for which it would.                              *)
(***************************************************************************)
EXTENDS Functions, Integers, FiniteSetTheorems, WellFoundedInduction, TLAPS

\* The element of s that is added first.
Chosen(s) == CHOOSE x \in s : TRUE

\* g has the sums of f over all subsets of S.
Sums(f, S, g) ==
    g = [s \in SUBSET S |-> IF s = {} THEN 0 ELSE f[Chosen(s)] + g[s \ {Chosen(s)}]]

SumOver(f, S) == (CHOOSE g : Sums(f, S, g))[S]

LEMMA SumUnfolded ==
    ASSUME NEW f, NEW S
    PROVE  SumFunctionOnSet(f, S) = SumOver(f, S)
BY DEF SumFunctionOnSet, FoldFunctionOnSet, MapThenFoldSet, Sums, SumOver, Chosen

-----------------------------------------------------------------------------
(***************************************************************************)
(* Induction over finite sets, as the existence of a least set.            *)
(***************************************************************************)

\* A family with a finite member has a least one: none of its proper subsets belongs to
\* the family.
LEMMA LeastSet ==
    ASSUME NEW T, IsFiniteSet(T), NEW Family, T \in Family
    PROVE  \E s \in Family : /\ s \subseteq T /\ IsFiniteSet(s)
                             /\ \A t \in Family : t \subseteq s => t = s
<1> DEFINE In == Family \cap SUBSET T
           R == StrictSubsetOrdering(T)
<1>1. FiniteSubsetsOf(T) = SUBSET T
  BY FS_FiniteSubsetsOfFinite
<1>2. IsWellFoundedOn(R, SUBSET T)
  BY <1>1, FS_StrictSubsetOrderingWellFounded
<1>3. In \subseteq SUBSET T /\ In # {}
  OBVIOUS
<1> HIDE DEF In, R
<1>4. PICK s \in In : \A t \in In : ~(<<t, s>> \in R)
  BY <1>2, <1>3, WFMin
<1>5. s \in Family /\ s \subseteq T
  BY DEF In
<1>6. IsFiniteSet(s)
  BY <1>5, FS_Subset
<1>7. ASSUME NEW t \in Family, t \subseteq s PROVE t = s
  <2>1. t \in In
    BY <1>5, <1>7 DEF In
  <2>2. ~(<<t, s>> \in R)
    BY <1>4, <2>1
  <2>3. t \in SUBSET T /\ s \in SUBSET T
    BY <1>5, <1>7
  <2>4. QED
    BY <1>7, <2>2, <2>3 DEF R, StrictSubsetOrdering
<1>8. QED
  BY <1>5, <1>6, <1>7

LEMMA SumsAt ==
    ASSUME NEW f, NEW S, NEW g, Sums(f, S, g), NEW s, s \subseteq S
    PROVE  g[s] = IF s = {} THEN 0 ELSE f[Chosen(s)] + g[s \ {Chosen(s)}]
BY DEF Sums

LEMMA ChosenIn == \A s : s # {} => Chosen(s) \in s
BY DEF Chosen

\* Two functions of sums agree where both are defined.
LEMMA SumsAgree ==
    ASSUME NEW f, NEW T, NEW U, NEW g, NEW h, Sums(f, T, g), Sums(f, U, h),
           NEW s, IsFiniteSet(s), s \subseteq T, s \subseteq U
    PROVE  g[s] = h[s]
<1> DEFINE Family == {t \in SUBSET s : g[t] # h[t]}
<1> SUFFICES ASSUME s \in Family PROVE FALSE
  OBVIOUS
<1> HIDE DEF Family
<1>1. PICK t \in Family : \A u \in Family : u \subseteq t => u = t
  BY LeastSet
<1> USE DEF Family
<1>2. t \subseteq s /\ g[t] # h[t] /\ t \in SUBSET T /\ t \in SUBSET U
  OBVIOUS
<1>3. /\ g[t] = IF t = {} THEN 0 ELSE f[Chosen(t)] + g[t \ {Chosen(t)}]
      /\ h[t] = IF t = {} THEN 0 ELSE f[Chosen(t)] + h[t \ {Chosen(t)}]
  <2> HIDE DEF Family
  <2>1. t \subseteq T /\ t \subseteq U
    BY <1>2
  <2>2. g[t] = IF t = {} THEN 0 ELSE f[Chosen(t)] + g[t \ {Chosen(t)}]
    <3>1. Sums(f, T, g)
      OBVIOUS
    <3>2. QED
      BY <2>1, <3>1 DEF Sums
  <2>3. h[t] = IF t = {} THEN 0 ELSE f[Chosen(t)] + h[t \ {Chosen(t)}]
    <3>1. Sums(f, U, h)
      OBVIOUS
    <3>2. QED
      BY <2>1, <3>1 DEF Sums
  <2>4. QED
    BY <2>2, <2>3
<1>4. t # {} /\ g[t \ {Chosen(t)}] # h[t \ {Chosen(t)}]
  <2> HIDE DEF Family
  <2>1. g[t] # h[t]
    BY <1>2
  <2>2. t # {}
    BY <1>3, <2>1
  <2>3. QED
    BY <1>3, <2>1, <2>2
<1>5. t \ {Chosen(t)} \in Family /\ t \ {Chosen(t)} # t
  <2>1. Chosen(t) \in t
    BY <1>4, ChosenIn
  <2>2. QED
    BY <1>2, <1>4, <2>1
<1>6. QED
  BY <1>1, <1>5

\* There is such a function for every finite set.
LEMMA SumsExist ==
    ASSUME NEW f, NEW T, IsFiniteSet(T)
    PROVE  \E g : Sums(f, T, g)
<1> DEFINE Family == {t \in SUBSET T : ~ \E g : Sums(f, t, g)}
<1> SUFFICES ASSUME T \in Family PROVE FALSE
  OBVIOUS
<1> HIDE DEF Family
<1>1. PICK S \in Family : /\ S \subseteq T /\ IsFiniteSet(S)
                          /\ \A t \in Family : t \subseteq S => t = S
  BY LeastSet
<1> USE DEF Family
<1> DEFINE G(t) == CHOOSE g : Sums(f, t, g)
           g == [s \in SUBSET S |-> IF s = {} THEN 0 ELSE f[Chosen(s)] + G(s \ {Chosen(s)})[s \ {Chosen(s)}]]
<1>2. \A t : t \subseteq S /\ t # S => Sums(f, t, G(t)) /\ IsFiniteSet(t)
  <2> TAKE t
  <2> HAVE t \subseteq S /\ t # S
  <2>1. t \notin Family /\ t \in SUBSET T
    BY <1>1
  <2>2. IsFiniteSet(t)
    BY <1>1, FS_Subset
  <2>3. QED
    BY <2>1, <2>2
<1> HIDE DEF G
<1>3. \A s \in SUBSET S : s # {} =>
          g[s \ {Chosen(s)}] = G(s \ {Chosen(s)})[s \ {Chosen(s)}]
  <2> TAKE s \in SUBSET S
  <2> HAVE s # {}
  <2> DEFINE t == s \ {Chosen(s)}
             u == t \ {Chosen(t)}
  <2>1. t \subseteq S /\ t # S
    <3>1. Chosen(s) \in s
      BY ChosenIn
    <3>2. QED
      BY <3>1
  <2>2. G(t)[t] = IF t = {} THEN 0 ELSE f[Chosen(t)] + G(t)[u]
    <3>1. Sums(f, t, G(t))
      BY <1>2, <2>1
    <3> HIDE DEF t
    <3>2. QED
      BY <3>1, SumsAt
  <2>3. g[t] = IF t = {} THEN 0 ELSE f[Chosen(t)] + G(u)[u]
    BY <2>1
  <2>4. ASSUME t = {} PROVE g[t] = G(t)[t]
    BY <2>2, <2>3, <2>4
  <2>5. ASSUME t # {} PROVE g[t] = G(t)[t]
    <3>1. u \subseteq S /\ u # S /\ u \subseteq t
      <4>1. Chosen(t) \in t
        BY <2>5, ChosenIn
      <4>2. QED
        BY <2>1, <4>1
    <3>2. Sums(f, t, G(t)) /\ Sums(f, u, G(u)) /\ IsFiniteSet(u)
      BY <1>2, <2>1, <3>1
    <3> HIDE DEF u, t, g
    <3>3. G(t)[u] = G(u)[u]
      BY <3>1, <3>2, SumsAgree
    <3>4. QED
      BY <2>2, <2>3, <2>5, <3>3
  <2>6. QED
    BY <2>4, <2>5
<1>4. Sums(f, S, g)
  <2>1. \A s \in SUBSET S : g[s] = IF s = {} THEN 0 ELSE f[Chosen(s)] + g[s \ {Chosen(s)}]
    BY <1>3
  <2>2. g = [s \in SUBSET S |-> IF s = {} THEN 0 ELSE f[Chosen(s)] + g[s \ {Chosen(s)}]]
    BY <2>1
  <2> HIDE DEF g
  <2>3. QED
    BY <2>2 DEF Sums
<1>5. QED
  BY <1>4

\* The sum of a finite set is that of the set without the element added first, and that
\* element's value.
LEMMA SumRecursion ==
    ASSUME NEW f, NEW S, IsFiniteSet(S)
    PROVE  SumFunctionOnSet(f, S) =
               IF S = {} THEN 0 ELSE f[Chosen(S)] + SumFunctionOnSet(f, S \ {Chosen(S)})
<1> DEFINE s == S \ {Chosen(S)}
           G(T) == CHOOSE g : Sums(f, T, g)
<1>1. ASSUME NEW T, IsFiniteSet(T) PROVE Sums(f, T, G(T)) /\ SumFunctionOnSet(f, T) = G(T)[T]
  <2>1. Sums(f, T, G(T))
    <3>1. \E g : Sums(f, T, g)
      BY <1>1, SumsExist
    <3>2. QED
      BY <3>1, Zenon
  <2>2. SumFunctionOnSet(f, T) = SumOver(f, T)
    BY SumUnfolded
  <2>3. QED
    BY <2>1, <2>2 DEF SumOver
<1>2. IsFiniteSet(s) /\ s \subseteq S
  BY FS_Subset
<1> HIDE DEF s, G
<1>3. Sums(f, S, G(S)) /\ Sums(f, s, G(s))
  BY <1>1, <1>2
<1>4. G(S)[s] = G(s)[s]
  BY <1>2, <1>3, SumsAgree
<1>5. G(S)[S] = IF S = {} THEN 0 ELSE f[Chosen(S)] + G(S)[S \ {Chosen(S)}]
  <2>1. PICK g : g = G(S)
    OBVIOUS
  <2>2. Sums(f, S, g) /\ S \subseteq S
    BY <1>3, <2>1
  <2>3. g[S] = IF S = {} THEN 0 ELSE f[Chosen(S)] + g[S \ {Chosen(S)}]
    BY <2>2, SumsAt
  <2>4. QED
    BY <2>1, <2>3
<1>6. G(S)[S] = IF S = {} THEN 0 ELSE f[Chosen(S)] + G(S)[s]
  BY <1>5 DEF s
<1>7. SumFunctionOnSet(f, S) = IF S = {} THEN 0 ELSE f[Chosen(S)] + SumFunctionOnSet(f, s)
  BY <1>1, <1>2, <1>4, <1>6
<1>8. QED
  BY <1>7 DEF s

-----------------------------------------------------------------------------
(***************************************************************************)
(* What the other modules use.                                             *)
(***************************************************************************)

LEMMA SumEmpty == \A f : SumFunctionOnSet(f, {}) = 0
BY SumRecursion, FS_EmptySet

\* A sum of integers is one, and a sum of naturals is one.
LEMMA SumInt ==
    ASSUME NEW f, NEW S, IsFiniteSet(S), \A x \in S : f[x] \in Int
    PROVE  SumFunctionOnSet(f, S) \in Int
<1> DEFINE Family == {s \in SUBSET S : SumFunctionOnSet(f, s) \notin Int}
<1> SUFFICES ASSUME S \in Family PROVE FALSE
  OBVIOUS
<1> HIDE DEF Family
<1>1. PICK s \in Family : s \subseteq S /\ IsFiniteSet(s) /\ \A t \in Family : t \subseteq s => t = s
  BY LeastSet
<1>2. SumFunctionOnSet(f, s) \notin Int
  BY DEF Family
<1>3. SumFunctionOnSet(f, s) = IF s = {} THEN 0 ELSE f[Chosen(s)] + SumFunctionOnSet(f, s \ {Chosen(s)})
  BY <1>1, SumRecursion
<1>4. s # {} /\ Chosen(s) \in s /\ f[Chosen(s)] \in Int
  BY <1>1, <1>2, <1>3, ChosenIn
<1>5. s \ {Chosen(s)} \notin Family /\ s \ {Chosen(s)} \in SUBSET S
  BY <1>1, <1>4
<1>6. SumFunctionOnSet(f, s \ {Chosen(s)}) \in Int
  BY <1>5 DEF Family
<1>7. QED
  BY <1>2, <1>3, <1>4, <1>6

LEMMA SumNat ==
    ASSUME NEW f, NEW S, IsFiniteSet(S), \A x \in S : f[x] \in Nat
    PROVE  SumFunctionOnSet(f, S) \in Nat
<1> DEFINE Family == {s \in SUBSET S : SumFunctionOnSet(f, s) \notin Nat}
<1> SUFFICES ASSUME S \in Family PROVE FALSE
  OBVIOUS
<1> HIDE DEF Family
<1>1. PICK s \in Family : s \subseteq S /\ IsFiniteSet(s) /\ \A t \in Family : t \subseteq s => t = s
  BY LeastSet
<1>2. SumFunctionOnSet(f, s) \notin Nat
  BY DEF Family
<1>3. SumFunctionOnSet(f, s) = IF s = {} THEN 0 ELSE f[Chosen(s)] + SumFunctionOnSet(f, s \ {Chosen(s)})
  BY <1>1, SumRecursion
<1>4. s # {} /\ Chosen(s) \in s /\ f[Chosen(s)] \in Nat
  BY <1>1, <1>2, <1>3, ChosenIn
<1>5. s \ {Chosen(s)} \notin Family /\ s \ {Chosen(s)} \in SUBSET S
  BY <1>1, <1>4
<1>6. SumFunctionOnSet(f, s \ {Chosen(s)}) \in Nat
  BY <1>5 DEF Family
<1>7. QED
  BY <1>2, <1>3, <1>4, <1>6

\* Only the values on the set matter.
LEMMA SumSame ==
    ASSUME NEW f, NEW g, NEW S, IsFiniteSet(S), \A x \in S : f[x] = g[x]
    PROVE  SumFunctionOnSet(f, S) = SumFunctionOnSet(g, S)
<1> DEFINE Family == {s \in SUBSET S : SumFunctionOnSet(f, s) # SumFunctionOnSet(g, s)}
<1> SUFFICES ASSUME S \in Family PROVE FALSE
  OBVIOUS
<1> HIDE DEF Family
<1>1. PICK s \in Family : s \subseteq S /\ IsFiniteSet(s) /\ \A t \in Family : t \subseteq s => t = s
  BY LeastSet
<1>2. SumFunctionOnSet(f, s) # SumFunctionOnSet(g, s)
  BY DEF Family
<1>3. /\ SumFunctionOnSet(f, s) = IF s = {} THEN 0 ELSE f[Chosen(s)] + SumFunctionOnSet(f, s \ {Chosen(s)})
      /\ SumFunctionOnSet(g, s) = IF s = {} THEN 0 ELSE g[Chosen(s)] + SumFunctionOnSet(g, s \ {Chosen(s)})
  BY <1>1, SumRecursion
<1>4. s # {} /\ Chosen(s) \in s
  BY <1>2, <1>3, ChosenIn
<1>5. s \ {Chosen(s)} \notin Family /\ s \ {Chosen(s)} \in SUBSET S /\ f[Chosen(s)] = g[Chosen(s)]
  BY <1>1, <1>4
<1>6. SumFunctionOnSet(f, s \ {Chosen(s)}) = SumFunctionOnSet(g, s \ {Chosen(s)})
  BY <1>5 DEF Family
<1>7. QED
  BY <1>2, <1>3, <1>4, <1>5, <1>6

\* Any element may be taken out first.
LEMMA SumRemove ==
    ASSUME NEW f, NEW S, IsFiniteSet(S), \A y \in S : f[y] \in Int, NEW x \in S
    PROVE  SumFunctionOnSet(f, S) = f[x] + SumFunctionOnSet(f, S \ {x})
<1> DEFINE Sum(s) == SumFunctionOnSet(f, s)
           Any(s) == \A y \in s : Sum(s) = f[y] + Sum(s \ {y})
           Family == {s \in SUBSET S : ~Any(s)}
<1> SUFFICES ASSUME S \in Family PROVE FALSE
  OBVIOUS
<1>0. /\ \A s \in SUBSET S : IsFiniteSet(s)
      /\ \A s \in SUBSET S : Sum(s) \in Int
  <2>1. \A s \in SUBSET S : IsFiniteSet(s)
    BY FS_Subset
  <2>2. QED
    BY <2>1, SumInt
<1> HIDE DEF Family
<1>1. PICK s \in Family : s \subseteq S /\ IsFiniteSet(s) /\ \A t \in Family : t \subseteq s => t = s
  BY LeastSet
<1>2. PICK y \in s : Sum(s) # f[y] + Sum(s \ {y})
  BY DEF Family
<1> DEFINE c == Chosen(s)
<1>3. c \in s /\ Sum(s) = f[c] + Sum(s \ {c})
  BY <1>1, <1>2, ChosenIn, SumRecursion
<1>4. \A t \in SUBSET s : t # s => Any(t)
  BY <1>1 DEF Family
<1> HIDE DEF c, Sum
<1>5. c # y
  BY <1>2, <1>3
<1>6. Sum(s \ {c}) = f[y] + Sum((s \ {c}) \ {y})
  <2>1. s \ {c} \in SUBSET s /\ s \ {c} # s /\ y \in s \ {c}
    BY <1>3, <1>5
  <2>2. QED
    BY <1>4, <2>1
<1>7. Sum(s \ {y}) = f[c] + Sum((s \ {y}) \ {c})
  <2>1. s \ {y} \in SUBSET s /\ s \ {y} # s /\ c \in s \ {y}
    BY <1>3, <1>5
  <2>2. QED
    BY <1>4, <2>1
<1>8. PICK rest \in Int : rest = Sum((s \ {c}) \ {y}) /\ rest = Sum((s \ {y}) \ {c})
  <2>1. (s \ {c}) \ {y} = (s \ {y}) \ {c}
    OBVIOUS
  <2>2. Sum((s \ {c}) \ {y}) \in Int
    BY <1>0, <1>1
  <2>3. QED
    BY <2>1, <2>2
<1>9. f[y] \in Int /\ f[c] \in Int
  BY <1>1, <1>3
<1>10. Sum(s) = f[c] + (f[y] + rest) /\ Sum(s \ {y}) = f[c] + rest
  BY <1>3, <1>6, <1>7, <1>8
<1>11. QED
  BY <1>2, <1>8, <1>9, <1>10

\* An element joins the set.
LEMMA SumJoin ==
    ASSUME NEW f, NEW S, IsFiniteSet(S), NEW x, x \notin S, \A y \in S \cup {x} : f[y] \in Int
    PROVE  SumFunctionOnSet(f, S \cup {x}) = SumFunctionOnSet(f, S) + f[x]
<1>1. IsFiniteSet(S \cup {x}) /\ x \in S \cup {x} /\ (S \cup {x}) \ {x} = S
  BY FS_AddElement
<1>2. SumFunctionOnSet(f, S \cup {x}) = f[x] + SumFunctionOnSet(f, S)
  BY <1>1, SumRemove
<1>3. SumFunctionOnSet(f, S) \in Int
  BY SumInt
<1>4. QED
  BY <1>2, <1>3

\* The sum of a function that is zero.
LEMMA SumZero ==
    ASSUME NEW f, NEW S, IsFiniteSet(S), \A x \in S : f[x] = 0
    PROVE  SumFunctionOnSet(f, S) = 0
<1> DEFINE Family == {s \in SUBSET S : SumFunctionOnSet(f, s) # 0}
<1> SUFFICES ASSUME S \in Family PROVE FALSE
  OBVIOUS
<1> HIDE DEF Family
<1>1. PICK s \in Family : s \subseteq S /\ IsFiniteSet(s) /\ \A t \in Family : t \subseteq s => t = s
  BY LeastSet
<1>2. SumFunctionOnSet(f, s) # 0
  BY DEF Family
<1>3. SumFunctionOnSet(f, s) = IF s = {} THEN 0 ELSE f[Chosen(s)] + SumFunctionOnSet(f, s \ {Chosen(s)})
  BY <1>1, SumRecursion
<1>4. s # {} /\ Chosen(s) \in s /\ f[Chosen(s)] = 0
  BY <1>1, <1>2, <1>3, ChosenIn
<1>5. s \ {Chosen(s)} \notin Family /\ s \ {Chosen(s)} \in SUBSET S
  BY <1>1, <1>4
<1>6. SumFunctionOnSet(f, s \ {Chosen(s)}) = 0
  BY <1>5 DEF Family
<1>7. QED
  BY <1>2, <1>3, <1>4, <1>6

\* The function changes at one place.
LEMMA SumChange ==
    ASSUME NEW f, NEW g, NEW S, IsFiniteSet(S), NEW x \in S,
           \A y \in S : f[y] \in Int /\ g[y] \in Int, \A y \in S \ {x} : g[y] = f[y]
    PROVE  SumFunctionOnSet(g, S) = SumFunctionOnSet(f, S) + (g[x] - f[x])
<1>1. IsFiniteSet(S \ {x})
  BY FS_Subset
<1>2. /\ SumFunctionOnSet(g, S) = g[x] + SumFunctionOnSet(g, S \ {x})
      /\ SumFunctionOnSet(f, S) = f[x] + SumFunctionOnSet(f, S \ {x})
  BY SumRemove
<1>3. SumFunctionOnSet(g, S \ {x}) = SumFunctionOnSet(f, S \ {x})
  BY <1>1, SumSame
<1>4. SumFunctionOnSet(f, S \ {x}) \in Int
  BY <1>1, SumInt
<1>5. QED
  BY <1>2, <1>3, <1>4

\* Sums are added place by place.
LEMMA SumAdd ==
    ASSUME NEW f, NEW g, NEW h, NEW S, IsFiniteSet(S),
           \A x \in S : f[x] \in Int /\ g[x] \in Int /\ h[x] = f[x] + g[x]
    PROVE  SumFunctionOnSet(h, S) = SumFunctionOnSet(f, S) + SumFunctionOnSet(g, S)
<1> DEFINE Adds(s) == SumFunctionOnSet(h, s) = SumFunctionOnSet(f, s) + SumFunctionOnSet(g, s)
           Family == {s \in SUBSET S : ~Adds(s)}
<1> SUFFICES ASSUME S \in Family PROVE FALSE
  OBVIOUS
<1> HIDE DEF Family
<1>1. PICK s \in Family : s \subseteq S /\ IsFiniteSet(s) /\ \A t \in Family : t \subseteq s => t = s
  BY LeastSet
<1>2. ~Adds(s)
  BY DEF Family
<1>3. /\ SumFunctionOnSet(h, s) = IF s = {} THEN 0 ELSE h[Chosen(s)] + SumFunctionOnSet(h, s \ {Chosen(s)})
      /\ SumFunctionOnSet(f, s) = IF s = {} THEN 0 ELSE f[Chosen(s)] + SumFunctionOnSet(f, s \ {Chosen(s)})
      /\ SumFunctionOnSet(g, s) = IF s = {} THEN 0 ELSE g[Chosen(s)] + SumFunctionOnSet(g, s \ {Chosen(s)})
  BY <1>1, SumRecursion
<1>4. s # {} /\ Chosen(s) \in s
  BY <1>2, <1>3, ChosenIn
<1> DEFINE t == s \ {Chosen(s)}
<1>5. t \notin Family /\ t \in SUBSET S /\ IsFiniteSet(t)
  <2>1. t \subseteq s /\ t # s
    BY <1>4
  <2>2. QED
    BY <1>1, <2>1, FS_Subset
<1>6. SumFunctionOnSet(f, t) \in Int /\ SumFunctionOnSet(g, t) \in Int
  <2>1. \A x \in t : f[x] \in Int /\ g[x] \in Int
    BY <1>5
  <2> HIDE DEF t
  <2>2. QED
    BY <1>5, <2>1, SumInt
<1>7. Adds(t)
  BY <1>5 DEF Family
<1>8. h[Chosen(s)] = f[Chosen(s)] + g[Chosen(s)] /\ f[Chosen(s)] \in Int /\ g[Chosen(s)] \in Int
  BY <1>1, <1>4
<1>9. QED
  BY <1>2, <1>3, <1>4, <1>6, <1>7, <1>8

\* A smaller function has a smaller sum.
LEMMA SumMonotone ==
    ASSUME NEW f, NEW g, NEW S, IsFiniteSet(S),
           \A x \in S : f[x] \in Int /\ g[x] \in Int /\ f[x] <= g[x]
    PROVE  SumFunctionOnSet(f, S) <= SumFunctionOnSet(g, S)
<1> DEFINE d == [x \in S |-> g[x] - f[x]]
<1>1. \A x \in S : d[x] \in Nat /\ d[x] \in Int /\ g[x] = f[x] + d[x]
  OBVIOUS
<1> HIDE DEF d
<1>2. SumFunctionOnSet(g, S) = SumFunctionOnSet(f, S) + SumFunctionOnSet(d, S)
  BY <1>1, SumAdd
<1>3. SumFunctionOnSet(d, S) \in Nat /\ SumFunctionOnSet(f, S) \in Int
  BY <1>1, SumNat, SumInt
<1>4. QED
  BY <1>2, <1>3

\* A part of a set has no larger sum, if no value is negative.
LEMMA SumOfPart ==
    ASSUME NEW f, NEW S, IsFiniteSet(S), \A x \in S : f[x] \in Nat, NEW T, T \subseteq S
    PROVE  SumFunctionOnSet(f, T) <= SumFunctionOnSet(f, S)
<1> DEFINE Family == {s \in SUBSET S : T \subseteq s /\
                           ~ (SumFunctionOnSet(f, T) <= SumFunctionOnSet(f, s))}
<1> SUFFICES ASSUME S \in Family PROVE FALSE
  <2>1. SumFunctionOnSet(f, T) <= SumFunctionOnSet(f, S) \/ S \in Family
    OBVIOUS
  <2>2. QED
    BY <2>1
<1> HIDE DEF Family
<1>1. PICK s \in Family : s \subseteq S /\ IsFiniteSet(s) /\ \A t \in Family : t \subseteq s => t = s
  BY LeastSet
<1>2. T \subseteq s /\ ~ (SumFunctionOnSet(f, T) <= SumFunctionOnSet(f, s))
  BY DEF Family
<1>3. /\ \A x \in s : f[x] \in Nat /\ f[x] \in Int
      /\ \A x \in T : f[x] \in Int
      /\ IsFiniteSet(T)
  BY <1>1, <1>2, FS_Subset
<1>4. SumFunctionOnSet(f, T) \in Int /\ SumFunctionOnSet(f, s) \in Int
  BY <1>1, <1>3, SumInt
<1>5. s # T
  BY <1>2, <1>4
<1>6. PICK x \in s : x \notin T
  BY <1>2, <1>5
<1>7. SumFunctionOnSet(f, s) = f[x] + SumFunctionOnSet(f, s \ {x})
  BY <1>1, <1>3, SumRemove
<1>8. s \ {x} \notin Family /\ s \ {x} \in SUBSET S /\ T \subseteq s \ {x}
  BY <1>1, <1>2, <1>6
<1>9. SumFunctionOnSet(f, T) <= SumFunctionOnSet(f, s \ {x})
  BY <1>8 DEF Family
<1>10. SumFunctionOnSet(f, s \ {x}) \in Int
  <2>1. IsFiniteSet(s \ {x})
    BY <1>1, FS_Subset
  <2>2. QED
    BY <1>3, <2>1, SumInt
<1>11. QED
  BY <1>2, <1>3, <1>4, <1>7, <1>9, <1>10

\* Zeros can be left out of a sum.
LEMMA SumOfRest ==
    ASSUME NEW f, NEW S, IsFiniteSet(S), NEW T, T \subseteq S,
           \A x \in T : f[x] \in Int, \A x \in S \ T : f[x] = 0
    PROVE  SumFunctionOnSet(f, S) = SumFunctionOnSet(f, T)
<1> DEFINE Family == {s \in SUBSET S : T \subseteq s /\
                           SumFunctionOnSet(f, s) # SumFunctionOnSet(f, T)}
<1> SUFFICES ASSUME S \in Family PROVE FALSE
  OBVIOUS
<1> HIDE DEF Family
<1>1. PICK s \in Family : s \subseteq S /\ IsFiniteSet(s) /\ \A t \in Family : t \subseteq s => t = s
  BY LeastSet
<1>2. T \subseteq s /\ SumFunctionOnSet(f, s) # SumFunctionOnSet(f, T)
  BY DEF Family
<1>3. PICK x \in s : x \notin T
  BY <1>2
<1>4. f[x] = 0 /\ \A y \in s : f[y] \in Int
  BY <1>1, <1>3
<1>5. SumFunctionOnSet(f, s) = f[x] + SumFunctionOnSet(f, s \ {x})
  BY <1>1, <1>4, SumRemove
<1>6. s \ {x} \notin Family /\ s \ {x} \in SUBSET S /\ T \subseteq s \ {x}
  BY <1>1, <1>2, <1>3
<1>7. SumFunctionOnSet(f, s \ {x}) = SumFunctionOnSet(f, T)
  BY <1>6 DEF Family
<1>8. SumFunctionOnSet(f, T) \in Int
  <2>1. IsFiniteSet(T)
    BY FS_Subset
  <2>2. QED
    BY <2>1, SumInt
<1>9. QED
  BY <1>2, <1>4, <1>5, <1>7, <1>8

\* What one place loses another gains.
LEMMA SumTransfer ==
    ASSUME NEW f, NEW g, NEW S, IsFiniteSet(S), NEW x \in S, NEW y \in S, x # y,
           \A z \in S : f[z] \in Int /\ g[z] \in Int,
           \A z \in S \ {x, y} : g[z] = f[z], g[x] + g[y] = f[x] + f[y]
    PROVE  SumFunctionOnSet(g, S) = SumFunctionOnSet(f, S)
<1> DEFINE T == S \ {x}
           R == T \ {y}
<1>1. IsFiniteSet(T) /\ IsFiniteSet(R) /\ y \in T /\ \A z \in R : z \in S \ {x, y}
  BY FS_Subset
<1>2. /\ \A z \in T : f[z] \in Int /\ g[z] \in Int
      /\ \A z \in R : f[z] \in Int /\ g[z] \in Int /\ f[z] = g[z]
  OBVIOUS
<1>3. SumFunctionOnSet(f, S) = f[x] + SumFunctionOnSet(f, T)
  BY SumRemove
<1>4. SumFunctionOnSet(g, S) = g[x] + SumFunctionOnSet(g, T)
  BY SumRemove
<1> HIDE DEF T
<1>5. SumFunctionOnSet(f, T) = f[y] + SumFunctionOnSet(f, R)
  BY <1>1, <1>2, SumRemove
<1>6. SumFunctionOnSet(g, T) = g[y] + SumFunctionOnSet(g, R)
  BY <1>1, <1>2, SumRemove
<1> HIDE DEF R
<1>7. SumFunctionOnSet(g, R) = SumFunctionOnSet(f, R) /\ SumFunctionOnSet(f, R) \in Int
  BY <1>1, <1>2, SumSame, SumInt
<1>8. QED
  BY <1>3, <1>4, <1>5, <1>6, <1>7

\* A sum is not larger than that of a set its elements map into, each to an element of
\* its own with a value as large.
LEMMA SumInto ==
    ASSUME NEW f, NEW S, IsFiniteSet(S), NEW g, NEW T, IsFiniteSet(T), NEW h,
           \A y \in T : g[y] \in Nat,
           \A x \in S : h[x] \in T /\ f[x] \in Nat /\ f[x] <= g[h[x]],
           \A x, y \in S : h[x] = h[y] => x = y
    PROVE  SumFunctionOnSet(f, S) <= SumFunctionOnSet(g, T)
<1> DEFINE Image(s) == {h[x] : x \in s}
           Less(s) == SumFunctionOnSet(f, s) <= SumFunctionOnSet(g, Image(s))
           Family == {s \in SUBSET S : ~Less(s)}
<1>1. \A s \in SUBSET S : Image(s) \in SUBSET T /\ IsFiniteSet(Image(s)) /\ IsFiniteSet(s)
  BY FS_Subset
<1>2. \A s \in SUBSET S : SumFunctionOnSet(f, s) \in Int /\ SumFunctionOnSet(g, Image(s)) \in Int
  <2> SUFFICES ASSUME NEW s \in SUBSET S, NEW t, t = Image(s)
               PROVE  SumFunctionOnSet(f, s) \in Int /\ SumFunctionOnSet(g, t) \in Int
    OBVIOUS
  <2>1. (\A x \in s : f[x] \in Int) /\ \A y \in t : g[y] \in Int
    BY <1>1
  <2>2. IsFiniteSet(s) /\ IsFiniteSet(t)
    BY <1>1
  <2>3. QED
    BY <2>1, <2>2, SumInt
<1>3. Less(S)
  <2> SUFFICES ASSUME S \in Family PROVE FALSE
    OBVIOUS
  <2> HIDE DEF Family
  <2>1. PICK s \in Family : s \subseteq S /\ IsFiniteSet(s) /\ \A t \in Family : t \subseteq s => t = s
    BY LeastSet
  <2>2. ~Less(s) /\ s \in SUBSET S
    BY <2>1 DEF Family
  <2>3. s # {}
    <3>1. Image({}) = {} /\ SumFunctionOnSet(f, {}) = 0 /\ SumFunctionOnSet(g, {}) = 0
      BY SumEmpty
    <3>2. Less({})
      BY <3>1
    <3>3. QED
      BY <2>2, <3>2
  <2>4. PICK x : x \in s
    BY <2>3
  <2> DEFINE t == s \ {x}
             u == Image(t)
  <2>5. t \in SUBSET S /\ x \in S /\ Less(t)
    <3>1. t \subseteq s /\ t # s /\ t \in SUBSET S /\ x \in S
      BY <2>1, <2>4
    <3>2. t \notin Family
      BY <2>1, <3>1
    <3>3. QED
      BY <3>1, <3>2 DEF Family
  <2>6. Image(s) = u \cup {h[x]} /\ h[x] \notin u
    BY <2>1, <2>4
  <2>7. IsFiniteSet(u) /\ u \in SUBSET T /\ SumFunctionOnSet(f, t) \in Int /\ SumFunctionOnSet(g, u) \in Int
    BY <1>1, <1>2, <2>5
  <2>8. SumFunctionOnSet(f, s) = f[x] + SumFunctionOnSet(f, t)
    <3>1. \A y \in s : f[y] \in Int
      BY <2>1
    <3>2. QED
      BY <2>1, <2>4, <3>1, SumRemove
  <2>9. SumFunctionOnSet(f, t) <= SumFunctionOnSet(g, u)
    BY <2>5
  <2>10. ~ (SumFunctionOnSet(f, s) <= SumFunctionOnSet(g, u \cup {h[x]}))
    BY <2>2, <2>6
  <2>11. h[x] \in T /\ f[x] \in Nat /\ g[h[x]] \in Nat /\ f[x] <= g[h[x]]
    BY <2>5
  <2> HIDE DEF t, u
  <2>12. SumFunctionOnSet(g, u \cup {h[x]}) = SumFunctionOnSet(g, u) + g[h[x]]
    <3>1. \A y \in u \cup {h[x]} : g[y] \in Int
      BY <2>7, <2>11
    <3>2. QED
      BY <2>6, <2>7, <3>1, SumJoin
  <2>13. QED
    BY <2>7, <2>8, <2>9, <2>10, <2>11, <2>12
<1>4. SumFunctionOnSet(g, Image(S)) <= SumFunctionOnSet(g, T) /\ SumFunctionOnSet(g, T) \in Int
  <2>1. Image(S) \subseteq T
    BY <1>1
  <2> HIDE DEF Image
  <2>2. QED
    BY <2>1, SumOfPart, SumInt
<1>5. SumFunctionOnSet(f, S) \in Int /\ SumFunctionOnSet(g, Image(S)) \in Int
  BY <1>2
<1>6. QED
  BY <1>3, <1>4, <1>5
=============================================================================
