----------------------------- MODULE SumLemmas -----------------------------
(***************************************************************************)
(* Facts about finite sets of numbers, and about SumFunction, the sum of   *)
(* the values of a function with a finite domain, in which the invariants  *)
(* over payables, documents and movements of cash are stated.  The         *)
(* community modules define it by recursion over the subsets of the        *)
(* domain; the lemmas are proved by induction over them, stated with sets  *)
(* instead of predicates.                                                  *)
(***************************************************************************)
EXTENDS Integers, Functions, FiniteSetTheorems, WellFoundedInduction, TLAPS

(* What holds of a subset of a finite set whenever it holds of the smaller *)
(* ones holds of all of them.                                              *)
LEMMA SubsetInduction ==
  ASSUME NEW S, IsFiniteSet(S), NEW T,
         \A s \in SUBSET S : (\A t \in SUBSET s : t # s => t \in T) => s \in T
  PROVE  \A s \in SUBSET S : s \in T
<1>1. IsWellFoundedOn(StrictSubsetOrdering(S), SUBSET S)
  BY FS_StrictSubsetOrderingWellFounded, FS_FiniteSubsetsOfFinite
<1> DEFINE B == {s \in SUBSET S : s \notin T}
<1>2. CASE B # {}
  <2>1. PICK s \in B : \A t \in B : ~ (<<t, s>> \in StrictSubsetOrdering(S))
    <3> HIDE DEF B
    <3>1. B \subseteq SUBSET S BY DEF B
    <3> QED BY <1>1, <1>2, <3>1, WFMin
  <2>2. \A t \in SUBSET s : t # s => t \in T
    BY <2>1 DEF StrictSubsetOrdering
  <2> QED BY <2>1, <2>2
<1> QED BY <1>2

(* The element that the definition of the sum takes first, the sums of f   *)
(* over every subset of S, and the equation that characterizes them.       *)
FirstOf(s) == CHOOSE x \in s : TRUE

PartialSums(f, S) == CHOOSE g : g = [s \in SUBSET S |->
                    IF s = {} THEN 0 ELSE f[FirstOf(s)] + g[s \ {FirstOf(s)}]]

IsPartialSums(f, S, g) == g = [s \in SUBSET S |->
                    IF s = {} THEN 0 ELSE f[FirstOf(s)] + g[s \ {FirstOf(s)}]]

(* SumFunction is the partial sum over the whole domain.                   *)
LEMMA SumIsPartial == ASSUME NEW f PROVE SumFunction(f) = PartialSums(f, DOMAIN f)[DOMAIN f]
  BY DEF SumFunction, SumFunctionOnSet, FoldFunctionOnSet, MapThenFoldSet, PartialSums, FirstOf

(* There is a first element wherever there is one.                         *)
LEMMA FirstOfIn == ASSUME NEW s, s # {} PROVE FirstOf(s) \in s
  BY DEF FirstOf

(* Partial sums over a set and over a subset of it agree on the subset.    *)
LEMMA PartialSumsUnique ==
  ASSUME NEW f, NEW S, IsFiniteSet(S), NEW A \in SUBSET S, NEW g, IsPartialSums(f, S, g), NEW h, IsPartialSums(f, A, h)
  PROVE  \A s \in SUBSET A : g[s] = h[s]
<1> DEFINE T == {s \in SUBSET A : g[s] = h[s]}
<1>1. ASSUME NEW s \in SUBSET A, \A t \in SUBSET s : t # s => t \in T
      PROVE  s \in T
  <2>1. CASE s = {} BY <2>1 DEF IsPartialSums
  <2>2. CASE s # {}
    <3>1. FirstOf(s) \in s BY <2>2, FirstOfIn
    <3>2. s \ {FirstOf(s)} \in T BY <1>1, <3>1
    <3>3. g[s] = f[FirstOf(s)] + g[s \ {FirstOf(s)}] BY <2>2 DEF IsPartialSums
    <3>4. h[s] = f[FirstOf(s)] + h[s \ {FirstOf(s)}] BY <2>2 DEF IsPartialSums
    <3> QED BY <3>2, <3>3, <3>4
  <2> QED BY <2>1, <2>2
<1>2. IsFiniteSet(A) BY FS_Subset
<1> HIDE DEF T
<1>3. \A s \in SUBSET A : s \in T BY <1>1, <1>2, SubsetInduction
<1> QED BY <1>3 DEF T

(* Every function into the integers has partial sums over every finite set. *)
LEMMA PartialSumsExist ==
  ASSUME NEW S, IsFiniteSet(S), NEW f \in [S -> Int]
  PROVE  \A A \in SUBSET S : \E g \in [SUBSET A -> Int] : IsPartialSums(f, A, g)
<1> DEFINE T == {A \in SUBSET S : \E g \in [SUBSET A -> Int] : IsPartialSums(f, A, g)}
<1>1. ASSUME NEW A \in SUBSET S, \A t \in SUBSET A : t # A => t \in T
      PROVE  A \in T
  <2> DEFINE part(t) == CHOOSE g \in [SUBSET t -> Int] : IsPartialSums(f, t, g)
  <2>1. \A t \in SUBSET A : t # A => part(t) \in [SUBSET t -> Int] /\ IsPartialSums(f, t, part(t))
    BY <1>1
  <2> DEFINE val(s) == IF s = {} THEN 0 ELSE f[FirstOf(s)] + part(s \ {FirstOf(s)})[s \ {FirstOf(s)}]
             g == [s \in SUBSET A |-> val(s)]
  <2>2. \A s \in SUBSET A : s # {} =>
          /\ FirstOf(s) \in s /\ s \ {FirstOf(s)} \in SUBSET A /\ s \ {FirstOf(s)} # A
    BY FirstOfIn
  <2>3. \A s \in SUBSET A : val(s) \in Int
    <3> TAKE s \in SUBSET A
    <3>1. CASE s = {} BY <3>1
    <3>2. CASE s # {}
      <4>1. part(s \ {FirstOf(s)}) \in [SUBSET (s \ {FirstOf(s)}) -> Int] BY <2>1, <2>2, <3>2
      <4>2. part(s \ {FirstOf(s)})[s \ {FirstOf(s)}] \in Int
        <5> HIDE DEF part
        <5> QED BY <4>1
      <4>3. f[FirstOf(s)] \in Int BY <2>2, <3>2
      <4> HIDE DEF part
      <4> QED BY <4>2, <4>3, <3>2
    <3> QED BY <3>1, <3>2
  <2>4. \A t \in SUBSET A : t # A => part(t)[t] = val(t)
    <3> SUFFICES ASSUME NEW t \in SUBSET A, t # A PROVE part(t)[t] = val(t)
      OBVIOUS
    <3>1. IsPartialSums(f, t, part(t)) BY <2>1
    <3>2. CASE t = {}
      <4> HIDE DEF part
      <4> QED BY <3>1, <3>2 DEF IsPartialSums
    <3>3. CASE t # {}
      <4>1. part(t)[t] = f[FirstOf(t)] + part(t)[t \ {FirstOf(t)}]
        <5> HIDE DEF part
        <5> QED BY <3>1, <3>3 DEF IsPartialSums
      <4>2. IsPartialSums(f, t \ {FirstOf(t)}, part(t \ {FirstOf(t)})) BY <2>1, <2>2, <3>3
      <4>3. IsFiniteSet(t) BY FS_Subset
      <4>4. part(t)[t \ {FirstOf(t)}] = part(t \ {FirstOf(t)})[t \ {FirstOf(t)}]
        <5> HIDE DEF part
        <5>1. t \ {FirstOf(t)} \in SUBSET t OBVIOUS
        <5>2. \A s \in SUBSET (t \ {FirstOf(t)}) : part(t)[s] = part(t \ {FirstOf(t)})[s]
          BY <3>1, <4>2, <4>3, <5>1, PartialSumsUnique
        <5> QED BY <5>2
      <4> HIDE DEF part
      <4> QED BY <4>1, <4>4, <3>3
    <3> QED BY <3>2, <3>3
  <2>5. IsPartialSums(f, A, g)
    <3>1. \A s \in SUBSET A : g[s] = IF s = {} THEN 0 ELSE f[FirstOf(s)] + g[s \ {FirstOf(s)}]
      <4> TAKE s \in SUBSET A
      <4>1. CASE s = {} BY <4>1
      <4>2. CASE s # {}
        <5>1. g[s \ {FirstOf(s)}] = val(s \ {FirstOf(s)}) BY <2>2, <4>2
        <5>2. val(s \ {FirstOf(s)}) = part(s \ {FirstOf(s)})[s \ {FirstOf(s)}] BY <2>4, <2>2, <4>2
        <5> HIDE DEF part
        <5> QED BY <5>1, <5>2, <4>2
      <4> QED BY <4>1, <4>2
    <3> HIDE DEF part, val
    <3> QED BY <3>1 DEF IsPartialSums
  <2>6. g \in [SUBSET A -> Int]
    <3> HIDE DEF part, val
    <3> QED BY <2>3
  <2> HIDE DEF g
  <2> QED BY <2>5, <2>6
<1> HIDE DEF T
<1>2. \A s \in SUBSET S : s \in T BY <1>1, SubsetInduction
<1> QED BY <1>2 DEF T

(* So the chosen ones satisfy the equation.                                *)
LEMMA PartialSumsOf ==
  ASSUME NEW S, IsFiniteSet(S), NEW f \in [S -> Int]
  PROVE  /\ IsPartialSums(f, S, PartialSums(f, S))
         /\ PartialSums(f, S) \in [SUBSET S -> Int]
<1>1. PICK g \in [SUBSET S -> Int] : IsPartialSums(f, S, g) BY PartialSumsExist
<1>2. IsPartialSums(f, S, PartialSums(f, S)) BY <1>1 DEF IsPartialSums, PartialSums
<1>3. \A s \in SUBSET S : PartialSums(f, S)[s] = g[s] BY <1>1, <1>2, PartialSumsUnique
<1>4. PartialSums(f, S) = [s \in SUBSET S |-> PartialSums(f, S)[s]] BY <1>2 DEF IsPartialSums
<1> QED BY <1>1, <1>2, <1>3, <1>4

(* A sum of integers is an integer.                                        *)
LEMMA SumType ==
  ASSUME NEW S, IsFiniteSet(S), NEW f \in [S -> Int]
  PROVE  SumFunction(f) \in Int
<1>1. DOMAIN f = S OBVIOUS
<1>2. PartialSums(f, S) \in [SUBSET S -> Int] BY PartialSumsOf
<1>3. PartialSums(f, S)[S] \in Int BY <1>2
<1>4. SumFunction(f) = PartialSums(f, DOMAIN f)[DOMAIN f] BY SumIsPartial
<1> QED BY <1>1, <1>3, <1>4

(* A sum of natural numbers is a natural number.                           *)
LEMMA SumNat ==
  ASSUME NEW S, IsFiniteSet(S), NEW f \in [S -> Nat]
  PROVE  SumFunction(f) \in Nat
<1> DEFINE g == PartialSums(f, S)
           T == {s \in SUBSET S : g[s] \in Nat}
<1>0. f \in [S -> Int] OBVIOUS
<1>1. IsPartialSums(f, S, g) BY <1>0, PartialSumsOf
<1>2. ASSUME NEW s \in SUBSET S, \A t \in SUBSET s : t # s => t \in T
      PROVE  s \in T
  <2> HIDE DEF g
  <2>1. CASE s = {} BY <1>1, <2>1 DEF IsPartialSums
  <2>2. CASE s # {}
    <3>1. FirstOf(s) \in s BY <2>2, FirstOfIn
    <3>2. s \ {FirstOf(s)} \in T BY <1>2, <3>1
    <3>3. g[s] = f[FirstOf(s)] + g[s \ {FirstOf(s)}] BY <1>1, <2>2 DEF IsPartialSums
    <3> QED BY <3>1, <3>2, <3>3
  <2> QED BY <2>1, <2>2
<1> HIDE DEF T
<1>3. \A s \in SUBSET S : s \in T BY <1>2, SubsetInduction
<1>4. DOMAIN f = S OBVIOUS
<1> QED BY <1>3, <1>4, SumIsPartial DEF T

(* Any element of a subset may be taken out of its sum first.              *)
LEMMA PartialSplit ==
  ASSUME NEW S, IsFiniteSet(S), NEW f \in [S -> Int], NEW s \in SUBSET S, NEW x \in s
  PROVE  PartialSums(f, S)[s] = f[x] + PartialSums(f, S)[s \ {x}]
<1> DEFINE g == PartialSums(f, S)
<1>0. IsPartialSums(f, S, g) /\ g \in [SUBSET S -> Int] BY PartialSumsOf
<1> HIDE DEF g
<1> DEFINE T == {t \in SUBSET S : \A y \in t : g[t] = f[y] + g[t \ {y}]}
<1>1. ASSUME NEW a \in SUBSET S, \A t \in SUBSET a : t # a => t \in T
      PROVE  a \in T
  <2> SUFFICES ASSUME NEW z \in a PROVE g[a] = f[z] + g[a \ {z}]
    OBVIOUS
  <2> DEFINE c == FirstOf(a)
  <2>1. c \in a BY FirstOfIn
  <2>2. g[a] = f[c] + g[a \ {c}] BY <1>0 DEF IsPartialSums
  <2>3. CASE c = z BY <2>2, <2>3
  <2>4. CASE c # z
    <3> HIDE DEF c
    <3>1. z \in a \ {c} /\ c \in a \ {z} BY <2>1, <2>4
    <3>2. a \ {c} \in T /\ a \ {z} \in T BY <1>1, <2>1
    <3>3. g[a \ {c}] = f[z] + g[(a \ {c}) \ {z}] BY <3>1, <3>2
    <3>4. g[a \ {z}] = f[c] + g[(a \ {z}) \ {c}] BY <3>1, <3>2
    <3>5. (a \ {c}) \ {z} = (a \ {z}) \ {c} OBVIOUS
    <3>6. f[c] \in Int /\ f[z] \in Int /\ g[(a \ {z}) \ {c}] \in Int BY <1>0, <2>1
    <3>7. g[a] = f[c] + (f[z] + g[(a \ {z}) \ {c}]) BY <2>2, <3>3, <3>5
    <3> HIDE DEF T
    <3> DEFINE u == f[c]
               v == f[z]
               w == g[(a \ {z}) \ {c}]
    <3>8. g[a] = u + (v + w) /\ g[a \ {z}] = u + w /\ u \in Int /\ v \in Int /\ w \in Int
      BY <3>4, <3>6, <3>7
    <3> HIDE DEF u, v, w
    <3>9. g[a] = v + g[a \ {z}] BY <3>8
    <3> QED BY <3>9 DEF v
  <2> QED BY <2>3, <2>4
<1> HIDE DEF T
<1>2. s \in T BY <1>1, SubsetInduction
<1> QED BY <1>2 DEF T, g

(* And so of the whole sum.                                                *)
LEMMA SumSplit ==
  ASSUME NEW S, IsFiniteSet(S), NEW f \in [S -> Int], NEW x \in S
  PROVE  /\ SumFunction(f) = f[x] + PartialSums(f, S)[S \ {x}]
         /\ PartialSums(f, S)[S \ {x}] \in Int
<1>1. PartialSums(f, S) \in [SUBSET S -> Int] BY PartialSumsOf
<1>2. DOMAIN f = S OBVIOUS
<1>3. SumFunction(f) = PartialSums(f, S)[S] BY <1>2, SumIsPartial
<1>4. PartialSums(f, S)[S] = f[x] + PartialSums(f, S)[S \ {x}] BY PartialSplit
<1> QED BY <1>1, <1>3, <1>4

(* The sums over elements on which two functions agree are the same.       *)
LEMMA SumAgree ==
  ASSUME NEW S, IsFiniteSet(S), NEW f, NEW h, NEW g, IsPartialSums(f, S, g), NEW k, IsPartialSums(h, S, k),
         NEW A \in SUBSET S, \A x \in A : f[x] = h[x]
  PROVE  \A s \in SUBSET A : g[s] = k[s]
<1> DEFINE T == {s \in SUBSET A : g[s] = k[s]}
<1>1. ASSUME NEW s \in SUBSET A, \A t \in SUBSET s : t # s => t \in T
      PROVE  s \in T
  <2>1. CASE s = {} BY <2>1 DEF IsPartialSums
  <2>2. CASE s # {}
    <3>1. FirstOf(s) \in s BY <2>2, FirstOfIn
    <3>2. s \ {FirstOf(s)} \in T BY <1>1, <3>1
    <3>3. g[s] = f[FirstOf(s)] + g[s \ {FirstOf(s)}] BY <2>2 DEF IsPartialSums
    <3>4. k[s] = h[FirstOf(s)] + k[s \ {FirstOf(s)}] BY <2>2 DEF IsPartialSums
    <3> QED BY <3>1, <3>2, <3>3, <3>4
  <2> QED BY <2>1, <2>2
<1>2. IsFiniteSet(A) BY FS_Subset
<1> HIDE DEF T
<1>3. \A s \in SUBSET A : s \in T BY <1>1, <1>2, SubsetInduction
<1> QED BY <1>3 DEF T

(* Changing one value changes the sum by the difference.                   *)
LEMMA SumChange ==
  ASSUME NEW S, IsFiniteSet(S), NEW f \in [S -> Int], NEW h \in [S -> Int],
         NEW x \in S, \A y \in S \ {x} : h[y] = f[y]
  PROVE  SumFunction(h) = SumFunction(f) - f[x] + h[x]
<1>1. /\ SumFunction(f) = f[x] + PartialSums(f, S)[S \ {x}]
      /\ PartialSums(f, S)[S \ {x}] \in Int
  BY SumSplit
<1>2. SumFunction(h) = h[x] + PartialSums(h, S)[S \ {x}] BY SumSplit
<1>3. IsPartialSums(f, S, PartialSums(f, S)) /\ IsPartialSums(h, S, PartialSums(h, S)) BY PartialSumsOf
<1>4. S \ {x} \in SUBSET S OBVIOUS
<1>5. \A y \in S \ {x} : f[y] = h[y] OBVIOUS
<1>6. \A s \in SUBSET (S \ {x}) : PartialSums(f, S)[s] = PartialSums(h, S)[s]
  BY <1>3, <1>4, <1>5, SumAgree
<1>7. PartialSums(f, S)[S \ {x}] = PartialSums(h, S)[S \ {x}] BY <1>6
<1>8. f[x] \in Int /\ h[x] \in Int OBVIOUS
<1> DEFINE u == PartialSums(f, S)[S \ {x}]
<1>9. u \in Int /\ SumFunction(f) = f[x] + u /\ SumFunction(h) = h[x] + u
  BY <1>1, <1>2, <1>7
<1> HIDE DEF u
<1> QED BY <1>8, <1>9

(* Nothing adds up to nothing.                                             *)
LEMMA SumZero ==
  ASSUME NEW S, IsFiniteSet(S), NEW f \in [S -> Int], \A x \in S : f[x] = 0
  PROVE  SumFunction(f) = 0
<1> DEFINE g == PartialSums(f, S)
           T == {s \in SUBSET S : g[s] = 0}
<1>1. IsPartialSums(f, S, g) BY PartialSumsOf
<1>2. ASSUME NEW s \in SUBSET S, \A t \in SUBSET s : t # s => t \in T
      PROVE  s \in T
  <2> HIDE DEF g
  <2>1. CASE s = {} BY <1>1, <2>1 DEF IsPartialSums
  <2>2. CASE s # {}
    <3>1. FirstOf(s) \in s BY <2>2, FirstOfIn
    <3>2. s \ {FirstOf(s)} \in T BY <1>2, <3>1
    <3>3. g[s] = f[FirstOf(s)] + g[s \ {FirstOf(s)}] BY <1>1, <2>2 DEF IsPartialSums
    <3> QED BY <3>1, <3>2, <3>3
  <2> QED BY <2>1, <2>2
<1> HIDE DEF T
<1>3. S \in T BY <1>2, SubsetInduction
<1>4. DOMAIN f = S OBVIOUS
<1> QED BY <1>3, <1>4, SumIsPartial DEF T

(* Sums add up element by element.                                         *)
LEMMA SumAdd ==
  ASSUME NEW S, IsFiniteSet(S), NEW f \in [S -> Int], NEW g \in [S -> Int], NEW h \in [S -> Int],
         \A x \in S : h[x] = f[x] + g[x]
  PROVE  SumFunction(h) = SumFunction(f) + SumFunction(g)
<1> DEFINE F == PartialSums(f, S)
           G == PartialSums(g, S)
           H == PartialSums(h, S)
           T == {s \in SUBSET S : H[s] = F[s] + G[s]}
<1>1. /\ IsPartialSums(f, S, F) /\ F \in [SUBSET S -> Int]
      /\ IsPartialSums(g, S, G) /\ G \in [SUBSET S -> Int]
      /\ IsPartialSums(h, S, H)
  BY PartialSumsOf
<1>2. ASSUME NEW s \in SUBSET S, \A t \in SUBSET s : t # s => t \in T
      PROVE  s \in T
  <2> HIDE DEF F, G, H
  <2>1. CASE s = {} BY <1>1, <2>1 DEF IsPartialSums
  <2>2. CASE s # {}
    <3> DEFINE c == FirstOf(s)
               t == s \ {c}
    <3>1. c \in s BY <2>2, FirstOfIn
    <3>2. t \in T BY <1>2, <3>1
    <3>3. F[s] = f[c] + F[t] /\ G[s] = g[c] + G[t] /\ H[s] = h[c] + H[t]
      BY <1>1, <2>2 DEF IsPartialSums
    <3>4. f[c] \in Int /\ g[c] \in Int /\ F[t] \in Int /\ G[t] \in Int BY <1>1, <3>1
    <3>5. h[c] = f[c] + g[c] /\ H[t] = F[t] + G[t] BY <3>1, <3>2
    <3> HIDE DEF c, t
    <3>6. H[s] = F[s] + G[s] BY <3>3, <3>4, <3>5
    <3> QED BY <3>6
  <2> QED BY <2>1, <2>2
<1> HIDE DEF T
<1>3. S \in T BY <1>2, SubsetInduction
<1>4. DOMAIN f = S /\ DOMAIN g = S /\ DOMAIN h = S OBVIOUS
<1> QED BY <1>3, <1>4, SumIsPartial DEF T

(* A sum of natural numbers is at least each of them.                      *)
LEMMA SumBound ==
  ASSUME NEW S, IsFiniteSet(S), NEW f \in [S -> Nat], NEW x \in S
  PROVE  f[x] <= SumFunction(f)
<1> DEFINE h == [f EXCEPT ![x] = 0]
<1>1. h \in [S -> Nat] /\ h \in [S -> Int] /\ f \in [S -> Int] /\ h[x] = 0
      /\ \A y \in S \ {x} : h[y] = f[y]
  OBVIOUS
<1> HIDE DEF h
<1>2. SumFunction(h) = SumFunction(f) - f[x] + h[x] BY <1>1, SumChange
<1>3. SumFunction(h) \in Nat /\ SumFunction(f) \in Nat BY <1>1, SumNat
<1>4. f[x] \in Nat OBVIOUS
<1> QED BY <1>1, <1>2, <1>3, <1>4

(* The sum of a function that is nought but at one element.                *)
LEMMA SumOfOne ==
  ASSUME NEW S, IsFiniteSet(S), NEW f \in [S -> Int], NEW x \in S, \A y \in S \ {x} : f[y] = 0
  PROVE  SumFunction(f) = f[x]
<1> DEFINE z == [y \in S |-> 0]
<1>1. z \in [S -> Int] /\ (\A y \in S : z[y] = 0) OBVIOUS
<1> HIDE DEF z
<1>2. SumFunction(z) = 0 BY <1>1, SumZero
<1>3. SumFunction(f) = SumFunction(z) - z[x] + f[x] BY <1>1, SumChange
<1>4. f[x] \in Int OBVIOUS
<1> QED BY <1>1, <1>2, <1>3, <1>4

(* Elements that count for nought may be added.                            *)
LEMMA SumExtend ==
  ASSUME NEW T, IsFiniteSet(T), NEW S \in SUBSET T, NEW f \in [S -> Int], NEW h \in [T -> Int],
         \A x \in S : h[x] = f[x], \A x \in T \ S : h[x] = 0
  PROVE  SumFunction(h) = SumFunction(f)
<1> DEFINE g == PartialSums(f, S)
           k == PartialSums(h, T)
           part == [s \in SUBSET S |-> k[s]]
           R == T \ S
           U == {u \in SUBSET R : k[S \cup u] = k[S]}
<1>1. IsFiniteSet(S) /\ IsFiniteSet(R) BY FS_Subset
<1>2. IsPartialSums(f, S, g) BY <1>1, PartialSumsOf
<1>3. IsPartialSums(h, T, k) /\ k \in [SUBSET T -> Int] BY PartialSumsOf
<1>4. k[S] = g[S]
  <2> HIDE DEF g, k
  <2>1. IsPartialSums(h, S, part)
    <3>1. ASSUME NEW s \in SUBSET S
          PROVE  part[s] = IF s = {} THEN 0 ELSE h[FirstOf(s)] + part[s \ {FirstOf(s)}]
      BY <1>3 DEF IsPartialSums
    <3> QED BY <3>1 DEF IsPartialSums
  <2>2. \A x \in S : f[x] = h[x] OBVIOUS
  <2> HIDE DEF part
  <2>3. \A s \in SUBSET S : g[s] = part[s] BY <1>1, <1>2, <2>1, <2>2, SumAgree
  <2> QED BY <2>3 DEF part
<1>5. ASSUME NEW u \in SUBSET R, \A t \in SUBSET u : t # u => t \in U
      PROVE  u \in U
  <2>1. CASE u = {} BY <2>1
  <2>2. CASE u # {}
    <3>1. PICK x \in u : TRUE BY <2>2
    <3>2. u \ {x} \in SUBSET u /\ u \ {x} # u OBVIOUS
    <3>6. k[S \cup (u \ {x})] = k[S] BY <1>5, <3>2
    <3>3. k[S \cup u] = h[x] + k[(S \cup u) \ {x}] BY <3>1, PartialSplit
    <3>4. (S \cup u) \ {x} = S \cup (u \ {x}) BY <3>1
    <3>5. k[S] \in Int /\ h[x] = 0 BY <1>3
    <3> HIDE DEF k
    <3>7. k[S \cup u] = h[x] + k[S \cup (u \ {x})] BY <3>3, <3>4, Zenon
    <3>8. k[S \cup u] = 0 + k[S] BY <3>5, <3>6, <3>7, Zenon
    <3>9. k[S \cup u] = k[S] BY <3>5, <3>8
    <3> QED BY <3>9
  <2> QED BY <2>1, <2>2
<1>7. S \cup R = T OBVIOUS
<1> HIDE DEF U, R
<1>6. R \in U BY <1>1, <1>5, SubsetInduction
<1>8. k[T] = k[S] BY <1>6, <1>7 DEF U
<1>9. DOMAIN f = S /\ DOMAIN h = T OBVIOUS
<1> QED BY <1>4, <1>8, <1>9, SumIsPartial

(* One term can be taken out of a sum.                                     *)
LEMMA SumWithout ==
  ASSUME NEW S, IsFiniteSet(S), NEW f \in [S -> Int], NEW x \in S
  PROVE  \E g \in [S -> Int] :
           /\ g[x] = 0 /\ \A y \in S \ {x} : g[y] = f[y]
           /\ SumFunction(g) \in Int /\ SumFunction(f) = f[x] + SumFunction(g)
<1> DEFINE h == [f EXCEPT ![x] = 0]
<1>1. h \in [S -> Int] /\ h[x] = 0 /\ (\A y \in S \ {x} : h[y] = f[y]) /\ f[x] \in Int OBVIOUS
<1> HIDE DEF h
<1>2. SumFunction(h) = SumFunction(f) - f[x] + h[x] BY <1>1, SumChange
<1>3. SumFunction(f) \in Int BY SumType
<1>4. SumFunction(h) \in Int /\ SumFunction(f) = f[x] + SumFunction(h) BY <1>1, <1>2, <1>3
<1> QED BY <1>1, <1>4

(* A finite set has an element of greatest value.                          *)
LEMMA Greatest ==
  ASSUME NEW S, IsFiniteSet(S), NEW f \in [S -> Int]
  PROVE  \A s \in SUBSET S : s # {} => \E x \in s : \A y \in s : f[y] <= f[x]
<1> DEFINE T == {s \in SUBSET S : s # {} => \E x \in s : \A y \in s : f[y] <= f[x]}
<1>1. ASSUME NEW s \in SUBSET S, \A t \in SUBSET s : t # s => t \in T PROVE s \in T
  <2>1. CASE s = {} BY <2>1
  <2>2. CASE s # {}
    <3>1. PICK x \in s : TRUE BY <2>2
    <3>2. s \ {x} \in SUBSET s /\ s \ {x} # s BY <3>1
    <3>3. s \ {x} \in T BY <1>1, <3>2
    <3>4. CASE s \ {x} = {}
      <4>1. \A y \in s : f[y] <= f[x] BY <3>1, <3>4
      <4> QED BY <3>1, <4>1
    <3>5. CASE s \ {x} # {}
      <4>1. PICK z \in s \ {x} : \A y \in s \ {x} : f[y] <= f[z] BY <3>3, <3>5
      <4>2. f[x] \in Int /\ f[z] \in Int /\ \A y \in s : f[y] \in Int OBVIOUS
      <4>3. CASE f[x] <= f[z]
        <5>1. \A y \in s : f[y] <= f[z] BY <4>1, <4>3
        <5> QED BY <5>1
      <4>4. CASE f[z] < f[x]
        <5>1. \A y \in s \ {x} : f[y] <= f[x] BY <4>1, <4>2, <4>4
        <5>2. \A y \in s : f[y] <= f[x] BY <4>2, <5>1
        <5> QED BY <3>1, <5>2
      <4> QED BY <4>2, <4>3, <4>4
    <3> QED BY <3>4, <3>5
  <2> QED BY <2>1, <2>2
<1> HIDE DEF T
<1>2. \A s \in SUBSET S : s \in T BY <1>1, SubsetInduction
<1> QED BY <1>2 DEF T

(* A table adds up to the same by rows and by columns.                     *)
LEMMA SumSwap ==
  ASSUME NEW S, IsFiniteSet(S), NEW T, IsFiniteSet(T), NEW f \in [S -> [T -> Int]]
  PROVE  SumFunction([s \in S |-> SumFunction(f[s])])
           = SumFunction([t \in T |-> SumFunction([s \in S |-> f[s][t]])])
<1> DEFINE row == [s \in S |-> SumFunction(f[s])]
           column(t) == [s \in S |-> f[s][t]]
           R == PartialSums(row, S)
           C(t) == PartialSums(column(t), S)
           upTo(A) == [t \in T |-> C(t)[A]]
           U == {A \in SUBSET S : R[A] = SumFunction(upTo(A))}
<1>1. row \in [S -> Int] BY SumType
<1>2. ASSUME NEW t \in T PROVE column(t) \in [S -> Int] OBVIOUS
<1>3. IsPartialSums(row, S, R) /\ R \in [SUBSET S -> Int] BY <1>1, PartialSumsOf
<1>4. ASSUME NEW t \in T PROVE IsPartialSums(column(t), S, C(t)) /\ C(t) \in [SUBSET S -> Int]
  BY <1>2, PartialSumsOf
<1>5. ASSUME NEW A \in SUBSET S, \A B \in SUBSET A : B # A => B \in U
      PROVE  A \in U
  <2> HIDE DEF R, C
  <2>1. ASSUME NEW B \in SUBSET S PROVE upTo(B) \in [T -> Int] BY <1>4
  <2>2. CASE A = {}
    <3>1. R[A] = 0 BY <1>3, <2>2 DEF IsPartialSums
    <3>2. \A t \in T : upTo(A)[t] = 0 BY <1>4, <2>2 DEF IsPartialSums
    <3>3. SumFunction(upTo(A)) = 0
      <4>1. upTo(A) \in [T -> Int] BY <2>1
      <4> HIDE DEF upTo
      <4> QED BY <3>2, <4>1, SumZero
    <3> QED BY <3>1, <3>3
  <2>3. CASE A # {}
    <3> DEFINE c == FirstOf(A)
               B == A \ {c}
    <3>1. c \in A BY <2>3, FirstOfIn
    <3>2. B \in U BY <1>5, <3>1
    <3>3. R[A] = row[c] + R[B] BY <1>3, <2>3 DEF IsPartialSums
    <3>4. \A t \in T : upTo(A)[t] = f[c][t] + upTo(B)[t]
      <4> SUFFICES ASSUME NEW t \in T PROVE C(t)[A] = f[c][t] + C(t)[B] OBVIOUS
      <4>1. C(t)[A] = column(t)[c] + C(t)[B] BY <1>4, <2>3 DEF IsPartialSums
      <4> QED BY <3>1, <4>1
    <3>5. B \in SUBSET S /\ f[c] \in [T -> Int] BY <3>1
    <3>6. upTo(A) \in [T -> Int] /\ upTo(B) \in [T -> Int] BY <2>1, <3>5
    <3>7. R[B] = SumFunction(upTo(B)) BY <3>2
    <3>8. row[c] = SumFunction(f[c]) BY <3>1
    <3> HIDE DEF upTo, U, row, c, B
    <3>9. SumFunction(upTo(A)) = SumFunction(f[c]) + SumFunction(upTo(B))
      BY <3>4, <3>5, <3>6, SumAdd
    <3> QED BY <3>3, <3>7, <3>8, <3>9 DEF U
  <2> QED BY <2>2, <2>3
<1> HIDE DEF U
<1>6. S \in U BY <1>5, SubsetInduction
<1>7. R[S] = SumFunction(upTo(S)) BY <1>6 DEF U
<1>8. SumFunction(row) = R[S]
  <2>1. DOMAIN row = S OBVIOUS
  <2> HIDE DEF row
  <2> QED BY <2>1, SumIsPartial
<1>9. ASSUME NEW t \in T PROVE SumFunction(column(t)) = C(t)[S]
  <2>1. DOMAIN column(t) = S OBVIOUS
  <2> HIDE DEF column
  <2> QED BY <2>1, SumIsPartial
<1>10. upTo(S) = [t \in T |-> SumFunction(column(t))] BY <1>9
<1> QED BY <1>7, <1>8, <1>10

(* The sum over a part of a set, as a sum over the set.                    *)
LEMMA SumWhere ==
  ASSUME NEW S, IsFiniteSet(S), NEW A \in SUBSET S, NEW f \in [A -> Int]
  PROVE  /\ SumFunction(f) = SumFunction([x \in S |-> IF x \in A THEN f[x] ELSE 0])
         /\ SumFunction(f) \in Int
<1> DEFINE h == [x \in S |-> IF x \in A THEN f[x] ELSE 0]
<1>1. h \in [S -> Int] /\ (\A x \in A : h[x] = f[x]) /\ (\A x \in S \ A : h[x] = 0) OBVIOUS
<1> HIDE DEF h
<1>2. SumFunction(h) = SumFunction(f) BY <1>1, SumExtend
<1>3. SumFunction(h) \in Int BY <1>1, SumType
<1> QED BY <1>2, <1>3 DEF h
=============================================================================
