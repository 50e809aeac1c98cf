------------------------------- MODULE SumProofs -------------------------------
(***************************************************************************)
(* Lemmas about SumFunctionOnSet and SumFunction of the community module   *)
(* Functions, the sums the queries and the invariants of every component   *)
(* are built from.                                                         *)
(*                                                                         *)
(* Each is an induction over a finite set.  The induction theorems of the  *)
(* library take the property as an operator, which the provers cannot      *)
(* instantiate, so the induction is one over sets instead: if the claim    *)
(* fails for some subset, it fails for a smallest one (SmallestSet), and   *)
(* that one cannot be.                                                     *)
(***************************************************************************)
EXTENDS Functions, Integers, FiniteSets, FiniteSetTheorems, WellFoundedInduction, TLAPS

LEMMA LeastNatural ==
  ASSUME NEW T, T \subseteq Nat, T # {}
  PROVE  \E n \in T : \A m \in T : n <= m
<1>1. \E n \in T : \A m \in T : ~ (<<m, n>> \in OpToRel(<, Nat))
  BY NatLessThanWellFounded, WFMin
<1>2. OpToRel(<, Nat) = {ss \in Nat \X Nat : ss[1] < ss[2]}
  BY DEF OpToRel
<1>3. \A m, n \in T : <<m, n>> \notin {ss \in Nat \X Nat : ss[1] < ss[2]} => n <= m
  OBVIOUS
<1> QED BY <1>1, <1>2, <1>3

\* Among subsets of a finite set there is one that stays among them for the
\* removal of no element.
LEMMA SmallestSet ==
  ASSUME NEW S, IsFiniteSet(S), NEW B, B \subseteq SUBSET S, B # {}
  PROVE  \E s \in B : \A x \in s : s \ {x} \notin B
<1> DEFINE sizes == {Cardinality(s) : s \in B}
<1>1. \A s \in B : IsFiniteSet(s) /\ Cardinality(s) \in Nat
  BY FS_Subset, FS_CardinalityType
<1>2. PICK n \in sizes : \A m \in sizes : n <= m
  <2>1. sizes \subseteq Nat /\ sizes # {}
    BY <1>1
  <2> HIDE DEF sizes
  <2> QED BY <2>1, LeastNatural
<1>3. PICK s \in B : n = Cardinality(s)
  OBVIOUS
<1>4. ASSUME NEW x \in s, s \ {x} \in B PROVE FALSE
  <2>1. Cardinality(s \ {x}) = Cardinality(s) - 1
    BY <1>1, <1>3, FS_RemoveElement
  <2>2. Cardinality(s) <= Cardinality(s \ {x})
    BY <1>2, <1>3, <1>4
  <2> QED BY <1>1, <1>3, <2>1, <2>2
<1> QED BY <1>4

-----------------------------------------------------------------------------
(* The recursion behind a sum has a solution, and only one *)

Chosen(s) == CHOOSE x \in s : TRUE
IsIteration(g, f, S) ==
  g = [s \in SUBSET S |->
         IF s = {} THEN 0 ELSE f[Chosen(s)] + g[s \ {Chosen(s)}]]
Iteration(f, S) == CHOOSE g : IsIteration(g, f, S)

LEMMA ChosenIn ==
  ASSUME NEW s, s # {}
  PROVE  Chosen(s) \in s
BY DEF Chosen

LEMMA SumIsIteration ==
  ASSUME NEW f, NEW S
  PROVE  SumFunctionOnSet(f, S) = Iteration(f, S)[S]
BY DEF SumFunctionOnSet, FoldFunctionOnSet, MapThenFoldSet, Iteration, IsIteration, Chosen

LEMMA IterationStep ==
  ASSUME NEW g, NEW f, NEW S, IsIteration(g, f, S), NEW s \in SUBSET S
  PROVE  /\ s = {} => g[s] = 0
         /\ s # {} => g[s] = f[Chosen(s)] + g[s \ {Chosen(s)}]
BY DEF IsIteration

LEMMA IterationUnique ==
  ASSUME NEW g, NEW h, NEW f, NEW S, IsFiniteSet(S),
         IsIteration(g, f, S), IsIteration(h, f, S)
  PROVE  g = h
<1> DEFINE B == {s \in SUBSET S : g[s] # h[s]}
<1>1. ASSUME B # {} PROVE FALSE
  <2>1. PICK s \in B : \A x \in s : s \ {x} \notin B
    BY <1>1, SmallestSet
  <2>2. s # {}
    BY <2>1, IterationStep
  <2>3. Chosen(s) \in s
    BY <2>2, ChosenIn
  <2>4. g[s \ {Chosen(s)}] = h[s \ {Chosen(s)}]
    BY <2>1, <2>3
  <2> QED BY <2>1, <2>2, <2>4, IterationStep
<1>2. \A s \in SUBSET S : g[s] = h[s]
  BY <1>1
<1>3. /\ DOMAIN g = SUBSET S /\ g = [s \in SUBSET S |-> g[s]]
      /\ DOMAIN h = SUBSET S /\ h = [s \in SUBSET S |-> h[s]]
  BY DEF IsIteration
<1> QED BY <1>2, <1>3

LEMMA IterationRestricts ==
  ASSUME NEW g, NEW f, NEW S, IsFiniteSet(S), IsIteration(g, f, S), NEW T \in SUBSET S
  PROVE  /\ IsIteration(Iteration(f, T), f, T)
         /\ \A s \in SUBSET T : Iteration(f, T)[s] = g[s]
<1> DEFINE h == [s \in SUBSET T |-> g[s]]
<1>1. \A s \in SUBSET T :
        h[s] = IF s = {} THEN 0 ELSE f[Chosen(s)] + h[s \ {Chosen(s)}]
  BY IterationStep
<1>2. IsIteration(h, f, T)
  BY <1>1 DEF IsIteration
<1>3. IsIteration(Iteration(f, T), f, T)
  BY <1>2 DEF Iteration
<1>4. IsFiniteSet(T)
  BY FS_Subset
<1>5. Iteration(f, T) = h
  <2> HIDE DEF h
  <2> QED BY <1>2, <1>3, <1>4, IterationUnique
<1> QED BY <1>3, <1>5

LEMMA IterationExists ==
  ASSUME NEW f, NEW S, IsFiniteSet(S)
  PROVE  IsIteration(Iteration(f, S), f, S)
<1> DEFINE Good(s) == IsIteration(Iteration(f, s), f, s)
           B == {s \in SUBSET S : ~Good(s)}
           sum(s) == Iteration(f, s)[s]
<1>1. ASSUME NEW s \in SUBSET S, \A x \in s : Good(s \ {x}) PROVE Good(s)
  <2> DEFINE value(t) == IF t = {} THEN 0 ELSE f[Chosen(t)] + sum(t \ {Chosen(t)})
             g == [t \in SUBSET s |-> value(t)]
  <2>1. IsFiniteSet(s)
    BY FS_Subset
  <2>2. ASSUME NEW t \in SUBSET s, t # s PROVE Good(t) /\ sum(t) = value(t)
    <3>1. PICK x \in s : t \in SUBSET (s \ {x})
      BY <2>2
    <3>2. IsFiniteSet(s \ {x}) /\ IsFiniteSet(t)
      BY <2>1, FS_Subset
    <3>3. Good(s \ {x})
      BY <1>1
    <3> DEFINE h == Iteration(f, s \ {x})
    <3>4. IsIteration(h, f, s \ {x})
      BY <3>3
    <3>5. ASSUME NEW u \in SUBSET (s \ {x}) PROVE Good(u) /\ sum(u) = h[u]
      <4> HIDE DEF h
      <4>1. u \in SUBSET u
        OBVIOUS
      <4> QED BY <3>2, <3>4, <4>1, IterationRestricts
    <3>6. /\ t = {} => h[t] = 0
          /\ t # {} => h[t] = f[Chosen(t)] + h[t \ {Chosen(t)}]
      <4> HIDE DEF h
      <4> QED BY <3>1, <3>4, IterationStep
    <3>7. sum(t) = h[t] /\ sum(t \ {Chosen(t)}) = h[t \ {Chosen(t)}] /\ Good(t)
      BY <3>1, <3>5
    <3> HIDE DEF sum, h, Good
    <3> QED BY <3>6, <3>7
  <2>3. \A t \in SUBSET s : t # {} => t \ {Chosen(t)} \in SUBSET s /\ t \ {Chosen(t)} # s
    BY ChosenIn
  <2>4. \A t \in SUBSET s : t # {} => g[t \ {Chosen(t)}] = sum(t \ {Chosen(t)})
    BY <2>2, <2>3
  <2>5. IsIteration(g, f, s)
    BY <2>4 DEF IsIteration
  <2> QED BY <2>5 DEF Iteration
<1>2. ASSUME B # {} PROVE FALSE
  <2>1. PICK s \in B : \A x \in s : s \ {x} \notin B
    BY <1>2, SmallestSet
  <2>2. \A x \in s : s \ {x} \in SUBSET S
    OBVIOUS
  <2> HIDE DEF Good
  <2> QED BY <1>1, <2>1, <2>2
<1>3. S \in SUBSET S
  OBVIOUS
<1> HIDE DEF Good
<1>4. Good(S)
  BY <1>2, <1>3
<1> QED BY <1>4 DEF Good

-----------------------------------------------------------------------------
(* Sums over finite sets *)

LEMMA SumEmpty ==
  ASSUME NEW f
  PROVE  SumFunctionOnSet(f, {}) = 0
<1>1. IsIteration(Iteration(f, {}), f, {})
  BY FS_EmptySet, IterationExists
<1> QED BY <1>1, IterationStep, SumIsIteration

LEMMA SumChosen ==
  ASSUME NEW f, NEW S, IsFiniteSet(S), S # {}
  PROVE  /\ Chosen(S) \in S
         /\ SumFunctionOnSet(f, S) = f[Chosen(S)] + SumFunctionOnSet(f, S \ {Chosen(S)})
<1> DEFINE g == Iteration(f, S)
           T == S \ {Chosen(S)}
<1>1. IsIteration(g, f, S)
  BY IterationExists
<1>2. g[S] = f[Chosen(S)] + g[T]
  BY <1>1, IterationStep
<1>3. Iteration(f, T)[T] = g[T]
  <2>1. T \in SUBSET S /\ T \in SUBSET T
    OBVIOUS
  <2> HIDE DEF g, T
  <2> QED BY <1>1, <2>1, IterationRestricts
<1> QED BY <1>2, <1>3, ChosenIn, SumIsIteration

LEMMA SumInt ==
  ASSUME NEW f, NEW S, IsFiniteSet(S), \A x \in S : f[x] \in Int
  PROVE  SumFunctionOnSet(f, S) \in Int
<1> DEFINE B == {s \in SUBSET S : SumFunctionOnSet(f, s) \notin Int}
<1>1. ASSUME B # {} PROVE FALSE
  <2>1. PICK s \in B : \A x \in s : s \ {x} \notin B
    BY <1>1, SmallestSet
  <2>2. s # {} /\ IsFiniteSet(s)
    <3>1. SumFunctionOnSet(f, {}) = 0
      BY SumEmpty
    <3>2. s # {}
      BY <2>1, <3>1
    <3> QED BY <2>1, <3>2, FS_Subset
  <2>3. Chosen(s) \in s
        /\ SumFunctionOnSet(f, s) = f[Chosen(s)] + SumFunctionOnSet(f, s \ {Chosen(s)})
    BY <2>2, SumChosen
  <2>4. SumFunctionOnSet(f, s \ {Chosen(s)}) \in Int
    BY <2>1, <2>3
  <2> QED BY <2>1, <2>3, <2>4
<1> QED BY <1>1

\* Any element may come first.
LEMMA SumAny ==
  ASSUME NEW f, NEW S, IsFiniteSet(S), \A x \in S : f[x] \in Int, NEW y \in S
  PROVE  SumFunctionOnSet(f, S) = f[y] + SumFunctionOnSet(f, S \ {y})
<1> DEFINE Fails(s, x) == SumFunctionOnSet(f, s) # f[x] + SumFunctionOnSet(f, s \ {x})
           B == {s \in SUBSET S : \E x \in s : Fails(s, x)}
<1>1. ASSUME B # {} PROVE FALSE
  <2>1. PICK s \in B : \A x \in s : s \ {x} \notin B
    BY <1>1, SmallestSet
  <2>2. PICK x \in s : Fails(s, x)
    BY <2>1
  <2> DEFINE c == Chosen(s)
             rest == SumFunctionOnSet(f, (s \ {c}) \ {x})
  <2>3. s # {} /\ IsFiniteSet(s) /\ s \in SUBSET S
    BY <2>1, <2>2, FS_Subset
  <2>4. c \in s /\ SumFunctionOnSet(f, s) = f[c] + SumFunctionOnSet(f, s \ {c})
    BY <2>3, SumChosen
  <2>5. x # c
    BY <2>2, <2>4
  <2>6. x \in s \ {c} /\ c \in s \ {x} /\ s \ {c} \in SUBSET S /\ s \ {x} \in SUBSET S
    BY <2>2, <2>3, <2>4, <2>5
  <2>7. SumFunctionOnSet(f, s \ {c}) = f[x] + rest
    BY <2>1, <2>4, <2>6
  <2>8. SumFunctionOnSet(f, s \ {x}) = f[c] + rest
    <3>1. (s \ {x}) \ {c} = (s \ {c}) \ {x}
      OBVIOUS
    <3> QED BY <2>1, <2>2, <2>6, <3>1
  <2>9. rest \in Int /\ f[x] \in Int /\ f[c] \in Int
    <3>1. IsFiniteSet((s \ {c}) \ {x}) /\ \A z \in (s \ {c}) \ {x} : f[z] \in Int
      BY <2>3, FS_Subset
    <3> QED BY <2>3, <2>2, <2>4, <3>1, SumInt
  <2> HIDE DEF rest, c
  <2> QED BY <2>2, <2>4, <2>7, <2>8, <2>9
<1>2. S \in SUBSET S
  OBVIOUS
<1> QED BY <1>1, <1>2

\* A sum depends on the summands only.
LEMMA SumAgree ==
  ASSUME NEW f, NEW g, NEW S, IsFiniteSet(S), \A x \in S : f[x] = g[x]
  PROVE  SumFunctionOnSet(f, S) = SumFunctionOnSet(g, S)
<1> DEFINE B == {s \in SUBSET S : SumFunctionOnSet(f, s) # SumFunctionOnSet(g, s)}
<1>1. ASSUME B # {} PROVE FALSE
  <2>1. PICK s \in B : \A x \in s : s \ {x} \notin B
    BY <1>1, SmallestSet
  <2>2. s # {} /\ IsFiniteSet(s)
    BY <2>1, SumEmpty, FS_Subset
  <2>3. /\ Chosen(s) \in s
        /\ SumFunctionOnSet(f, s) = f[Chosen(s)] + SumFunctionOnSet(f, s \ {Chosen(s)})
        /\ SumFunctionOnSet(g, s) = g[Chosen(s)] + SumFunctionOnSet(g, s \ {Chosen(s)})
    BY <2>2, SumChosen
  <2>4. SumFunctionOnSet(f, s \ {Chosen(s)}) = SumFunctionOnSet(g, s \ {Chosen(s)})
    BY <2>1, <2>3
  <2> QED BY <2>1, <2>3, <2>4
<1> QED BY <1>1

\* A sum changes by what one of its summands does.
LEMMA SumChange ==
  ASSUME NEW f, NEW g, NEW S, IsFiniteSet(S), NEW y \in S,
         \A x \in S : f[x] \in Int, \A x \in S : g[x] \in Int,
         \A x \in S \ {y} : f[x] = g[x]
  PROVE  SumFunctionOnSet(g, S) = SumFunctionOnSet(f, S) + (g[y] - f[y])
<1> DEFINE T == S \ {y}
<1>1. IsFiniteSet(T)
  BY FS_Subset
<1>2. SumFunctionOnSet(f, T) = SumFunctionOnSet(g, T)
  BY <1>1, SumAgree
<1>3. SumFunctionOnSet(f, T) \in Int
  BY <1>1, SumInt
<1>4. /\ SumFunctionOnSet(f, S) = f[y] + SumFunctionOnSet(f, T)
      /\ SumFunctionOnSet(g, S) = g[y] + SumFunctionOnSet(g, T)
  BY SumAny
<1> QED BY <1>2, <1>3, <1>4

LEMMA SumPlus ==
  ASSUME NEW f, NEW g, NEW h, NEW S, IsFiniteSet(S),
         \A x \in S : f[x] \in Int, \A x \in S : g[x] \in Int,
         \A x \in S : h[x] = f[x] + g[x]
  PROVE  SumFunctionOnSet(h, S) = SumFunctionOnSet(f, S) + SumFunctionOnSet(g, S)
<1> DEFINE B == {s \in SUBSET S : SumFunctionOnSet(h, s)
                                    # SumFunctionOnSet(f, s) + SumFunctionOnSet(g, s)}
<1>1. ASSUME B # {} PROVE FALSE
  <2>1. PICK s \in B : \A x \in s : s \ {x} \notin B
    BY <1>1, SmallestSet
  <2>2. s # {} /\ IsFiniteSet(s)
    <3>1. /\ SumFunctionOnSet(f, {}) = 0
          /\ SumFunctionOnSet(g, {}) = 0
          /\ SumFunctionOnSet(h, {}) = 0
      BY SumEmpty
    <3>2. s # {}
      BY <2>1, <3>1
    <3> QED BY <2>1, <3>2, FS_Subset
  <2> DEFINE c == Chosen(s)
             t == s \ {c}
  <2>3. /\ c \in s
        /\ SumFunctionOnSet(f, s) = f[c] + SumFunctionOnSet(f, t)
        /\ SumFunctionOnSet(g, s) = g[c] + SumFunctionOnSet(g, t)
        /\ SumFunctionOnSet(h, s) = h[c] + SumFunctionOnSet(h, t)
    BY <2>2, SumChosen
  <2>4. IsFiniteSet(t) /\ t \in SUBSET S
    BY <2>1, <2>2, FS_Subset
  <2>5. SumFunctionOnSet(f, t) \in Int /\ SumFunctionOnSet(g, t) \in Int
    BY <2>4, SumInt
  <2>6. SumFunctionOnSet(h, t) = SumFunctionOnSet(f, t) + SumFunctionOnSet(g, t)
    BY <2>1, <2>3
  <2>7. f[c] \in Int /\ g[c] \in Int /\ h[c] = f[c] + g[c]
    BY <2>1, <2>3
  <2> HIDE DEF c, t
  <2> QED BY <2>1, <2>3, <2>5, <2>6, <2>7
<1> QED BY <1>1

LEMMA SumZero ==
  ASSUME NEW f, NEW S, IsFiniteSet(S), \A x \in S : f[x] = 0
  PROVE  SumFunctionOnSet(f, S) = 0
<1> DEFINE sum == SumFunctionOnSet(f, S)
<1>1. sum \in Int
  BY SumInt
<1>2. sum = sum + sum
  BY SumPlus
<1> HIDE DEF sum
<1>3. sum = 0
  BY <1>1, <1>2
<1> QED BY <1>3 DEF sum

LEMMA SumSingle ==
  ASSUME NEW f, NEW S, IsFiniteSet(S), NEW y \in S, f[y] \in Int,
         \A x \in S \ {y} : f[x] = 0
  PROVE  SumFunctionOnSet(f, S) = f[y]
<1>1. \A x \in S : f[x] \in Int
  OBVIOUS
<1>2. SumFunctionOnSet(f, S) = f[y] + SumFunctionOnSet(f, S \ {y})
  BY <1>1, SumAny
<1>3. IsFiniteSet(S \ {y})
  BY FS_Subset
<1>4. SumFunctionOnSet(f, S \ {y}) = 0
  BY <1>3, SumZero
<1> QED BY <1>2, <1>4

LEMMA SumMinus ==
  ASSUME NEW f, NEW g, NEW S, IsFiniteSet(S),
         \A x \in S : f[x] \in Int, \A x \in S : g[x] = -f[x]
  PROVE  SumFunctionOnSet(g, S) = -SumFunctionOnSet(f, S)
<1> DEFINE z == [x \in S |-> 0]
<1>1. SumFunctionOnSet(z, S) = 0
  BY SumZero
<1>2. SumFunctionOnSet(z, S) = SumFunctionOnSet(f, S) + SumFunctionOnSet(g, S)
  <2>1. \A x \in S : g[x] \in Int /\ z[x] = f[x] + g[x]
    OBVIOUS
  <2> HIDE DEF z
  <2> QED BY <2>1, SumPlus
<1>3. SumFunctionOnSet(f, S) \in Int /\ SumFunctionOnSet(g, S) \in Int
  BY SumInt
<1> QED BY <1>1, <1>2, <1>3

\* A sum of naturals is a natural, and no summand exceeds it.
LEMMA SumNat ==
  ASSUME NEW f, NEW S, IsFiniteSet(S), \A x \in S : f[x] \in Nat
  PROVE  /\ SumFunctionOnSet(f, S) \in Nat
         /\ \A x \in S : f[x] <= SumFunctionOnSet(f, S)
<1> DEFINE B == {s \in SUBSET S : SumFunctionOnSet(f, s) \notin Nat}
<1>1. ASSUME B # {} PROVE FALSE
  <2>1. PICK s \in B : \A x \in s : s \ {x} \notin B
    BY <1>1, SmallestSet
  <2>2. s # {} /\ IsFiniteSet(s)
    <3>1. SumFunctionOnSet(f, {}) = 0
      BY SumEmpty
    <3>2. s # {}
      BY <2>1, <3>1
    <3> QED BY <2>1, <3>2, FS_Subset
  <2>3. Chosen(s) \in s
        /\ SumFunctionOnSet(f, s) = f[Chosen(s)] + SumFunctionOnSet(f, s \ {Chosen(s)})
    BY <2>2, SumChosen
  <2>4. SumFunctionOnSet(f, s \ {Chosen(s)}) \in Nat
    BY <2>1, <2>3
  <2> QED BY <2>1, <2>3, <2>4
<1>2. \A s \in SUBSET S : SumFunctionOnSet(f, s) \in Nat
  BY <1>1
<1>3. ASSUME NEW x \in S PROVE f[x] <= SumFunctionOnSet(f, S)
  <2>1. SumFunctionOnSet(f, S) = f[x] + SumFunctionOnSet(f, S \ {x})
    BY SumAny
  <2>2. SumFunctionOnSet(f, S \ {x}) \in Nat
    BY <1>2
  <2> QED BY <2>1, <2>2
<1>4. S \in SUBSET S
  OBVIOUS
<1> QED BY <1>2, <1>3, <1>4

\* Sums are monotonic, strictly where one summand is.
LEMMA SumMonotonic ==
  ASSUME NEW f, NEW g, NEW S, IsFiniteSet(S),
         \A x \in S : f[x] \in Int, \A x \in S : g[x] \in Int,
         \A x \in S : f[x] <= g[x]
  PROVE  /\ SumFunctionOnSet(f, S) <= SumFunctionOnSet(g, S)
         /\ SumFunctionOnSet(f, S) = SumFunctionOnSet(g, S) => \A x \in S : f[x] = g[x]
<1> DEFINE d == [x \in S |-> g[x] - f[x]]
<1>1. \A x \in S : d[x] \in Nat /\ g[x] = f[x] + d[x] /\ (d[x] <= 0 => f[x] = g[x])
  OBVIOUS
<1> HIDE DEF d
<1>2. SumFunctionOnSet(g, S) = SumFunctionOnSet(f, S) + SumFunctionOnSet(d, S)
  BY <1>1, SumPlus
<1>3. /\ SumFunctionOnSet(d, S) \in Nat
      /\ \A x \in S : d[x] <= SumFunctionOnSet(d, S)
  BY <1>1, SumNat
<1>4. SumFunctionOnSet(f, S) \in Int
  BY SumInt
<1> QED BY <1>1, <1>2, <1>3, <1>4

\* Summands outside T that are zero do not count.
LEMMA SumSupport ==
  ASSUME NEW f, NEW S, IsFiniteSet(S), NEW T \in SUBSET S,
         \A x \in T : f[x] \in Int, \A x \in S \ T : f[x] = 0
  PROVE  SumFunctionOnSet(f, S) = SumFunctionOnSet(f, T)
<1> DEFINE B == {s \in SUBSET S : SumFunctionOnSet(f, s) # SumFunctionOnSet(f, s \cap T)}
<1>0. \A x \in S : f[x] \in Int
  OBVIOUS
<1>1. ASSUME B # {} PROVE FALSE
  <2>1. PICK s \in B : \A x \in s : s \ {x} \notin B
    BY <1>1, SmallestSet
  <2>2. s # {} /\ IsFiniteSet(s) /\ IsFiniteSet(s \cap T)
    <3>1. IsFiniteSet(s) /\ IsFiniteSet(s \cap T)
      BY <2>1, FS_Subset
    <3>2. {} \cap T = {}
      OBVIOUS
    <3> QED BY <2>1, <3>1, <3>2
  <2> DEFINE c == Chosen(s)
  <2>3. c \in s /\ SumFunctionOnSet(f, s) = f[c] + SumFunctionOnSet(f, s \ {c})
    BY <2>2, SumChosen
  <2>4. SumFunctionOnSet(f, s \ {c}) = SumFunctionOnSet(f, (s \ {c}) \cap T)
    BY <2>1, <2>3
  <2>5. SumFunctionOnSet(f, (s \ {c}) \cap T) \in Int
    <3>1. IsFiniteSet((s \ {c}) \cap T)
      BY <2>2, FS_Subset
    <3> QED BY <3>1, SumInt
  <2>6. CASE c \in T
    <3>1. c \in s \cap T /\ (s \ {c}) \cap T = (s \cap T) \ {c}
      BY <2>3, <2>6
    <3>2. SumFunctionOnSet(f, s \cap T)
            = f[c] + SumFunctionOnSet(f, (s \cap T) \ {c})
      <4>1. \A x \in s \cap T : f[x] \in Int
        OBVIOUS
      <4> QED BY <2>2, <3>1, <4>1, SumAny
    <3> QED BY <2>1, <2>3, <2>4, <3>1, <3>2
  <2>7. CASE c \notin T
    <3>1. f[c] = 0 /\ (s \ {c}) \cap T = s \cap T
      BY <2>1, <2>3, <2>7
    <3> QED BY <2>1, <2>3, <2>4, <2>5, <3>1
  <2> QED BY <2>6, <2>7
<1>2. S \in SUBSET S /\ S \cap T = T
  OBVIOUS
<1> QED BY <1>1, <1>2

=============================================================================
