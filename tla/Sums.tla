-------------------------------- MODULE Sums --------------------------------
(***************************************************************************)
(* What SumFunctionOnSet computes on a finite set: nothing over the empty  *)
(* set, and one value more for each element more, whatever the order in    *)
(* which the fold chooses them.  The sums of Accounts, Payments, RateLimit *)
(* and ChangeStream are reasoned about with these.                         *)
(***************************************************************************)
EXTENDS Integers, Functions, FiniteSetTheorems, WellFoundedInduction, TLAPS

(* g gives the sum of f over every subset of D, whichever element is taken *)
(* out of it; the values are of N.                                         *)
Adds(f, D, N, g) ==
  /\ g \in [SUBSET D -> N]
  /\ g[{}] = 0
  /\ \A s \in SUBSET D : \A x \in s : g[s] = f[x] + g[s \ {x}]

-----------------------------------------------------------------------------
(* Of the finite sets with a property one is minimal.                       *)
LEMMA Smallest ==
  ASSUME NEW D, IsFiniteSet(D), NEW T, T \subseteq SUBSET D, T # {}
  PROVE  \E s \in T : \A x \in s : s \ {x} \notin T
<1> DEFINE R == StrictSubsetOrdering(D)
<1>1. IsWellFoundedOn(R, FiniteSubsetsOf(D))
  BY FS_StrictSubsetOrderingWellFounded
<1>2. T \subseteq FiniteSubsetsOf(D)
  BY FS_Subset DEF FiniteSubsetsOf
<1> HIDE DEF R
<1>3. PICK s \in T : \A t \in T : <<t, s>> \notin R
  BY <1>1, <1>2, WFMin
<1>4. ASSUME NEW x \in s, s \ {x} \in T PROVE FALSE
  <2>1. s \ {x} \in SUBSET D /\ s \in SUBSET D /\ s \ {x} # s
    BY <1>4
  <2>2. <<s \ {x}, s>> \in R
    BY <2>1 DEF R, StrictSubsetOrdering
  <2> QED BY <1>3, <1>4, <2>2
<1> QED BY <1>4

(* From the sums over the subsets of D to those over the subsets of D and   *)
(* one element more.                                                        *)
LEMMA OneMore ==
  ASSUME NEW N \in {Nat, Int}, NEW f, NEW D, NEW g, Adds(f, D, N, g), NEW e, e \notin D, f[e] \in N,
         \A x \in D : f[x] \in N
  PROVE  \E h : Adds(f, D \cup {e}, N, h)
<1> DEFINE E == D \cup {e}
           h == [s \in SUBSET E |-> IF e \in s THEN f[e] + g[s \ {e}] ELSE g[s]]
<1>1. \A a, b \in N : a + b \in N
  OBVIOUS
<1>2. \A s \in SUBSET D : g[s] \in N
  BY DEF Adds
<1>3. \A s \in SUBSET E : s \ {e} \in SUBSET D
  OBVIOUS
<1>4. h \in [SUBSET E -> N]
  <2>1. ASSUME NEW s \in SUBSET E PROVE (IF e \in s THEN f[e] + g[s \ {e}] ELSE g[s]) \in N
    <3>1. CASE e \in s
      BY <1>1, <1>2, <1>3, <3>1
    <3>2. CASE e \notin s
      <4>1. s \in SUBSET D
        BY <3>2
      <4> QED BY <1>2, <3>2, <4>1
    <3> QED BY <3>1, <3>2
  <2> QED BY <2>1
<1>5. h[{}] = 0
  BY DEF Adds
<1>6. ASSUME NEW s \in SUBSET E, NEW x \in s PROVE h[s] = f[x] + h[s \ {x}]
  <2> DEFINE t == s \ {x}
  <2>1. t \in SUBSET E /\ t \ {e} = (s \ {e}) \ {x} /\ s \ {e} \in SUBSET D /\ t \ {e} \in SUBSET D
    OBVIOUS
  <2>2. CASE x = e
    <3>1. e \in s /\ e \notin t /\ t = s \ {e}
      BY <2>2
    <3> QED BY <2>1, <2>2, <3>1
  <2>3. CASE x # e /\ e \in s
    <3>1. e \in t /\ x \in s \ {e} /\ x \in D
      BY <2>3
    <3>2. g[s \ {e}] = f[x] + g[t \ {e}]
      <4>1. g[s \ {e}] = f[x] + g[(s \ {e}) \ {x}]
        BY <2>1, <3>1 DEF Adds
      <4> QED BY <2>1, <4>1
    <3>3. h[s] = f[e] + g[s \ {e}] /\ h[t] = f[e] + g[t \ {e}]
      BY <2>1, <2>3, <3>1
    <3>4. f[e] \in Int /\ f[x] \in Int /\ g[t \ {e}] \in Int
      BY <1>2, <2>1, <3>1
    <3> HIDE DEF h, t
    <3>5. h[s] = f[x] + h[t]
      BY <3>2, <3>3, <3>4
    <3> QED BY <3>5 DEF t
  <2>4. CASE e \notin s
    <3>1. s \in SUBSET D /\ t \in SUBSET D /\ e \notin t
      BY <2>4
    <3>2. g[s] = f[x] + g[t]
      BY <3>1 DEF Adds
    <3> QED BY <2>1, <2>4, <3>1, <3>2
  <2> QED BY <2>2, <2>3, <2>4
<1>7. Adds(f, E, N, h)
  BY <1>4, <1>5, <1>6 DEF Adds
<1> QED BY <1>7

(* Such sums exist for every finite set.                                    *)
LEMMA SumsExist ==
  ASSUME NEW N \in {Nat, Int}, NEW f, NEW D, IsFiniteSet(D), \A x \in D : f[x] \in N
  PROVE  \E g : Adds(f, D, N, g)
<1> DEFINE T == {s \in SUBSET D : ~\E g : Adds(f, s, N, g)}
<1>1. SUFFICES ASSUME T # {} PROVE FALSE
  OBVIOUS
<1>2. PICK s \in T : \A x \in s : s \ {x} \notin T
  <2>1. T \subseteq SUBSET D
    OBVIOUS
  <2> HIDE DEF T
  <2> QED BY <1>1, <2>1, Smallest
<1>3. CASE s = {}
  <2> DEFINE g == [t \in SUBSET s |-> 0]
  <2>1. Adds(f, s, N, g)
    BY <1>3 DEF Adds
  <2> QED BY <2>1
<1>4. CASE s # {}
  <2>1. PICK x \in s : TRUE
    BY <1>4
  <2>2. PICK g : Adds(f, s \ {x}, N, g)
    BY <1>2, <2>1
  <2>3. f[x] \in N /\ x \notin s \ {x} /\ \A y \in s \ {x} : f[y] \in N
    BY <2>1
  <2>4. (s \ {x}) \cup {x} = s
    BY <2>1
  <2>5. \E h : Adds(f, (s \ {x}) \cup {x}, N, h)
    BY <2>2, <2>3, OneMore
  <2> QED BY <2>4, <2>5
<1> QED BY <1>3, <1>4

(* And the fold computes them.                                              *)
LEMMA FoldAdds ==
  ASSUME NEW N \in {Nat, Int}, NEW f, NEW D, IsFiniteSet(D), NEW g, Adds(f, D, N, g)
  PROVE  SumFunctionOnSet(f, D) = g[D]
<1> DEFINE some(s) == CHOOSE x \in s : TRUE
           step(h) == [s \in SUBSET D |-> IF s = {} THEN 0 ELSE f[some(s)] + h[s \ {some(s)}]]
           iter == CHOOSE h : h = step(h)
           T == {s \in SUBSET D : iter[s] # g[s]}
<1>1. SumFunctionOnSet(f, D) = iter[D]
  BY DEF SumFunctionOnSet, FoldFunctionOnSet, MapThenFoldSet
<1>2. \A s : s # {} => some(s) \in s
  OBVIOUS
<1> HIDE DEF some
<1>3. g = step(g)
  BY <1>2 DEF Adds
<1>4. iter = step(iter)
  BY <1>3
<1> HIDE DEF iter
<1>5. T = {}
  <2>1. SUFFICES ASSUME T # {} PROVE FALSE
    OBVIOUS
  <2>2. PICK s \in T : \A x \in s : s \ {x} \notin T
    <3>1. T \subseteq SUBSET D
      OBVIOUS
    <3> HIDE DEF T
    <3> QED BY <2>1, <3>1, Smallest
  <2>3. iter[s] = IF s = {} THEN 0 ELSE f[some(s)] + iter[s \ {some(s)}]
    BY <1>4
  <2>4. CASE s = {}
    BY <2>2, <2>3, <2>4 DEF Adds
  <2>5. CASE s # {}
    <3>1. some(s) \in s /\ s \ {some(s)} \in SUBSET D /\ s \in SUBSET D
      BY <1>2, <2>5
    <3>2. iter[s \ {some(s)}] = g[s \ {some(s)}]
      BY <2>2, <3>1
    <3>3. g[s] = f[some(s)] + g[s \ {some(s)}]
      BY <3>1 DEF Adds
    <3> QED BY <2>2, <2>3, <2>5, <3>2, <3>3
  <2> QED BY <2>4, <2>5
<1> QED BY <1>1, <1>5

-----------------------------------------------------------------------------
(* Of zeros, and over nothing, the sum is 0.                                *)
LEMMA SumOfZeros ==
  ASSUME NEW f, NEW S, IsFiniteSet(S), \A x \in S : f[x] = 0
  PROVE  SumFunctionOnSet(f, S) = 0
<1> DEFINE g == [s \in SUBSET S |-> 0]
<1>1. Adds(f, S, Int, g) /\ g[S] = 0
  BY DEF Adds
<1> HIDE DEF g
<1> QED BY <1>1, FoldAdds

LEMMA SumOfNothing == ASSUME NEW f PROVE SumFunctionOnSet(f, {}) = 0
BY SumOfZeros, FS_EmptySet

(* The sum of integers is an integer, that of naturals a natural.           *)
LEMMA SumIs ==
  ASSUME NEW N \in {Nat, Int}, NEW f, NEW S, IsFiniteSet(S), \A x \in S : f[x] \in N
  PROVE  SumFunctionOnSet(f, S) \in N
<1>1. PICK g : Adds(f, S, N, g)
  BY SumsExist
<1>2. g[S] \in N
  BY <1>1 DEF Adds
<1>3. SumFunctionOnSet(f, S) = g[S]
  BY <1>1, FoldAdds
<1> QED BY <1>2, <1>3

(* One element more adds its value.                                         *)
LEMMA SumWithOne ==
  ASSUME NEW f, NEW S, IsFiniteSet(S), NEW e, e \notin S, f[e] \in Int, \A x \in S : f[x] \in Int
  PROVE  SumFunctionOnSet(f, S \cup {e}) = SumFunctionOnSet(f, S) + f[e]
<1> DEFINE E == S \cup {e}
<1>1. IsFiniteSet(E) /\ \A x \in E : f[x] \in Int
  BY FS_AddElement
<1>2. PICK g : Adds(f, E, Int, g)
  BY <1>1, SumsExist
<1> DEFINE h == [s \in SUBSET S |-> g[s]]
<1>3. Adds(f, S, Int, h)
  <2>1. \A s \in SUBSET S : s \in SUBSET E /\ h[s] = g[s] /\ \A x \in s : s \ {x} \in SUBSET S
    OBVIOUS
  <2>2. h \in [SUBSET S -> Int] /\ h[{}] = 0
    BY <1>2 DEF Adds
  <2>3. \A s \in SUBSET S : \A x \in s : h[s] = f[x] + h[s \ {x}]
    BY <1>2, <2>1 DEF Adds
  <2> QED BY <2>2, <2>3 DEF Adds
<1>4. h[S] = g[S] /\ E \ {e} = S /\ e \in E /\ E \in SUBSET E /\ S \in SUBSET E
  OBVIOUS
<1>5. g[E] = f[e] + g[S] /\ g[S] \in Int
  <2>1. g[E] = f[e] + g[E \ {e}]
    BY <1>2, <1>4 DEF Adds
  <2> QED BY <1>2, <1>4, <2>1 DEF Adds
<1>6. SumFunctionOnSet(f, E) = g[E]
  BY <1>1, <1>2, FoldAdds
<1> HIDE DEF h, E
<1>7. SumFunctionOnSet(f, S) = h[S]
  BY <1>3, FoldAdds
<1>8. SumFunctionOnSet(f, E) = SumFunctionOnSet(f, S) + f[e]
  <2>1. SumFunctionOnSet(f, S) = g[S]
    BY <1>4, <1>7
  <2> QED BY <1>5, <1>6, <2>1
<1> QED BY <1>8 DEF E

(* Only the values in the set matter.                                       *)
LEMMA SumOfSame ==
  ASSUME NEW f, NEW h, NEW S, IsFiniteSet(S), \A x \in S : f[x] \in Int /\ f[x] = h[x]
  PROVE  SumFunctionOnSet(f, S) = SumFunctionOnSet(h, S)
<1>1. PICK g : Adds(f, S, Int, g)
  BY SumsExist
<1>2. Adds(h, S, Int, g)
  BY <1>1 DEF Adds
<1> QED BY <1>1, <1>2, FoldAdds

(* When one value changes, so does the sum.                                 *)
LEMMA SumWithChange ==
  ASSUME NEW f, NEW h, NEW S, IsFiniteSet(S), NEW e \in S,
         \A x \in S : f[x] \in Int /\ h[x] \in Int /\ (x # e => f[x] = h[x])
  PROVE  SumFunctionOnSet(h, S) = SumFunctionOnSet(f, S) + h[e] - f[e]
<1> DEFINE R == S \ {e}
<1>1. IsFiniteSet(R) /\ e \notin R /\ S = R \cup {e} /\ R \subseteq S
  BY FS_RemoveElement
<1> HIDE DEF R
<1>2. \A x \in R : f[x] \in Int /\ h[x] \in Int /\ f[x] = h[x]
  BY <1>1
<1>3. SumFunctionOnSet(f, S) = SumFunctionOnSet(f, R) + f[e]
  BY <1>1, <1>2, SumWithOne
<1>4. SumFunctionOnSet(h, S) = SumFunctionOnSet(h, R) + h[e]
  BY <1>1, <1>2, SumWithOne
<1>5. SumFunctionOnSet(f, R) = SumFunctionOnSet(h, R)
  BY <1>1, <1>2, SumOfSame
<1>6. SumFunctionOnSet(h, R) \in Int
  BY <1>1, <1>2, SumIs
<1> QED BY <1>3, <1>4, <1>5, <1>6

(* Where no value is smaller, the sum is not.                               *)
LEMMA SumOfMore ==
  ASSUME NEW f, NEW h, NEW S, IsFiniteSet(S), \A x \in S : f[x] \in Int /\ h[x] \in Int /\ f[x] <= h[x]
  PROVE  SumFunctionOnSet(f, S) <= SumFunctionOnSet(h, S)
<1> DEFINE d == [x \in S |-> h[x] - f[x]]
<1>1. \A x \in S : d[x] \in Nat /\ h[x] = f[x] + d[x]
  OBVIOUS
<1> HIDE DEF d
<1>2. PICK a : Adds(f, S, Int, a)
  BY SumsExist
<1>3. PICK b : Adds(d, S, Nat, b)
  BY <1>1, SumsExist
<1> DEFINE c == [s \in SUBSET S |-> a[s] + b[s]]
<1>4. a[{}] = 0 /\ b[{}] = 0 /\ \A s \in SUBSET S : a[s] \in Int /\ b[s] \in Nat
  BY <1>2, <1>3 DEF Adds
<1>5. c \in [SUBSET S -> Int] /\ c[{}] = 0
  BY <1>4
<1>6. ASSUME NEW s \in SUBSET S, NEW x \in s PROVE c[s] = h[x] + c[s \ {x}]
  <2>1. a[s] = f[x] + a[s \ {x}] /\ b[s] = d[x] + b[s \ {x}]
    BY <1>2, <1>3 DEF Adds
  <2>2. c[s] = a[s] + b[s] /\ c[s \ {x}] = a[s \ {x}] + b[s \ {x}]
    OBVIOUS
  <2>3. a[s \ {x}] \in Int /\ b[s \ {x}] \in Int /\ f[x] \in Int /\ d[x] \in Int /\ h[x] = f[x] + d[x]
    BY <1>1, <1>4
  <2> HIDE DEF c
  <2> QED BY <2>1, <2>2, <2>3
<1>7. c[S] = a[S] + b[S] /\ a[S] \in Int /\ b[S] \in Nat
  BY <1>4
<1> HIDE DEF c
<1>8. Adds(h, S, Int, c)
  BY <1>5, <1>6 DEF Adds
<1>9. SumFunctionOnSet(f, S) = a[S] /\ SumFunctionOnSet(h, S) = c[S]
  BY <1>2, <1>8, FoldAdds
<1> QED BY <1>7, <1>9
=============================================================================
