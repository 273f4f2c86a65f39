---------------------------- MODULE SumTheorems ----------------------------
(* Sums over finite sets, as Functions defines them: they do not depend on   *)
(* the order in which the elements are chosen.  The induction is on subsets  *)
(* of the set, by a smallest counterexample (WFMin).                         *)
EXTENDS Integers, Functions, FiniteSetTheorems, WellFoundedInduction, TLAPS

-----------------------------------------------------------------------------
(* The recursion behind SumFunctionOnSet                                     *)

Pick(s) == CHOOSE x \in s : TRUE
SumStep(g, h, s) == IF s = {} THEN 0 ELSE g[Pick(s)] + h[s \ {Pick(s)}]

\* h is the sum of g over each subset of S.
SumsUp(g, h, S) == h = [s \in SUBSET S |-> SumStep(g, h, s)]

LEMMA SumIsChosen ==
    ASSUME NEW g, NEW S
    PROVE  SumFunctionOnSet(g, S) = (CHOOSE h : SumsUp(g, h, S))[S]
  BY DEF SumFunctionOnSet, FoldFunctionOnSet, MapThenFoldSet, SumsUp, SumStep, Pick

LEMMA PickOne ==
    ASSUME NEW s, s # {}
    PROVE  Pick(s) \in s
  BY DEF Pick

\* Of a set of finite sets one has no other below it.
LEMMA SmallestSet ==
    ASSUME NEW S, IsFiniteSet(S), NEW T, T \subseteq SUBSET S, T # {}
    PROVE  \E t \in T : \A u \in T : u \subseteq t => u = t
<1>1. IsWellFoundedOn(StrictSubsetOrdering(S), SUBSET S)
  BY FS_StrictSubsetOrderingWellFounded, FS_FiniteSubsetsOfFinite
<1>2. PICK t \in T : \A u \in T : ~ (<<u, t>> \in StrictSubsetOrdering(S))
  BY <1>1, WFMin
<1>3. ASSUME NEW u \in T, u \subseteq t PROVE u = t
  BY <1>2, <1>3 DEF StrictSubsetOrdering
<1> QED
  BY <1>3

\* Two such functions agree where what they sum agrees.
LEMMA SumsAgree ==
    ASSUME NEW S, IsFiniteSet(S), NEW U, NEW V, S \subseteq U, S \subseteq V,
           NEW f, NEW g, \A x \in S : f[x] = g[x],
           NEW h, NEW k, SumsUp(f, h, U), SumsUp(g, k, V)
    PROVE  h[S] = k[S]
<1> DEFINE T == {s \in SUBSET S : h[s] # k[s]}
<1> SUFFICES ASSUME T # {} PROVE FALSE
  OBVIOUS
<1>1. PICK t \in T : \A u \in T : u \subseteq t => u = t
  <2>1. T \subseteq SUBSET S
    OBVIOUS
  <2> HIDE DEF T
  <2> QED
    BY <2>1, SmallestSet
<1>2. h[t] = SumStep(f, h, t) /\ k[t] = SumStep(g, k, t)
  BY DEF SumsUp
<1>3. CASE t = {}
  BY <1>2, <1>3 DEF SumStep
<1>4. CASE t # {}
  <2>1. Pick(t) \in t /\ Pick(t) \in S
    BY <1>4, PickOne
  <2>2. t \ {Pick(t)} \notin T
    BY <1>1, <2>1
  <2>3. h[t \ {Pick(t)}] = k[t \ {Pick(t)}]
    BY <2>2
  <2> QED
    BY <1>2, <1>4, <2>1, <2>3 DEF SumStep
<1> QED
  BY <1>3, <1>4

\* There is such a function.
LEMMA SumsExist ==
    ASSUME NEW S, IsFiniteSet(S), NEW g
    PROVE  \E h : SumsUp(g, h, S)
<1> DEFINE T == {s \in SUBSET S : ~ \E h : SumsUp(g, h, s)}
<1> SUFFICES ASSUME T # {} PROVE FALSE
  OBVIOUS
<1>1. PICK t \in T : \A u \in T : u \subseteq t => u = t
  <2>1. T \subseteq SUBSET S
    OBVIOUS
  <2> HIDE DEF T
  <2> QED
    BY <2>1, SmallestSet
<1> DEFINE part == [u \in SUBSET t |-> CHOOSE h : SumsUp(g, h, u)]
           full == [u \in SUBSET t |-> SumStep(g, part[u \ {Pick(u)}], u)]
<1>2. ASSUME NEW u \in SUBSET t, u # t PROVE SumsUp(g, part[u], u)
  <2>1. u \notin T
    BY <1>1, <1>2
  <2> QED
    BY <2>1
<1>3. ASSUME NEW u \in SUBSET t, u # {}
      PROVE  /\ u \ {Pick(u)} \in SUBSET t /\ u \ {Pick(u)} # t
             /\ u \ {Pick(u)} # u
  BY <1>3, PickOne
<1>4. ASSUME NEW u \in SUBSET t, u # t PROVE part[u][u] = full[u]
  <2>1. part[u][u] = SumStep(g, part[u], u)
    <3>1. SumsUp(g, part[u], u)
      BY <1>2, <1>4
    <3> HIDE DEF part
    <3> QED
      BY <3>1 DEF SumsUp
  <2>2. CASE u = {}
    BY <2>1, <2>2 DEF SumStep
  <2>3. CASE u # {}
    <3>1. PICK v : v = u \ {Pick(u)}
      OBVIOUS
    <3>2. v \in SUBSET t /\ v # t /\ v \subseteq u /\ v \subseteq v
      BY <1>3, <2>3, <3>1
    <3>3. IsFiniteSet(v)
      BY <3>2, FS_Subset
    <3>4. SumsUp(g, part[u], u) /\ SumsUp(g, part[v], v)
      BY <1>2, <1>4, <3>2
    <3> HIDE DEF part
    <3>5. part[u][v] = part[v][v]
      BY <3>2, <3>3, <3>4, SumsAgree
    <3> QED
      BY <2>1, <2>3, <3>1, <3>5 DEF SumStep
  <2> QED
    BY <2>2, <2>3
<1>5. ASSUME NEW u \in SUBSET t PROVE full[u] = SumStep(g, full, u)
  <2>1. CASE u = {}
    BY <2>1 DEF SumStep
  <2>2. CASE u # {}
    <3>1. PICK v : v = u \ {Pick(u)}
      OBVIOUS
    <3>2. v \in SUBSET t /\ v # t
      BY <1>3, <2>2, <3>1
    <3>3. part[v][v] = full[v]
      BY <1>4, <3>2
    <3>4. full[u] = SumStep(g, part[v], u)
      BY <3>1
    <3> HIDE DEF part, full
    <3> QED
      BY <2>2, <3>1, <3>3, <3>4 DEF SumStep
  <2> QED
    BY <2>1, <2>2
<1>6. SumsUp(g, full, t)
  <2>1. full = [u \in SUBSET t |-> full[u]]
    OBVIOUS
  <2> HIDE DEF full
  <2> QED
    BY <1>5, <2>1 DEF SumsUp
<1> QED
  BY <1>6

-----------------------------------------------------------------------------
(* What sums do                                                              *)

LEMMA SumUnfolds ==
    ASSUME NEW g, NEW S, IsFiniteSet(S)
    PROVE  \E h : SumsUp(g, h, S) /\ \A s \in SUBSET S : SumFunctionOnSet(g, s) = h[s]
<1>1. PICK h : SumsUp(g, h, S)
  BY SumsExist
<1>2. ASSUME NEW s \in SUBSET S PROVE SumFunctionOnSet(g, s) = h[s]
  <2>1. IsFiniteSet(s)
    BY FS_Subset
  <2>2. PICK k : k = CHOOSE j : SumsUp(g, j, s)
    OBVIOUS
  <2>3. SumsUp(g, k, s)
    BY <2>1, <2>2, SumsExist
  <2>4. k[s] = h[s]
    BY <1>1, <2>1, <2>3, SumsAgree
  <2> QED
    BY <2>2, <2>4, SumIsChosen
<1> QED
  BY <1>1, <1>2

\* A sum of nothing is zero.
LEMMA SumOfNothing ==
    ASSUME NEW g
    PROVE  SumFunctionOnSet(g, {}) = 0
<1>1. IsFiniteSet({})
  BY FS_EmptySet
<1>2. PICK h : SumsUp(g, h, {}) /\ \A s \in SUBSET {} : SumFunctionOnSet(g, s) = h[s]
  BY <1>1, SumUnfolds
<1> QED
  BY <1>2 DEF SumsUp, SumStep

\* A sum begins with the element that is picked.
LEMMA SumFromPick ==
    ASSUME NEW g, NEW S, IsFiniteSet(S), S # {}
    PROVE  SumFunctionOnSet(g, S) = g[Pick(S)] + SumFunctionOnSet(g, S \ {Pick(S)})
<1>1. PICK h : SumsUp(g, h, S) /\ \A s \in SUBSET S : SumFunctionOnSet(g, s) = h[s]
  BY SumUnfolds
<1>2. h[S] = SumStep(g, h, S)
  BY <1>1 DEF SumsUp
<1>3. S \ {Pick(S)} \in SUBSET S /\ S \in SUBSET S
  OBVIOUS
<1> QED
  BY <1>1, <1>2, <1>3 DEF SumStep

\* Sums of the same numbers are the same.
LEMMA SumOfSame ==
    ASSUME NEW S, IsFiniteSet(S), NEW f, NEW g, \A x \in S : f[x] = g[x]
    PROVE  SumFunctionOnSet(f, S) = SumFunctionOnSet(g, S)
<1>1. PICK h : SumsUp(f, h, S) /\ \A s \in SUBSET S : SumFunctionOnSet(f, s) = h[s]
  BY SumUnfolds
<1>2. PICK k : SumsUp(g, k, S) /\ \A s \in SUBSET S : SumFunctionOnSet(g, s) = k[s]
  BY SumUnfolds
<1>3. h[S] = k[S]
  BY <1>1, <1>2, SumsAgree
<1> QED
  BY <1>1, <1>2, <1>3

\* A sum of integers is one.
LEMMA SumType ==
    ASSUME NEW S, IsFiniteSet(S), NEW g, \A x \in S : g[x] \in Int
    PROVE  SumFunctionOnSet(g, S) \in Int
<1> DEFINE T == {s \in SUBSET S : SumFunctionOnSet(g, s) \notin Int}
<1> SUFFICES ASSUME T # {} PROVE FALSE
  OBVIOUS
<1>1. PICK t \in T : \A u \in T : u \subseteq t => u = t
  <2>1. T \subseteq SUBSET S
    OBVIOUS
  <2> HIDE DEF T
  <2> QED
    BY <2>1, SmallestSet
<1>2. IsFiniteSet(t)
  BY FS_Subset
<1>3. CASE t = {}
  BY <1>3, SumOfNothing
<1>4. CASE t # {}
  <2>1. Pick(t) \in t
    BY <1>4, PickOne
  <2>2. SumFunctionOnSet(g, t \ {Pick(t)}) \in Int
    BY <1>1, <2>1
  <2>3. SumFunctionOnSet(g, t) = g[Pick(t)] + SumFunctionOnSet(g, t \ {Pick(t)})
    BY <1>2, <1>4, SumFromPick
  <2> QED
    BY <2>1, <2>2, <2>3
<1> QED
  BY <1>3, <1>4

\* Any element may be taken out first.
LEMMA SumWithout ==
    ASSUME NEW S, IsFiniteSet(S), NEW g, \A x \in S : g[x] \in Int, NEW x0 \in S
    PROVE  SumFunctionOnSet(g, S) = g[x0] + SumFunctionOnSet(g, S \ {x0})
<1> DEFINE Out(s, x) == SumFunctionOnSet(g, s) = g[x] + SumFunctionOnSet(g, s \ {x})
           T == {s \in SUBSET S : \E x \in s : ~ Out(s, x)}
<1> SUFFICES ASSUME T # {} PROVE FALSE
  OBVIOUS
<1>1. PICK t \in T : \A u \in T : u \subseteq t => u = t
  <2>1. T \subseteq SUBSET S
    OBVIOUS
  <2> HIDE DEF T
  <2> QED
    BY <2>1, SmallestSet
<1>2. PICK x \in t : ~ Out(t, x)
  OBVIOUS
<1>3. PICK y, u, w : y = Pick(t) /\ u = t \ {x} /\ w = t \ {y}
  OBVIOUS
<1>4. y \in t /\ t \in SUBSET S /\ IsFiniteSet(t)
  BY <1>3, PickOne, FS_Subset
<1>5. Out(t, y)
  BY <1>3, <1>4, SumFromPick
<1>6. y # x
  BY <1>2, <1>5
<1>7. /\ u \in SUBSET S /\ w \in SUBSET S /\ u \notin T /\ w \notin T
      /\ y \in u /\ x \in w
  BY <1>1, <1>3, <1>4, <1>6
<1>8. Out(u, y) /\ Out(w, x) /\ u \ {y} = w \ {x}
  BY <1>3, <1>7
<1>9. /\ g[x] \in Int /\ g[y] \in Int
      /\ SumFunctionOnSet(g, u \ {y}) \in Int
  <2>1. IsFiniteSet(u \ {y}) /\ \A z \in u \ {y} : g[z] \in Int
    BY <1>3, <1>4, FS_Subset
  <2> QED
    BY <1>4, <2>1, SumType
<1>10. PICK z \in Int : z = SumFunctionOnSet(g, u \ {y})
  BY <1>9
<1>11. /\ SumFunctionOnSet(g, t) = g[y] + SumFunctionOnSet(g, w)
       /\ SumFunctionOnSet(g, w) = g[x] + z
       /\ SumFunctionOnSet(g, u) = g[y] + z
       /\ SumFunctionOnSet(g, t) # g[x] + SumFunctionOnSet(g, u)
  BY <1>2, <1>3, <1>5, <1>8, <1>10
<1> QED
  BY <1>9, <1>11

\* One more term adds its number.
LEMMA SumWithOneMore ==
    ASSUME NEW S, IsFiniteSet(S), NEW g, NEW x0, x0 \notin S,
           \A x \in S \cup {x0} : g[x] \in Int
    PROVE  SumFunctionOnSet(g, S \cup {x0}) = SumFunctionOnSet(g, S) + g[x0]
<1>1. PICK U : U = S \cup {x0}
  OBVIOUS
<1>2. IsFiniteSet(U) /\ U \ {x0} = S /\ x0 \in U /\ \A x \in U : g[x] \in Int
  BY <1>1, FS_AddElement
<1>3. SumFunctionOnSet(g, S) \in Int /\ g[x0] \in Int
  BY <1>2, SumType
<1>4. SumFunctionOnSet(g, U) = g[x0] + SumFunctionOnSet(g, U \ {x0})
  BY <1>2, SumWithout
<1>5. SumFunctionOnSet(g, U) = g[x0] + SumFunctionOnSet(g, S)
  BY <1>2, <1>4, Zenon
<1> QED
  BY <1>1, <1>3, <1>5

\* One other number changes the sum by the difference.
LEMMA SumWithOther ==
    ASSUME NEW S, IsFiniteSet(S), NEW f, NEW g, NEW x0 \in S,
           \A x \in S : f[x] \in Int /\ g[x] \in Int,
           \A x \in S \ {x0} : f[x] = g[x]
    PROVE  SumFunctionOnSet(f, S) = SumFunctionOnSet(g, S) - g[x0] + f[x0]
<1> DEFINE R == S \ {x0}
<1>1. IsFiniteSet(R)
  BY FS_RemoveElement
<1>2. SumFunctionOnSet(f, R) = SumFunctionOnSet(g, R) /\ SumFunctionOnSet(g, R) \in Int
  BY <1>1, SumOfSame, SumType
<1>3. /\ SumFunctionOnSet(f, S) = f[x0] + SumFunctionOnSet(f, R)
      /\ SumFunctionOnSet(g, S) = g[x0] + SumFunctionOnSet(g, R)
  BY SumWithout
<1> HIDE DEF R
<1> QED
  BY <1>2, <1>3

-----------------------------------------------------------------------------
(* The same for the numbers of a function                                    *)

LEMMA TotalType ==
    ASSUME NEW g, IsFiniteSet(DOMAIN g), \A x \in DOMAIN g : g[x] \in Int
    PROVE  SumFunction(g) \in Int
  BY SumType DEF SumFunction

LEMMA TotalOfNothing ==
    ASSUME NEW g, DOMAIN g = {}
    PROVE  SumFunction(g) = 0
  BY SumOfNothing DEF SumFunction

LEMMA TotalWithOneMore ==
    ASSUME NEW g, IsFiniteSet(DOMAIN g), NEW h, NEW x0, x0 \notin DOMAIN g,
           DOMAIN h = DOMAIN g \cup {x0},
           \A x \in DOMAIN g : h[x] = g[x],
           \A x \in DOMAIN h : h[x] \in Int
    PROVE  SumFunction(h) = SumFunction(g) + h[x0]
<1>1. PICK S : S = DOMAIN g
  OBVIOUS
<1>2. SumFunctionOnSet(h, S \cup {x0}) = SumFunctionOnSet(h, S) + h[x0]
  BY <1>1, SumWithOneMore
<1>3. SumFunctionOnSet(h, S) = SumFunctionOnSet(g, S)
  BY <1>1, SumOfSame
<1> QED
  BY <1>1, <1>2, <1>3 DEF SumFunction

LEMMA TotalWithOther ==
    ASSUME NEW g, IsFiniteSet(DOMAIN g), NEW h, NEW x0 \in DOMAIN g,
           DOMAIN h = DOMAIN g,
           \A x \in DOMAIN g : h[x] \in Int /\ g[x] \in Int,
           \A x \in DOMAIN g \ {x0} : h[x] = g[x]
    PROVE  SumFunction(h) = SumFunction(g) - g[x0] + h[x0]
  BY SumWithOther DEF SumFunction

LEMMA TotalWithOneLess ==
    ASSUME NEW g, IsFiniteSet(DOMAIN g), NEW h, NEW x0 \in DOMAIN g,
           DOMAIN h = DOMAIN g \ {x0},
           \A x \in DOMAIN g : g[x] \in Int,
           \A x \in DOMAIN h : h[x] = g[x]
    PROVE  SumFunction(h) = SumFunction(g) - g[x0]
<1>1. PICK S, R : S = DOMAIN g /\ R = S \ {x0}
  OBVIOUS
<1>2. IsFiniteSet(R) /\ \A x \in R : g[x] \in Int /\ h[x] = g[x]
  BY <1>1, FS_RemoveElement
<1>3. SumFunctionOnSet(g, S) = g[x0] + SumFunctionOnSet(g, S \ {x0})
  BY <1>1, SumWithout
<1>4. SumFunctionOnSet(h, R) = SumFunctionOnSet(g, R) /\ SumFunctionOnSet(g, R) \in Int
  BY <1>2, SumOfSame, SumType
<1>5. SumFunctionOnSet(g, S) = g[x0] + SumFunctionOnSet(g, R)
  BY <1>1, <1>3
<1>6. g[x0] \in Int /\ SumFunction(h) = SumFunctionOnSet(h, R)
      /\ SumFunction(g) = SumFunctionOnSet(g, S)
  BY <1>1 DEF SumFunction
<1> QED
  BY <1>4, <1>5, <1>6
-----------------------------------------------------------------------------
(* Sums of sums, and sums over parts                                         *)

\* A larger sum has no smaller terms.
LEMMA SumAtLeast ==
    ASSUME NEW S, IsFiniteSet(S), NEW f, NEW g,
           \A x \in S : f[x] \in Int /\ g[x] \in Int /\ f[x] <= g[x]
    PROVE  SumFunctionOnSet(f, S) <= SumFunctionOnSet(g, S)
<1> DEFINE T == {s \in SUBSET S : ~ (SumFunctionOnSet(f, s) <= SumFunctionOnSet(g, s))}
<1> SUFFICES ASSUME T # {} PROVE FALSE
  OBVIOUS
<1>1. PICK t \in T : \A u \in T : u \subseteq t => u = t
  <2>1. T \subseteq SUBSET S
    OBVIOUS
  <2> HIDE DEF T
  <2> QED
    BY <2>1, SmallestSet
<1>2. IsFiniteSet(t)
  BY FS_Subset
<1>3. CASE t = {}
  <2>1. SumFunctionOnSet(f, t) = 0 /\ SumFunctionOnSet(g, t) = 0
    BY <1>3, SumOfNothing
  <2> QED
    BY <2>1
<1>4. CASE t # {}
  <2>1. PICK p, u : p = Pick(t) /\ u = t \ {p}
    OBVIOUS
  <2>2. p \in t /\ u \subseteq t /\ p \in S /\ IsFiniteSet(u)
    BY <1>2, <1>4, <2>1, PickOne, FS_Subset
  <2>3. SumFunctionOnSet(f, u) <= SumFunctionOnSet(g, u)
    BY <1>1, <2>1, <2>2
  <2>4. /\ SumFunctionOnSet(f, t) = f[p] + SumFunctionOnSet(f, u)
        /\ SumFunctionOnSet(g, t) = g[p] + SumFunctionOnSet(g, u)
    BY <1>2, <1>4, <2>1, SumFromPick
  <2>5. SumFunctionOnSet(f, u) \in Int /\ SumFunctionOnSet(g, u) \in Int
    BY <2>2, SumType
  <2>6. SumFunctionOnSet(f, t) <= SumFunctionOnSet(g, t)
    BY <2>2, <2>3, <2>4, <2>5
  <2> QED
    BY <2>6
<1> QED
  BY <1>3, <1>4

\* Nothing but zeros sums up to zero.
LEMMA SumOfZeros ==
    ASSUME NEW S, IsFiniteSet(S), NEW g, \A x \in S : g[x] = 0
    PROVE  SumFunctionOnSet(g, S) = 0
<1> DEFINE T == {s \in SUBSET S : SumFunctionOnSet(g, s) # 0}
<1> SUFFICES ASSUME T # {} PROVE FALSE
  OBVIOUS
<1>1. PICK t \in T : \A u \in T : u \subseteq t => u = t
  <2>1. T \subseteq SUBSET S
    OBVIOUS
  <2> HIDE DEF T
  <2> QED
    BY <2>1, SmallestSet
<1>2. IsFiniteSet(t)
  BY FS_Subset
<1>3. CASE t = {}
  BY <1>3, SumOfNothing
<1>4. CASE t # {}
  <2>1. PICK p, u : p = Pick(t) /\ u = t \ {p}
    OBVIOUS
  <2>2. p \in t /\ u \subseteq t
    BY <1>4, <2>1, PickOne
  <2>3. SumFunctionOnSet(g, u) = 0
    BY <1>1, <2>1, <2>2
  <2>4. SumFunctionOnSet(g, t) = g[p] + SumFunctionOnSet(g, u)
    BY <1>2, <1>4, <2>1, SumFromPick
  <2> QED
    BY <2>2, <2>3, <2>4
<1> QED
  BY <1>3, <1>4

\* The sum of sums is a sum.
LEMMA SumOfPlus ==
    ASSUME NEW S, IsFiniteSet(S), NEW f, NEW g, NEW h,
           \A x \in S : f[x] \in Int /\ g[x] \in Int /\ h[x] = f[x] + g[x]
    PROVE  SumFunctionOnSet(h, S) = SumFunctionOnSet(f, S) + SumFunctionOnSet(g, S)
<1> DEFINE T == {s \in SUBSET S :
                   SumFunctionOnSet(h, s) # SumFunctionOnSet(f, s) + SumFunctionOnSet(g, s)}
<1> SUFFICES ASSUME T # {} PROVE FALSE
  OBVIOUS
<1>1. PICK t \in T : \A u \in T : u \subseteq t => u = t
  <2>1. T \subseteq SUBSET S
    OBVIOUS
  <2> HIDE DEF T
  <2> QED
    BY <2>1, SmallestSet
<1>2. IsFiniteSet(t)
  BY FS_Subset
<1>3. CASE t = {}
  <2>1. /\ SumFunctionOnSet(f, t) = 0 /\ SumFunctionOnSet(g, t) = 0
        /\ SumFunctionOnSet(h, t) = 0
    BY <1>3, SumOfNothing
  <2> QED
    BY <2>1
<1>4. CASE t # {}
  <2>1. PICK p, u : p = Pick(t) /\ u = t \ {p}
    OBVIOUS
  <2>2. p \in t /\ u \subseteq t /\ p \in S /\ IsFiniteSet(u)
    BY <1>2, <1>4, <2>1, PickOne, FS_Subset
  <2>3. SumFunctionOnSet(h, u) = SumFunctionOnSet(f, u) + SumFunctionOnSet(g, u)
    BY <1>1, <2>1, <2>2
  <2>4. /\ SumFunctionOnSet(f, t) = f[p] + SumFunctionOnSet(f, u)
        /\ SumFunctionOnSet(g, t) = g[p] + SumFunctionOnSet(g, u)
        /\ SumFunctionOnSet(h, t) = h[p] + SumFunctionOnSet(h, u)
    BY <1>2, <1>4, <2>1, SumFromPick
  <2>5. SumFunctionOnSet(f, u) \in Int /\ SumFunctionOnSet(g, u) \in Int
    BY <2>2, SumType
  <2>6. SumFunctionOnSet(h, t) = SumFunctionOnSet(f, t) + SumFunctionOnSet(g, t)
    BY <2>2, <2>3, <2>4, <2>5
  <2> QED
    BY <2>6
<1> QED
  BY <1>3, <1>4

\* A sum over two sets that share nothing is the sum of their sums.
LEMMA SumOfParts ==
    ASSUME NEW A, IsFiniteSet(A), NEW B, IsFiniteSet(B), A \cap B = {},
           NEW g, \A x \in A \cup B : g[x] \in Int
    PROVE  SumFunctionOnSet(g, A \cup B) = SumFunctionOnSet(g, A) + SumFunctionOnSet(g, B)
<1> DEFINE T == {s \in SUBSET B :
                   SumFunctionOnSet(g, A \cup s) # SumFunctionOnSet(g, A) + SumFunctionOnSet(g, s)}
<1> SUFFICES ASSUME T # {} PROVE FALSE
  OBVIOUS
<1>1. PICK t \in T : \A u \in T : u \subseteq t => u = t
  <2>1. T \subseteq SUBSET B
    OBVIOUS
  <2> HIDE DEF T
  <2> QED
    BY <2>1, SmallestSet
<1>2. IsFiniteSet(t)
  BY FS_Subset
<1>3. SumFunctionOnSet(g, A) \in Int
  BY SumType
<1>4. CASE t = {}
  <2>1. A \cup t = A /\ SumFunctionOnSet(g, t) = 0
    BY <1>4, SumOfNothing
  <2>2. SumFunctionOnSet(g, A \cup t) = SumFunctionOnSet(g, A)
    BY <2>1
  <2>3. SumFunctionOnSet(g, A \cup t) = SumFunctionOnSet(g, A) + SumFunctionOnSet(g, t)
    BY <1>3, <2>1, <2>2
  <2> QED
    BY <2>3
<1>5. CASE t # {}
  <2>1. PICK p \in t : TRUE
    BY <1>5
  <2>2. PICK u, V : u = t \ {p} /\ V = A \cup u
    OBVIOUS
  <2>3. /\ u \subseteq t /\ p \in B /\ p \notin u /\ p \notin V
        /\ t = u \cup {p} /\ A \cup t = V \cup {p}
        /\ \A x \in V \cup {p} : g[x] \in Int
        /\ \A x \in u \cup {p} : g[x] \in Int
        /\ IsFiniteSet(u) /\ IsFiniteSet(V)
    <3>1. t \subseteq B /\ u \subseteq t /\ p \in B /\ p \notin u
      BY <2>1, <2>2
    <3>2. IsFiniteSet(u)
      BY <1>2, <3>1, FS_Subset
    <3>3. IsFiniteSet(V)
      BY <2>2, <3>2, FS_Union
    <3> QED
      BY <2>1, <2>2, <3>1, <3>2, <3>3
  <2>4. SumFunctionOnSet(g, V) = SumFunctionOnSet(g, A) + SumFunctionOnSet(g, u)
    BY <1>1, <2>1, <2>2, <2>3
  <2>5. SumFunctionOnSet(g, V \cup {p}) = SumFunctionOnSet(g, V) + g[p]
    BY <2>3, SumWithOneMore
  <2>6. SumFunctionOnSet(g, u \cup {p}) = SumFunctionOnSet(g, u) + g[p]
    <3>1. IsFiniteSet(u) /\ p \notin u /\ \A x \in u \cup {p} : g[x] \in Int
      BY <2>3
    <3> HIDE DEF T
    <3> QED
      BY <3>1, SumWithOneMore
  <2>7. SumFunctionOnSet(g, u) \in Int /\ g[p] \in Int
    BY <2>2, <2>3, SumType
  <2>8. SumFunctionOnSet(g, V \cup {p}) = SumFunctionOnSet(g, A) + SumFunctionOnSet(g, u \cup {p})
    BY <1>3, <2>4, <2>5, <2>6, <2>7
  <2>9. SumFunctionOnSet(g, A \cup t) = SumFunctionOnSet(g, A) + SumFunctionOnSet(g, t)
    BY <2>3, <2>8, Zenon
  <2> QED
    BY <2>9
<1> QED
  BY <1>4, <1>5

\* What is zero outside of a part is the sum of the part.
LEMMA SumOfThePart ==
    ASSUME NEW S, IsFiniteSet(S), NEW A \in SUBSET S, NEW f, NEW g,
           \A x \in A : f[x] \in Int /\ g[x] = f[x],
           \A x \in S \ A : g[x] = 0
    PROVE  SumFunctionOnSet(g, S) = SumFunctionOnSet(f, A)
<1>1. PICK R : R = S \ A
  OBVIOUS
<1>2. /\ S = A \cup R /\ A \cap R = {} /\ IsFiniteSet(A) /\ IsFiniteSet(R)
      /\ \A x \in A \cup R : g[x] \in Int
  BY <1>1, FS_Subset
<1>3. SumFunctionOnSet(g, A \cup R) = SumFunctionOnSet(g, A) + SumFunctionOnSet(g, R)
  BY <1>2, SumOfParts
<1>4. SumFunctionOnSet(g, R) = 0
  BY <1>1, <1>2, SumOfZeros
<1>5. SumFunctionOnSet(g, A) = SumFunctionOnSet(f, A) /\ SumFunctionOnSet(f, A) \in Int
  BY <1>2, SumOfSame, SumType
<1>6. SumFunctionOnSet(g, A \cup R) = SumFunctionOnSet(f, A)
  BY <1>3, <1>4, <1>5
<1> QED
  BY <1>2, <1>6, Zenon
LEMMA TotalOfSame ==
    ASSUME NEW f, NEW g, IsFiniteSet(DOMAIN g), DOMAIN f = DOMAIN g,
           \A x \in DOMAIN g : f[x] = g[x]
    PROVE  SumFunction(f) = SumFunction(g)
  BY SumOfSame DEF SumFunction

LEMMA TotalOfZeros ==
    ASSUME NEW g, IsFiniteSet(DOMAIN g), \A x \in DOMAIN g : g[x] = 0
    PROVE  SumFunction(g) = 0
  BY SumOfZeros DEF SumFunction

LEMMA TotalOfNumbers ==
    ASSUME NEW g, IsFiniteSet(DOMAIN g), \A x \in DOMAIN g : g[x] \in Nat
    PROVE  SumFunction(g) \in Nat
<1>1. PICK S, z : S = DOMAIN g /\ z = [x \in S |-> 0]
  OBVIOUS
<1>2. \A x \in S : z[x] \in Int /\ g[x] \in Int /\ z[x] <= g[x] /\ z[x] = 0
  BY <1>1
<1>3. SumFunctionOnSet(z, S) <= SumFunctionOnSet(g, S)
  BY <1>1, <1>2, SumAtLeast
<1>4. SumFunctionOnSet(z, S) = 0 /\ SumFunctionOnSet(g, S) \in Int
  BY <1>1, <1>2, SumOfZeros, SumType
<1> QED
  BY <1>1, <1>3, <1>4 DEF SumFunction

LEMMA TotalOfPlus ==
    ASSUME NEW f, NEW g, NEW h, IsFiniteSet(DOMAIN h), DOMAIN f = DOMAIN h, DOMAIN g = DOMAIN h,
           \A x \in DOMAIN h : f[x] \in Int /\ g[x] \in Int /\ h[x] = f[x] + g[x]
    PROVE  SumFunction(h) = SumFunction(f) + SumFunction(g)
  BY SumOfPlus DEF SumFunction

\* Two functions are merged on a set that has all of the first one's domain; r is what the
\* second one has elsewhere, or more than that.  Nothing is lost.
LEMMA TotalOfMerge ==
    ASSUME NEW f, NEW g, NEW h, NEW r, IsFiniteSet(DOMAIN f), IsFiniteSet(DOMAIN g),
           DOMAIN f \subseteq DOMAIN h, DOMAIN h \subseteq DOMAIN f \cup DOMAIN g,
           DOMAIN r = DOMAIN g \ DOMAIN h,
           \A x \in DOMAIN f : f[x] \in Int,
           \A x \in DOMAIN g : g[x] \in Int,
           \A x \in DOMAIN h : h[x] = (IF x \in DOMAIN f THEN f[x] ELSE 0)
                                    + (IF x \in DOMAIN g THEN g[x] ELSE 0),
           \A x \in DOMAIN r : r[x] \in Int /\ r[x] >= g[x]
    PROVE  /\ SumFunction(h) + SumFunction(r) >= SumFunction(f) + SumFunction(g)
           /\ (\A x \in DOMAIN r : r[x] = g[x]) =>
                 SumFunction(h) + SumFunction(r) = SumFunction(f) + SumFunction(g)
<1>1. PICK A, B, H, R, C :
         A = DOMAIN f /\ B = DOMAIN g /\ H = DOMAIN h /\ R = DOMAIN r /\ C = B \cap H
  OBVIOUS
<1>2. /\ A \subseteq H /\ H \subseteq A \cup B /\ R = B \ H /\ B = C \cup R /\ C \cap R = {}
      /\ IsFiniteSet(A) /\ IsFiniteSet(B)
  BY <1>1
<1>3. IsFiniteSet(A \cup B)
  BY <1>2, FS_Union
<1>4. IsFiniteSet(H) /\ IsFiniteSet(R) /\ IsFiniteSet(C)
  BY <1>2, <1>3, FS_Subset
<1>5. PICK f0, g0 : /\ f0 = [x \in H |-> IF x \in A THEN f[x] ELSE 0]
                    /\ g0 = [x \in H |-> IF x \in B THEN g[x] ELSE 0]
  OBVIOUS
<1>6. SumFunctionOnSet(h, H) = SumFunctionOnSet(f0, H) + SumFunctionOnSet(g0, H)
  <2>1. \A x \in H : f0[x] \in Int /\ g0[x] \in Int /\ h[x] = f0[x] + g0[x]
    BY <1>1, <1>5
  <2> QED
    BY <1>4, <2>1, SumOfPlus
<1>7. SumFunctionOnSet(f0, H) = SumFunctionOnSet(f, A)
  <2>1. (\A x \in A : f[x] \in Int /\ f0[x] = f[x]) /\ (\A x \in H \ A : f0[x] = 0)
    BY <1>1, <1>2, <1>5
  <2> QED
    BY <1>2, <1>4, <2>1, SumOfThePart
<1>8. SumFunctionOnSet(g0, H) = SumFunctionOnSet(g, C)
  <2>1. (\A x \in C : g[x] \in Int /\ g0[x] = g[x]) /\ (\A x \in H \ C : g0[x] = 0)
    BY <1>1, <1>2, <1>5
  <2>2. C \in SUBSET H
    BY <1>1
  <2> QED
    BY <1>4, <2>1, <2>2, SumOfThePart
<1>9. SumFunctionOnSet(g, B) = SumFunctionOnSet(g, C) + SumFunctionOnSet(g, R)
  <2>1. \A x \in C \cup R : g[x] \in Int
    BY <1>1, <1>2
  <2>2. SumFunctionOnSet(g, C \cup R) = SumFunctionOnSet(g, C) + SumFunctionOnSet(g, R)
    BY <1>2, <1>4, <2>1, SumOfParts
  <2> QED
    BY <1>2, <2>2, Zenon
<1>10. SumFunctionOnSet(g, R) <= SumFunctionOnSet(r, R)
  BY <1>1, <1>2, <1>4, SumAtLeast
<1>11. (\A x \in R : r[x] = g[x]) => SumFunctionOnSet(r, R) = SumFunctionOnSet(g, R)
  BY <1>4, SumOfSame
<1>12. /\ SumFunctionOnSet(f, A) \in Int /\ SumFunctionOnSet(g, C) \in Int
       /\ SumFunctionOnSet(g, R) \in Int /\ SumFunctionOnSet(r, R) \in Int
  BY <1>1, <1>2, <1>4, SumType
<1>13. /\ SumFunction(f) = SumFunctionOnSet(f, A) /\ SumFunction(g) = SumFunctionOnSet(g, B)
       /\ SumFunction(h) = SumFunctionOnSet(h, H) /\ SumFunction(r) = SumFunctionOnSet(r, R)
  BY <1>1 DEF SumFunction
<1>14. SumFunction(h) + SumFunction(r) >= SumFunction(f) + SumFunction(g)
  BY <1>6, <1>7, <1>8, <1>9, <1>10, <1>12, <1>13
<1>15. ASSUME \A x \in R : r[x] = g[x]
       PROVE  SumFunction(h) + SumFunction(r) = SumFunction(f) + SumFunction(g)
  BY <1>6, <1>7, <1>8, <1>9, <1>11, <1>12, <1>13, <1>15
<1> QED
  BY <1>1, <1>14, <1>15

\* One number is put at a place that may be new.
LEMMA TotalWithPut ==
    ASSUME NEW g, IsFiniteSet(DOMAIN g), NEW x0, NEW h, DOMAIN h = DOMAIN g \cup {x0},
           \A x \in DOMAIN g : g[x] \in Int,
           \A x \in DOMAIN g \ {x0} : h[x] = g[x],
           NEW d \in Int, h[x0] = (IF x0 \in DOMAIN g THEN g[x0] ELSE 0) + d
    PROVE  SumFunction(h) = SumFunction(g) + d
<1>1. SumFunction(g) \in Int
  BY TotalType
<1>2. CASE x0 \in DOMAIN g
  <2>1. h[x0] = g[x0] + d /\ g[x0] \in Int
    BY <1>2
  <2>2. DOMAIN h = DOMAIN g /\ \A x \in DOMAIN g : h[x] \in Int /\ g[x] \in Int
    <3>1. ASSUME NEW x \in DOMAIN g PROVE h[x] \in Int
      BY <2>1, <3>1
    <3>2. DOMAIN h = DOMAIN g
      BY <1>2
    <3> QED
      BY <3>1, <3>2
  <2>3. SumFunction(h) = SumFunction(g) - g[x0] + h[x0]
    BY <1>2, <2>2, TotalWithOther
  <2> QED
    BY <1>1, <2>1, <2>3
<1>3. CASE x0 \notin DOMAIN g
  <2>1. h[x0] = d
    BY <1>3
  <2>2. (\A x \in DOMAIN g : h[x] = g[x]) /\ (\A x \in DOMAIN h : h[x] \in Int)
    BY <1>3, <2>1
  <2>3. SumFunction(h) = SumFunction(g) + h[x0]
    BY <1>3, <2>2, TotalWithOneMore
  <2> QED
    BY <2>1, <2>3
<1> QED
  BY <1>2, <1>3
=============================================================================
