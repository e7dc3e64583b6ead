---------------------------- MODULE NetworkProofs ----------------------------
(***************************************************************************)
(* Theorems about NoActionSimulation, for any catalogue, any input and any *)
(* number of days, and about SupplyPlanning, for any cases.  Both need what*)
(* sums do over finite sets of any size: the first part proves it by       *)
(* induction over sets, in the form of minimal elements of a well-founded  *)
(* order.  The day of the network comes next, which the input of a plan is *)
(* taken from too, then the run of many days, then the plans: the input,   *)
(* the problem and its checker, the optimum, the reserve, the behaviours.  *)
(***************************************************************************)
EXTENDS NoActionSimulation, SupplyPlanning, FiniteSetTheorems, WellFoundedInduction, TLAPS

----------------------------------------------------------------------------
(* Minima.                                                                 *)

\* A set of subsets of a finite set has a minimal element.
LEMMA MinimalSubset ==
    ASSUME NEW S, IsFiniteSet(S), NEW B \in SUBSET SUBSET S, B # {}
    PROVE  \E T \in B : \A U \in B : ~ (U \subseteq T /\ U # T)
<1>1. IsWellFoundedOn(StrictSubsetOrdering(S), FiniteSubsetsOf(S))
  BY FS_StrictSubsetOrderingWellFounded
<1>2. B \subseteq FiniteSubsetsOf(S)
  BY FS_FiniteSubsetsOfFinite
<1>3. PICK T \in B : \A U \in B : ~ (<<U, T>> \in StrictSubsetOrdering(S))
  BY <1>1, <1>2, WFMin
<1>4. ASSUME NEW U \in B, U \subseteq T, U # T PROVE FALSE
  BY <1>3, <1>4 DEF StrictSubsetOrdering
<1>5. QED
  BY <1>4

\* Induction over a finite set, one element at a time.
LEMMA SetInduction ==
    ASSUME NEW S, IsFiniteSet(S), NEW B, {} \in B,
           \A T \in SUBSET S : \A x \in S \ T : T \in B => T \cup {x} \in B
    PROVE  S \in B
<1> SUFFICES ASSUME S \notin B PROVE FALSE
  OBVIOUS
<1> DEFINE Bad == {T \in SUBSET S : T \notin B}
<1>1. PICK T \in Bad : \A U \in Bad : ~ (U \subseteq T /\ U # T)
  <2>1. Bad \in SUBSET SUBSET S /\ Bad # {}
    OBVIOUS
  <2> HIDE DEF Bad
  <2>2. QED
    BY <2>1, MinimalSubset
<1>2. PICK x \in T : TRUE
  BY <1>1
<1>3. T \ {x} \in SUBSET S /\ x \in S \ (T \ {x}) /\ (T \ {x}) \cup {x} = T
  BY <1>1
<1>4. T \ {x} \in B
  BY <1>1, <1>3
<1>5. QED
  BY <1>1, <1>3, <1>4

\* A set of natural numbers has a least element.
LEMMA LeastNatural ==
    ASSUME NEW T \in SUBSET Nat, T # {}
    PROVE  Min(T) \in T /\ \A y \in T : Min(T) <= y
<1>1. PICK m \in T : TRUE
  OBVIOUS
<1> DEFINE B == {U \in SUBSET (0 .. m) : U # {} => \E x \in U : \A y \in U : x <= y}
<1>2. IsFiniteSet(0 .. m)
  BY <1>1, FS_Interval
<1>3. \A U \in SUBSET (0 .. m) : \A z \in (0 .. m) \ U : U \in B => U \cup {z} \in B
  <2> SUFFICES ASSUME NEW U \in SUBSET (0 .. m), NEW z \in (0 .. m) \ U, U \in B
               PROVE  \E x \in U \cup {z} : \A y \in U \cup {z} : x <= y
    OBVIOUS
  <2>1. CASE U = {}
    BY <2>1
  <2>2. CASE U # {}
    <3>1. PICK x \in U : \A y \in U : x <= y
      BY <2>2
    <3>2. CASE x <= z
      BY <3>1, <3>2
    <3>3. CASE ~ (x <= z)
      <4>1. \A y \in U \cup {z} : z <= y
        BY <3>1, <3>3
      <4>2. QED
        BY <4>1
    <3>4. QED
      BY <3>2, <3>3
  <2>3. QED
    BY <2>1, <2>2
<1>4. \A U \in SUBSET (0 .. m) : U \in B
  <2> SUFFICES ASSUME NEW U \in SUBSET (0 .. m) PROVE U \in B
    OBVIOUS
  <2>1. IsFiniteSet(U)
    BY <1>2, FS_Subset
  <2>2. {} \in B
    OBVIOUS
  <2>3. \A V \in SUBSET U : \A z \in U \ V : V \in B => V \cup {z} \in B
    BY <1>3
  <2> HIDE DEF B
  <2>4. QED
    BY <2>1, <2>2, <2>3, SetInduction
<1>5. PICK x \in T \cap (0 .. m) : \A y \in T \cap (0 .. m) : x <= y
  <2>1. T \cap (0 .. m) \in SUBSET (0 .. m) /\ T \cap (0 .. m) # {}
    BY <1>1
  <2>2. QED
    BY <1>4, <2>1
<1>6. \A y \in T : x <= y
  BY <1>1, <1>5
<1>7. QED
  BY <1>5, <1>6 DEF Min

----------------------------------------------------------------------------
(* Sums: that the recursion of Total has a solution.                       *)

Pick(s) == CHOOSE x \in s : TRUE

\* The two folds: sums and products.
Base(op) == IF op = "sum" THEN 0 ELSE 1
Join(op, a, b) == IF op = "sum" THEN a + b ELSE a * b

\* g folds f over the subsets of S.
Folded(op, g, f, S) ==
    g = [s \in SUBSET S |->
            IF s = {} THEN Base(op) ELSE Join(op, f[Pick(s)], g[s \ {Pick(s)}])]

LEMMA Picked == \A s : s # {} => Pick(s) \in s
BY DEF Pick

LEMMA FoldsAgree ==
    ASSUME NEW op, NEW S, IsFiniteSet(S), NEW T \in SUBSET S, NEW f, NEW e,
           NEW g, NEW h,
           Folded(op, g, f, S), Folded(op, h, e, T), \A x \in T : f[x] = e[x]
    PROVE  \A s \in SUBSET T : g[s] = h[s]
<1> DEFINE Bad == {s \in SUBSET T : g[s] # h[s]}
<1> SUFFICES ASSUME Bad # {} PROVE FALSE
  OBVIOUS
<1>1. PICK s \in Bad : \A u \in Bad : ~ (u \subseteq s /\ u # s)
  <2>1. Bad \in SUBSET SUBSET S
    OBVIOUS
  <2> HIDE DEF Bad
  <2>2. QED
    BY <2>1, MinimalSubset
<1>2. /\ \A u \in SUBSET S :
            g[u] = IF u = {} THEN Base(op) ELSE Join(op, f[Pick(u)], g[u \ {Pick(u)}])
      /\ \A u \in SUBSET T :
            h[u] = IF u = {} THEN Base(op) ELSE Join(op, e[Pick(u)], h[u \ {Pick(u)}])
  BY Zenon DEF Folded
<1>3. s \in SUBSET T /\ s \in SUBSET S /\ g[s] # h[s]
  OBVIOUS
<1>4. s # {}
  BY <1>2, <1>3
<1>5. /\ Pick(s) \in s /\ s \ {Pick(s)} \in SUBSET T /\ s \ {Pick(s)} # s
      /\ s \ {Pick(s)} \subseteq s
  BY <1>3, <1>4, Picked
<1>6. g[s \ {Pick(s)}] = h[s \ {Pick(s)}]
  BY <1>1, <1>5
<1>7. f[Pick(s)] = e[Pick(s)]
  BY <1>3, <1>5
<1>8. QED
  BY <1>2, <1>3, <1>4, <1>6, <1>7

LEMMA FoldExists ==
    ASSUME NEW op, NEW S, IsFiniteSet(S), NEW f
    PROVE  \E g : Folded(op, g, f, S)
<1> DEFINE Bad == {T \in SUBSET S : ~ \E g : Folded(op, g, f, T)}
<1> SUFFICES ASSUME Bad # {} PROVE FALSE
  OBVIOUS
<1>1. PICK T \in Bad : \A U \in Bad : ~ (U \subseteq T /\ U # T)
  <2>1. Bad \in SUBSET SUBSET S
    OBVIOUS
  <2> HIDE DEF Bad
  <2>2. QED
    BY <2>1, MinimalSubset
<1>2. T \in SUBSET S /\ ~ \E g : Folded(op, g, f, T)
  OBVIOUS
<1> DEFINE Sol(U) == CHOOSE g : Folded(op, g, f, U)
           Less(s) == s \ {Pick(s)}
           G == [s \in SUBSET T |->
                    IF s = {} THEN Base(op) ELSE Join(op, f[Pick(s)], Sol(Less(s))[Less(s)])]
<1>3. ASSUME NEW U \in SUBSET T, U # T PROVE Folded(op, Sol(U), f, U)
  BY <1>1, <1>2, <1>3
<1>4. ASSUME NEW s \in SUBSET T, s # {} PROVE G[Less(s)] = Sol(Less(s))[Less(s)]
  <2> DEFINE u == Less(s)
  <2>1. u \in SUBSET T /\ u # T
    BY <1>4, Picked
  <2>2. Folded(op, Sol(u), f, u)
    BY <1>3, <2>1
  <2>3. Sol(u)[u] = IF u = {} THEN Base(op) ELSE Join(op, f[Pick(u)], Sol(u)[Less(u)])
    <3> HIDE DEF u, Sol
    <3>1. QED
      BY <2>2, Zenon DEF Folded
  <2>4. CASE u = {}
    BY <2>1, <2>3, <2>4
  <2>5. CASE u # {}
    <3>1. Less(u) \in SUBSET u /\ Less(u) \in SUBSET T /\ Less(u) # T /\ IsFiniteSet(u)
      BY <1>2, <2>1, <2>5, Picked, FS_Subset
    <3>2. Folded(op, Sol(Less(u)), f, Less(u))
      BY <1>3, <3>1
    <3>3. Sol(u)[Less(u)] = Sol(Less(u))[Less(u)]
      <4> HIDE DEF u, Sol, Less
      <4>1. QED
        BY <2>2, <3>1, <3>2, FoldsAgree
    <3>4. G[u] = Join(op, f[Pick(u)], Sol(Less(u))[Less(u)])
      BY <2>1, <2>5
    <3>5. QED
      BY <2>3, <2>5, <3>3, <3>4
  <2>6. QED
    BY <2>4, <2>5
<1>5. Folded(op, G, f, T)
  <2>1. \A s \in SUBSET T :
           G[s] = IF s = {} THEN Base(op) ELSE Join(op, f[Pick(s)], G[s \ {Pick(s)}])
    <3> SUFFICES ASSUME NEW s \in SUBSET T
                 PROVE  G[s] = IF s = {} THEN Base(op) ELSE Join(op, f[Pick(s)], G[Less(s)])
      OBVIOUS
    <3>1. CASE s = {}
      BY <3>1
    <3>2. CASE s # {}
      <4>1. G[s] = Join(op, f[Pick(s)], Sol(Less(s))[Less(s)])
        BY <3>2
      <4>2. G[Less(s)] = Sol(Less(s))[Less(s)]
        BY <1>4, <3>2
      <4> HIDE DEF G, Sol, Less
      <4>3. QED
        BY <3>2, <4>1, <4>2
    <3>3. QED
      BY <3>1, <3>2
  <2>2. G = [s \in SUBSET T |-> G[s]]
    OBVIOUS
  <2> HIDE DEF G
  <2>3. QED
    BY <2>1, <2>2 DEF Folded
<1>6. QED
  BY <1>2, <1>5

\* g sums f over the subsets of S.
Sums(g, f, S) ==
    g = [s \in SUBSET S |-> IF s = {} THEN 0 ELSE f[Pick(s)] + g[s \ {Pick(s)}]]

LEMMA SumsFold == \A g, f, S : Sums(g, f, S) = Folded("sum", g, f, S)
BY DEF Sums, Folded, Base, Join

LEMMA SumsAgree ==
    ASSUME NEW S, IsFiniteSet(S), NEW T \in SUBSET S, NEW f, NEW e, NEW g, NEW h,
           Sums(g, f, S), Sums(h, e, T), \A x \in T : f[x] = e[x]
    PROVE  \A s \in SUBSET T : g[s] = h[s]
BY SumsFold, FoldsAgree

LEMMA SumsExist ==
    ASSUME NEW S, IsFiniteSet(S), NEW f
    PROVE  \E g : Sums(g, f, S)
BY SumsFold, FoldExists

\* g multiplies the elements of the subsets of S.
Products(g, S) ==
    g = [s \in SUBSET S |-> IF s = {} THEN 1 ELSE Pick(s) * g[s \ {Pick(s)}]]

LEMMA ProductIsNatural ==
    ASSUME NEW S, IsFiniteSet(S), \A x \in S : x \in Nat
    PROVE  ProductSet(S) \in Nat
<1> DEFINE f == [x \in S |-> x]
           iter == CHOOSE h : Products(h, S)
<1>1. ProductSet(S) = iter[S]
  BY DEF ProductSet, FoldSet, MapThenFoldSet, Products, Pick
<1>2. PICK g : Folded("product", g, f, S)
  BY FoldExists
<1>3. Products(g, S)
  <2>1. \A s \in SUBSET S : s # {} => f[Pick(s)] = Pick(s)
    BY Picked
  <2> HIDE DEF f
  <2>2. [s \in SUBSET S |-> IF s = {} THEN 1 ELSE f[Pick(s)] * g[s \ {Pick(s)}]]
          = [s \in SUBSET S |-> IF s = {} THEN 1 ELSE Pick(s) * g[s \ {Pick(s)}]]
    BY <2>1
  <2>3. QED
    BY <1>2, <2>2 DEF Folded, Base, Join, Products
<1>4. Products(iter, S)
  BY <1>3
<1> HIDE DEF iter
<1>5. \A s \in SUBSET S : iter[s] = IF s = {} THEN 1 ELSE Pick(s) * iter[s \ {Pick(s)}]
  BY <1>4, Zenon DEF Products
<1>6. \A s \in SUBSET S : iter[s] \in Nat
  <2> DEFINE Bad == {s \in SUBSET S : iter[s] \notin Nat}
  <2> SUFFICES ASSUME Bad # {} PROVE FALSE
    OBVIOUS
  <2>1. PICK s \in Bad : \A u \in Bad : ~ (u \subseteq s /\ u # s)
    <3>1. Bad \in SUBSET SUBSET S /\ Bad # {} /\ IsFiniteSet(S)
      OBVIOUS
    <3> HIDE DEF Bad
    <3>2. QED
      BY <3>1, MinimalSubset
  <2>2. s \in SUBSET S /\ iter[s] \notin Nat /\ s # {}
    BY <1>5
  <2>3. Pick(s) \in s /\ Pick(s) \in Nat
    BY <2>2, Picked
  <2>4. iter[s \ {Pick(s)}] \in Nat
    BY <2>1, <2>2, <2>3
  <2>5. QED
    BY <1>5, <2>2, <2>3, <2>4
<1>7. S \in SUBSET S
  OBVIOUS
<1>8. QED
  BY <1>1, <1>6, <1>7

----------------------------------------------------------------------------
(* Sums: the laws.                                                         *)

\* Total is the value of any solution.
LEMMA TotalIs ==
    ASSUME NEW S, IsFiniteSet(S), NEW g, NEW f, DOMAIN f = S, Sums(g, f, S)
    PROVE  Total(f) = g[S]
<1> DEFINE iter == CHOOSE h : Sums(h, f, S)
<1>1. Total(f) = iter[S]
  BY DEF Total, MapThenSumSet, MapThenFoldSet, Sums, Pick
<1>2. Sums(iter, f, S)
  OBVIOUS
<1> HIDE DEF iter
<1>3. iter[S] = g[S]
  BY <1>2, SumsAgree
<1>4. QED
  BY <1>1, <1>3

\* Any element can be taken out first.
LEMMA SumsStep ==
    ASSUME NEW S, IsFiniteSet(S), NEW f, \A x \in S : f[x] \in Int,
           NEW g, Sums(g, f, S)
    PROVE  \A s \in SUBSET S :
              g[s] \in Int /\ \A x \in s : g[s] = f[x] + g[s \ {x}]
<1> DEFINE Good(s) == g[s] \in Int /\ \A x \in s : g[s] = f[x] + g[s \ {x}]
           Bad == {s \in SUBSET S : ~ Good(s)}
<1>0. SUFFICES ASSUME Bad # {} PROVE FALSE
  <2>1. \A s \in SUBSET S : Good(s)
    <3> HIDE DEF Good
    <3>1. QED
      BY <1>0
  <2>2. QED
    BY <2>1
<1>1. PICK s \in Bad : \A u \in Bad : ~ (u \subseteq s /\ u # s)
  <2>1. Bad \in SUBSET SUBSET S
    OBVIOUS
  <2> HIDE DEF Bad
  <2>2. QED
    BY <1>0, <2>1, MinimalSubset
<1>2. \A u \in SUBSET S : g[u] = IF u = {} THEN 0 ELSE f[Pick(u)] + g[u \ {Pick(u)}]
  BY Zenon DEF Sums
<1>3. \A x \in s : /\ g[s \ {x}] \in Int
                   /\ \A y \in s \ {x} : g[s \ {x}] = f[y] + g[(s \ {x}) \ {y}]
  <2> TAKE x \in s
  <2>1. s \ {x} \in SUBSET S /\ s \ {x} \subseteq s /\ s \ {x} # s
    OBVIOUS
  <2>2. Good(s \ {x})
    <3> HIDE DEF Good
    <3>1. QED
      BY <1>1, <2>1
  <2>3. QED
    BY <2>2, Zenon
<1>4. s # {}
  <2> SUFFICES ASSUME s = {} PROVE FALSE
    OBVIOUS
  <2>1. g[s] = 0
    BY <1>2
  <2>2. QED
    BY <1>1, <2>1
<1> DEFINE p == Pick(s)
<1>5. p \in s /\ g[s] = f[p] + g[s \ {p}]
  BY <1>2, <1>4, Picked
<1>6. s \in SUBSET S
  OBVIOUS
<1> HIDE DEF p
<1>7. g[s] \in Int
  <2>1. g[s \ {p}] \in Int /\ f[p] \in Int
    BY <1>3, <1>5, <1>6
  <2>2. QED
    BY <1>5, <2>1
<1>8. ASSUME NEW x \in s PROVE g[s] = f[x] + g[s \ {x}]
  <2>1. CASE x = p
    BY <1>5, <2>1
  <2>2. CASE x # p
    <3>1. x \in s \ {p} /\ p \in s \ {x} /\ (s \ {p}) \ {x} = (s \ {x}) \ {p}
      BY <1>5, <2>2
    <3> DEFINE rest == g[(s \ {x}) \ {p}]
    <3>2. /\ g[s \ {p}] = f[x] + rest /\ g[s \ {x}] = f[p] + rest
          /\ f[x] \in Int /\ f[p] \in Int
          /\ g[s \ {p}] \in Int /\ g[s \ {x}] \in Int
      BY <1>3, <1>5, <1>6, <3>1
    <3>3. rest \in Int
      <4>1. (s \ {x}) \ {p} \in SUBSET S /\ (s \ {x}) \ {p} \subseteq s /\ (s \ {x}) \ {p} # s
        BY <1>6
      <4>2. Good((s \ {x}) \ {p})
        <5> HIDE DEF Good
        <5>1. QED
          BY <1>1, <4>1
      <4>3. QED
        BY <4>2, Zenon
    <3> HIDE DEF rest
    <3>4. QED
      BY <1>5, <3>2, <3>3
  <2>3. QED
    BY <2>1, <2>2
<1>9. QED
  BY <1>6, <1>7, <1>8

\* The sum of f over the set T.
Sigma(f, T) == Total([x \in T |-> f[x]])

\* f can be summed over S.
Summable(f, S) == IsFiniteSet(S) /\ \A x \in S : f[x] \in Int

\* Sums over the parts of S, in one function.
LEMMA SigmaIs ==
    ASSUME NEW S, NEW f, Summable(f, S)
    PROVE  \E g : Sums(g, f, S) /\ \A T \in SUBSET S : Sigma(f, T) = g[T]
<1>1. PICK g : Sums(g, f, S)
  BY SumsExist DEF Summable
<1>2. ASSUME NEW T \in SUBSET S PROVE Sigma(f, T) = g[T]
  <2> DEFINE e == [x \in T |-> f[x]]
  <2>1. IsFiniteSet(T)
    BY FS_Subset DEF Summable
  <2>2. DOMAIN e = T /\ \A x \in T : f[x] = e[x]
    OBVIOUS
  <2>3. Sigma(f, T) = Total(e)
    BY DEF Sigma
  <2> HIDE DEF e
  <2>4. PICK h : Sums(h, e, T)
    BY <2>1, SumsExist
  <2>5. Total(e) = h[T]
    BY <2>1, <2>2, <2>4, TotalIs
  <2>6. g[T] = h[T]
    BY <1>1, <2>2, <2>4, SumsAgree DEF Summable
  <2>7. QED
    BY <2>3, <2>5, <2>6
<1>3. QED
  BY <1>1, <1>2

LEMMA SigmaEmpty == \A f : Sigma(f, {}) = 0
<1> TAKE f
<1>0. Summable(f, {})
  BY FS_EmptySet DEF Summable
<1>1. PICK g : Sums(g, f, {}) /\ \A T \in SUBSET {} : Sigma(f, T) = g[T]
  BY <1>0, SigmaIs
<1>2. g[{}] = 0
  BY <1>1 DEF Sums
<1>3. QED
  BY <1>1, <1>2

\* One element more.
LEMMA SigmaStep ==
    ASSUME NEW S, NEW f, Summable(f, S), NEW T \in SUBSET S, NEW x \in S \ T
    PROVE  Sigma(f, T \cup {x}) = f[x] + Sigma(f, T)
<1>1. PICK g : Sums(g, f, S) /\ \A U \in SUBSET S : Sigma(f, U) = g[U]
  BY SigmaIs
<1>2. T \cup {x} \in SUBSET S /\ x \in T \cup {x} /\ (T \cup {x}) \ {x} = T
  OBVIOUS
<1>3. g[T \cup {x}] = f[x] + g[(T \cup {x}) \ {x}]
  BY <1>1, <1>2, SumsStep DEF Summable
<1>4. QED
  BY <1>1, <1>2, <1>3

LEMMA SigmaInt ==
    ASSUME NEW S, NEW f, Summable(f, S)
    PROVE  \A T \in SUBSET S : Sigma(f, T) \in Int
<1>1. PICK g : Sums(g, f, S) /\ \A U \in SUBSET S : Sigma(f, U) = g[U]
  BY SigmaIs
<1>2. QED
  BY <1>1, SumsStep DEF Summable

\* The laws below are proved alike: the parts of S that obey a law are those
\* of a set B that holds the empty set and with a part that with one element
\* more.
LEMMA SigmaNat ==
    ASSUME NEW S, IsFiniteSet(S), NEW f, \A x \in S : f[x] \in Nat
    PROVE  Sigma(f, S) \in Nat
<1> DEFINE B == {T \in SUBSET S : Sigma(f, T) \in Nat}
<1>1. {} \in B
  BY SigmaEmpty
<1>2. \A T \in SUBSET S : \A x \in S \ T : T \in B => T \cup {x} \in B
  <2> SUFFICES ASSUME NEW T \in SUBSET S, NEW x \in S \ T, Sigma(f, T) \in Nat
               PROVE  Sigma(f, T \cup {x}) \in Nat
    OBVIOUS
  <2>1. Sigma(f, T \cup {x}) = f[x] + Sigma(f, T)
    BY SigmaStep DEF Summable
  <2>2. QED
    BY <2>1
<1> HIDE DEF B
<1>3. S \in B
  BY <1>1, <1>2, SetInduction
<1>4. QED
  BY <1>3 DEF B

LEMMA SigmaMonotone ==
    ASSUME NEW S, NEW f, Summable(f, S), NEW h, Summable(h, S),
           \A x \in S : f[x] <= h[x]
    PROVE  Sigma(f, S) <= Sigma(h, S)
<1> DEFINE B == {T \in SUBSET S : Sigma(f, T) <= Sigma(h, T)}
<1>1. {} \in B
  BY SigmaEmpty
<1>2. \A T \in SUBSET S : \A x \in S \ T : T \in B => T \cup {x} \in B
  <2> SUFFICES ASSUME NEW T \in SUBSET S, NEW x \in S \ T, Sigma(f, T) <= Sigma(h, T)
               PROVE  Sigma(f, T \cup {x}) <= Sigma(h, T \cup {x})
    OBVIOUS
  <2>1. /\ Sigma(f, T \cup {x}) = f[x] + Sigma(f, T)
        /\ Sigma(h, T \cup {x}) = h[x] + Sigma(h, T)
    BY SigmaStep
  <2>2. f[x] \in Int /\ h[x] \in Int /\ Sigma(f, T) \in Int /\ Sigma(h, T) \in Int
    BY SigmaInt DEF Summable
  <2>3. f[x] <= h[x]
    OBVIOUS
  <2>4. QED
    BY <2>1, <2>2, <2>3
<1> HIDE DEF B
<1>3. IsFiniteSet(S)
  BY DEF Summable
<1>4. S \in B
  BY <1>1, <1>2, <1>3, SetInduction
<1>5. QED
  BY <1>4 DEF B

LEMMA SigmaPlus ==
    ASSUME NEW S, NEW f, Summable(f, S), NEW h, Summable(h, S),
           NEW k, \A x \in S : k[x] = f[x] + h[x]
    PROVE  Sigma(k, S) = Sigma(f, S) + Sigma(h, S)
<1> DEFINE B == {T \in SUBSET S : Sigma(k, T) = Sigma(f, T) + Sigma(h, T)}
<1>1. {} \in B
  BY SigmaEmpty
<1>2. Summable(k, S)
  BY DEF Summable
<1>3. \A T \in SUBSET S : \A x \in S \ T : T \in B => T \cup {x} \in B
  <2> SUFFICES ASSUME NEW T \in SUBSET S, NEW x \in S \ T,
                      Sigma(k, T) = Sigma(f, T) + Sigma(h, T)
               PROVE  Sigma(k, T \cup {x}) = Sigma(f, T \cup {x}) + Sigma(h, T \cup {x})
    OBVIOUS
  <2>1. /\ Sigma(f, T \cup {x}) = f[x] + Sigma(f, T)
        /\ Sigma(h, T \cup {x}) = h[x] + Sigma(h, T)
        /\ Sigma(k, T \cup {x}) = k[x] + Sigma(k, T)
    BY <1>2, SigmaStep
  <2>2. f[x] \in Int /\ h[x] \in Int /\ Sigma(f, T) \in Int /\ Sigma(h, T) \in Int
    BY SigmaInt DEF Summable
  <2>3. k[x] = f[x] + h[x]
    OBVIOUS
  <2>4. QED
    BY <2>1, <2>2, <2>3
<1> HIDE DEF B
<1>4. IsFiniteSet(S)
  BY DEF Summable
<1>5. S \in B
  BY <1>1, <1>3, <1>4, SetInduction
<1>6. QED
  BY <1>5 DEF B

LEMMA SigmaTimes ==
    ASSUME NEW S, NEW f, Summable(f, S), NEW c \in Int,
           NEW k, \A x \in S : k[x] = c * f[x]
    PROVE  Sigma(k, S) = c * Sigma(f, S)
<1> DEFINE B == {T \in SUBSET S : Sigma(k, T) = c * Sigma(f, T)}
<1>1. {} \in B
  BY SigmaEmpty
<1>2. Summable(k, S)
  BY DEF Summable
<1>3. \A T \in SUBSET S : \A x \in S \ T : T \in B => T \cup {x} \in B
  <2> SUFFICES ASSUME NEW T \in SUBSET S, NEW x \in S \ T,
                      Sigma(k, T) = c * Sigma(f, T)
               PROVE  Sigma(k, T \cup {x}) = c * Sigma(f, T \cup {x})
    OBVIOUS
  <2>1. /\ Sigma(f, T \cup {x}) = f[x] + Sigma(f, T)
        /\ Sigma(k, T \cup {x}) = k[x] + Sigma(k, T)
    BY <1>2, SigmaStep
  <2>2. f[x] \in Int /\ Sigma(f, T) \in Int
    BY SigmaInt DEF Summable
  <2>3. k[x] = c * f[x]
    OBVIOUS
  <2>4. \A a, b \in Int : c * a + c * b = c * (a + b)
    OBVIOUS
  <2>5. QED
    BY <2>1, <2>2, <2>3, <2>4
<1> HIDE DEF B
<1>4. IsFiniteSet(S)
  BY DEF Summable
<1>5. S \in B
  BY <1>1, <1>3, <1>4, SetInduction
<1>6. QED
  BY <1>5 DEF B

\* A sum is the sum over a part and the sum over the rest.
LEMMA SigmaSplit ==
    ASSUME NEW S, NEW f, Summable(f, S), NEW P \in SUBSET S
    PROVE  Sigma(f, S) = Sigma(f, P) + Sigma(f, S \ P)
<1> DEFINE B == {T \in SUBSET P : Sigma(f, (S \ P) \cup T) = Sigma(f, T) + Sigma(f, S \ P)}
<1>0. IsFiniteSet(P) /\ Sigma(f, S \ P) \in Int
  BY SigmaInt, FS_Subset DEF Summable
<1>1. {} \in B
  <2>1. (S \ P) \cup {} = S \ P
    OBVIOUS
  <2>2. QED
    BY <1>0, <2>1, SigmaEmpty
<1>2. \A T \in SUBSET P : \A x \in P \ T : T \in B => T \cup {x} \in B
  <2> SUFFICES ASSUME NEW T \in SUBSET P, NEW x \in P \ T,
                      Sigma(f, (S \ P) \cup T) = Sigma(f, T) + Sigma(f, S \ P)
               PROVE  Sigma(f, (S \ P) \cup (T \cup {x})) =
                          Sigma(f, T \cup {x}) + Sigma(f, S \ P)
    OBVIOUS
  <2>1. /\ (S \ P) \cup T \in SUBSET S /\ x \in S \ ((S \ P) \cup T)
        /\ T \in SUBSET S /\ x \in S \ T
        /\ ((S \ P) \cup T) \cup {x} = (S \ P) \cup (T \cup {x})
    OBVIOUS
  <2>2. Sigma(f, T \cup {x}) = f[x] + Sigma(f, T)
    BY <2>1, SigmaStep
  <2> DEFINE most == (S \ P) \cup T
  <2>3. Sigma(f, most \cup {x}) = f[x] + Sigma(f, most)
    <3>1. most \in SUBSET S /\ x \in S \ most
      BY <2>1
    <3> HIDE DEF most
    <3>2. QED
      BY <3>1, SigmaStep
  <2>4. f[x] \in Int /\ Sigma(f, T) \in Int
    BY <2>1, SigmaInt DEF Summable
  <2>5. Sigma(f, (S \ P) \cup (T \cup {x})) = f[x] + Sigma(f, (S \ P) \cup T)
    BY <2>1, <2>3
  <2>6. QED
    BY <1>0, <2>2, <2>4, <2>5
<1> HIDE DEF B
<1>3. P \in B
  BY <1>0, <1>1, <1>2, SetInduction
<1>4. (S \ P) \cup P = S
  OBVIOUS
<1>5. QED
  BY <1>3, <1>4 DEF B

\* A part of naturals sums to no more than all of them, and one of them is no
\* more than all.
LEMMA SigmaPart ==
    ASSUME NEW S, IsFiniteSet(S), NEW f, \A x \in S : f[x] \in Nat, NEW P \in SUBSET S
    PROVE  Sigma(f, P) <= Sigma(f, S)
<1>1. Summable(f, S)
  BY DEF Summable
<1>2. Sigma(f, S \ P) \in Nat
  BY FS_Subset, SigmaNat
<1>3. Sigma(f, S) = Sigma(f, P) + Sigma(f, S \ P)
  BY <1>1, SigmaSplit
<1>4. Sigma(f, P) \in Int
  BY <1>1, SigmaInt
<1>5. QED
  BY <1>2, <1>3, <1>4

LEMMA SigmaMember ==
    ASSUME NEW S, IsFiniteSet(S), NEW f, \A x \in S : f[x] \in Nat, NEW x \in S
    PROVE  f[x] <= Sigma(f, S)
<1>1. Summable(f, S)
  BY DEF Summable
<1>2. {} \in SUBSET S /\ x \in S \ {} /\ {} \cup {x} = {x} /\ {x} \in SUBSET S
  OBVIOUS
<1>3. Sigma(f, {x}) = f[x] + Sigma(f, {})
  BY <1>1, <1>2, SigmaStep
<1>4. Sigma(f, {x}) <= Sigma(f, S)
  BY <1>2, SigmaPart
<1>5. QED
  BY <1>3, <1>4, SigmaEmpty

\* A sum depends on the values only.
LEMMA SigmaSame ==
    ASSUME NEW S, NEW f, NEW h, \A x \in S : f[x] = h[x]
    PROVE  Sigma(f, S) = Sigma(h, S)
<1>1. [x \in S |-> f[x]] = [x \in S |-> h[x]]
  OBVIOUS
<1>2. QED
  BY <1>1 DEF Sigma

\* The sum of a function over its domain.
LEMMA TotalIsSigma ==
    ASSUME NEW f, f = [x \in DOMAIN f |-> f[x]]
    PROVE  Total(f) = Sigma(f, DOMAIN f)
BY DEF Sigma

\* Sums over sets whose elements correspond.
LEMMA SigmaAlong ==
    ASSUME NEW S, NEW f, Summable(f, S), NEW R, NEW h, Summable(h, R),
           NEW m \in [S -> R],
           \A x, y \in S : m[x] = m[y] => x = y,
           \A y \in R : \E x \in S : m[x] = y,
           \A x \in S : h[m[x]] = f[x]
    PROVE  Sigma(f, S) = Sigma(h, R)
<1> DEFINE Image(T) == {m[x] : x \in T}
           B == {T \in SUBSET S : Sigma(f, T) = Sigma(h, Image(T))}
<1>1. {} \in B
  <2>1. Image({}) = {}
    OBVIOUS
  <2>2. QED
    BY <2>1, SigmaEmpty
<1>2. \A T \in SUBSET S : \A x \in S \ T : T \in B => T \cup {x} \in B
  <2> SUFFICES ASSUME NEW T \in SUBSET S, NEW x \in S \ T,
                      Sigma(f, T) = Sigma(h, Image(T))
               PROVE  Sigma(f, T \cup {x}) = Sigma(h, Image(T \cup {x}))
    OBVIOUS
  <2>1. /\ Image(T) \in SUBSET R /\ m[x] \in R \ Image(T)
        /\ Image(T \cup {x}) = Image(T) \cup {m[x]}
    OBVIOUS
  <2>2. Sigma(f, T \cup {x}) = f[x] + Sigma(f, T)
    BY SigmaStep
  <2> HIDE DEF Image
  <2>3. Sigma(h, Image(T) \cup {m[x]}) = h[m[x]] + Sigma(h, Image(T))
    BY <2>1, SigmaStep
  <2>4. QED
    BY <2>1, <2>2, <2>3
<1>3. IsFiniteSet(S)
  BY DEF Summable
<1>4. Image(S) = R
  OBVIOUS
<1> HIDE DEF B
<1>5. S \in B
  BY <1>1, <1>2, <1>3, SetInduction
<1>6. Sigma(f, S) = Sigma(h, Image(S))
  BY <1>5 DEF B
<1>7. QED
  BY <1>4, <1>6

----------------------------------------------------------------------------
(* Least and greatest of a few.                                            *)

LEMMA MinOfTwo == \A a, b \in Int : Min({a, b}) = IF a <= b THEN a ELSE b
<1> TAKE a, b \in Int
<1>1. \E x \in {a, b} : \A y \in {a, b} : x <= y
  OBVIOUS
<1>2. Min({a, b}) \in {a, b} /\ \A y \in {a, b} : Min({a, b}) <= y
  BY <1>1 DEF Min
<1>3. QED
  BY <1>2

LEMMA MaxOfTwo == \A a, b \in Int : Max({a, b}) = IF a >= b THEN a ELSE b
<1> TAKE a, b \in Int
<1>1. \E x \in {a, b} : \A y \in {a, b} : x >= y
  OBVIOUS
<1>2. Max({a, b}) \in {a, b} /\ \A y \in {a, b} : Max({a, b}) >= y
  BY <1>1 DEF Max
<1>3. QED
  BY <1>2

LEMMA MinOfThree ==
    \A a, b, c \in Int :
        /\ Min({a, b, c}) \in {a, b, c}
        /\ Min({a, b, c}) <= a /\ Min({a, b, c}) <= b /\ Min({a, b, c}) <= c
<1> TAKE a, b, c \in Int
<1>1. \E x \in {a, b, c} : \A y \in {a, b, c} : x <= y
  <2>1. CASE a <= b /\ a <= c
    BY <2>1
  <2>2. CASE b <= a /\ b <= c
    BY <2>2
  <2>3. CASE c <= a /\ c <= b
    BY <2>3
  <2>4. QED
    BY <2>1, <2>2, <2>3
<1>2. /\ Min({a, b, c}) \in {a, b, c}
      /\ \A y \in {a, b, c} : Min({a, b, c}) <= y
  BY <1>1 DEF Min
<1>3. QED
  BY <1>2

LEMMA ProductsGrow ==
    ASSUME NEW a \in Nat, NEW b \in Nat, NEW c \in Nat, NEW d \in Nat, a <= c, b <= d
    PROVE  a * b \in Nat /\ c * d \in Nat /\ a * b <= c * d
<1>1. a * b \in Nat /\ c * d \in Nat /\ c * b \in Nat
  OBVIOUS
<1>2. a * b <= c * b
  OBVIOUS
<1>3. c * b <= c * d
  OBVIOUS
<1>4. QED
  BY <1>1, <1>2, <1>3

----------------------------------------------------------------------------
(* What effects leave.                                                     *)

\* Effects whose reductions are percentages and of which only those on
\* refineries throttle a refinery.
Lawful(effects) ==
    \A e \in effects :
        /\ e.reduction \in 0 .. 100
        /\ e.type = "REFINERY_THROUGHPUT_DISRUPTION" => e.aim = "REFINERY"

\* Each effect has one of the other set that asks no less of the same asset.
Covers(stronger, effects) ==
    \A e \in effects : \E d \in stronger :
        /\ d.type = e.type /\ d.aim = e.aim /\ d.asset = e.asset
        /\ e.reduction <= d.reduction

Throttling(effects, x) ==
    {e \in effects : e.type = "REFINERY_THROUGHPUT_DISRUPTION" /\ e.asset = x}

LEMMA LeftIs ==
    ASSUME NEW E, \A e \in E : e.reduction \in 0 .. 100
    PROVE  /\ Left(E) \in 0 .. 100
           /\ \A e \in E : Left(E) <= 100 - e.reduction
           /\ Left(E) = 100 \/ \E e \in E : Left(E) = 100 - e.reduction
<1> DEFINE T == {100} \cup {100 - e.reduction : e \in E}
<1>1. T \in SUBSET (0 .. 100) /\ T # {}
  OBVIOUS
<1>2. T \in SUBSET Nat
  BY <1>1
<1>3. Left(E) = Min(T)
  BY DEF Left
<1>4. Min(T) \in T /\ \A y \in T : Min(T) <= y
  <2> HIDE DEF T
  <2>1. QED
    BY <1>1, <1>2, LeastNatural
<1>5. /\ \A e \in E : 100 - e.reduction \in T
      /\ \A y \in T : y = 100 \/ \E e \in E : y = 100 - e.reduction
  OBVIOUS
<1> HIDE DEF T
<1>6. Left(E) \in T /\ \A y \in T : Left(E) <= y
  BY <1>3, <1>4
<1>7. QED
  BY <1>1, <1>5, <1>6, Zenon

LEMMA LeftOfNone == Left({}) = 100
BY LeftIs

\* More and stronger effects leave no more.
LEMMA LeftCovered ==
    ASSUME NEW E, \A e \in E : e.reduction \in 0 .. 100,
           NEW D, \A d \in D : d.reduction \in 0 .. 100,
           \A e \in E : \E d \in D : e.reduction <= d.reduction
    PROVE  Left(D) <= Left(E)
<1>1. CASE Left(E) = 100
  BY <1>1, LeftIs
<1>2. ASSUME NEW e \in E, Left(E) = 100 - e.reduction PROVE Left(D) <= Left(E)
  <2>1. PICK d \in D : e.reduction <= d.reduction
    OBVIOUS
  <2>2. Left(D) <= 100 - d.reduction /\ Left(D) \in 0 .. 100
    BY LeftIs
  <2>3. d.reduction \in 0 .. 100 /\ e.reduction \in 0 .. 100
    OBVIOUS
  <2>4. \A l, r, q \in 0 .. 100 : r <= q /\ l <= 100 - q => l <= 100 - r
    OBVIOUS
  <2>5. Left(D) <= 100 - e.reduction
    BY <2>1, <2>2, <2>3, <2>4, Zenon
  <2>6. QED
    BY <1>2, <2>5
<1>3. QED
  BY <1>1, <1>2, LeftIs

\* What reaches a route of an allocation, or the refinery at the end of one,
\* reaches the way of the allocation.
LEMMA RouteReachesWay ==
    ASSUME NEW n, NEW f \in Flows(n), NEW e, ReachesRoute(n, e, f[2])
    PROVE  ReachesPath(n, e, f[1].supplier, WayOf(n, f[1]))
<1>1. f[1] \in n.allocations /\ f[2] \in f[1].path
  BY DEF Flows
<1>2. f[2] \in WayOf(n, f[1])
  BY <1>1 DEF WayOf
<1>3. Ends(n, {f[2]}) \subseteq Ends(n, WayOf(n, f[1]))
  BY <1>2 DEF Ends
<1>4. Straits(n, {f[2]}) \subseteq Straits(n, WayOf(n, f[1]))
  BY <1>2 DEF Straits
<1>5. QED
  BY <1>2, <1>3, <1>4 DEF ReachesRoute, ReachesPath

LEMMA RefineryReachesWay ==
    ASSUME NEW n, NEW x, NEW f \in Into(n, x), NEW e,
           e.aim = "REFINERY", e.asset = x
    PROVE  ReachesPath(n, e, f[1].supplier, WayOf(n, f[1]))
<1>1. f[1] \in n.allocations /\ f[2] \in f[1].path /\ n.routes[f[2]].to = x
  BY DEF Into, Flows
<1>2. f[2] \in WayOf(n, f[1])
  BY <1>1 DEF WayOf
<1>3. x \in Ends(n, WayOf(n, f[1]))
  BY <1>1, <1>2 DEF Ends
<1>4. QED
  BY <1>3 DEF ReachesPath

LEMMA PathLeftIs ==
    ASSUME NEW n, NEW E, Lawful(E), NEW a
    PROVE  PathLeft(n, a, E) \in 0 .. 100
BY LeftIs DEF PathLeft, Lawful

LEMMA RouteLeftIs ==
    ASSUME NEW n, NEW E, Lawful(E), NEW f \in Flows(n)
    PROVE  LET left == Left({e \in E : ReachesRoute(n, e, f[2])}) IN
           left \in 0 .. 100 /\ PathLeft(n, f[1], E) <= left
<1> DEFINE R == {e \in E : ReachesRoute(n, e, f[2])}
           P == {e \in E : ReachesPath(n, e, f[1].supplier, WayOf(n, f[1]))}
<1>1. R \subseteq P
  BY RouteReachesWay
<1>2. /\ \A e \in R : e.reduction \in 0 .. 100 /\ e.reduction <= e.reduction
      /\ \A e \in P : e.reduction \in 0 .. 100
  BY DEF Lawful
<1>3. PathLeft(n, f[1], E) = Left(P)
  BY DEF PathLeft
<1> HIDE DEF R, P
<1>4. Left(R) \in 0 .. 100 /\ Left(P) <= Left(R)
  BY <1>1, <1>2, LeftIs, LeftCovered
<1>5. QED
  BY <1>3, <1>4 DEF R

LEMMA ThrottleLeftIs ==
    ASSUME NEW n, NEW E, Lawful(E), NEW x
    PROVE  /\ Left(Throttling(E, x)) \in 0 .. 100
           /\ \A f \in Into(n, x) : PathLeft(n, f[1], E) <= Left(Throttling(E, x))
<1>1. \A e \in Throttling(E, x) : e.reduction \in 0 .. 100 /\ e.reduction <= e.reduction
  BY DEF Lawful, Throttling
<1>2. ASSUME NEW f \in Into(n, x) PROVE PathLeft(n, f[1], E) <= Left(Throttling(E, x))
  <2> DEFINE P == {e \in E : ReachesPath(n, e, f[1].supplier, WayOf(n, f[1]))}
  <2>1. Throttling(E, x) \subseteq P
    BY RefineryReachesWay DEF Throttling, Lawful
  <2>2. \A e \in P : e.reduction \in 0 .. 100
    BY DEF Lawful
  <2>3. PathLeft(n, f[1], E) = Left(P)
    BY DEF PathLeft
  <2> HIDE DEF P
  <2>4. QED
    BY <1>1, <2>1, <2>2, <2>3, LeftCovered
<1>3. QED
  BY <1>1, <1>2, LeftIs

----------------------------------------------------------------------------
(* The flows of a day.                                                     *)

\* A catalogue a service runs with.
Sound(n) == HasFigures(n) /\ PathsPass(n) /\ Accepts(n)

LEMMA FlowsAreFinite ==
    ASSUME NEW n, Sound(n)
    PROVE  /\ IsFiniteSet(Flows(n))
           /\ \A f \in Flows(n) :
                 /\ f[1] \in n.allocations /\ f[2] \in DOMAIN n.routes /\ f[2] \in f[1].path
                 /\ f[1].volume \in Nat /\ n.routes[f[2]].capacity \in Nat
           /\ \A x : IsFiniteSet(Into(n, x)) /\ IsFiniteSet(OutOf(n, x)) /\ IsFiniteSet(OnRoute(n, x))
<1>1. IsFiniteSet(n.allocations \X DOMAIN n.routes)
  BY FS_Product DEF Sound, HasFigures
<1>2. Flows(n) \subseteq n.allocations \X DOMAIN n.routes
  BY DEF Flows
<1>3. IsFiniteSet(Flows(n))
  BY <1>1, <1>2, FS_Subset
<1>4. \A x : /\ Into(n, x) \subseteq Flows(n) /\ OutOf(n, x) \subseteq Flows(n)
             /\ OnRoute(n, x) \subseteq Flows(n)
  BY DEF Into, OutOf, OnRoute
<1>5. \A x : IsFiniteSet(Into(n, x)) /\ IsFiniteSet(OutOf(n, x)) /\ IsFiniteSet(OnRoute(n, x))
  BY <1>3, <1>4, FS_Subset
<1>6. ASSUME NEW f \in Flows(n)
      PROVE  /\ f[1] \in n.allocations /\ f[2] \in DOMAIN n.routes /\ f[2] \in f[1].path
             /\ f[1].volume \in Nat /\ n.routes[f[2]].capacity \in Nat
  <2>1. f[1] \in n.allocations /\ f[2] \in DOMAIN n.routes /\ f[2] \in f[1].path
    BY DEF Flows
  <2>2. QED
    BY <2>1 DEF Sound, HasFigures
<1>7. QED
  BY <1>3, <1>5, <1>6

\* The volumes of flows, as a function to sum.
Volumed(n) == [f \in Flows(n) |-> f[1].volume]

LEMMA VolumeIs ==
    ASSUME NEW n, NEW S \in SUBSET Flows(n)
    PROVE  Volume(S) = Sigma(Volumed(n), S)
<1>1. [f \in S |-> f[1].volume] = [f \in S |-> Volumed(n)[f]]
  BY DEF Volumed
<1>2. QED
  BY <1>1 DEF Volume, Sigma

\* On an accepted catalogue the capacity of a route is never what limits a
\* flow: the volumes fit into it, and what reaches the route reaches the path.
LEMMA FlowIs ==
    ASSUME NEW n, Sound(n), NEW E, Lawful(E), NEW f \in Flows(n)
    PROVE  LET v == f[1].volume * PathLeft(n, f[1], E) IN
           v \in Nat /\ Min({v, RouteCapacity(n, f[2], E)}) = v
<1>1. /\ f[1].volume \in Nat /\ n.routes[f[2]].capacity \in Nat /\ f[2] \in DOMAIN n.routes
      /\ IsFiniteSet(OnRoute(n, f[2])) /\ f \in OnRoute(n, f[2])
      /\ OnRoute(n, f[2]) \in SUBSET Flows(n)
  BY FlowsAreFinite DEF OnRoute
<1>2. f[1].volume <= n.routes[f[2]].capacity
  <2>1. Volume(OnRoute(n, f[2])) <= n.routes[f[2]].capacity
    BY <1>1 DEF Sound, Accepts, Allocatable
  <2>2. \A g \in OnRoute(n, f[2]) : Volumed(n)[g] \in Nat
    BY <1>1, FlowsAreFinite DEF Volumed
  <2>3. Volumed(n)[f] <= Sigma(Volumed(n), OnRoute(n, f[2]))
    BY <1>1, <2>2, SigmaMember
  <2>4. Sigma(Volumed(n), OnRoute(n, f[2])) \in Nat
    BY <1>1, <2>2, SigmaNat
  <2>5. Volumed(n)[f] = f[1].volume
    BY DEF Volumed
  <2>6. Volume(OnRoute(n, f[2])) = Sigma(Volumed(n), OnRoute(n, f[2]))
    BY <1>1, VolumeIs
  <2>7. QED
    BY <1>1, <2>1, <2>3, <2>4, <2>5, <2>6
<1> DEFINE left == Left({e \in E : ReachesRoute(n, e, f[2])})
           path == PathLeft(n, f[1], E)
<1>3. left \in Nat /\ path \in Nat /\ path <= left
  <2>1. left \in 0 .. 100 /\ path <= left
    BY RouteLeftIs
  <2>2. path \in 0 .. 100
    BY PathLeftIs
  <2> HIDE DEF left, path
  <2>3. QED
    BY <2>1, <2>2
<1>4. RouteCapacity(n, f[2], E) = n.routes[f[2]].capacity * left
  BY DEF RouteCapacity
<1> HIDE DEF left, path
<1>5. /\ f[1].volume * path \in Nat /\ n.routes[f[2]].capacity * left \in Nat
      /\ f[1].volume * path <= n.routes[f[2]].capacity * left
  BY <1>1, <1>2, <1>3, ProductsGrow
<1>6. QED
  BY <1>4, <1>5, MinOfTwo DEF path

\* The flow of a day under effects.
Flowing(n, effects) == [f \in Flows(n) |-> f[1].volume * PathLeft(n, f[1], effects)]

LEMMA FlowingIs ==
    ASSUME NEW n, Sound(n), NEW E, Lawful(E)
    PROVE  /\ [f \in Flows(n) |-> Min({f[1].volume * PathLeft(n, f[1], E),
                                       RouteCapacity(n, f[2], E)})] = Flowing(n, E)
           /\ \A f \in Flows(n) : Flowing(n, E)[f] \in Nat
BY FlowIs DEF Flowing

\* Where every path keeps at most c of a hundred, so does the sum.
LEMMA CarriedAtMost ==
    ASSUME NEW n, Sound(n), NEW E, Lawful(E), NEW S \in SUBSET Flows(n),
           NEW c \in Nat, \A f \in S : PathLeft(n, f[1], E) <= c
    PROVE  /\ Carried(Flowing(n, E), S) \in Nat /\ Volume(S) \in Nat
           /\ Carried(Flowing(n, E), S) <= c * Volume(S)
<1> DEFINE h == [f \in Flows(n) |-> c * Volumed(n)[f]]
<1>1. IsFiniteSet(S)
  BY FlowsAreFinite, FS_Subset
<1>2. \A f \in S : Volumed(n)[f] \in Nat /\ Volumed(n)[f] = f[1].volume
  BY FlowsAreFinite DEF Volumed
<1>3. \A f \in S : Flowing(n, E)[f] \in Nat /\ Flowing(n, E)[f] = f[1].volume * PathLeft(n, f[1], E)
  BY FlowingIs DEF Flowing
<1>4. \A f \in S : h[f] = c * Volumed(n)[f]
  OBVIOUS
<1> HIDE DEF h
<1>5. \A f \in S : h[f] \in Nat /\ Flowing(n, E)[f] <= h[f]
  <2> TAKE f \in S
  <2>1. PathLeft(n, f[1], E) \in Nat /\ PathLeft(n, f[1], E) <= c
    <3>1. PathLeft(n, f[1], E) \in 0 .. 100
      BY PathLeftIs
    <3>2. QED
      BY <3>1
  <2>2. /\ f[1].volume * c \in Nat
        /\ f[1].volume * PathLeft(n, f[1], E) <= f[1].volume * c
    BY <1>2, <2>1, ProductsGrow
  <2>3. h[f] = f[1].volume * c
    BY <1>2, <1>4
  <2>4. QED
    BY <1>3, <2>2, <2>3
<1>6. /\ Summable(h, S) /\ Summable(Flowing(n, E), S) /\ Summable(Volumed(n), S)
  BY <1>1, <1>2, <1>3, <1>5 DEF Summable
<1>7. Sigma(Flowing(n, E), S) <= Sigma(h, S)
  BY <1>5, <1>6, SigmaMonotone
<1>8. Sigma(h, S) = c * Sigma(Volumed(n), S)
  BY <1>4, <1>6, SigmaTimes
<1>9. Sigma(Flowing(n, E), S) \in Nat /\ Sigma(Volumed(n), S) \in Nat
  BY <1>1, <1>2, <1>3, SigmaNat
<1>10. Carried(Flowing(n, E), S) = Sigma(Flowing(n, E), S) /\ Volume(S) = Sigma(Volumed(n), S)
  BY VolumeIs DEF Carried, Sigma
<1>11. QED
  BY <1>7, <1>8, <1>9, <1>10

\* Where every path keeps all, so does the sum.
LEMMA CarriedInFull ==
    ASSUME NEW n, Sound(n), NEW E, Lawful(E), NEW S \in SUBSET Flows(n),
           \A f \in S : PathLeft(n, f[1], E) = 100
    PROVE  Carried(Flowing(n, E), S) = 100 * Volume(S)
<1>1. IsFiniteSet(S)
  BY FlowsAreFinite, FS_Subset
<1>2. Summable(Volumed(n), S)
  BY <1>1, FlowsAreFinite DEF Volumed, Summable
<1>3. \A f \in S : Flowing(n, E)[f] = 100 * Volumed(n)[f]
  BY FlowsAreFinite DEF Flowing, Volumed
<1>4. Sigma(Flowing(n, E), S) = 100 * Sigma(Volumed(n), S)
  BY <1>2, <1>3, SigmaTimes
<1>5. QED
  BY <1>4, VolumeIs DEF Carried, Sigma

\* More and stronger effects let no more through.
LEMMA CarriedCovered ==
    ASSUME NEW n, Sound(n), NEW E, Lawful(E), NEW D, Lawful(D), Covers(D, E),
           NEW S \in SUBSET Flows(n)
    PROVE  Carried(Flowing(n, D), S) <= Carried(Flowing(n, E), S)
<1>1. IsFiniteSet(S)
  BY FlowsAreFinite, FS_Subset
<1>2. \A a : PathLeft(n, a, D) <= PathLeft(n, a, E)
  <2> TAKE a
  <2> DEFINE P(F) == {e \in F : ReachesPath(n, e, a.supplier, WayOf(n, a))}
  <2>1. /\ \A e \in P(E) : e.reduction \in 0 .. 100
        /\ \A e \in P(D) : e.reduction \in 0 .. 100
    BY DEF Lawful
  <2>2. \A e \in P(E) : \E d \in P(D) : e.reduction <= d.reduction
    BY DEF Covers, ReachesPath
  <2>3. PathLeft(n, a, D) = Left(P(D)) /\ PathLeft(n, a, E) = Left(P(E))
    BY DEF PathLeft
  <2> HIDE DEF P
  <2>4. QED
    BY <2>1, <2>2, <2>3, LeftCovered
<1>3. \A f \in S : Flowing(n, D)[f] <= Flowing(n, E)[f]
  <2> TAKE f \in S
  <2>1. PathLeft(n, f[1], D) \in 0 .. 100 /\ PathLeft(n, f[1], E) \in 0 .. 100
    BY PathLeftIs
  <2>2. f[1].volume \in Nat
    BY FlowsAreFinite
  <2>3. PathLeft(n, f[1], D) <= PathLeft(n, f[1], E)
    BY <1>2
  <2>4. f[1].volume * PathLeft(n, f[1], D) <= f[1].volume * PathLeft(n, f[1], E)
    BY <2>1, <2>2, <2>3, ProductsGrow
  <2>5. QED
    BY <2>4 DEF Flowing
<1>4. Summable(Flowing(n, D), S) /\ Summable(Flowing(n, E), S)
  BY <1>1, FlowingIs DEF Summable
<1>5. Sigma(Flowing(n, D), S) <= Sigma(Flowing(n, E), S)
  BY <1>3, <1>4, SigmaMonotone
<1>6. QED
  BY <1>5 DEF Carried, Sigma

----------------------------------------------------------------------------
(* One day.                                                                *)

\* Stock some refineries of the catalogue hold.
Stocks(n) == UNION {[S -> Nat] : S \in SUBSET Refineries(n)}

LEMMA RefineriesAreFinite ==
    ASSUME NEW n, Sound(n)
    PROVE  IsFiniteSet(Refineries(n)) /\ IsFiniteSet(DOMAIN n.nodes)
<1>1. Refineries(n) \subseteq DOMAIN n.nodes
  BY DEF Refineries, OfKind
<1>2. IsFiniteSet(DOMAIN n.nodes)
  BY DEF Sound, HasFigures
<1>3. QED
  BY <1>1, <1>2, FS_Subset

LEMMA RefineryIs ==
    ASSUME NEW n, Sound(n), NEW x \in Refineries(n)
    PROVE  /\ n.nodes[x].demand \in Nat /\ Volume(Into(n, x)) = n.nodes[x].demand
           /\ Into(n, x) \in SUBSET Flows(n)
           /\ \E full \in Nat :
                 /\ n.nodes[x].demand <= full
                 /\ \A E : RefineryCapacity(n, x, E) = full * Left(Throttling(E, x))
<1>1. x \in DOMAIN n.nodes /\ n.nodes[x].kind = "REFINERY"
  BY DEF Refineries, OfKind
<1>2. /\ n.nodes[x].demand \in Nat /\ n.nodes[x].demand # Absent
      /\ n.nodes[x].capacity # Absent =>
            n.nodes[x].capacity \in Nat /\ n.nodes[x].demand <= n.nodes[x].capacity
  BY <1>1 DEF Sound, HasFigures
<1>3. Into(n, x) \in SUBSET Flows(n)
  BY DEF Into
<1>4. Volume(Into(n, x)) = n.nodes[x].demand
  <2>1. Residual(n, x) = Volume(Into(n, x)) - n.nodes[x].demand
    BY <1>1, <1>2 DEF Residual, Passages, OfKind
  <2>2. Residual(n, x) = 0
    BY <1>1 DEF Sound, Accepts, Conserved
  <2>3. Volume(Into(n, x)) \in Nat
    <3>1. Lawful({})
      BY DEF Lawful
    <3>2. \A f \in Into(n, x) : PathLeft(n, f[1], {}) <= 100
      BY <3>1, PathLeftIs
    <3>3. QED
      BY <1>3, <3>1, <3>2, CarriedAtMost
  <2>4. QED
    BY <1>2, <2>1, <2>2, <2>3
<1> DEFINE full == IF n.nodes[x].capacity = Absent THEN n.nodes[x].demand
                   ELSE n.nodes[x].capacity
<1>5. full \in Nat /\ n.nodes[x].demand <= full
  BY <1>2
<1>6. \A E : RefineryCapacity(n, x, E) = full * Left(Throttling(E, x))
  BY DEF RefineryCapacity, Throttling
<1> HIDE DEF full
<1>7. QED
  BY <1>2, <1>3, <1>4, <1>5, <1>6

\* What arrives at a refinery is no more than it needs and no more than it can
\* run: the effects on it also reach the paths to it.
LEMMA ArrivedIs ==
    ASSUME NEW n, Sound(n), NEW E, Lawful(E), NEW x \in Refineries(n)
    PROVE  LET arrived == Carried(Flowing(n, E), Into(n, x)) IN
           /\ arrived \in Nat /\ Demand(n, x) \in Nat /\ RefineryCapacity(n, x, E) \in Nat
           /\ arrived <= Demand(n, x) /\ arrived <= RefineryCapacity(n, x, E)
<1> DEFINE arrived == Carried(Flowing(n, E), Into(n, x))
           left == Left(Throttling(E, x))
           demand == n.nodes[x].demand
<1>1. /\ demand \in Nat /\ Volume(Into(n, x)) = demand /\ Into(n, x) \in SUBSET Flows(n)
  BY RefineryIs
<1>2. PICK full \in Nat : demand <= full /\ RefineryCapacity(n, x, E) = full * left
  BY RefineryIs
<1>3. left \in Nat /\ left <= 100 /\ \A f \in Into(n, x) : PathLeft(n, f[1], E) <= left
  <2>1. left \in 0 .. 100 /\ \A f \in Into(n, x) : PathLeft(n, f[1], E) <= left
    BY ThrottleLeftIs
  <2> HIDE DEF left
  <2>2. QED
    BY <2>1
<1> HIDE DEF left, demand
<1>4. arrived \in Nat /\ arrived <= left * demand
  BY <1>1, <1>3, CarriedAtMost
<1> HIDE DEF arrived
<1>5. /\ left * demand \in Nat /\ left * demand <= 100 * demand
      /\ left * full \in Nat /\ left * demand <= left * full
  <2>1. 100 \in Nat
    OBVIOUS
  <2>2. /\ left * demand \in Nat /\ 100 * demand \in Nat
        /\ left * demand <= 100 * demand
    BY <1>1, <1>3, <2>1, ProductsGrow
  <2>3. left * full \in Nat /\ left * demand <= left * full
    BY <1>1, <1>2, <1>3, ProductsGrow
  <2>4. QED
    BY <2>2, <2>3
<1>6. full * left = left * full
  BY <1>2, <1>3
<1>7. Demand(n, x) = 100 * demand
  BY DEF Demand, demand
<1>8. /\ arrived <= 100 * demand /\ arrived <= left * full /\ 100 * demand \in Nat
  BY <1>1, <1>4, <1>5
<1>9. QED
  BY <1>2, <1>4, <1>5, <1>6, <1>7, <1>8 DEF arrived

\* The parts of a day.
Arriving(n, E) == [x \in Refineries(n) |-> Carried(Flowing(n, E), Into(n, x))]
Using(n, E, stock) ==
    [x \in Refineries(n) |->
        Min({Demand(n, x), RefineryCapacity(n, x, E), Arriving(n, E)[x] + Held(stock, x)})]
Storing(n, E, stock) ==
    [x \in DOMAIN stock |-> Kept(Arriving(n, E)[x], stock[x], Using(n, E, stock)[x])]

LEMMA DayIs ==
    ASSUME NEW n, Sound(n), NEW E, Lawful(E), NEW stock
    PROVE  DayOf(n, E, stock) =
             [flow     |-> Flowing(n, E),
              capacity |-> [r \in DOMAIN n.routes |-> RouteCapacity(n, r, E)],
              arrived  |-> Arriving(n, E),
              used     |-> Using(n, E, stock),
              short    |-> [x \in Refineries(n) |-> Demand(n, x) - Using(n, E, stock)[x]],
              stock    |-> Storing(n, E, stock),
              residual |-> Total(Arriving(n, E)) - Total(Using(n, E, stock))
                             - (Total(Storing(n, E, stock)) - Total(stock))]
<1> DEFINE raw == [f \in Flows(n) |-> Min({f[1].volume * PathLeft(n, f[1], E),
                                         RouteCapacity(n, f[2], E)})]
           arrived(flow) == [x \in Refineries(n) |-> Carried(flow, Into(n, x))]
           used(flow) ==
               [x \in Refineries(n) |-> Min({Demand(n, x), RefineryCapacity(n, x, E),
                                            arrived(flow)[x] + Held(stock, x)})]
           stored(flow) ==
               [x \in DOMAIN stock |-> Kept(arrived(flow)[x], stock[x], used(flow)[x])]
           day(flow) ==
               [flow     |-> flow,
                capacity |-> [r \in DOMAIN n.routes |-> RouteCapacity(n, r, E)],
                arrived  |-> arrived(flow),
                used     |-> used(flow),
                short    |-> [x \in Refineries(n) |-> Demand(n, x) - used(flow)[x]],
                stock    |-> stored(flow),
                residual |-> Total(arrived(flow)) - Total(used(flow))
                               - (Total(stored(flow)) - Total(stock))]
<1>1. DayOf(n, E, stock) = day(raw)
  BY Zenon DEF DayOf
<1>2. raw = Flowing(n, E)
  BY FlowingIs
<1>3. day(raw) = day(Flowing(n, E))
  <2> HIDE DEF day, raw
  <2>1. QED
    BY <1>2
<1>4. QED
  BY <1>1, <1>3, Zenon DEF Arriving, Using, Storing

\* What a refinery uses: no more than it needs, can run, and has; all that
\* arrives when it keeps no stock.
LEMMA UsingIs ==
    ASSUME NEW n, Sound(n), NEW E, Lawful(E), NEW stock \in Stocks(n), NEW x \in Refineries(n)
    PROVE  LET arrived == Arriving(n, E)[x]
               used == Using(n, E, stock)[x]
           IN  /\ arrived \in Nat /\ used \in Nat /\ Held(stock, x) \in Nat
               /\ used <= Demand(n, x) /\ used <= RefineryCapacity(n, x, E)
               /\ used <= arrived + Held(stock, x)
               /\ x \notin DOMAIN stock => used = arrived
               /\ \/ used = Demand(n, x)
                  \/ used = RefineryCapacity(n, x, E)
                  \/ used = arrived + Held(stock, x)
<1> DEFINE arrived == Arriving(n, E)[x]
           held == Held(stock, x)
           demand == Demand(n, x)
           capacity == RefineryCapacity(n, x, E)
<1>1. /\ arrived \in Nat /\ demand \in Nat /\ capacity \in Nat
      /\ arrived <= demand /\ arrived <= capacity
  BY ArrivedIs DEF Arriving
<1>2. held \in Nat /\ (x \notin DOMAIN stock => held = 0)
  BY DEF Held, Stocks
<1>3. Using(n, E, stock)[x] = Min({demand, capacity, arrived + held})
  BY DEF Using
<1> HIDE DEF arrived, held, demand, capacity
<1> DEFINE used == Min({demand, capacity, arrived + held})
<1>4. /\ used \in {demand, capacity, arrived + held}
      /\ used <= demand /\ used <= capacity /\ used <= arrived + held
  <2>1. demand \in Int /\ capacity \in Int /\ arrived + held \in Int
    BY <1>1, <1>2
  <2>2. QED
    BY <2>1, MinOfThree
<1> HIDE DEF used
<1>5. used \in Nat
  BY <1>1, <1>2, <1>4
<1>6. x \notin DOMAIN stock => used = arrived
  BY <1>1, <1>2, <1>4
<1>7. QED
  BY <1>1, <1>2, <1>3, <1>4, <1>5, <1>6 DEF arrived, held, demand, capacity, used

LEMMA StoringIs ==
    ASSUME NEW n, Sound(n), NEW E, Lawful(E), NEW stock \in Stocks(n)
    PROVE  /\ DOMAIN stock \in SUBSET Refineries(n)
           /\ \A x \in DOMAIN stock :
                 /\ stock[x] \in Nat
                 /\ Storing(n, E, stock)[x] =
                      Arriving(n, E)[x] + stock[x] - Using(n, E, stock)[x]
           /\ Storing(n, E, stock) \in [DOMAIN stock -> Nat]
<1>1. DOMAIN stock \in SUBSET Refineries(n) /\ \A x \in DOMAIN stock : stock[x] \in Nat
  BY DEF Stocks
<1>2. \A x \in DOMAIN stock :
         /\ Storing(n, E, stock)[x] = Arriving(n, E)[x] + stock[x] - Using(n, E, stock)[x]
         /\ Storing(n, E, stock)[x] \in Nat
  <2> TAKE x \in DOMAIN stock
  <2>1. x \in Refineries(n) /\ stock[x] \in Nat /\ Held(stock, x) = stock[x]
    BY <1>1 DEF Held
  <2>2. /\ Arriving(n, E)[x] \in Nat /\ Using(n, E, stock)[x] \in Nat
        /\ Using(n, E, stock)[x] <= Arriving(n, E)[x] + stock[x]
    BY <2>1, UsingIs
  <2>3. Storing(n, E, stock)[x] = Arriving(n, E)[x] + stock[x] - Using(n, E, stock)[x]
    BY DEF Storing, Kept
  <2>4. QED
    BY <2>1, <2>2, <2>3
<1>3. Storing(n, E, stock) = [x \in DOMAIN stock |-> Storing(n, E, stock)[x]]
  BY DEF Storing
<1>4. QED
  BY <1>1, <1>2, <1>3

\* Over a day what arrives and what was in stock is used or kept.
LEMMA DayBalance ==
    ASSUME NEW n, Sound(n), NEW E, Lawful(E), NEW stock \in Stocks(n)
    PROVE  /\ Total(Arriving(n, E)) \in Nat /\ Total(Using(n, E, stock)) \in Nat
           /\ Total(Storing(n, E, stock)) \in Nat /\ Total(stock) \in Nat
           /\ Total(Arriving(n, E)) + Total(stock) =
                Total(Using(n, E, stock)) + Total(Storing(n, E, stock))
<1> DEFINE R == Refineries(n)
           S == DOMAIN stock
           A == Arriving(n, E)
           U == Using(n, E, stock)
           K == Storing(n, E, stock)
           given == [x \in S |-> A[x] + stock[x]]
<1>1. IsFiniteSet(R) /\ S \in SUBSET R /\ IsFiniteSet(S) /\ IsFiniteSet(R \ S)
  BY RefineriesAreFinite, StoringIs, FS_Subset
<1>2. \A x \in R : A[x] \in Nat /\ U[x] \in Nat /\ (x \notin S => U[x] = A[x])
  BY UsingIs
<1>3. \A x \in S : /\ stock[x] \in Nat /\ K[x] \in Nat
                   /\ K[x] = A[x] + stock[x] - U[x]
  BY StoringIs
<1>4. /\ Total(A) = Sigma(A, R) /\ Total(U) = Sigma(U, R)
      /\ Total(K) = Sigma(K, S) /\ Total(stock) = Sigma(stock, S)
  <2>1. A = [x \in R |-> A[x]] /\ U = [x \in R |-> U[x]] /\ K = [x \in S |-> K[x]]
    BY DEF Arriving, Using, Storing
  <2>2. stock = [x \in S |-> stock[x]]
    BY DEF Stocks
  <2> HIDE DEF A, U, K
  <2>3. QED
    BY <2>1, <2>2 DEF Sigma
<1>5. \A x \in S : given[x] = A[x] + stock[x]
  OBVIOUS
<1> HIDE DEF R, S, A, U, K, given
<1>6. \A x \in S : given[x] = U[x] + K[x]
  <2> TAKE x \in S
  <2>1. A[x] \in Nat /\ U[x] \in Nat
    BY <1>1, <1>2
  <2>2. QED
    BY <1>3, <1>5, <2>1
<1>7. /\ Summable(A, R) /\ Summable(U, R)
      /\ Summable(A, S) /\ Summable(U, S) /\ Summable(K, S) /\ Summable(stock, S)
  BY <1>1, <1>2, <1>3 DEF Summable
<1>8. /\ Sigma(given, S) = Sigma(A, S) + Sigma(stock, S)
      /\ Sigma(given, S) = Sigma(U, S) + Sigma(K, S)
  BY <1>5, <1>6, <1>7, SigmaPlus
<1>9. /\ Sigma(A, R) = Sigma(A, S) + Sigma(A, R \ S)
      /\ Sigma(U, R) = Sigma(U, S) + Sigma(U, R \ S)
  BY <1>1, <1>7, SigmaSplit
<1>10. Sigma(U, R \ S) = Sigma(A, R \ S)
  BY <1>2, SigmaSame
<1>11. /\ Sigma(A, R) \in Nat /\ Sigma(U, R) \in Nat
       /\ Sigma(K, S) \in Nat /\ Sigma(stock, S) \in Nat
  BY <1>1, <1>2, <1>3, SigmaNat
<1>12. Sigma(A, S) \in Nat /\ Sigma(U, S) \in Nat /\ Sigma(A, R \ S) \in Nat
  <2>1. \A x \in S : A[x] \in Nat /\ U[x] \in Nat
    BY <1>1, <1>2
  <2>2. QED
    BY <1>1, <1>2, <2>1, SigmaNat
<1>13. Sigma(A, R) + Sigma(stock, S) = Sigma(U, R) + Sigma(K, S)
  BY <1>8, <1>9, <1>10, <1>11, <1>12
<1>14. QED
  BY <1>4, <1>11, <1>13 DEF A, U, K

\* What a state of a day can be.
DayStates(n) ==
    [flow     : [Flows(n) -> Nat],
     capacity : [DOMAIN n.routes -> Int],
     arrived  : [Refineries(n) -> Nat],
     used     : [Refineries(n) -> Nat],
     short    : [Refineries(n) -> Nat],
     stock    : Stocks(n),
     residual : {0}]

LEMMA DayTyped ==
    ASSUME NEW n, Sound(n), NEW E, Lawful(E), NEW stock \in Stocks(n)
    PROVE  /\ DayOf(n, E, stock) \in DayStates(n)
           /\ DOMAIN DayOf(n, E, stock).stock = DOMAIN stock
<1> DEFINE short == [x \in Refineries(n) |-> Demand(n, x) - Using(n, E, stock)[x]]
           capacity == [r \in DOMAIN n.routes |-> RouteCapacity(n, r, E)]
           residual == Total(Arriving(n, E)) - Total(Using(n, E, stock))
                             - (Total(Storing(n, E, stock)) - Total(stock))
<1>1. Flowing(n, E) \in [Flows(n) -> Nat]
  BY FlowingIs DEF Flowing
<1>2. capacity \in [DOMAIN n.routes -> Int]
  <2> SUFFICES ASSUME NEW r \in DOMAIN n.routes PROVE RouteCapacity(n, r, E) \in Int
    OBVIOUS
  <2> DEFINE left == Left({e \in E : ReachesRoute(n, e, r)})
  <2>1. left \in 0 .. 100
    BY LeftIs DEF Lawful
  <2> HIDE DEF left
  <2>2. n.routes[r].capacity * left \in Int
    BY <2>1 DEF Sound, HasFigures
  <2>3. QED
    BY <2>2 DEF RouteCapacity, left
<1>3. Arriving(n, E) \in [Refineries(n) -> Nat] /\ Using(n, E, stock) \in [Refineries(n) -> Nat]
  <2>1. \A x \in Refineries(n) : Arriving(n, E)[x] \in Nat /\ Using(n, E, stock)[x] \in Nat
    BY UsingIs
  <2>2. /\ Arriving(n, E) = [x \in Refineries(n) |-> Arriving(n, E)[x]]
        /\ Using(n, E, stock) = [x \in Refineries(n) |-> Using(n, E, stock)[x]]
    BY DEF Arriving, Using
  <2>3. QED
    BY <2>1, <2>2
<1>4. short \in [Refineries(n) -> Nat]
  <2> SUFFICES ASSUME NEW x \in Refineries(n)
               PROVE  Demand(n, x) - Using(n, E, stock)[x] \in Nat
    OBVIOUS
  <2>1. Demand(n, x) \in Nat
    BY ArrivedIs
  <2>2. Using(n, E, stock)[x] \in Nat /\ Using(n, E, stock)[x] <= Demand(n, x)
    BY UsingIs
  <2>3. QED
    BY <2>1, <2>2
<1>5. /\ DOMAIN Storing(n, E, stock) = DOMAIN stock
      /\ Storing(n, E, stock) \in Stocks(n)
  BY StoringIs DEF Stocks
<1>6. residual = 0
  BY DayBalance
<1> HIDE DEF short, capacity, residual
<1>7. DayOf(n, E, stock) = [flow |-> Flowing(n, E), capacity |-> capacity,
                            arrived |-> Arriving(n, E), used |-> Using(n, E, stock),
                            short |-> short, stock |-> Storing(n, E, stock),
                            residual |-> residual]
  BY DayIs DEF short, capacity, residual
<1>8. QED
  BY <1>1, <1>2, <1>3, <1>4, <1>5, <1>6, <1>7 DEF DayStates

----------------------------------------------------------------------------
(* What every day has.                                                     *)

\* No route carries more than the effects leave of it.
LEMMA DayRoutesHold ==
    ASSUME NEW n, Sound(n), NEW E, Lawful(E), NEW stock
    PROVE  RoutesHold(n, DayOf(n, E, stock))
<1> SUFFICES ASSUME NEW r \in DOMAIN n.routes
             PROVE  Carried(Flowing(n, E), OnRoute(n, r)) <= RouteCapacity(n, r, E)
  BY DayIs DEF RoutesHold
<1> DEFINE left == Left({e \in E : ReachesRoute(n, e, r)})
<1>1. OnRoute(n, r) \in SUBSET Flows(n) /\ \A f \in OnRoute(n, r) : f[2] = r
  BY DEF OnRoute
<1>2. left \in 0 .. 100 /\ \A f \in OnRoute(n, r) : PathLeft(n, f[1], E) <= left
  <2>1. left \in 0 .. 100
    BY LeftIs DEF Lawful
  <2>2. ASSUME NEW f \in OnRoute(n, r) PROVE PathLeft(n, f[1], E) <= left
    BY <1>1, RouteLeftIs
  <2>3. QED
    BY <2>1, <2>2
<1>3. RouteCapacity(n, r, E) = n.routes[r].capacity * left
  BY DEF RouteCapacity
<1> HIDE DEF left
<1>4. left \in Nat
  BY <1>2
<1>5. /\ Carried(Flowing(n, E), OnRoute(n, r)) \in Nat /\ Volume(OnRoute(n, r)) \in Nat
      /\ Carried(Flowing(n, E), OnRoute(n, r)) <= left * Volume(OnRoute(n, r))
  BY <1>1, <1>2, <1>4, CarriedAtMost
<1>6. n.routes[r].capacity \in Nat /\ Volume(OnRoute(n, r)) <= n.routes[r].capacity
  BY DEF Sound, HasFigures, Accepts, Allocatable
<1>7. /\ left * Volume(OnRoute(n, r)) \in Nat /\ left * n.routes[r].capacity \in Nat
      /\ left * Volume(OnRoute(n, r)) <= left * n.routes[r].capacity
  BY <1>4, <1>5, <1>6, ProductsGrow
<1>8. n.routes[r].capacity * left = left * n.routes[r].capacity
  BY <1>4, <1>6
<1>9. QED
  BY <1>3, <1>5, <1>7, <1>8

\* No supplier gives more than its supply.
LEMMA DaySuppliersHold ==
    ASSUME NEW n, Sound(n), NEW E, Lawful(E), NEW stock
    PROVE  SuppliersHold(n, DayOf(n, E, stock))
<1> SUFFICES ASSUME NEW x \in DOMAIN n.nodes, n.nodes[x].supply # Absent
             PROVE  Carried(Flowing(n, E), {f \in OutOf(n, x) : f[1].supplier = x})
                        <= 100 * n.nodes[x].supply
  BY DayIs DEF SuppliersHold
<1> DEFINE own == {f \in OutOf(n, x) : f[1].supplier = x}
<1>1. own \in SUBSET OutOf(n, x) /\ OutOf(n, x) \in SUBSET Flows(n)
  BY DEF OutOf
<1> HIDE DEF own
<1>2. \A f \in OutOf(n, x) : PathLeft(n, f[1], E) <= 100
  BY PathLeftIs
<1>3. /\ Carried(Flowing(n, E), own) \in Nat /\ Volume(own) \in Nat
      /\ Carried(Flowing(n, E), own) <= 100 * Volume(own)
      /\ Volume(OutOf(n, x)) \in Nat
  <2>1. own \in SUBSET Flows(n) /\ \A f \in own : PathLeft(n, f[1], E) <= 100
    BY <1>1, <1>2
  <2>2. QED
    BY <1>1, <1>2, <2>1, CarriedAtMost
<1>4. Volume(own) <= Volume(OutOf(n, x))
  <2>1. IsFiniteSet(OutOf(n, x)) /\ \A f \in OutOf(n, x) : Volumed(n)[f] \in Nat
    BY <1>1, FlowsAreFinite DEF Volumed
  <2>2. Sigma(Volumed(n), own) <= Sigma(Volumed(n), OutOf(n, x))
    BY <1>1, <2>1, SigmaPart
  <2>3. own \in SUBSET Flows(n)
    BY <1>1
  <2>4. QED
    BY <1>1, <2>2, <2>3, VolumeIs
<1>5. Volume(OutOf(n, x)) = n.nodes[x].supply /\ n.nodes[x].supply \in Nat
  <2>1. n.nodes[x].kind = "SUPPLIER" /\ n.nodes[x].supply \in Nat
    BY DEF Sound, HasFigures
  <2>2. Residual(n, x) = n.nodes[x].supply - Volume(OutOf(n, x))
    BY <2>1 DEF Residual, Passages, OfKind
  <2>3. Residual(n, x) = 0
    BY DEF Sound, Accepts, Conserved
  <2>4. QED
    BY <1>3, <2>1, <2>2, <2>3
<1>6. QED
  BY <1>3, <1>4, <1>5 DEF own

\* No refinery runs beyond its capacity.
LEMMA DayRefineriesHold ==
    ASSUME NEW n, Sound(n), NEW E, Lawful(E), NEW stock \in Stocks(n)
    PROVE  RefineriesHold(n, DayOf(n, E, stock))
<1> SUFFICES ASSUME NEW x \in Refineries(n)
             PROVE  Using(n, E, stock)[x] <= RefineryCapacity(n, x, {})
  BY DayIs DEF RefineriesHold
<1>1. PICK full \in Nat : \A F : RefineryCapacity(n, x, F) = full * Left(Throttling(F, x))
  BY RefineryIs
<1> DEFINE left == Left(Throttling(E, x))
<1>2. left \in 0 .. 100
  BY ThrottleLeftIs
<1>3. Throttling({}, x) = {}
  BY DEF Throttling
<1>4. RefineryCapacity(n, x, {}) = full * 100
  BY <1>1, <1>3, LeftOfNone
<1>5. RefineryCapacity(n, x, E) = full * left
  BY <1>1
<1> HIDE DEF left
<1>6. full * left \in Nat /\ full * left <= full * 100
  BY <1>2, ProductsGrow
<1>7. /\ Using(n, E, stock)[x] \in Nat
      /\ Using(n, E, stock)[x] <= RefineryCapacity(n, x, E)
  BY UsingIs
<1>8. QED
  BY <1>4, <1>5, <1>6, <1>7

\* No refinery gets a grade it cannot run.
LEMMA DayGradesFit ==
    ASSUME NEW n, Sound(n), NEW day
    PROVE  GradesFit(n, day)
BY DEF Sound, Accepts, Allocatable, GradesFit

LEMMA BaselineOfSound ==
    ASSUME NEW n, Sound(n)
    PROVE  BaselineStands(n)
<1>1. {x \in DOMAIN n.nodes : n.nodes[x].demand # Absent} = Refineries(n)
  BY DEF Sound, HasFigures, Refineries, OfKind
<1>2. Figures(n, "demand") = Total([x \in Refineries(n) |-> n.nodes[x].demand])
  <2>1. Figures(n, "demand") =
          Total([x \in {x \in DOMAIN n.nodes : n.nodes[x].demand # Absent} |->
                    n.nodes[x].demand])
    BY DEF Figures
  <2>2. QED
    BY <1>1, <2>1
<1>3. QED
  BY <1>2 DEF BaselineStands, Sound, Accepts, Conserved

\* A flow runs dry on a day of which a closure of its route is part; on a day
\* without effects it runs in full.
LEMMA ClosedFlowsAreEmpty ==
    ASSUME NEW n, Sound(n), NEW E, Lawful(E), NEW e \in E, NEW f \in Flows(n),
           e.aim = "ROUTE", e.reduction = 100, f[2] = e.asset
    PROVE  Flowing(n, E)[f] = 0
<1> DEFINE P == {d \in E : ReachesPath(n, d, f[1].supplier, WayOf(n, f[1]))}
<1>1. e \in P
  <2>1. ReachesRoute(n, e, f[2])
    BY DEF ReachesRoute
  <2>2. QED
    BY <2>1, RouteReachesWay
<1>2. \A d \in P : d.reduction \in 0 .. 100
  BY DEF Lawful
<1>3. PathLeft(n, f[1], E) = Left(P)
  BY DEF PathLeft
<1> HIDE DEF P
<1>4. Left(P) \in 0 .. 100 /\ Left(P) <= 100 - e.reduction
  BY <1>1, <1>2, LeftIs
<1>5. Left(P) = 0
  BY <1>4
<1>6. f[1].volume \in Nat
  BY FlowsAreFinite
<1>7. QED
  BY <1>3, <1>5, <1>6 DEF Flowing

LEMMA FreeFlowsAreFull ==
    ASSUME NEW n, Sound(n), NEW f \in Flows(n)
    PROVE  Flowing(n, {})[f] = f[1].volume * 100
<1>1. {d \in {} : ReachesPath(n, d, f[1].supplier, WayOf(n, f[1]))} = {}
  OBVIOUS
<1>2. PathLeft(n, f[1], {}) = 100
  BY <1>1, LeftOfNone DEF PathLeft
<1>3. QED
  BY <1>2 DEF Flowing

\* Ports and straits pass on what they get.
LEMMA DayPortsPass ==
    ASSUME NEW n, Sound(n), NEW E, Lawful(E), NEW x \in Passages(n)
    PROVE  Carried(Flowing(n, E), Into(n, x)) = Carried(Flowing(n, E), OutOf(n, x))
<1> DEFINE F == Flowing(n, E)
           on(f) == CHOOSE r \in f[1].path : n.routes[r].from = x
           m == [f \in Into(n, x) |-> <<f[1], on(f)>>]
<1>1. \A f : f \in Into(n, x) <=>
            /\ f \in n.allocations \X DOMAIN n.routes /\ f[2] \in f[1].path
            /\ n.routes[f[2]].to = x
  BY DEF Into, Flows
<1>2. \A f : f \in OutOf(n, x) <=>
            /\ f \in n.allocations \X DOMAIN n.routes /\ f[2] \in f[1].path
            /\ n.routes[f[2]].from = x
  BY DEF OutOf, Flows
<1>3. \A a \in n.allocations :
         /\ a.path \subseteq DOMAIN n.routes
         /\ (\E r \in a.path : n.routes[r].to = x) <=> (\E r \in a.path : n.routes[r].from = x)
         /\ \A r, s \in a.path : n.routes[r].to = x /\ n.routes[s].to = x => r = s
         /\ \A r, s \in a.path : n.routes[r].from = x /\ n.routes[s].from = x => r = s
  BY DEF Sound, PathsPass, Accepts, References
<1>4. \A f \in Into(n, x) : on(f) \in f[1].path /\ n.routes[on(f)].from = x
  <2> TAKE f \in Into(n, x)
  <2>1. \E r \in f[1].path : n.routes[r].from = x
    BY <1>1, <1>3
  <2>2. QED
    BY <2>1
<1> HIDE DEF on
<1>5. m \in [Into(n, x) -> OutOf(n, x)]
  BY <1>1, <1>2, <1>3, <1>4
<1>6. ASSUME NEW f \in Into(n, x), NEW g \in Into(n, x), m[f] = m[g] PROVE f = g
  <2>1. f[1] = g[1]
    BY <1>6
  <2>2. f[2] = g[2]
    BY <1>1, <1>3, <2>1
  <2>3. f = <<f[1], f[2]>> /\ g = <<g[1], g[2]>>
    BY <1>1
  <2>4. QED
    BY <2>1, <2>2, <2>3
<1>7. ASSUME NEW g \in OutOf(n, x) PROVE \E f \in Into(n, x) : m[f] = g
  <2>1. /\ g[1] \in n.allocations /\ g[2] \in g[1].path /\ n.routes[g[2]].from = x
        /\ g = <<g[1], g[2]>>
    BY <1>2
  <2>2. PICK r \in g[1].path : n.routes[r].to = x
    BY <1>3, <2>1
  <2> DEFINE f == <<g[1], r>>
  <2>3. f \in Into(n, x) /\ f[1] = g[1]
    BY <1>1, <1>3, <2>1, <2>2
  <2>4. on(f) = g[2]
    BY <1>3, <1>4, <2>1, <2>3
  <2>5. m[f] = g
    BY <2>1, <2>3, <2>4
  <2>6. QED
    BY <2>3, <2>5
<1>8. \A f \in Into(n, x) : F[m[f]] = F[f]
  <2> TAKE f \in Into(n, x)
  <2>1. f \in Flows(n) /\ m[f] \in Flows(n) /\ m[f][1] = f[1]
    BY <1>5 DEF Into, OutOf
  <2> HIDE DEF m
  <2>2. QED
    BY <2>1 DEF Flowing
<1>9. Summable(F, Into(n, x)) /\ Summable(F, OutOf(n, x))
  <2>1. Into(n, x) \in SUBSET Flows(n) /\ OutOf(n, x) \in SUBSET Flows(n)
    BY DEF Into, OutOf
  <2>2. QED
    BY <2>1, FlowsAreFinite, FlowingIs DEF Summable
<1> HIDE DEF F, m
<1>10. Sigma(F, Into(n, x)) = Sigma(F, OutOf(n, x))
  BY <1>5, <1>6, <1>7, <1>8, <1>9, SigmaAlong
<1>11. QED
  BY <1>10 DEF Carried, Sigma, F

\* The effects that reach a refinery or a way its crude takes.
Touching(n, effects, x) ==
    {e \in effects :
        \/ e.asset = x
        \/ \E a \in n.allocations :
              x \in Ends(n, a.path) /\ ReachesPath(n, e, a.supplier, WayOf(n, a))}

\* A refinery none of them touches is not short.
LEMMA UntouchedIsNotShort ==
    ASSUME NEW n, Sound(n), NEW E, Lawful(E), NEW stock \in Stocks(n),
           NEW x \in Refineries(n), Touching(n, E, x) = {}
    PROVE  DayOf(n, E, stock).short[x] = 0
<1> DEFINE used == Using(n, E, stock)[x]
           demand == n.nodes[x].demand
<1>1. Throttling(E, x) = {}
  BY DEF Throttling, Touching
<1>2. PICK full \in Nat : demand <= full /\ RefineryCapacity(n, x, E) = full * Left(Throttling(E, x))
  BY RefineryIs
<1>3. RefineryCapacity(n, x, E) = full * 100
  BY <1>1, <1>2, LeftOfNone
<1>4. \A f \in Into(n, x) : PathLeft(n, f[1], E) = 100
  <2> TAKE f \in Into(n, x)
  <2>1. f[1] \in n.allocations /\ f[2] \in f[1].path /\ n.routes[f[2]].to = x
    BY DEF Into, Flows
  <2>2. x \in Ends(n, f[1].path)
    BY <2>1 DEF Ends
  <2>3. {e \in E : ReachesPath(n, e, f[1].supplier, WayOf(n, f[1]))} = {}
    BY <2>1, <2>2 DEF Touching
  <2>4. QED
    BY <2>3, LeftOfNone DEF PathLeft
<1>5. demand \in Nat /\ Volume(Into(n, x)) = demand /\ Into(n, x) \in SUBSET Flows(n)
  BY RefineryIs
<1>6. Arriving(n, E)[x] = 100 * demand
  <2>1. Carried(Flowing(n, E), Into(n, x)) = 100 * Volume(Into(n, x))
    BY <1>4, <1>5, CarriedInFull
  <2>2. QED
    BY <1>5, <2>1 DEF Arriving
<1>7. Demand(n, x) = 100 * demand
  BY DEF Demand
<1>8. /\ used \in Nat /\ Held(stock, x) \in Nat /\ used <= Demand(n, x)
      /\ \/ used = Demand(n, x)
         \/ used = RefineryCapacity(n, x, E)
         \/ used = Arriving(n, E)[x] + Held(stock, x)
  BY UsingIs
<1>9. DayOf(n, E, stock).short[x] = Demand(n, x) - used
  BY DayIs
<1> HIDE DEF used, demand
<1>10. used = Demand(n, x)
  BY <1>2, <1>3, <1>5, <1>6, <1>7, <1>8
<1>11. QED
  BY <1>5, <1>7, <1>9, <1>10

\* Without stock a day of more and stronger effects is no less short, and keeps
\* nothing.
LEMMA NoStock ==
    ASSUME NEW n
    PROVE  /\ Nothing \in Stocks(n)
           /\ \A stock \in Stocks(n) : DOMAIN stock = {} => stock = Nothing
<1>1. Nothing \in [{} -> Nat]
  BY DEF Nothing
<1>2. \A S, f : f \in [S -> Nat] /\ S = {} => f = Nothing
  BY DEF Nothing
<1>3. QED
  BY <1>1, <1>2 DEF Stocks

LEMMA DayWithoutStock ==
    ASSUME NEW n, Sound(n), NEW E, Lawful(E), NEW D, Lawful(D), Covers(D, E)
    PROVE  /\ DayOf(n, E, Nothing).stock = Nothing
           /\ Total(DayOf(n, E, Nothing).short) \in Nat
           /\ Total(DayOf(n, E, Nothing).short) <= Total(DayOf(n, D, Nothing).short)
<1> DEFINE e == DayOf(n, E, Nothing).short
           d == DayOf(n, D, Nothing).short
<1>1. DayOf(n, E, Nothing).stock = Nothing
  <2>1. DOMAIN Nothing = {}
    BY DEF Nothing
  <2>2. DayOf(n, E, Nothing).stock \in Stocks(n) /\ DOMAIN DayOf(n, E, Nothing).stock = {}
    BY <2>1, NoStock, DayTyped DEF DayStates
  <2>3. QED
    BY <2>2, NoStock
<1>2. e \in [Refineries(n) -> Nat] /\ d \in [Refineries(n) -> Nat]
  BY NoStock, DayTyped DEF DayStates
<1>3. \A x \in Refineries(n) : e[x] <= d[x]
  <2> TAKE x \in Refineries(n)
  <2>1. x \notin DOMAIN Nothing
    BY DEF Nothing
  <2>2. /\ Using(n, E, Nothing)[x] = Arriving(n, E)[x]
        /\ Using(n, D, Nothing)[x] = Arriving(n, D)[x]
        /\ Arriving(n, E)[x] \in Nat /\ Arriving(n, D)[x] \in Nat
    BY <2>1, NoStock, UsingIs
  <2>3. Arriving(n, D)[x] <= Arriving(n, E)[x]
    <3>1. Into(n, x) \in SUBSET Flows(n)
      BY DEF Into
    <3>2. QED
      BY <3>1, CarriedCovered DEF Arriving
  <2>4. /\ e[x] = Demand(n, x) - Arriving(n, E)[x]
        /\ d[x] = Demand(n, x) - Arriving(n, D)[x]
    BY <2>2, DayIs
  <2>5. Demand(n, x) \in Nat
    BY ArrivedIs
  <2>6. QED
    BY <2>2, <2>3, <2>4, <2>5
<1> HIDE DEF e, d
<1>4. Total(e) = Sigma(e, Refineries(n)) /\ Total(d) = Sigma(d, Refineries(n))
  BY <1>2, TotalIsSigma
<1>5. Summable(e, Refineries(n)) /\ Summable(d, Refineries(n))
  BY <1>2, RefineriesAreFinite DEF Summable
<1>6. Total(e) <= Total(d)
  BY <1>3, <1>4, <1>5, SigmaMonotone
<1>7. Total(e) \in Nat
  BY <1>2, <1>4, RefineriesAreFinite, SigmaNat
<1>8. QED
  BY <1>1, <1>6, <1>7 DEF e, d

----------------------------------------------------------------------------
(* The effects of a confirmed scenario.                                    *)

Confirmable(n, c) == \E now \in {0} \cup {a.expires : a \in c.notes} : Valid(n, c, now)

LEMMA ScenarioIs ==
    ASSUME NEW n, NEW in \in Inputs, NEW c, c = Candidate(n, in)
    PROVE  /\ c.duration \in Nat /\ c.horizon \in Nat /\ Steps(c) \in Nat
           /\ Opening(n, c) \in Stocks(n)
<1>1. c.duration = in.duration /\ c.horizon = Horizon(in)
  BY DEF Candidate
<1>2. in.duration \in Nat /\ in.horizon \in Nat \cup {Absent} /\ DefaultHorizon \in Nat
  BY InputsAssumption, HorizonAssumption
<1>3. Horizon(in) \in Nat
  <2>1. CASE in.horizon = Absent
    <3>1. Max({DefaultHorizon, in.duration}) \in Nat
      BY <1>2, MaxOfTwo
    <3>2. QED
      BY <2>1, <3>1 DEF Horizon
  <2>2. CASE in.horizon # Absent
    BY <1>2, <2>2 DEF Horizon
  <2>3. QED
    BY <2>1, <2>2
<1>4. Steps(c) \in Nat
  BY <1>1, <1>3 DEF Steps
<1>5. \A a \in c.notes : a.stock \in Nat
  BY InputsAssumption DEF Candidate
<1>6. Opening(n, c) \in Stocks(n)
  <2> DEFINE about == {a \in c.notes : a.refinery \in Refineries(n)}
             S == {a.refinery : a \in about}
  <2>1. S \in SUBSET Refineries(n)
    OBVIOUS
  <2>2. ASSUME NEW x \in S PROVE 100 * (CHOOSE a \in about : a.refinery = x).stock \in Nat
    <3>1. \E a \in about : a.refinery = x
      OBVIOUS
    <3>2. (CHOOSE a \in about : a.refinery = x) \in c.notes
      BY <3>1
    <3>3. (CHOOSE a \in about : a.refinery = x).stock \in Nat
      BY <1>5, <3>2
    <3>4. QED
      BY <3>3
  <2>3. Opening(n, c) = [x \in S |-> 100 * (CHOOSE a \in about : a.refinery = x).stock]
    BY DEF Opening
  <2> HIDE DEF about, S
  <2>4. Opening(n, c) \in [S -> Nat]
    BY <2>2, <2>3
  <2>5. QED
    BY <2>1, <2>4 DEF Stocks
<1>7. QED
  BY <1>1, <1>2, <1>3, <1>4, <1>6

LEMMA EffectsAre ==
    ASSUME NEW n, NEW in \in Inputs, NEW c, c = Candidate(n, in), Confirmable(n, c)
    PROVE  /\ \A e \in Effects(c) :
                 /\ e = [type |-> e.type, aim |-> e.aim, asset |-> e.asset,
                         reduction |-> e.reduction]
                 /\ e.reduction \in 1 .. 100
           /\ Lawful(Effects(c))
<1>1. PICK now : Valid(n, c, now)
  BY DEF Confirmable
<1>2. ASSUME NEW e \in Effects(c)
      PROVE  /\ e = [type |-> e.type, aim |-> e.aim, asset |-> e.asset,
                     reduction |-> e.reduction]
             /\ e.reduction \in 1 .. 100
             /\ e.type = "REFINERY_THROUGHPUT_DISRUPTION" => e.aim = "REFINERY"
  <2>1. PICK i \in DOMAIN c.effects : e = c.effects[i]
    BY DEF Effects
  <2>2. i \in DOMAIN in.effects /\ e = Resolved(n, in.effects[i])
    BY <2>1 DEF Candidate
  <2> DEFINE d == in.effects[i]
  <2>3. /\ d = [type |-> d.type, aim |-> d.aim, asset |-> d.asset, reduction |-> d.reduction]
        /\ d.reduction \in Nat
    BY <2>2, InputsAssumption
  <2> HIDE DEF d
  <2>4. e = [d EXCEPT !.asset = IF d.asset \in Assets(n, d.aim) THEN d.asset ELSE Absent]
    BY <2>2 DEF Resolved, d
  <2>5. \A asset : [d EXCEPT !.asset = asset] =
                     [type |-> d.type, aim |-> d.aim, asset |-> asset, reduction |-> d.reduction]
    BY <2>3
  <2>6. PICK asset : e = [type |-> d.type, aim |-> d.aim, asset |-> asset,
                          reduction |-> d.reduction]
    BY <2>4, <2>5
  <2>7. EffectIsValid(n, e)
    BY <1>1, <2>1 DEF Valid
  <2>8. e.reduction = d.reduction /\ e.reduction > 0 /\ e.reduction <= 100
    BY <2>6, <2>7 DEF EffectIsValid
  <2>9. e.type = "REFINERY_THROUGHPUT_DISRUPTION" => e.aim = "REFINERY"
    BY <2>7 DEF EffectIsValid, Expected
  <2>10. QED
    BY <2>3, <2>6, <2>8, <2>9
<1>3. \A r \in 1 .. 100 : r \in 0 .. 100
  OBVIOUS
<1>4. QED
  BY <1>2, <1>3 DEF Lawful

LEMMA ClampedIs ==
    \A v \in Int : /\ Clamped(v) \in 0 .. 100
                   /\ \A r \in 0 .. 100 : (r <= v => r <= Clamped(v))
                                         /\ (v <= r => Clamped(v) <= r)
<1> TAKE v \in Int
<1>1. Min({100, v}) = IF 100 <= v THEN 100 ELSE v
  BY MinOfTwo
<1>2. Min({100, v}) \in Int
  BY <1>1
<1>3. Max({0, Min({100, v})}) = IF 0 >= Min({100, v}) THEN 0 ELSE Min({100, v})
  BY <1>2, MaxOfTwo
<1>4. QED
  BY <1>1, <1>2, <1>3 DEF Clamped

\* Effects made more are covered by none but themselves made more yet.
LEMMA ShiftedAre ==
    ASSUME NEW c, Lawful(Effects(c)), NEW by \in Int,
           \A e \in Effects(c) :
              e = [type |-> e.type, aim |-> e.aim, asset |-> e.asset, reduction |-> e.reduction]
    PROVE  /\ Lawful(Shifted(c, by))
           /\ by >= 0 => Covers(Shifted(c, by), Effects(c))
           /\ by <= 0 => Covers(Effects(c), Shifted(c, by))
<1> DEFINE more(e) == [e EXCEPT !.reduction = Clamped(e.reduction + by)]
<1>1. Shifted(c, by) = {more(e) : e \in Effects(c)}
  BY DEF Shifted
<1>2. ASSUME NEW e \in Effects(c)
      PROVE  /\ more(e).type = e.type /\ more(e).aim = e.aim /\ more(e).asset = e.asset
             /\ more(e).reduction = Clamped(e.reduction + by)
             /\ e.reduction \in 0 .. 100 /\ more(e).reduction \in 0 .. 100
             /\ by >= 0 => e.reduction <= more(e).reduction
             /\ by <= 0 => more(e).reduction <= e.reduction
  <2>1. e.reduction \in 0 .. 100
    BY DEF Lawful
  <2>2. \A v : [e EXCEPT !.reduction = v] =
                 [type |-> e.type, aim |-> e.aim, asset |-> e.asset, reduction |-> v]
    <3>1. e = [type |-> e.type, aim |-> e.aim, asset |-> e.asset, reduction |-> e.reduction]
      OBVIOUS
    <3>2. QED
      BY <3>1
  <2>3. more(e) = [type |-> e.type, aim |-> e.aim, asset |-> e.asset,
                   reduction |-> Clamped(e.reduction + by)]
    BY <2>2
  <2> HIDE DEF more
  <2>4. e.reduction + by \in Int
    BY <2>1
  <2>5. /\ Clamped(e.reduction + by) \in 0 .. 100
        /\ e.reduction <= e.reduction + by => e.reduction <= Clamped(e.reduction + by)
        /\ e.reduction + by <= e.reduction => Clamped(e.reduction + by) <= e.reduction
    BY <2>1, <2>4, ClampedIs
  <2>6. (by >= 0 => e.reduction <= e.reduction + by) /\ (by <= 0 => e.reduction + by <= e.reduction)
    BY <2>1
  <2>7. QED
    BY <2>1, <2>3, <2>5, <2>6
<1> HIDE DEF more
<1>3. Lawful(Shifted(c, by))
  BY <1>1, <1>2 DEF Lawful
<1>4. by >= 0 => Covers(Shifted(c, by), Effects(c))
  BY <1>1, <1>2 DEF Covers
<1>5. by <= 0 => Covers(Effects(c), Shifted(c, by))
  BY <1>1, <1>2 DEF Covers
<1>6. QED
  BY <1>3, <1>4, <1>5

LEMMA ActiveAre ==
    ASSUME NEW c, NEW step
    PROVE  /\ \A E : Lawful(E) => Lawful(Active(c, E, step))
           /\ \A D, E : Covers(D, E) => Covers(Active(c, D, step), Active(c, E, step))
BY DEF Active, Lawful, Covers

----------------------------------------------------------------------------
(* Sums over the days of a run.                                            *)

LEMMA OverNone == \A field : Over(<<>>, field) = 0
<1> TAKE field
<1>1. [i \in DOMAIN <<>> |-> Total(<<>>[i][field])] = [i \in {} |-> 0]
  OBVIOUS
<1>2. Sigma([i \in {} |-> 0], {}) = 0
  BY SigmaEmpty
<1>3. Total([i \in {} |-> 0]) = Sigma([i \in {} |-> 0], {})
  <2> DEFINE z == [i \in {} |-> 0]
  <2>1. z = [i \in DOMAIN z |-> z[i]] /\ DOMAIN z = {}
    OBVIOUS
  <2> HIDE DEF z
  <2>2. Total(z) = Sigma(z, {})
    BY <2>1, TotalIsSigma
  <2>3. QED
    BY <2>2 DEF z
<1>4. QED
  BY <1>1, <1>2, <1>3 DEF Over

\* One day more.
LEMMA OverAppend ==
    ASSUME NEW S, NEW past \in Seq(S), NEW day, NEW field,
           \A i \in 1 .. Len(past) : Total(past[i][field]) \in Nat,
           Total(day[field]) \in Nat
    PROVE  /\ Over(past, field) \in Nat
           /\ Over(Append(past, day), field) = Over(past, field) + Total(day[field])
<1> DEFINE m == Len(past)
           more == Append(past, day)
           sums == [i \in 1 .. m + 1 |-> Total(more[i][field])]
<1>1. m \in Nat /\ DOMAIN past = 1 .. m /\ DOMAIN more = 1 .. m + 1
  <2>1. Len(past) \in Nat /\ DOMAIN past = 1 .. Len(past)
    OBVIOUS
  <2>2. DOMAIN Append(past, day) = 1 .. Len(past) + 1
    BY <2>1
  <2>3. QED
    BY <2>1, <2>2
<1>2. more[m + 1] = day /\ \A i \in 1 .. m : more[i] = past[i]
  BY <1>1
<1>3. /\ 1 .. m \in SUBSET (1 .. m + 1) /\ m + 1 \in (1 .. m + 1) \ (1 .. m)
      /\ (1 .. m) \cup {m + 1} = 1 .. m + 1
      /\ IsFiniteSet(1 .. m + 1) /\ IsFiniteSet(1 .. m)
  <2> HIDE DEF m
  <2>1. /\ 1 .. m \in SUBSET (1 .. m + 1) /\ m + 1 \in (1 .. m + 1) \ (1 .. m)
        /\ (1 .. m) \cup {m + 1} = 1 .. m + 1
    BY <1>1
  <2>2. 1 \in Int /\ m \in Int /\ m + 1 \in Int
    BY <1>1
  <2>3. QED
    BY <2>1, <2>2, FS_Interval
<1>4. Over(more, field) = Sigma(sums, 1 .. m + 1)
  <2>1. Over(more, field) = Total(sums)
    BY <1>1 DEF Over
  <2>2. sums = [i \in DOMAIN sums |-> sums[i]] /\ DOMAIN sums = 1 .. m + 1
    OBVIOUS
  <2> HIDE DEF sums
  <2>3. QED
    BY <2>1, <2>2, TotalIsSigma
<1>5. Over(past, field) = Sigma(sums, 1 .. m)
  <2>1. [i \in DOMAIN past |-> Total(past[i][field])] = [i \in 1 .. m |-> sums[i]]
    BY <1>1, <1>2
  <2>2. QED
    BY <2>1 DEF Over, Sigma
<1>6. /\ sums[m + 1] = Total(day[field])
      /\ \A i \in 1 .. m : sums[i] = Total(past[i][field])
  BY <1>1, <1>2
<1> HIDE DEF sums, more, m
<1>7. \A i \in 1 .. m : sums[i] \in Nat
  BY <1>6 DEF m
<1>8. Summable(sums, 1 .. m + 1)
  <2>1. \A i \in 1 .. m + 1 : sums[i] \in Nat
    BY <1>1, <1>6, <1>7
  <2>2. QED
    BY <1>3, <2>1 DEF Summable
<1>9. Sigma(sums, (1 .. m) \cup {m + 1}) = sums[m + 1] + Sigma(sums, 1 .. m)
  <2> DEFINE T == 1 .. m
             R == 1 .. m + 1
             x == m + 1
  <2>1. T \in SUBSET R /\ x \in R \ T /\ Summable(sums, R)
    BY <1>3, <1>8
  <2> HIDE DEF T, R, x
  <2>2. Sigma(sums, T \cup {x}) = sums[x] + Sigma(sums, T)
    BY <2>1, SigmaStep
  <2>3. QED
    BY <2>2 DEF T, x
<1>10. Sigma(sums, 1 .. m) \in Nat
  BY <1>3, <1>7, SigmaNat
<1>11. Sigma(sums, 1 .. m + 1) = sums[m + 1] + Sigma(sums, 1 .. m)
  BY <1>3, <1>9
<1>12. QED
  BY <1>4, <1>5, <1>6, <1>10, <1>11 DEF more

----------------------------------------------------------------------------
(* The inductive invariant of the run.                                     *)

Phases == {"OFFERED", "STARTED", "REJECTED", "DRAFT", "REFUSED",
           "RUNNING", "COMPLETED", "FAILED"}
Ran == {"RUNNING", "COMPLETED", "FAILED"}

Typed ==
    /\ twin \in Catalogues
    /\ input \in Inputs
    /\ phase \in Phases
    /\ days \in Seq(DayStates(twin))
    /\ edges \in [DOMAIN By -> [stock : {Nothing}, short : Nat]]

\* How a run came to be.
Begun ==
    /\ phase \notin {"OFFERED", "REJECTED"} => Accepts(twin)
    /\ phase = "DRAFT" => scenario = Candidate(twin, input)
    /\ phase \in Ran => scenario = Candidate(twin, input) /\ Confirmable(twin, scenario)
    /\ phase \notin Ran => days = <<>> /\ edges = NoEdges /\ result = Absent

\* Every day is the step from the stock of the day before.
Stepped ==
    \A i \in 1 .. Len(days) :
        days[i] = DayOf(twin, Active(scenario, Effects(scenario), i - 1),
                        IF i = 1 THEN Opening(twin, scenario) ELSE days[i - 1].stock)

\* How a run ends.
Ended ==
    /\ phase \in {"COMPLETED", "FAILED"} =>
          /\ Len(days) = Steps(scenario)
          /\ phase = "COMPLETED" <=> ReportIsClean(twin, scenario, days)
    /\ result # Absent =>
          phase = "COMPLETED" /\ result = Result(twin, scenario, days, edges)

\* The refineries used or keep what they were given.
Balanced ==
    days # <<>> =>
        Total(Opening(twin, scenario)) + Over(days, "arrived") =
            Over(days, "used") + Total(Last(days).stock)

\* Without stock the three passes are in order.
Bracketed ==
    phase \in Ran /\ Opening(twin, scenario) = Nothing =>
        /\ \A i \in 1 .. Len(days) : days[i].stock = Nothing
        /\ edges["less"].short <= Over(days, "short")
        /\ Over(days, "short") <= edges["more"].short

IInv == Typed /\ Begun /\ Stepped /\ Ended /\ Balanced /\ Bracketed

LEMMA SoundTwin ==
    ASSUME twin \in Catalogues, Accepts(twin)
    PROVE  Sound(twin)
BY CataloguesAssumption DEF Sound

LEMMA Initially == Init => IInv
<1> SUFFICES ASSUME Init PROVE IInv
  OBVIOUS
<1> USE DEF Init
<1>1. Typed
  BY DEF Typed, Phases, NoEdges
<1>2. Begun /\ Stepped /\ Ended /\ Balanced /\ Bracketed
  BY DEF Begun, Stepped, Ended, Balanced, Bracketed, Ran
<1>3. QED
  BY <1>1, <1>2 DEF IInv

LEMMA StartKeeps == IInv /\ Start => IInv'
<1> SUFFICES ASSUME IInv, Start PROVE IInv'
  OBVIOUS
<1> USE DEF IInv, Start
<1>1. Typed'
  BY DEF Typed, Phases
<1>2. Begun'
  BY DEF Begun, Ran
<1>3. days = <<>> /\ result = Absent
  BY DEF Begun, Ran
<1>4. Stepped' /\ Ended' /\ Balanced' /\ Bracketed'
  BY <1>3 DEF Stepped, Ended, Balanced, Bracketed, Ran
<1>5. QED
  BY <1>1, <1>2, <1>4

LEMMA CompileKeeps == IInv /\ Compile => IInv'
<1> SUFFICES ASSUME IInv, Compile PROVE IInv'
  OBVIOUS
<1> USE DEF IInv, Compile
<1>1. Typed'
  BY DEF Typed, Phases
<1>2. Begun'
  BY DEF Begun, Ran
<1>3. days = <<>> /\ result = Absent
  BY DEF Begun, Ran
<1>4. Stepped' /\ Ended' /\ Balanced' /\ Bracketed'
  BY <1>3 DEF Stepped, Ended, Balanced, Bracketed, Ran
<1>5. QED
  BY <1>1, <1>2, <1>4

LEMMA ConfirmKeeps == IInv /\ Confirm => IInv'
<1> SUFFICES ASSUME IInv, Confirm PROVE IInv'
  OBVIOUS
<1> USE DEF IInv, Confirm
<1>1. PICK now \in {0} \cup {a.expires : a \in scenario.notes} :
         phase' = IF Valid(twin, scenario, now) THEN "RUNNING" ELSE "REFUSED"
  OBVIOUS
<1>2. Typed'
  BY <1>1 DEF Typed, Phases
<1>3. /\ days = <<>> /\ result = Absent /\ edges = NoEdges
      /\ Accepts(twin) /\ scenario = Candidate(twin, input)
  BY DEF Begun, Ran
<1>4. Begun'
  <2>1. CASE Valid(twin, scenario, now)
    BY <1>1, <1>3, <2>1 DEF Begun, Ran, Confirmable
  <2>2. CASE ~ Valid(twin, scenario, now)
    BY <1>1, <1>3, <2>2 DEF Begun, Ran
  <2>3. QED
    BY <2>1, <2>2
<1>5. Stepped' /\ Ended' /\ Balanced'
  BY <1>1, <1>3 DEF Stepped, Ended, Balanced
<1>6. Bracketed'
  <2>1. edges["less"].short = 0 /\ edges["more"].short = 0
    BY <1>3 DEF NoEdges, By
  <2>2. Over(days, "short") = 0
    BY <1>3, OverNone
  <2>3. QED
    BY <1>3, <2>1, <2>2 DEF Bracketed
<1>7. QED
  BY <1>2, <1>4, <1>5, <1>6

LEMMA FinishKeeps == IInv /\ Finish => IInv'
<1> SUFFICES ASSUME IInv, Finish PROVE IInv'
  OBVIOUS
<1> USE DEF IInv, Finish
<1>1. Typed'
  BY DEF Typed, Phases
<1>2. Begun' /\ Stepped' /\ Balanced' /\ Bracketed'
  BY DEF Begun, Ran, Stepped, Balanced, Bracketed
<1>3. result = Absent
  BY DEF Ended
<1>4. Ended'
  BY <1>3 DEF Ended
<1>5. QED
  BY <1>1, <1>2, <1>4

\* The sums of a state of a day.
LEMMA DayTotals ==
    ASSUME NEW n, Sound(n), NEW day \in DayStates(n)
    PROVE  /\ Total(day.arrived) \in Nat /\ Total(day.used) \in Nat
           /\ Total(day.short) \in Nat
<1> SUFFICES ASSUME NEW f \in [Refineries(n) -> Nat] PROVE Total(f) \in Nat
  BY DEF DayStates
<1>1. f = [x \in DOMAIN f |-> f[x]] /\ DOMAIN f = Refineries(n)
  OBVIOUS
<1>2. Total(f) = Sigma(f, Refineries(n))
  BY <1>1, TotalIsSigma
<1>3. QED
  BY <1>2, RefineriesAreFinite, SigmaNat

\* The two other passes a day further.
LEMMA EdgeIs ==
    ASSUME NEW n, Sound(n), NEW c, Lawful(Effects(c)), NEW step,
           \A e \in Effects(c) :
              e = [type |-> e.type, aim |-> e.aim, asset |-> e.asset, reduction |-> e.reduction],
           NEW edge \in [stock : {Nothing}, short : Nat], NEW side \in DOMAIN By
    PROVE  LET more == EdgeOf(n, c, edge, side, step)
               plain == Total(DayOf(n, Active(c, Effects(c), step), Nothing).short)
           IN  /\ more \in [stock : {Nothing}, short : Nat] /\ plain \in Nat
               /\ side = "less" => more.short <= edge.short + plain
               /\ side = "more" => edge.short + plain <= more.short
<1> DEFINE E == Active(c, Effects(c), step)
           D == Active(c, Shifted(c, By[side]), step)
           day == DayOf(n, D, Nothing)
           plain == DayOf(n, E, Nothing)
<1>1. /\ By[side] \in Int /\ side \in {"less", "more"}
      /\ side = "less" => By[side] <= 0
      /\ side = "more" => By[side] >= 0
  BY DeltaAssumption DEF By
<1>2. /\ Lawful(E) /\ Lawful(D)
      /\ side = "less" => Covers(E, D)
      /\ side = "more" => Covers(D, E)
  BY <1>1, ShiftedAre, ActiveAre
<1>3. Covers(D, D) /\ Covers(E, E)
  <2>1. \A F : Lawful(F) => Covers(F, F)
    BY DEF Covers, Lawful
  <2>2. QED
    BY <1>2, <2>1
<1> HIDE DEF D, E
<1>4. /\ day.stock = Nothing /\ Total(day.short) \in Nat /\ Total(plain.short) \in Nat
  BY <1>2, <1>3, DayWithoutStock
<1>5. /\ side = "less" => Total(day.short) <= Total(plain.short)
      /\ side = "more" => Total(plain.short) <= Total(day.short)
  BY <1>2, DayWithoutStock
<1>6. edge.stock = Nothing /\ edge.short \in Nat
  OBVIOUS
<1>7. EdgeOf(n, c, edge, side, step) = [stock |-> day.stock, short |-> edge.short + Total(day.short)]
  BY <1>6 DEF EdgeOf, D
<1> HIDE DEF day, plain
<1>8. QED
  BY <1>4, <1>5, <1>6, <1>7 DEF plain, E

LEMMA DayKeeps == IInv /\ Day => IInv'
<1> SUFFICES ASSUME IInv, Day PROVE IInv'
  OBVIOUS
<1> DEFINE m == Len(days)
           E == Active(scenario, Effects(scenario), m)
           stock == Morning(twin, scenario, days)
           day == DayOf(twin, E, stock)
<1>1. /\ twin \in Catalogues /\ input \in Inputs /\ phase = "RUNNING"
      /\ days \in Seq(DayStates(twin))
      /\ edges \in [DOMAIN By -> [stock : {Nothing}, short : Nat]]
  BY DEF IInv, Typed, Day
<1>2. /\ Sound(twin) /\ scenario = Candidate(twin, input) /\ Confirmable(twin, scenario)
  BY <1>1, SoundTwin DEF IInv, Begun, Ran
<1>3. /\ Lawful(Effects(scenario)) /\ Lawful(E)
      /\ \A e \in Effects(scenario) :
            e = [type |-> e.type, aim |-> e.aim, asset |-> e.asset, reduction |-> e.reduction]
  BY <1>1, <1>2, EffectsAre, ActiveAre
<1>4. /\ days' = Append(days, day) /\ m < Steps(scenario)
      /\ edges' = [side \in DOMAIN edges |-> EdgeOf(twin, scenario, edges[side], side, m)]
      /\ UNCHANGED <<twin, input, scenario, phase, result>>
  BY DEF Day
<1>5. m \in Nat /\ DOMAIN days = 1 .. m /\ (days = <<>> <=> m = 0)
  BY <1>1
<1>6. /\ stock = IF m = 0 THEN Opening(twin, scenario) ELSE days[m].stock
      /\ stock \in Stocks(twin)
  <2>1. CASE m = 0
    BY <1>1, <1>2, <1>5, <2>1, ScenarioIs DEF Morning
  <2>2. CASE m # 0
    <3>1. stock = days[m].stock
      BY <1>5, <2>2 DEF Morning, Last
    <3>2. days[m] \in DayStates(twin)
      BY <1>1, <1>5, <2>2
    <3>3. days[m].stock \in Stocks(twin)
      BY <3>2 DEF DayStates
    <3>4. QED
      BY <2>2, <3>1, <3>3
  <2>3. QED
    BY <2>1, <2>2
<1> HIDE DEF E, stock
<1>7. day \in DayStates(twin) /\ DOMAIN day.stock = DOMAIN stock
  BY <1>2, <1>3, <1>6, DayTyped
<1>8. /\ Total(day.arrived) \in Nat /\ Total(day.used) \in Nat
      /\ Total(day.stock) \in Nat /\ Total(stock) \in Nat
      /\ Total(day.arrived) + Total(stock) = Total(day.used) + Total(day.stock)
  <2>1. day.arrived = Arriving(twin, E) /\ day.used = Using(twin, E, stock)
        /\ day.stock = Storing(twin, E, stock)
    BY <1>2, <1>3, DayIs
  <2> HIDE DEF day
  <2>2. QED
    BY <1>2, <1>3, <1>6, <2>1, DayBalance
<1> HIDE DEF day
<1>9. /\ days' \in Seq(DayStates(twin)) /\ Len(days') = m + 1 /\ days' # <<>>
      /\ days'[m + 1] = day /\ Last(days') = day
      /\ \A i \in 1 .. m : days'[i] = days[i]
  <2>1. days' \in Seq(DayStates(twin)) /\ Len(days') = m + 1
    BY <1>1, <1>4, <1>7
  <2>2. days'[m + 1] = day /\ \A i \in 1 .. m : days'[i] = days[i]
    BY <1>1, <1>4, <1>5
  <2>3. Last(days') = days'[m + 1]
    BY <2>1 DEF Last
  <2>4. days' # <<>>
    BY <1>5, <2>1
  <2>5. QED
    BY <2>1, <2>2, <2>3, <2>4
<1>10. \A field \in {"arrived", "used", "short"} :
          /\ Over(days, field) \in Nat
          /\ Over(days', field) = Over(days, field) + Total(day[field])
  <2> TAKE field \in {"arrived", "used", "short"}
  <2>1. \A d \in DayStates(twin) : Total(d[field]) \in Nat
    BY <1>2, DayTotals
  <2>2. \A i \in 1 .. Len(days) : Total(days[i][field]) \in Nat
    BY <1>1, <2>1
  <2>3. Total(day[field]) \in Nat
    BY <1>7, <2>1
  <2>4. QED
    BY <1>1, <1>4, <2>2, <2>3, OverAppend
<1> DEFINE new(side) == EdgeOf(twin, scenario, edges[side], side, m)
           plain == Total(DayOf(twin, E, Nothing).short)
<1>11. \A side \in DOMAIN By :
          /\ edges'[side] = new(side) /\ edges[side] \in [stock : {Nothing}, short : Nat]
          /\ new(side) \in [stock : {Nothing}, short : Nat] /\ plain \in Nat
          /\ side = "less" => new(side).short <= edges[side].short + plain
          /\ side = "more" => edges[side].short + plain <= new(side).short
  <2> TAKE side \in DOMAIN By
  <2>1. edges'[side] = new(side) /\ edges[side] \in [stock : {Nothing}, short : Nat]
    BY <1>1, <1>4
  <2>2. QED
    BY <1>2, <1>3, <2>1, EdgeIs DEF E
<1>12. DOMAIN edges' = DOMAIN By /\ edges' = [side \in DOMAIN By |-> edges'[side]]
  BY <1>1, <1>4
<1> HIDE DEF new, plain, m
<1>13. Typed'
  <2>1. edges' \in [DOMAIN By -> [stock : {Nothing}, short : Nat]]
    BY <1>11, <1>12
  <2>2. QED
    BY <1>4, <1>9, <2>1 DEF IInv, Typed
<1>14. Begun'
  BY <1>1, <1>2, <1>4 DEF IInv, Begun, Ran
<1>15. Stepped'
  <2> SUFFICES ASSUME NEW i \in 1 .. m + 1
               PROVE  days'[i] = DayOf(twin, Active(scenario, Effects(scenario), i - 1),
                                       IF i = 1 THEN Opening(twin, scenario)
                                       ELSE days'[i - 1].stock)
    BY <1>4, <1>9 DEF Stepped
  <2>1. CASE i \in 1 .. m
    <3>1. days[i] = DayOf(twin, Active(scenario, Effects(scenario), i - 1),
                          IF i = 1 THEN Opening(twin, scenario) ELSE days[i - 1].stock)
      BY <2>1 DEF IInv, Stepped, m
    <3>2. days'[i] = days[i]
      BY <1>9, <2>1
    <3>3. i # 1 => days'[i - 1] = days[i - 1]
      BY <1>5, <1>9, <2>1
    <3>4. QED
      BY <3>1, <3>2, <3>3
  <2>2. CASE i = m + 1
    <3>1. i - 1 = m /\ (i = 1 <=> m = 0)
      BY <1>5, <2>2
    <3>2. m # 0 => days'[i - 1] = days[m]
      BY <1>5, <1>9, <3>1
    <3>3. stock = IF i = 1 THEN Opening(twin, scenario) ELSE days'[i - 1].stock
      BY <1>6, <3>1, <3>2
    <3>4. E = Active(scenario, Effects(scenario), i - 1)
      BY <3>1 DEF E
    <3>5. days'[i] = DayOf(twin, E, stock)
      BY <1>9, <2>2 DEF day
    <3>6. QED
      BY <3>3, <3>4, <3>5
  <2>3. QED
    BY <1>5, <2>1, <2>2
<1>16. Ended'
  BY <1>1, <1>4 DEF IInv, Ended
<1>17. Balanced'
  <2> DEFINE open == Total(Opening(twin, scenario))
  <2>1. CASE m = 0
    <3>1. Over(days, "arrived") = 0 /\ Over(days, "used") = 0
      BY <1>5, <2>1, OverNone
    <3>2. open = Total(stock)
      BY <1>6, <2>1
    <3>3. open + Over(days', "arrived") = Over(days', "used") + Total(day.stock)
      BY <1>8, <1>10, <3>1, <3>2
    <3>4. QED
      BY <1>4, <1>9, <3>3 DEF Balanced
  <2>2. CASE m # 0
    <3>1. Last(days).stock = stock
      BY <1>5, <1>6, <2>2 DEF Last, m
    <3>2. open + Over(days, "arrived") = Over(days, "used") + Total(stock)
      BY <1>5, <2>2, <3>1 DEF IInv, Balanced
    <3>3. open \in Nat
      <4>1. Opening(twin, scenario) \in Stocks(twin)
        BY <1>1, <1>2, ScenarioIs
      <4>2. QED
        BY <1>2, <1>3, <4>1, DayBalance
    <3> HIDE DEF open
    <3>4. open + Over(days', "arrived") = Over(days', "used") + Total(day.stock)
      BY <1>8, <1>10, <3>2, <3>3
    <3>5. QED
      BY <1>4, <1>9, <3>4 DEF Balanced, open
  <2>3. QED
    BY <2>1, <2>2
<1>18. Bracketed'
  <2> SUFFICES ASSUME Opening(twin, scenario) = Nothing
               PROVE  /\ \A i \in 1 .. m + 1 : days'[i].stock = Nothing
                      /\ edges'["less"].short <= Over(days', "short")
                      /\ Over(days', "short") <= edges'["more"].short
    BY <1>4, <1>9 DEF Bracketed
  <2>1. /\ \A i \in 1 .. m : days[i].stock = Nothing
        /\ edges["less"].short <= Over(days, "short")
        /\ Over(days, "short") <= edges["more"].short
    BY <1>1 DEF IInv, Bracketed, Ran, m
  <2>2. stock = Nothing
    BY <1>5, <1>6, <2>1
  <2>3. day.stock = Nothing
    <3>1. day.stock \in Stocks(twin)
      BY <1>7 DEF DayStates
    <3>2. DOMAIN day.stock = {}
      BY <1>7, <2>2 DEF Nothing
    <3>3. QED
      BY <3>1, <3>2, NoStock
  <2>4. \A i \in 1 .. m + 1 : days'[i].stock = Nothing
    BY <1>5, <1>9, <2>1, <2>3
  <2>5. Total(day.short) = plain
    BY <2>2 DEF day, plain
  <2>6. "less" \in DOMAIN By /\ "more" \in DOMAIN By
    BY DEF By
  <2>7. /\ edges["less"].short \in Nat /\ edges["more"].short \in Nat
        /\ edges'["less"].short \in Nat /\ edges'["more"].short \in Nat /\ plain \in Nat
        /\ edges'["less"].short <= edges["less"].short + plain
        /\ edges["more"].short + plain <= edges'["more"].short
    BY <1>11, <2>6
  <2>8. Over(days, "short") \in Nat /\ Over(days', "short") = Over(days, "short") + plain
    BY <1>10, <2>5
  <2>9. QED
    BY <2>1, <2>4, <2>7, <2>8
<1>19. QED
  BY <1>13, <1>14, <1>15, <1>16, <1>17, <1>18 DEF IInv

LEMMA StutterKeeps == IInv /\ UNCHANGED vars => IInv'
BY DEF IInv, vars, Typed, Begun, Stepped, Ended, Balanced, Bracketed

\* The days of every run are steps of one day from what the day before left,
\* its books balance, and it ends when and as its report says.
THEOREM Invariance == Spec => []IInv
<1>1. IInv /\ [Next]_vars => IInv'
  BY StartKeeps, CompileKeeps, ConfirmKeeps, DayKeeps, FinishKeeps, StutterKeeps DEF Next
<1>2. QED
  BY Initially, <1>1, PTL DEF Spec

----------------------------------------------------------------------------
(* What the invariant says of a state.                                     *)

\* A day of a run, with what it is made of.
LEMMA DaysAre ==
    ASSUME IInv, NEW i \in 1 .. Len(days)
    PROVE  LET E == Active(scenario, Effects(scenario), i - 1) IN
           /\ phase \in Ran /\ Sound(twin) /\ Lawful(Effects(scenario)) /\ Lawful(E)
           /\ i \in Nat /\ i \in DOMAIN days
           /\ \E stock \in Stocks(twin) : days[i] = DayOf(twin, E, stock)
<1> DEFINE E == Active(scenario, Effects(scenario), i - 1)
           stock == IF i = 1 THEN Opening(twin, scenario) ELSE days[i - 1].stock
<1>1. /\ twin \in Catalogues /\ input \in Inputs /\ days \in Seq(DayStates(twin))
  BY DEF IInv, Typed
<1>2. Len(days) \in Nat /\ DOMAIN days = 1 .. Len(days) /\ i \in Nat /\ days # <<>>
  <2>1. Len(days) \in Nat /\ DOMAIN days = 1 .. Len(days) /\ (days = <<>> => Len(days) = 0)
    BY <1>1
  <2>2. QED
    BY <2>1
<1>3. /\ phase \in Ran /\ Accepts(twin) /\ scenario = Candidate(twin, input)
      /\ Confirmable(twin, scenario)
  BY <1>2 DEF IInv, Begun, Ran
<1>4. Sound(twin) /\ Lawful(Effects(scenario)) /\ Lawful(E)
  BY <1>1, <1>3, SoundTwin, EffectsAre, ActiveAre
<1>5. stock \in Stocks(twin)
  <2>1. CASE i = 1
    BY <1>1, <1>3, <2>1, ScenarioIs
  <2>2. CASE i # 1
    <3>1. i - 1 \in DOMAIN days
      BY <1>2, <2>2
    <3>2. days[i - 1] \in DayStates(twin)
      BY <1>1, <3>1
    <3>3. days[i - 1].stock \in Stocks(twin)
      BY <3>2 DEF DayStates
    <3>4. QED
      BY <2>2, <3>3
  <2>3. QED
    BY <2>1, <2>2
<1>6. days[i] = DayOf(twin, E, stock)
  BY DEF IInv, Stepped
<1> HIDE DEF stock
<1>7. QED
  BY <1>2, <1>3, <1>4, <1>5, <1>6

LEMMA DaysAreCounted ==
    ASSUME IInv
    PROVE  Len(days) \in Nat /\ DOMAIN days = 1 .. Len(days) /\ (days = <<>> <=> Len(days) = 0)
BY DEF IInv, Typed

LEMMA LosesNothing == IInv => NothingIsLost
<1> SUFFICES ASSUME IInv, days # <<>>
             PROVE  /\ \A i \in DOMAIN days : \A x \in Passages(twin) :
                          Carried(days[i].flow, Into(twin, x)) =
                              Carried(days[i].flow, OutOf(twin, x))
                    /\ Total(Opening(twin, scenario)) + Over(days, "arrived") =
                           Over(days, "used") + Total(Last(days).stock)
  BY DEF NothingIsLost
<1>1. ASSUME NEW i \in DOMAIN days, NEW x \in Passages(twin)
      PROVE  Carried(days[i].flow, Into(twin, x)) = Carried(days[i].flow, OutOf(twin, x))
  <2> DEFINE E == Active(scenario, Effects(scenario), i - 1)
  <2>1. i \in 1 .. Len(days)
    BY DaysAreCounted
  <2>2. Sound(twin) /\ Lawful(E) /\ \E stock \in Stocks(twin) : days[i] = DayOf(twin, E, stock)
    BY <2>1, DaysAre
  <2>3. PICK stock \in Stocks(twin) : days[i] = DayOf(twin, E, stock)
    BY <2>2
  <2> HIDE DEF E
  <2>4. days[i].flow = Flowing(twin, E)
    BY <2>2, <2>3, DayIs
  <2>5. QED
    BY <2>2, <2>4, DayPortsPass
<1>2. Total(Opening(twin, scenario)) + Over(days, "arrived") =
          Over(days, "used") + Total(Last(days).stock)
  BY DEF IInv, Balanced
<1>3. QED
  BY <1>1, <1>2

LEMMA HasACause == IInv => ShortfallsHaveACause
<1> SUFFICES ASSUME IInv, NEW i \in DOMAIN days, NEW x \in Refineries(twin),
                    days[i].short[x] > 0
             PROVE  /\ \E t \in {2 * (i - 1), 2 * (i - 1) + 1} : t < scenario.duration
                    /\ \E e \in Effects(scenario) :
                          \/ e.asset = x
                          \/ \E a \in twin.allocations :
                                /\ x \in Ends(twin, a.path)
                                /\ \/ e.asset \in {a.supplier} \cup WayOf(twin, a)
                                   \/ e.asset \in Ends(twin, WayOf(twin, a))
                                   \/ e.asset \in Straits(twin, WayOf(twin, a))
  BY DEF ShortfallsHaveACause
<1> DEFINE E == Active(scenario, Effects(scenario), i - 1)
<1>1. i \in 1 .. Len(days)
  BY DaysAreCounted
<1>2. Sound(twin) /\ Lawful(E) /\ \E stock \in Stocks(twin) : days[i] = DayOf(twin, E, stock)
  BY <1>1, DaysAre
<1>3. Touching(twin, E, x) # {}
  <2> HIDE DEF E
  <2>1. PICK stock \in Stocks(twin) : days[i] = DayOf(twin, E, stock)
    BY <1>2
  <2>2. ASSUME Touching(twin, E, x) = {} PROVE FALSE
    <3>1. days[i].short[x] = 0
      BY <1>2, <2>1, <2>2, UntouchedIsNotShort
    <3>2. QED
      BY <3>1
  <2>3. QED
    BY <2>2
<1>4. PICK e \in E : \/ e.asset = x
                    \/ \E a \in twin.allocations :
                          /\ x \in Ends(twin, a.path)
                          /\ ReachesPath(twin, e, a.supplier, WayOf(twin, a))
  BY <1>3 DEF Touching
<1>5. IsActive(scenario, i - 1) /\ e \in Effects(scenario)
  BY <1>4 DEF Active
<1>6. 2 * (i - 1) < scenario.duration
  BY <1>5 DEF IsActive
<1>7. \/ e.asset = x
      \/ \E a \in twin.allocations :
            /\ x \in Ends(twin, a.path)
            /\ \/ e.asset \in {a.supplier} \cup WayOf(twin, a)
               \/ e.asset \in Ends(twin, WayOf(twin, a))
               \/ e.asset \in Straits(twin, WayOf(twin, a))
  BY <1>4 DEF ReachesPath
<1>8. QED
  BY <1>5, <1>6, <1>7

LEMMA IsBracketed == IInv => BoundsHoldWithoutStock
<1> SUFFICES ASSUME IInv, days # <<>>, Opening(twin, scenario) = Nothing
             PROVE  /\ edges["less"].short <= Over(days, "short")
                    /\ Over(days, "short") <= edges["more"].short
                    /\ result # Absent => /\ result.lower <= result.cumulative
                                          /\ result.cumulative <= result.upper
  BY DEF BoundsHoldWithoutStock
<1> DEFINE low == edges["less"].short
           high == edges["more"].short
           sum == Over(days, "short")
<1>1. phase \in Ran
  BY DEF IInv, Begun
<1>2. low <= sum /\ sum <= high
  BY <1>1 DEF IInv, Bracketed
<1>3. low \in Int /\ high \in Int /\ {edges[x].short : x \in DOMAIN edges} = {low, high}
  <2>1. /\ edges \in [DOMAIN By -> [stock : {Nothing}, short : Nat]]
        /\ DOMAIN By = {"less", "more"}
    BY DEF IInv, Typed, By
  <2>2. /\ edges["less"] \in [stock : {Nothing}, short : Nat]
        /\ edges["more"] \in [stock : {Nothing}, short : Nat]
    BY <2>1
  <2>3. DOMAIN edges = {"less", "more"}
    BY <2>1
  <2>4. QED
    BY <2>2, <2>3
<1>4. sum \in Nat
  <2>1. days \in Seq(DayStates(twin)) /\ Sound(twin) /\ Len(days) \in Nat /\ Len(days) # 0
    BY <1>1, DaysAreCounted, SoundTwin DEF IInv, Typed, Begun, Ran
  <2>2. \A i \in 1 .. Len(days) : Total(days[i]["short"]) \in Nat
    <3>1. \A d \in DayStates(twin) : Total(d["short"]) \in Nat
      BY <2>1, DayTotals
    <3>2. QED
      BY <2>1, <3>1
  <2>3. Total(days[1]["short"]) \in Nat
    BY <2>1, <2>2
  <2>4. QED
    BY <2>1, <2>2, <2>3, OverAppend
<1>5. ASSUME result # Absent
      PROVE  result.lower <= result.cumulative /\ result.cumulative <= result.upper
  <2>1. result = Result(twin, scenario, days, edges)
    BY <1>5 DEF IInv, Ended
  <2>2. /\ result.cumulative = sum
        /\ result.lower = Min({edges[x].short : x \in DOMAIN edges})
        /\ result.upper = Max({edges[x].short : x \in DOMAIN edges})
    BY <2>1 DEF Result
  <2> HIDE DEF low, high, sum
  <2>3. result.lower = Min({low, high}) /\ result.upper = Max({low, high})
    BY <1>3, <2>2
  <2>4. Min({low, high}) <= low /\ high <= Max({low, high})
    BY <1>3, MinOfTwo, MaxOfTwo
  <2>5. Min({low, high}) \in Int /\ Max({low, high}) \in Int
    BY <1>3, MinOfTwo, MaxOfTwo
  <2>6. QED
    BY <1>2, <1>3, <1>4, <2>2, <2>3, <2>4, <2>5
<1>6. QED
  BY <1>2, <1>5

\* Of the report only closed routes can fail, and on days without effects only.
LEMMA DayReport ==
    ASSUME IInv, NEW i \in 1 .. Len(days)
    PROVE  /\ RoutesHold(twin, days[i]) /\ SuppliersHold(twin, days[i])
           /\ RefineriesHold(twin, days[i]) /\ GradesFit(twin, days[i])
           /\ days[i].residual = 0
           /\ IsActive(scenario, i - 1) => ClosedRoutesAreEmpty(twin, scenario, days[i])
           /\ ~ IsActive(scenario, i - 1) =>
                \A f \in Flows(twin) : days[i].flow[f] = f[1].volume * 100
<1> DEFINE E == Active(scenario, Effects(scenario), i - 1)
<1>1. /\ Sound(twin) /\ Lawful(Effects(scenario)) /\ Lawful(E)
      /\ \E stock \in Stocks(twin) : days[i] = DayOf(twin, E, stock)
  BY DaysAre
<1>2. /\ IsActive(scenario, i - 1) => E = Effects(scenario)
      /\ ~ IsActive(scenario, i - 1) => E = {}
  BY DEF Active
<1> HIDE DEF E
<1>3. PICK stock \in Stocks(twin) : days[i] = DayOf(twin, E, stock)
  BY <1>1
<1>4. days[i].flow = Flowing(twin, E) /\ days[i] \in DayStates(twin)
  BY <1>1, <1>3, DayIs, DayTyped
<1>5. /\ RoutesHold(twin, days[i]) /\ SuppliersHold(twin, days[i])
      /\ RefineriesHold(twin, days[i]) /\ GradesFit(twin, days[i])
  BY <1>1, <1>3, DayRoutesHold, DaySuppliersHold, DayRefineriesHold, DayGradesFit
<1>6. days[i].residual = 0
  BY <1>4 DEF DayStates
<1>7. ASSUME IsActive(scenario, i - 1) PROVE ClosedRoutesAreEmpty(twin, scenario, days[i])
  <2> SUFFICES ASSUME NEW e \in Effects(scenario), NEW f \in Flows(twin),
                      e.aim = "ROUTE", e.reduction = 100, f[2] = e.asset
               PROVE  days[i].flow[f] = 0
    BY DEF ClosedRoutesAreEmpty
  <2>1. e \in E
    BY <1>2, <1>7
  <2>2. Flowing(twin, E)[f] = 0
    BY <1>1, <2>1, ClosedFlowsAreEmpty
  <2>3. QED
    BY <1>4, <2>2
<1>8. ASSUME ~ IsActive(scenario, i - 1), NEW f \in Flows(twin)
      PROVE  days[i].flow[f] = f[1].volume * 100
  <2>1. Flowing(twin, {})[f] = f[1].volume * 100
    BY <1>1, FreeFlowsAreFull
  <2>2. QED
    BY <1>2, <1>4, <1>8, <2>1
<1>9. QED
  BY <1>5, <1>6, <1>7, <1>8

\* A run has days after the effects exactly when the horizon touches more of
\* them than the disruption.
LEMMA DaysAfter ==
    ASSUME NEW c, c.duration \in Nat, Steps(c) \in Nat
    PROVE  (\E i \in 1 .. Steps(c) : ~ IsActive(c, i - 1))
               <=> Steps(c) > Steps([horizon |-> c.duration])
<1> DEFINE s == Steps(c)
           k == Steps([horizon |-> c.duration])
           d == c.duration
<1>1. k \in Nat /\ 2 * k >= d /\ 2 * k <= d + 1
  <2>1. \A v \in Nat : LET h == (v + 1) \div 2 IN
           h \in Nat /\ 2 * h >= v /\ 2 * h <= v + 1
    OBVIOUS
  <2>2. k = (d + 1) \div 2
    BY DEF Steps
  <2> HIDE DEF k
  <2>3. QED
    BY <2>1, <2>2
<1>2. d \in Nat /\ s \in Nat
  OBVIOUS
<1>3. \A i : IsActive(c, i - 1) <=> 2 * (i - 1) < d
  BY DEF IsActive
<1> HIDE DEF s, k, d
<1>4. ASSUME s > k PROVE \E i \in 1 .. s : ~ IsActive(c, i - 1)
  <2>1. s \in 1 .. s /\ ~ (2 * (s - 1) < d)
    BY <1>1, <1>2, <1>4
  <2>2. QED
    BY <1>3, <2>1
<1>5. ASSUME NEW i \in 1 .. s, ~ IsActive(c, i - 1) PROVE s > k
  <2>1. ~ (2 * (i - 1) < d)
    BY <1>3, <1>5
  <2>2. QED
    BY <1>1, <1>2, <2>1
<1>6. (\E i \in 1 .. s : ~ IsActive(c, i - 1)) <=> s > k
  BY <1>4, <1>5
<1>7. QED
  BY <1>6 DEF s, k

LEMMA FailsAtReopening == IInv => OnlyReopenedRoutesFail
<1>0. ReopensARoute(twin, scenario) \in BOOLEAN
  BY DEF ReopensARoute
<1> SUFFICES ASSUME IInv, phase \in {"COMPLETED", "FAILED"}
             PROVE  phase = "FAILED" <=> ReopensARoute(twin, scenario)
  BY <1>0 DEF OnlyReopenedRoutesFail
<1> DEFINE Shuts(e, f) == e.aim = "ROUTE" /\ e.reduction = 100 /\ f[2] = e.asset
<1>1. /\ Sound(twin) /\ scenario = Candidate(twin, input) /\ input \in Inputs
      /\ scenario.duration \in Nat /\ Steps(scenario) \in Nat
  <2>1. /\ twin \in Catalogues /\ Accepts(twin) /\ scenario = Candidate(twin, input)
        /\ input \in Inputs
    BY DEF IInv, Typed, Begun, Ran
  <2>2. QED
    BY <2>1, SoundTwin, ScenarioIs
<1>2. /\ Len(days) = Steps(scenario) /\ DOMAIN days = 1 .. Steps(scenario)
      /\ phase = "COMPLETED" <=> ReportIsClean(twin, scenario, days)
  BY DaysAreCounted DEF IInv, Ended
<1>3. ReportIsClean(twin, scenario, days) <=>
          \A i \in 1 .. Steps(scenario) : ClosedRoutesAreEmpty(twin, scenario, days[i])
  BY <1>1, <1>2, DayReport, BaselineOfSound DEF ReportIsClean
<1>4. \A f \in Flows(twin) : f[1].volume \in Nat
  BY <1>1, FlowsAreFinite
<1>5. ASSUME NEW i \in 1 .. Steps(scenario)
      PROVE  ClosedRoutesAreEmpty(twin, scenario, days[i]) <=>
                 \/ IsActive(scenario, i - 1)
                 \/ ~ \E e \in Effects(scenario), f \in Flows(twin) :
                        Shuts(e, f) /\ f[1].volume > 0
  <2>1. CASE IsActive(scenario, i - 1)
    BY <1>2, <2>1, DayReport
  <2>2. CASE ~ IsActive(scenario, i - 1)
    <3>1. \A f \in Flows(twin) : days[i].flow[f] = f[1].volume * 100
      BY <1>2, <2>2, DayReport
    <3>2. \A f \in Flows(twin) : days[i].flow[f] = 0 <=> ~ (f[1].volume > 0)
      BY <1>4, <3>1
    <3>3. ClosedRoutesAreEmpty(twin, scenario, days[i]) <=>
             \A e \in Effects(scenario), f \in Flows(twin) :
                Shuts(e, f) => days[i].flow[f] = 0
      BY DEF ClosedRoutesAreEmpty
    <3> HIDE DEF Shuts
    <3>4. QED
      BY <2>2, <3>2, <3>3
  <2>3. QED
    BY <2>1, <2>2
<1>6. (\E i \in 1 .. Steps(scenario) : ~ IsActive(scenario, i - 1))
          <=> Steps(scenario) > Steps([horizon |-> scenario.duration])
  BY <1>1, DaysAfter
<1>7. ReopensARoute(twin, scenario) <=>
          /\ \E e \in Effects(scenario), f \in Flows(twin) : Shuts(e, f) /\ f[1].volume > 0
          /\ Steps(scenario) > Steps([horizon |-> scenario.duration])
  BY DEF ReopensARoute
<1> HIDE DEF Shuts
<1>8. ReportIsClean(twin, scenario, days) <=> ~ ReopensARoute(twin, scenario)
  BY <1>3, <1>5, <1>6, <1>7
<1>9. QED
  BY <1>2, <1>8

----------------------------------------------------------------------------
(* The theorems about the run.                                             *)

\* On every day of every run, ports and straits pass on what they get, and
\* over the days the refineries use or keep exactly what they were given.
THEOREM NothingIsLostAlways == Spec => []NothingIsLost
BY Invariance, LosesNothing, PTL

\* A refinery is short only on a day the disruption touches, and only when an
\* effect is on it or on a way its crude takes.
THEOREM ShortfallsHaveACauseAlways == Spec => []ShortfallsHaveACause
BY Invariance, HasACause, PTL

\* A confirmed scenario on an accepted catalogue fails if and only if it closes
\* a route that carries crude and the horizon goes on after it reopens: no
\* other line of the report of physical invariants can fail.
THEOREM OnlyReopenedRoutesFailAlways == Spec => []OnlyReopenedRoutesFail
BY Invariance, FailsAtReopening, PTL

\* Without inventory assumptions the published shortfall lies between the
\* published bounds, for any delta, any effects and any number of days.
THEOREM BoundsHoldWithoutStockAlways == Spec => []BoundsHoldWithoutStock
BY Invariance, IsBracketed, PTL

----------------------------------------------------------------------------
(* More about sums and extremes, for the plans.                            *)

LEMMA GreatestNatural ==
    ASSUME NEW b \in Nat, NEW T \in SUBSET (0 .. b), T # {}
    PROVE  Max(T) \in T /\ \A y \in T : y <= Max(T)
<1> DEFINE U == {b - t : t \in T}
<1>1. U \in SUBSET Nat /\ U # {}
  <2>1. \A t \in T : b - t \in Nat
    OBVIOUS
  <2>2. QED
    BY <2>1
<1>2. PICK m \in U : \A u \in U : m <= u
  <2> HIDE DEF U
  <2>1. QED
    BY <1>1, LeastNatural
<1>3. PICK x \in T : m = b - x
  BY <1>2
<1>4. \A y \in T : x >= y
  BY <1>2, <1>3
<1>5. Max(T) \in T /\ \A y \in T : Max(T) >= y
  BY <1>4 DEF Max
<1>6. QED
  BY <1>5

LEMMA Hundredths ==
    \A a \in Nat : /\ a \div 100 \in Nat /\ 100 * (a \div 100) <= a
                   /\ a % 100 = 0 => 100 * (a \div 100) = a
OBVIOUS

LEMMA ImageIsFinite ==
    ASSUME NEW S, IsFiniteSet(S), NEW f
    PROVE  IsFiniteSet({f[x] : x \in S})
<1> DEFINE g == [x \in S |-> f[x]]
           T == {f[x] : x \in S}
<1>1. g \in Surjection(S, T)
  BY DEF Surjection
<1> HIDE DEF g, T
<1>2. IsFiniteSet(T)
  BY <1>1, FS_Surjection
<1>3. QED
  BY <1>2 DEF T

LEMMA SigmaZero ==
    ASSUME NEW S, IsFiniteSet(S), NEW f, \A x \in S : f[x] = 0
    PROVE  Sigma(f, S) = 0
<1>1. Summable(f, S) /\ 0 \in Int /\ \A x \in S : f[x] = 0 * f[x]
  BY DEF Summable
<1>2. Sigma(f, S) = 0 * Sigma(f, S)
  BY <1>1, SigmaTimes
<1>3. Sigma(f, S) \in Int
  BY <1>1, SigmaInt
<1>4. QED
  BY <1>2, <1>3

\* The parts into which a function takes a set.
LEMMA SigmaFibers ==
    ASSUME NEW S, NEW f, Summable(f, S), NEW R, IsFiniteSet(R),
           NEW m \in [S -> R], NEW part, NEW h,
           \A y \in R : part[y] = {x \in S : m[x] = y} /\ h[y] = Sigma(f, part[y])
    PROVE  Sigma(f, S) = Sigma(h, R)
<1> DEFINE Above(T) == {x \in S : m[x] \in T}
           B == {T \in SUBSET R : Sigma(f, Above(T)) = Sigma(h, T)}
<1>0. Summable(h, R)
  <2>1. \A y \in R : {x \in S : m[x] = y} \in SUBSET S
    OBVIOUS
  <2>2. \A T \in SUBSET S : Sigma(f, T) \in Int
    BY SigmaInt
  <2>3. QED
    BY <2>1, <2>2 DEF Summable
<1>1. {} \in B
  <2>1. Above({}) = {}
    OBVIOUS
  <2> HIDE DEF Above
  <2>2. QED
    BY <2>1, SigmaEmpty
<1>2. \A T \in SUBSET R : \A y \in R \ T : T \in B => T \cup {y} \in B
  <2> SUFFICES ASSUME NEW T \in SUBSET R, NEW y \in R \ T, Sigma(f, Above(T)) = Sigma(h, T)
               PROVE  Sigma(f, Above(T \cup {y})) = Sigma(h, T \cup {y})
    OBVIOUS
  <2> DEFINE A == Above(T \cup {y})
  <2>1. Above(T) \in SUBSET A /\ A \ Above(T) = {x \in S : m[x] = y} /\ A \in SUBSET S
    OBVIOUS
  <2>2. Summable(f, A)
    BY <2>1, FS_Subset DEF Summable
  <2> HIDE DEF A, Above
  <2>3. Sigma(f, A) = Sigma(f, Above(T)) + Sigma(f, A \ Above(T))
    BY <2>1, <2>2, SigmaSplit
  <2>4. Sigma(f, A \ Above(T)) = h[y]
    BY <2>1
  <2>5. Sigma(h, T \cup {y}) = h[y] + Sigma(h, T)
    BY <1>0, SigmaStep
  <2>6. h[y] \in Int /\ Sigma(h, T) \in Int
    BY <1>0, SigmaInt DEF Summable
  <2>7. QED
    BY <2>3, <2>4, <2>5, <2>6 DEF A
<1> HIDE DEF B
<1>3. R \in B
  BY <1>1, <1>2, SetInduction
<1>4. Above(R) = S
  OBVIOUS
<1>5. QED
  BY <1>3, <1>4 DEF B

LEMMA GreatestOfFinite ==
    ASSUME NEW T, IsFiniteSet(T), \A y \in T : y \in Nat, T # {}
    PROVE  Max(T) \in T /\ \A y \in T : y <= Max(T)
<1> DEFINE B == {U \in SUBSET T : \E b \in Nat : \A y \in U : y <= b}
<1>1. {} \in B
  OBVIOUS
<1>2. ASSUME NEW U \in SUBSET T, NEW x \in T \ U, U \in B
      PROVE  U \cup {x} \in B
  <2>1. PICK b \in Nat : \A y \in U : y <= b
    BY <1>2
  <2>2. b + x \in Nat /\ \A y \in U \cup {x} : y <= b + x
    BY <2>1
  <2>3. QED
    BY <2>2
<1> HIDE DEF B
<1>3. T \in B
  BY <1>1, <1>2, SetInduction
<1>4. PICK b \in Nat : \A y \in T : y <= b
  BY <1>3 DEF B
<1>5. T \in SUBSET (0 .. b)
  BY <1>4
<1>6. QED
  BY <1>5, GreatestNatural

LEMMA SigmaOfOne ==
    ASSUME NEW S, NEW f, Summable(f, S), NEW x \in S,
           \A y \in S : y # x => f[y] = 0
    PROVE  Sigma(f, S) = f[x]
<1>1. {x} \in SUBSET S /\ \A y \in S \ {x} : f[y] = 0
  OBVIOUS
<1>2. Sigma(f, S) = Sigma(f, {x}) + Sigma(f, S \ {x})
  BY <1>1, SigmaSplit
<1>3. Sigma(f, S \ {x}) = 0
  <2>1. IsFiniteSet(S \ {x})
    BY FS_Subset DEF Summable
  <2>2. QED
    BY <1>1, <2>1, SigmaZero
<1>4. Sigma(f, {x}) = f[x]
  <2>1. Sigma(f, {} \cup {x}) = f[x] + Sigma(f, {})
    BY SigmaStep
  <2>2. {} \cup {x} = {x}
    OBVIOUS
  <2>3. f[x] \in Int
    BY DEF Summable
  <2> QED
    BY <2>1, <2>2, <2>3, SigmaEmpty
<1>5. f[x] \in Int
  BY DEF Summable
<1>6. QED
  BY <1>2, <1>3, <1>4, <1>5

----------------------------------------------------------------------------
(* The input of procurement.                                               *)

GoodCase(c) ==
    Accepts(c.twin) /\ HasCaseFigures(c) /\ IsWhole(c) /\ HasFirstWays(c)

LEMMA CaseIs ==
    ASSUME NEW c, GoodCase(c)
    PROVE  /\ Sound(c.twin) /\ Lawful(c.effects) /\ c.days \in Nat
           /\ IsFiniteSet(Refineries(c.twin)) /\ IsFiniteSet(Flows(c.twin))
<1>1. Sound(c.twin) /\ Lawful(c.effects) /\ c.days \in Nat
  BY DEF GoodCase, HasCaseFigures, Sound, Lawful
<1>2. QED
  BY <1>1, RefineriesAreFinite, FlowsAreFinite

LEMMA RunIs ==
    ASSUME NEW c, GoodCase(c)
    PROVE  /\ \A x \in Refineries(c.twin) :
                 /\ c.twin.nodes[x].demand \in Nat
                 /\ Run(c).short[x] \in Nat
                 /\ Run(c).short[x] <= 100 * c.twin.nodes[x].demand
           /\ \A r \in DOMAIN c.twin.routes :
                 /\ c.twin.routes[r].capacity \in Nat
                 /\ Run(c).capacity[r] \in Nat
                 /\ Run(c).capacity[r] <= 100 * c.twin.routes[r].capacity
<1> DEFINE n == c.twin
           E == c.effects
<1>1. Sound(n) /\ Lawful(E)
  BY CaseIs
<1>2. Nothing \in Stocks(n)
  <2>1. Nothing \in [{} -> Nat] /\ {} \in SUBSET Refineries(n)
    BY DEF Nothing
  <2>2. QED
    BY <2>1 DEF Stocks
<1>3. Run(c) = DayOf(n, E, Nothing)
  BY DEF Run
<1> HIDE DEF n, E
<1>4. /\ Run(c).short = [x \in Refineries(n) |-> Demand(n, x) - Using(n, E, Nothing)[x]]
      /\ Run(c).capacity = [r \in DOMAIN n.routes |-> RouteCapacity(n, r, E)]
  BY <1>1, <1>3, DayIs
<1>5. ASSUME NEW x \in Refineries(n)
      PROVE  /\ n.nodes[x].demand \in Nat /\ Run(c).short[x] \in Nat
             /\ Run(c).short[x] <= 100 * n.nodes[x].demand
  <2>1. n.nodes[x].demand \in Nat
    BY <1>1, RefineryIs
  <2>2. /\ Using(n, E, Nothing)[x] \in Nat
        /\ Using(n, E, Nothing)[x] <= Demand(n, x)
    BY <1>1, <1>2, UsingIs
  <2>3. Run(c).short[x] = Demand(n, x) - Using(n, E, Nothing)[x]
    BY <1>4
  <2>4. QED
    BY <2>1, <2>2, <2>3 DEF Demand
<1>6. ASSUME NEW r \in DOMAIN n.routes
      PROVE  /\ n.routes[r].capacity \in Nat /\ Run(c).capacity[r] \in Nat
             /\ Run(c).capacity[r] <= 100 * n.routes[r].capacity
  <2> DEFINE left == Left({e \in E : ReachesRoute(n, e, r)})
  <2>1. n.routes[r].capacity \in Nat
    BY <1>1 DEF Sound, HasFigures
  <2>2. left \in 0 .. 100
    BY <1>1, LeftIs DEF Lawful
  <2>3. Run(c).capacity[r] = n.routes[r].capacity * left
    BY <1>4 DEF RouteCapacity
  <2> HIDE DEF left
  <2>4. left \in Nat /\ 100 \in Nat /\ left <= 100
    BY <2>2
  <2>5. QED
    BY <2>1, <2>3, <2>4, ProductsGrow
<1>7. QED
  BY <1>5, <1>6 DEF n

LEMMA DemandIs ==
    ASSUME NEW c, GoodCase(c)
    PROVE  LET demand == ProcurementInput(c).demand IN
           /\ demand \in [Refineries(c.twin) -> Nat]
           /\ \A x \in Refineries(c.twin) :
                 /\ 100 * demand[x] = Run(c).short[x] * c.days
                 /\ demand[x] <= c.twin.nodes[x].demand * c.days
<1> DEFINE demand == ProcurementInput(c).demand
<1>1. demand = [x \in Refineries(c.twin) |-> (Run(c).short[x] * c.days) \div 100]
  BY DEF ProcurementInput
<1>2. ASSUME NEW x \in Refineries(c.twin)
      PROVE  /\ demand[x] \in Nat
             /\ 100 * demand[x] = Run(c).short[x] * c.days
             /\ demand[x] <= c.twin.nodes[x].demand * c.days
  <2> DEFINE full == c.twin.nodes[x].demand
             short == Run(c).short[x]
             span == c.days
  <2>1. short \in Nat /\ full \in Nat /\ short <= 100 * full /\ span \in Nat
    BY RunIs, CaseIs
  <2>2. (short * span) % 100 = 0 /\ demand[x] = (short * span) \div 100
    BY <1>1 DEF GoodCase, IsWhole
  <2> HIDE DEF full, short, span, demand
  <2>3. short * span \in Nat /\ full * span \in Nat
    BY <2>1
  <2>4. demand[x] \in Nat /\ 100 * demand[x] = short * span
    BY <2>2, <2>3, Hundredths
  <2>5. short * span <= (100 * full) * span
    BY <2>1, ProductsGrow
  <2>6. (100 * full) * span = 100 * (full * span)
    BY <2>1
  <2>7. demand[x] <= full * span
    BY <2>3, <2>4, <2>5, <2>6
  <2>8. QED
    BY <2>4, <2>7 DEF full, short, span
<1>3. QED
  BY <1>1, <1>2

\* What the planners know of an option.
OptionFacts(c, k, o) ==
    LET n == c.twin IN
    /\ o.capacity \in Nat /\ o.offered = c.goods[k].offered /\ o.offered \in Nat
    /\ o.receiving \in Nat
    /\ o.refinery = k[4] /\ k[4] \in Refineries(n)
    /\ DOMAIN o.segments \subseteq {r \in DOMAIN n.routes : n.routes[r].available}
    /\ \A r \in DOMAIN o.segments :
          /\ o.segments[r] \in Nat /\ o.segments[r] <= n.routes[r].capacity * c.days
          /\ (\E f \in OnRoute(n, r) : f[1].supplier = k[1] /\ f[1].grade = k[2])
                => 100 * o.segments[r] <= Run(c).capacity[r] * c.days
    /\ o.until <= c.days
    /\ o.cost = LandedCost(c.goods[k])
    /\ {o.cost, o.transit, o.distance, o.penalty, o.emissions} \subseteq Nat
    /\ o.permitted => ~n.grades[k[2]].sanctioned
    /\ Allowed(n, k[2], k[4])

LEMMA SegmentIs ==
    ASSUME NEW c, GoodCase(c), NEW f, NEW r \in DOMAIN c.twin.routes
    PROVE  /\ SegmentCapacity(c, f, r) \in Nat
           /\ SegmentCapacity(c, f, r) <= c.twin.routes[r].capacity * c.days
           /\ Uses(c.twin, f, r) =>
                 100 * SegmentCapacity(c, f, r) <= Run(c).capacity[r] * c.days
<1> DEFINE whole == c.twin.routes[r].capacity
           left == Run(c).capacity[r]
           span == c.days
<1>1. whole \in Nat /\ left \in Nat /\ left <= 100 * whole /\ span \in Nat
  BY RunIs, CaseIs
<1>2. SegmentCapacity(c, f, r) =
         IF Uses(c.twin, f, r) THEN (left * span) \div 100 ELSE whole * span
  BY DEF SegmentCapacity
<1> HIDE DEF whole, left, span
<1>3. left * span \in Nat /\ whole * span \in Nat
  BY <1>1
<1>4. left * span <= 100 * (whole * span)
  <2>1. left * span <= (100 * whole) * span
    BY <1>1, ProductsGrow
  <2>2. QED
    BY <1>1, <2>1
<1>5. /\ (left * span) \div 100 \in Nat
      /\ 100 * ((left * span) \div 100) <= left * span
  BY <1>3, Hundredths
<1>6. (left * span) \div 100 <= whole * span
  BY <1>3, <1>4, <1>5
<1>7. QED
  BY <1>2, <1>3, <1>5, <1>6 DEF whole, left, span

LEMMA WayIs ==
    ASSUME NEW c, GoodCase(c), NEW f \in Candidates(c)
    PROVE  /\ WayFor(c.twin, f) \subseteq
                 {r \in DOMAIN c.twin.routes : c.twin.routes[r].available}
           /\ IsFiniteSet(WayFor(c.twin, f))
<1> DEFINE n == c.twin
           open == {r \in DOMAIN n.routes : n.routes[r].available}
<1>1. WayFor(n, f) \in Ways(n, f)
  BY DEF GoodCase, HasFirstWays
<1>2. WayFor(n, f) \in SUBSET open
  BY <1>1, Zenon DEF Ways
<1>3. IsFiniteSet(DOMAIN n.routes)
  BY DEF GoodCase, HasCaseFigures, HasFigures
<1>4. open \subseteq DOMAIN n.routes
  OBVIOUS
<1> HIDE DEF n
<1>5. IsFiniteSet(WayFor(n, f))
  BY <1>2, <1>3, <1>4, FS_Subset
<1>6. QED
  BY <1>2, <1>5 DEF n

LEMMA CandidateIs ==
    ASSUME NEW c, GoodCase(c), NEW f \in Candidates(c)
    PROVE  OptionFacts(c, Key(c.twin, f), Option(c, f))
<1> DEFINE n == c.twin
           k == Key(n, f)
           g == c.goods[k]
           x == n.routes[f[2]].to
           way == WayFor(n, f)
           part == [r \in way |-> SegmentCapacity(c, f, r)]
           transit == [r \in way |-> n.routes[r].transit]
           distance == [r \in way |-> n.routes[r].distance]
           o == Option(c, f)
<1>1. /\ f \in Flows(n) /\ x \in Refineries(n) /\ Allowed(n, f[1].grade, x)
      /\ k \in DOMAIN c.goods
  BY DEF Candidates, Eligible
<1>2. k[1] = f[1].supplier /\ k[2] = f[1].grade /\ k[4] = x
  BY DEF Key
<1>3. way \subseteq {r \in DOMAIN n.routes : n.routes[r].available} /\ IsFiniteSet(way)
  BY WayIs
<1>4. {g.capacity, g.offered, g.base, g.penalty, g.emissions} \subseteq Nat
  BY <1>1 DEF GoodCase, HasCaseFigures
<1>5. /\ o.capacity = g.capacity /\ o.offered = g.offered
      /\ o.receiving = IF n.nodes[x].capacity = Absent THEN g.capacity
                       ELSE n.nodes[x].capacity * c.days
      /\ o.refinery = x /\ o.segments = part
      /\ o.transit = Total(transit) /\ o.until = Min({c.days, Total(transit)})
      /\ o.distance = Total(distance)
      /\ o.cost = LandedCost(g) /\ o.penalty = g.penalty /\ o.emissions = g.emissions
      /\ o.permitted = ~n.grades[f[1].grade].sanctioned
  BY DEF Option
<1> HIDE DEF o, k, g, x
<1>6. o.receiving \in Nat
  <2>1. x \in DOMAIN n.nodes /\ c.days \in Nat
    BY <1>1, CaseIs DEF Refineries, OfKind
  <2>2. n.nodes[x].capacity # Absent => n.nodes[x].capacity \in Nat
    BY <2>1, CaseIs DEF Sound, HasFigures
  <2>3. QED
    BY <1>4, <1>5, <2>1, <2>2
<1>7. Total(transit) \in Nat /\ Total(distance) \in Nat
  <2>1. \A r \in way : n.routes[r].transit \in Nat /\ n.routes[r].distance \in Nat
    BY <1>3 DEF GoodCase, HasCaseFigures
  <2> HIDE DEF way, n
  <2>2. /\ \A r \in way : transit[r] \in Nat /\ distance[r] \in Nat
        /\ Total(transit) = Sigma(transit, way) /\ Total(distance) = Sigma(distance, way)
    BY <2>1 DEF Sigma
  <2> HIDE DEF transit, distance
  <2>3. QED
    BY <1>3, <2>2, SigmaNat
<1> HIDE DEF transit, distance
<1>8. o.until <= c.days
  <2>1. c.days \in Int
    BY CaseIs
  <2>2. QED
    BY <1>5, <1>7, <2>1, MinOfTwo
<1>9. ASSUME NEW r \in way
      PROVE  /\ part[r] \in Nat /\ part[r] <= n.routes[r].capacity * c.days
             /\ (\E h \in OnRoute(n, r) : h[1].supplier = k[1] /\ h[1].grade = k[2])
                   => 100 * part[r] <= Run(c).capacity[r] * c.days
  <2>1. r \in DOMAIN n.routes /\ part[r] = SegmentCapacity(c, f, r)
    BY <1>3
  <2>2. (\E h \in OnRoute(n, r) : h[1].supplier = k[1] /\ h[1].grade = k[2])
           => Uses(n, f, r)
    BY <1>2 DEF OnRoute, Uses
  <2>3. QED
    BY <2>1, <2>2, SegmentIs
<1>10. LandedCost(g) \in Nat
  BY <1>4 DEF LandedCost
<1>11. /\ o.capacity \in Nat /\ o.offered = c.goods[k].offered /\ o.offered \in Nat
       /\ o.receiving \in Nat /\ o.refinery = k[4] /\ k[4] \in Refineries(n)
       /\ o.cost = LandedCost(c.goods[k])
       /\ {o.cost, o.transit, o.distance, o.penalty, o.emissions} \subseteq Nat
  BY <1>1, <1>2, <1>4, <1>5, <1>6, <1>7, <1>10 DEF g
<1>12. (o.permitted => ~n.grades[k[2]].sanctioned) /\ Allowed(n, k[2], k[4])
  BY <1>1, <1>2, <1>5, Zenon
<1>13. /\ DOMAIN o.segments = way
       /\ \A r \in way : o.segments[r] = part[r]
  BY <1>5
<1> HIDE DEF part, way
<1>14. OptionFacts(c, k, o)
  BY <1>3, <1>8, <1>9, <1>11, <1>12, <1>13 DEF OptionFacts
<1>15. QED
  BY <1>14 DEF k, o

LEMMA OptionsAre ==
    ASSUME NEW c, GoodCase(c)
    PROVE  LET options == ProcurementInput(c).options IN
           /\ IsFiniteSet(DOMAIN options)
           /\ DOMAIN options = {Key(c.twin, f) : f \in Candidates(c)}
           /\ \A k \in DOMAIN options : OptionFacts(c, k, options[k])
<1> DEFINE options == ProcurementInput(c).options
           K == {Key(c.twin, f) : f \in Candidates(c)}
           Of(k) == CHOOSE f \in Candidates(c) : Key(c.twin, f) = k
<1>1. options = [k \in K |-> Option(c, Of(k))]
  BY DEF ProcurementInput
<1>2. IsFiniteSet(K)
  <2>1. Candidates(c) \subseteq Flows(c.twin) /\ IsFiniteSet(Flows(c.twin))
    BY CaseIs DEF Candidates
  <2>2. IsFiniteSet(Candidates(c))
    BY <2>1, FS_Subset
  <2> DEFINE key == [f \in Candidates(c) |-> Key(c.twin, f)]
  <2>3. {key[f] : f \in Candidates(c)} = K
    OBVIOUS
  <2> HIDE DEF key, K
  <2>4. QED
    BY <2>2, <2>3, ImageIsFinite
<1>3. ASSUME NEW k \in K PROVE OptionFacts(c, k, options[k])
  <2>1. Of(k) \in Candidates(c) /\ Key(c.twin, Of(k)) = k
    BY <1>3
  <2>2. options[k] = Option(c, Of(k))
    BY <1>1
  <2> HIDE DEF Of, options, K
  <2>3. QED
    BY <2>1, <2>2, CandidateIs
<1>4. QED
  BY <1>1, <1>2, <1>3

----------------------------------------------------------------------------
(* What passes the checker can be carried out.                             *)

LEMMA BoughtIs ==
    ASSUME NEW K, IsFiniteSet(K), NEW q \in [K -> Nat], NEW ks \in SUBSET K
    PROVE  /\ Bought(q, ks) = Sigma(q, ks) /\ Bought(q, ks) \in Nat
           /\ Bought(q, ks) <= Total(q)
<1>1. Bought(q, ks) = Sigma(q, ks)
  BY DEF Bought, Sigma
<1>2. IsFiniteSet(ks) /\ \A k \in ks : q[k] \in Nat
  BY FS_Subset
<1>3. Sigma(q, ks) \in Nat
  BY <1>2, SigmaNat
<1>4. Total(q) = Sigma(q, K)
  BY TotalIsSigma
<1>5. Sigma(q, ks) <= Sigma(q, K)
  BY SigmaPart
<1>6. QED
  BY <1>1, <1>3, <1>4, <1>5

LEMMA SegmentLimitIs ==
    ASSUME NEW c, GoodCase(c), NEW r,
           NEW k \in Crossing(ProcurementInput(c), r)
    PROVE  SegmentLimit(ProcurementInput(c), r)
               <= ProcurementInput(c).options[k].segments[r]
<1> DEFINE in == ProcurementInput(c)
           T == {in.options[j].segments[r] : j \in Crossing(in, r)}
<1>1. \A j \in Crossing(in, r) : in.options[j].segments[r] \in Nat
  BY OptionsAre DEF Crossing, OptionFacts
<1>2. T \in SUBSET Nat /\ in.options[k].segments[r] \in T
  BY <1>1
<1>3. SegmentLimit(in, r) = Min(T)
  BY DEF SegmentLimit
<1> HIDE DEF T, in
<1>4. Min(T) <= in.options[k].segments[r]
  BY <1>2, LeastNatural
<1>5. QED
  BY <1>3, <1>4 DEF in

LEMMA CapIs ==
    ASSUME NEW c, GoodCase(c), NEW k \in DOMAIN ProcurementInput(c).options
    PROVE  Cap(ProcurementInput(c).options[k]) <= c.goods[k].offered
<1> DEFINE o == ProcurementInput(c).options[k]
           T == {o.capacity, o.offered, o.receiving} \cup {o.segments[r] : r \in DOMAIN o.segments}
<1>1. OptionFacts(c, k, o)
  BY OptionsAre
<1> HIDE DEF o
<1>2. T \in SUBSET Nat /\ o.offered \in T /\ o.offered = c.goods[k].offered
  BY <1>1 DEF OptionFacts
<1>3. Cap(o) = Min(T)
  BY DEF Cap
<1> HIDE DEF T
<1>4. Min(T) <= o.offered
  BY <1>2, LeastNatural
<1>5. QED
  BY <1>2, <1>3, <1>4 DEF o

\* A plan the checker has passed.
Checked(c, q, s) ==
    LET in == ProcurementInput(c) IN
    /\ q \in [DOMAIN in.options -> Nat] /\ s \in [DOMAIN in.demand -> Nat]
    /\ LimitsHold(in, q) /\ Reconciles(in, q, s)

LEMMA CrossingFits ==
    ASSUME NEW c, GoodCase(c), NEW q, NEW s, Checked(c, q, s), NEW r,
           Bought(q, Crossing(ProcurementInput(c), r)) > 0
    PROVE  LET bought == Bought(q, Crossing(ProcurementInput(c), r)) IN
           /\ r \in DOMAIN c.twin.routes /\ c.twin.routes[r].available
           /\ bought <= c.twin.routes[r].capacity * c.days
           /\ \A k \in Crossing(ProcurementInput(c), r) :
                 (\E f \in OnRoute(c.twin, r) : f[1].supplier = k[1] /\ f[1].grade = k[2])
                     => 100 * bought <= Run(c).capacity[r] * c.days
<1> DEFINE in == ProcurementInput(c)
           ks == Crossing(in, r)
           bought == Bought(q, ks)
<1>1. /\ IsFiniteSet(DOMAIN in.options) /\ \A k \in DOMAIN in.options :
                                              OptionFacts(c, k, in.options[k])
      /\ q \in [DOMAIN in.options -> Nat]
  BY OptionsAre DEF Checked
<1>2. ks \in SUBSET DOMAIN in.options /\ \A k \in ks : r \in DOMAIN in.options[k].segments
  BY DEF Crossing
<1>3. bought \in Nat /\ bought = Sigma(q, ks)
  BY <1>1, <1>2, BoughtIs
<1>4. bought > 0
  OBVIOUS
<1>5. PICK k0 \in ks : TRUE
  <2> HIDE DEF ks, bought
  <2>1. QED
    BY <1>3, <1>4, SigmaEmpty
<1>6. r \in Segments(in)
  BY <1>2, <1>5 DEF Segments
<1>7. bought <= SegmentLimit(in, r)
  BY <1>6 DEF Checked, LimitsHold, SharedLimitsHold
<1>8. \A k \in ks : SegmentLimit(in, r) <= in.options[k].segments[r]
  BY SegmentLimitIs
<1>9. ASSUME NEW k \in ks
      PROVE  /\ in.options[k].segments[r] \in Nat
             /\ r \in DOMAIN c.twin.routes /\ c.twin.routes[r].available
             /\ in.options[k].segments[r] <= c.twin.routes[r].capacity * c.days
             /\ (\E f \in OnRoute(c.twin, r) : f[1].supplier = k[1] /\ f[1].grade = k[2])
                   => 100 * in.options[k].segments[r] <= Run(c).capacity[r] * c.days
  <2>1. OptionFacts(c, k, in.options[k]) /\ r \in DOMAIN in.options[k].segments
    BY <1>1, <1>2
  <2> HIDE DEF in, ks
  <2>2. QED
    BY <2>1 DEF OptionFacts
<1>10. /\ c.twin.routes[r].capacity * c.days \in Nat
       /\ Run(c).capacity[r] * c.days \in Nat
  BY <1>5, <1>9, RunIs, CaseIs
<1>11. ASSUME NEW k \in ks PROVE bought <= in.options[k].segments[r]
  <2>1. SegmentLimit(in, r) \in Nat
    <3> DEFINE T == {in.options[j].segments[r] : j \in ks}
    <3>1. T \in SUBSET Nat /\ T # {} /\ SegmentLimit(in, r) = Min(T)
      BY <1>5, <1>9 DEF SegmentLimit
    <3> HIDE DEF T
    <3>2. QED
      BY <3>1, LeastNatural
  <2>2. /\ in.options[k].segments[r] \in Nat
        /\ SegmentLimit(in, r) <= in.options[k].segments[r]
    BY <1>8, <1>9
  <2> HIDE DEF bought, in
  <2>3. QED
    BY <1>3, <1>7, <2>1, <2>2
<1> HIDE DEF in, ks, bought
<1>12. bought <= c.twin.routes[r].capacity * c.days
  BY <1>3, <1>5, <1>9, <1>10, <1>11
<1>13. ASSUME NEW k \in ks,
              \E f \in OnRoute(c.twin, r) : f[1].supplier = k[1] /\ f[1].grade = k[2]
       PROVE  100 * bought <= Run(c).capacity[r] * c.days
  <2>1. /\ 100 * in.options[k].segments[r] <= Run(c).capacity[r] * c.days
        /\ in.options[k].segments[r] \in Nat
    BY <1>9, <1>13
  <2>2. QED
    BY <1>3, <1>10, <1>11, <2>1
<1>14. QED
  BY <1>5, <1>9, <1>12, <1>13 DEF in, ks, bought

LEMMA DeliveredIs ==
    ASSUME NEW c, GoodCase(c), NEW q, NEW s, Checked(c, q, s), NEW x \in Refineries(c.twin)
    PROVE  LET in == ProcurementInput(c) IN
           /\ Delivered(in, q, x) \in Nat /\ s[x] \in Nat /\ in.demand[x] \in Nat
           /\ Delivered(in, q, x) + s[x] = in.demand[x]
           /\ 100 * in.demand[x] = Run(c).short[x] * c.days
           /\ c.twin.nodes[x].capacity # Absent =>
                 /\ c.twin.nodes[x].capacity * c.days \in Nat
                 /\ in.demand[x] <= c.twin.nodes[x].capacity * c.days
<1> DEFINE in == ProcurementInput(c)
           n == c.twin
           full == n.nodes[x].demand
           most == n.nodes[x].capacity
           span == c.days
<1>1. /\ in.demand \in [Refineries(n) -> Nat]
      /\ 100 * in.demand[x] = Run(c).short[x] * span /\ in.demand[x] <= full * span
  BY DemandIs
<1>2. s[x] \in Nat /\ Delivered(in, q, x) + s[x] = in.demand[x]
  BY <1>1 DEF Checked, Reconciles
<1>3. Delivered(in, q, x) \in Nat
  <2>1. With(in, "refinery", x) \in SUBSET DOMAIN in.options
    BY DEF With
  <2>2. IsFiniteSet(DOMAIN in.options) /\ q \in [DOMAIN in.options -> Nat]
    BY OptionsAre DEF Checked
  <2>3. QED
    BY <2>1, <2>2, BoughtIs DEF Delivered
<1>4. ASSUME most # Absent PROVE most * span \in Nat /\ in.demand[x] <= most * span
  <2>1. x \in DOMAIN n.nodes /\ n.nodes[x].kind = "REFINERY"
    BY DEF Refineries, OfKind
  <2>2. HasFigures(n) /\ span \in Nat
    BY CaseIs DEF Sound
  <2>3. most \in Nat /\ full \in Nat /\ full <= most
    BY <1>4, <2>1, <2>2 DEF HasFigures
  <2> HIDE DEF full, most, span, in
  <2>4. full * span <= most * span /\ most * span \in Nat /\ full * span \in Nat
    BY <2>2, <2>3, ProductsGrow
  <2>5. in.demand[x] \in Nat
    BY <1>1
  <2>6. QED
    BY <1>1, <2>4, <2>5
<1> HIDE DEF in
<1>5. QED
  BY <1>1, <1>2, <1>3, <1>4 DEF in

LEMMA CheckedPlansAreDeliverable ==
    ASSUME GoodCase(case), problem = ProcurementInput(case), Checked(case, plan.q, plan.s)
    PROVE  PlansAreDeliverable
<1> DEFINE c == case
           n == case.twin
           q == plan.q
           s == plan.s
           in == ProcurementInput(c)
<1>0. problem = in /\ GoodCase(c) /\ Checked(c, q, s)
  OBVIOUS
<1>1. \A k \in DOMAIN in.options : OptionFacts(c, k, in.options[k])
  BY OptionsAre
<1>2. q \in [DOMAIN in.options -> Nat] /\ LimitsHold(in, q)
  BY DEF Checked
<1> HIDE DEF c, q, s
<1>3. ASSUME NEW r \in DOMAIN n.routes, Through(r) > 0
      PROVE  /\ n.routes[r].available
             /\ Through(r) <= n.routes[r].capacity * case.days
             /\ \A k \in Crossing(problem, r) :
                   (\E f \in OnRoute(n, r) : f[1].supplier = k[1] /\ f[1].grade = k[2])
                       => 100 * Through(r) <= Run(case).capacity[r] * case.days
  <2>1. Through(r) = Bought(q, Crossing(in, r))
    BY <1>0 DEF Through, q
  <2>2. QED
    BY <1>0, <1>3, <2>1, CrossingFits DEF c
<1>4. ASSUME NEW k \in DOMAIN q, q[k] > 0
      PROVE  /\ q[k] <= case.goods[k].offered
             /\ ~n.grades[k[2]].sanctioned /\ Allowed(n, k[2], k[4])
  <2>1. k \in DOMAIN in.options /\ q[k] \in Nat
    BY <1>2
  <2>2. /\ q[k] <= Cap(in.options[k])
        /\ ~in.options[k].permitted => q[k] = 0
    BY <1>2, <2>1 DEF LimitsHold, OptionLimitsHold
  <2>3. OptionFacts(c, k, in.options[k])
    BY <1>1, <2>1
  <2>4. in.options[k].permitted
    BY <1>4, <2>2
  <2> HIDE DEF in
  <2>5. ~n.grades[k[2]].sanctioned /\ Allowed(n, k[2], k[4])
    BY <2>3, <2>4, Zenon DEF OptionFacts, c
  <2>6. Cap(in.options[k]) <= case.goods[k].offered
    BY <1>0, <2>1, CapIs DEF c, in
  <2>7. Cap(in.options[k]) \in Nat /\ case.goods[k].offered \in Nat
    <3> DEFINE o == in.options[k]
               T == {o.capacity, o.offered, o.receiving}
                        \cup {o.segments[r] : r \in DOMAIN o.segments}
    <3>1. T \in SUBSET Nat /\ T # {} /\ Cap(o) = Min(T) /\ case.goods[k].offered \in Nat
      BY <2>3 DEF OptionFacts, Cap, c
    <3> HIDE DEF T
    <3>2. QED
      BY <3>1, LeastNatural
  <2>8. QED
    BY <2>1, <2>2, <2>5, <2>6, <2>7
<1>5. ASSUME NEW x \in Refineries(n)
      PROVE  /\ 100 * (Delivered(problem, q, x) + plan.s[x]) = Run(case).short[x] * case.days
             /\ n.nodes[x].capacity # Absent =>
                   Delivered(problem, q, x) <= n.nodes[x].capacity * case.days
  <2>1. /\ Delivered(in, q, x) \in Nat /\ s[x] \in Nat /\ in.demand[x] \in Nat
        /\ Delivered(in, q, x) + s[x] = in.demand[x]
        /\ 100 * in.demand[x] = Run(c).short[x] * c.days
        /\ n.nodes[x].capacity # Absent =>
              /\ n.nodes[x].capacity * c.days \in Nat
              /\ in.demand[x] <= n.nodes[x].capacity * c.days
    BY <1>0, DeliveredIs DEF c
  <2> HIDE DEF in
  <2>2. QED
    BY <1>0, <2>1 DEF c, s
<1>6. Total([k \in DOMAIN q |-> q[k] * LandedCost(case.goods[k])]) <= case.policy.budget
  <2>1. Spent(in, q) <= in.policy.budget
    BY <1>2 DEF LimitsHold, PolicyHolds
  <2>2. in.policy = case.policy
    BY DEF ProcurementInput, c
  <2>3. \A k \in DOMAIN in.options : in.options[k].cost = LandedCost(case.goods[k])
    BY <1>1 DEF OptionFacts, c
  <2> HIDE DEF in
  <2>4. [k \in DOMAIN in.options |-> q[k] * in.options[k].cost]
            = [k \in DOMAIN q |-> q[k] * LandedCost(case.goods[k])]
    BY <1>2, <2>3
  <2>5. QED
    BY <2>1, <2>2, <2>4 DEF Spent
<1>7. QED
  BY <1>3, <1>4, <1>5, <1>6 DEF PlansAreDeliverable, q

----------------------------------------------------------------------------
(* Buying nothing is a purchase.                                           *)

\* What an input of procurement is.
InputFacts(in) ==
    /\ IsFiniteSet(DOMAIN in.options) /\ IsFiniteSet(DOMAIN in.demand)
    /\ in.demand = [x \in DOMAIN in.demand |-> in.demand[x]]
    /\ \A x \in DOMAIN in.demand : in.demand[x] \in Nat
    /\ {in.policy.budget, in.policy.supplierShare, in.policy.corridorShare} \subseteq Nat
    /\ \A k \in DOMAIN in.options : LET o == in.options[k] IN
          /\ {o.capacity, o.offered, o.receiving, o.cost, o.transit, o.distance,
              o.penalty, o.emissions} \subseteq Nat
          /\ o.refinery \in DOMAIN in.demand
          /\ IsFiniteSet(DOMAIN o.segments) /\ DOMAIN o.segments # {}
          /\ \A r \in DOMAIN o.segments : o.segments[r] \in Nat
          /\ o.until <= in.days

LEMMA InputIs ==
    ASSUME NEW c, GoodCase(c)
    PROVE  InputFacts(ProcurementInput(c))
<1> DEFINE in == ProcurementInput(c)
<1>1. /\ in.demand \in [Refineries(c.twin) -> Nat] /\ IsFiniteSet(Refineries(c.twin))
  BY DemandIs, CaseIs
<1>2. {in.policy.budget, in.policy.supplierShare, in.policy.corridorShare} \subseteq Nat
  <2>1. in.policy = c.policy
    BY DEF ProcurementInput
  <2>2. QED
    BY <2>1 DEF GoodCase, HasCaseFigures
<1>3. in.days = c.days
  BY DEF ProcurementInput
<1>4. IsFiniteSet(DOMAIN c.twin.routes)
  BY DEF GoodCase, HasCaseFigures, HasFigures
<1>5. ASSUME NEW k \in DOMAIN in.options
      PROVE  DOMAIN in.options[k].segments # {}
  <2> DEFINE K == {Key(c.twin, f) : f \in Candidates(c)}
             Of(j) == CHOOSE f \in Candidates(c) : Key(c.twin, f) = j
  <2>1. in.options = [j \in K |-> Option(c, Of(j))]
    BY DEF ProcurementInput
  <2>2. k \in K
    BY <2>1
  <2>3. Of(k) \in Candidates(c)
    BY <2>2
  <2>4. in.options[k] = Option(c, Of(k))
    BY <2>1, <2>2
  <2> HIDE DEF K, Of, in
  <2>5. WayFor(c.twin, Of(k)) \in Ways(c.twin, Of(k))
    BY <2>3 DEF GoodCase, HasFirstWays
  <2>6. Of(k)[2] \in WayFor(c.twin, Of(k))
    BY <2>5, Zenon DEF Ways
  <2>7. DOMAIN in.options[k].segments = WayFor(c.twin, Of(k))
    <3> DEFINE f == Of(k)
               part == [r \in WayFor(c.twin, f) |-> SegmentCapacity(c, f, r)]
               o == Option(c, f)
    <3> HIDE DEF f
    <3>1. o.segments = part
      BY DEF Option
    <3>2. in.options[k] = o
      BY <2>4 DEF f
    <3> HIDE DEF o
    <3>3. DOMAIN in.options[k].segments = WayFor(c.twin, f)
      BY <3>1, <3>2
    <3>4. QED
      BY <3>3 DEF f
  <2>8. QED
    BY <2>6, <2>7
<1>6. ASSUME NEW k \in DOMAIN in.options
      PROVE  LET o == in.options[k] IN
             /\ {o.capacity, o.offered, o.receiving, o.cost, o.transit, o.distance,
                 o.penalty, o.emissions} \subseteq Nat
             /\ o.refinery \in DOMAIN in.demand
             /\ IsFiniteSet(DOMAIN o.segments)
             /\ \A r \in DOMAIN o.segments : o.segments[r] \in Nat
             /\ o.until <= in.days
  <2>1. OptionFacts(c, k, in.options[k])
    BY OptionsAre
  <2>2. DOMAIN in.options[k].segments \subseteq DOMAIN c.twin.routes
    BY <2>1 DEF OptionFacts
  <2>3. IsFiniteSet(DOMAIN in.options[k].segments)
    BY <1>4, <2>2, FS_Subset
  <2>4. DOMAIN in.demand = Refineries(c.twin)
    BY <1>1
  <2> HIDE DEF in
  <2>5. QED
    BY <1>3, <2>1, <2>3, <2>4 DEF OptionFacts
<1>7. IsFiniteSet(DOMAIN in.options)
  BY OptionsAre
<1>8. /\ IsFiniteSet(DOMAIN in.demand)
      /\ in.demand = [x \in DOMAIN in.demand |-> in.demand[x]]
      /\ \A x \in DOMAIN in.demand : in.demand[x] \in Nat
  BY <1>1
<1> HIDE DEF in
<1>9. InputFacts(in)
  BY <1>2, <1>5, <1>6, <1>7, <1>8 DEF InputFacts
<1>10. QED
  BY <1>9 DEF in

\* A purchase of nothing but what the solver may choose from.
NoPurchase(in) == [k \in DOMAIN in.options |-> 0]

LEMMA NothingBought ==
    ASSUME NEW in, InputFacts(in), NEW ks \in SUBSET DOMAIN in.options
    PROVE  Bought(NoPurchase(in), ks) = 0
<1> DEFINE q == NoPurchase(in)
<1>1. q \in [DOMAIN in.options -> Nat] /\ \A k \in ks : q[k] = 0
  BY DEF NoPurchase
<1>2. IsFiniteSet(ks)
  BY FS_Subset DEF InputFacts
<1> HIDE DEF q
<1>3. Bought(q, ks) = Sigma(q, ks)
  BY DEF Bought, Sigma
<1>4. Sigma(q, ks) = 0
  BY <1>1, <1>2, SigmaZero
<1>5. QED
  BY <1>3, <1>4 DEF q

LEMMA NoPurchaseIsSolvable ==
    ASSUME NEW in, InputFacts(in)
    PROVE  Solvable(in, NoPurchase(in))
<1> DEFINE q == NoPurchase(in)
           K == DOMAIN in.options
<1>0. IsFiniteSet(K) /\ q = [k \in K |-> 0]
  BY DEF InputFacts, NoPurchase
<1>1. \A ks \in SUBSET K : Bought(q, ks) = 0
  BY NothingBought
<1>2. /\ \A field, v : With(in, field, v) \in SUBSET K
      /\ \A r : Crossing(in, r) \in SUBSET K
  BY DEF With, Crossing
<1> HIDE DEF q
<1>3. OptionLimitsHold(in, q)
  <2> SUFFICES ASSUME NEW k \in K PROVE q[k] = 0 /\ 0 <= Cap(in.options[k])
    BY <1>0 DEF OptionLimitsHold
  <2> DEFINE o == in.options[k]
             T == {o.capacity, o.offered, o.receiving} \cup {o.segments[r] : r \in DOMAIN o.segments}
  <2>1. T \in SUBSET Nat /\ T # {} /\ Cap(o) = Min(T)
    BY DEF InputFacts, Cap
  <2> HIDE DEF T
  <2>2. Cap(o) \in Nat
    BY <2>1, LeastNatural
  <2>3. QED
    BY <1>0, <2>2
<1>4. SharedLimitsHold(in, q)
  <2>1. ASSUME NEW field, NEW v \in Values(in, field)
        PROVE  \E k \in K : k \in With(in, field, v)
    BY <2>1 DEF Values, With
  <2>2. ASSUME NEW v \in Values(in, "supplier") PROVE 0 <= SupplierLimit(in, v)
    <3> DEFINE ks == With(in, "supplier", v)
               f == [k \in K |-> in.options[k].capacity]
               T == {f[k] : k \in ks}
    <3>1. SupplierLimit(in, v) = Max({in.options[k].capacity : k \in ks})
      BY DEF SupplierLimit
    <3>2. T = {in.options[k].capacity : k \in ks}
      BY <1>2
    <3>3. IsFiniteSet(ks)
      BY <1>0, <1>2, FS_Subset
    <3>4. T # {} /\ \A y \in T : y \in Nat
      BY <1>2, <2>1 DEF InputFacts
    <3> HIDE DEF f, ks
    <3>5. IsFiniteSet(T)
      BY <3>3, ImageIsFinite
    <3> HIDE DEF T
    <3>6. Max(T) \in Nat
      BY <3>4, <3>5, GreatestOfFinite
    <3>7. QED
      BY <3>1, <3>2, <3>6
  <2>3. ASSUME NEW v \in Values(in, "refinery") PROVE 0 <= RefineryLimit(in, v)
    <3> DEFINE ks == With(in, "refinery", v)
               f == [k \in K |-> in.options[k].receiving]
               T == {f[k] : k \in ks}
    <3>1. RefineryLimit(in, v) = Max({in.options[k].receiving : k \in ks})
      BY DEF RefineryLimit
    <3>2. T = {in.options[k].receiving : k \in ks}
      BY <1>2
    <3>3. IsFiniteSet(ks)
      BY <1>0, <1>2, FS_Subset
    <3>4. T # {} /\ \A y \in T : y \in Nat
      BY <1>2, <2>1 DEF InputFacts
    <3> HIDE DEF f, ks
    <3>5. IsFiniteSet(T)
      BY <3>3, ImageIsFinite
    <3> HIDE DEF T
    <3>6. Max(T) \in Nat
      BY <3>4, <3>5, GreatestOfFinite
    <3>7. QED
      BY <3>1, <3>2, <3>6
  <2>4. ASSUME NEW r \in Segments(in) PROVE 0 <= SegmentLimit(in, r)
    <3> DEFINE T == {in.options[k].segments[r] : k \in Crossing(in, r)}
    <3>1. PICK k \in K : r \in DOMAIN in.options[k].segments
      BY <2>4 DEF Segments
    <3>2. T \in SUBSET Nat
      BY DEF Crossing, InputFacts
    <3>3. k \in Crossing(in, r)
      BY <3>1 DEF Crossing
    <3>4. T # {} /\ SegmentLimit(in, r) = Min(T)
      BY <3>3 DEF SegmentLimit
    <3> HIDE DEF T
    <3>5. Min(T) \in Nat
      BY <3>2, <3>4, LeastNatural
    <3>6. QED
      BY <3>4, <3>5
  <2>5. ASSUME NEW field, NEW v \in Values(in, field) PROVE 0 <= PortLimit(in, field, v)
    <3> DEFINE ks == With(in, field, v)
               f == [k \in K |-> {in.options[k].segments[r] : r \in DOMAIN in.options[k].segments}]
               U == {f[k] : k \in ks}
               T == UNION U
    <3>1. U = {{in.options[k].segments[r] : r \in DOMAIN in.options[k].segments} : k \in ks}
      BY <1>2
    <3>2. PortLimit(in, field, v) = Max(T)
      BY <3>1 DEF PortLimit
    <3>3. \A k \in K : IsFiniteSet(f[k]) /\ f[k] # {} /\ \A y \in f[k] : y \in Nat
      <4> SUFFICES ASSUME NEW k \in K
                   PROVE  LET S == {in.options[k].segments[r] : r \in DOMAIN in.options[k].segments}
                          IN  IsFiniteSet(S) /\ S # {} /\ \A y \in S : y \in Nat
        OBVIOUS
      <4>1. /\ IsFiniteSet(DOMAIN in.options[k].segments) /\ DOMAIN in.options[k].segments # {}
            /\ \A r \in DOMAIN in.options[k].segments : in.options[k].segments[r] \in Nat
        BY DEF InputFacts
      <4>2. IsFiniteSet({in.options[k].segments[r] : r \in DOMAIN in.options[k].segments})
        BY <4>1, ImageIsFinite
      <4>3. QED
        BY <4>1, <4>2
    <3>4. IsFiniteSet(ks)
      BY <1>0, <1>2, FS_Subset
    <3>5. PICK j \in K : j \in ks
      BY <2>1, <2>5
    <3> HIDE DEF f
    <3>6. \A y \in T : y \in Nat
      BY <1>2, <3>3
    <3>7. T # {}
      BY <1>2, <3>3, <3>5
    <3> HIDE DEF ks
    <3>8. IsFiniteSet(U)
      BY <3>4, ImageIsFinite
    <3>9. \A S \in U : IsFiniteSet(S)
      BY <1>2, <3>3 DEF ks
    <3> HIDE DEF U
    <3>10. IsFiniteSet(T)
      BY <3>8, <3>9, FS_UNION
    <3> HIDE DEF T
    <3>11. Max(T) \in Nat
      BY <3>6, <3>7, <3>10, GreatestOfFinite
    <3>12. QED
      BY <3>2, <3>11
  <2>6. \A field : Ports(in, field) \subseteq Values(in, field)
    BY DEF Ports
  <2> HIDE DEF K
  <2>7. QED
    BY <1>1, <1>2, <2>2, <2>3, <2>4, <2>5, <2>6 DEF SharedLimitsHold
<1>5. Total(in.demand) \in Nat
  <2>1. Total(in.demand) = Sigma(in.demand, DOMAIN in.demand)
    BY TotalIsSigma DEF InputFacts
  <2>2. QED
    BY <2>1, SigmaNat DEF InputFacts
<1>6. Spent(in, q) = 0
  <2> DEFINE f == [k \in K |-> q[k] * in.options[k].cost]
  <2>1. \A k \in K : f[k] = 0
    BY <1>0 DEF InputFacts
  <2>2. Spent(in, q) = Sigma(f, K)
    BY DEF Spent, Sigma
  <2> HIDE DEF f, K
  <2>3. Sigma(f, K) = 0
    BY <1>0, <2>1, SigmaZero
  <2>4. QED
    BY <2>2, <2>3
<1>7. PolicyHolds(in, q, Total(in.demand))
  <2>1. /\ in.policy.supplierShare * Total(in.demand) \in Nat
        /\ in.policy.corridorShare * Total(in.demand) \in Nat
        /\ in.policy.budget \in Nat
    BY <1>5 DEF InputFacts
  <2> HIDE DEF K
  <2>2. QED
    BY <1>1, <1>2, <1>6, <2>1 DEF PolicyHolds
<1>8. \A x \in DOMAIN in.demand : Delivered(in, q, x) <= in.demand[x]
  BY <1>1, <1>2 DEF InputFacts, Delivered
<1>9. Solvable(in, q)
  BY <1>3, <1>4, <1>7, <1>8 DEF Solvable
<1>10. QED
  BY <1>9 DEF q

----------------------------------------------------------------------------
(* What a purchase comes to.                                               *)

\* The crude a purchase delivers and the crude that is short add up.
LEMMA PurchaseIs ==
    ASSUME NEW in, InputFacts(in), NEW q \in [DOMAIN in.options -> Nat],
           \A x \in DOMAIN in.demand : Delivered(in, q, x) <= in.demand[x]
    PROVE  /\ Total(q) \in Nat /\ Total(in.demand) \in Nat /\ Total(q) <= Total(in.demand)
           /\ Total(Shortage(in, q)) = Total(in.demand) - Total(q)
           /\ Shortage(in, q) \in [DOMAIN in.demand -> Nat]
<1> DEFINE K == DOMAIN in.options
           X == DOMAIN in.demand
           m == [k \in K |-> in.options[k].refinery]
           part == [x \in X |-> With(in, "refinery", x)]
           h == [x \in X |-> Delivered(in, q, x)]
           s == Shortage(in, q)
           d == in.demand
<1>1. /\ IsFiniteSet(K) /\ IsFiniteSet(X) /\ \A x \in X : d[x] \in Nat
      /\ m \in [K -> X] /\ d = [x \in X |-> d[x]]
  BY DEF InputFacts
<1>2. \A k \in K : q[k] \in Nat
  OBVIOUS
<1>3. \A x \in X : part[x] = {k \in K : m[k] = x} /\ h[x] = Sigma(q, part[x])
  <2> SUFFICES ASSUME NEW x \in X
               PROVE  part[x] = {k \in K : m[k] = x} /\ h[x] = Sigma(q, part[x])
    OBVIOUS
  <2>1. With(in, "refinery", x) = {k \in K : m[k] = x}
    BY DEF With
  <2>2. h[x] = Bought(q, With(in, "refinery", x))
    BY DEF Delivered
  <2>3. With(in, "refinery", x) \in SUBSET K
    BY DEF With
  <2>4. Bought(q, With(in, "refinery", x)) = Sigma(q, With(in, "refinery", x))
    BY <1>1, <2>3, BoughtIs
  <2>5. part[x] = With(in, "refinery", x)
    OBVIOUS
  <2> HIDE DEF part, h, m
  <2>6. QED
    BY <2>1, <2>2, <2>4, <2>5
<1>4. \A x \in X : /\ Delivered(in, q, x) \in Nat /\ h[x] \in Nat
                    /\ s[x] = d[x] - h[x] /\ h[x] <= d[x]
                    /\ d[x] - Delivered(in, q, x) \in Nat
  <2> SUFFICES ASSUME NEW x \in X
               PROVE  /\ Delivered(in, q, x) \in Nat /\ h[x] \in Nat
                      /\ s[x] = d[x] - h[x] /\ h[x] <= d[x]
                      /\ d[x] - Delivered(in, q, x) \in Nat
    OBVIOUS
  <2>1. With(in, "refinery", x) \in SUBSET K
    BY DEF With
  <2>2. h[x] \in Nat
    BY <1>1, <2>1, BoughtIs DEF Delivered
  <2>3. d[x] \in Nat /\ Delivered(in, q, x) <= d[x]
    BY <1>1
  <2>4. QED
    BY <2>2, <2>3 DEF Shortage
<1>5. s \in [X -> Nat]
  <2>1. s = [x \in X |-> d[x] - Delivered(in, q, x)]
    BY DEF Shortage
  <2>2. \A x \in X : d[x] - Delivered(in, q, x) \in Nat
    BY <1>4
  <2>3. QED
    BY <2>1, <2>2
<1>6. Total(q) = Sigma(q, K) /\ Total(d) = Sigma(d, X) /\ Total(s) = Sigma(s, X)
  BY <1>1, <1>5, TotalIsSigma
<1> HIDE DEF m, part, h, s, d, K, X
<1>7. Summable(q, K) /\ Summable(h, X) /\ Summable(s, X) /\ Summable(d, X)
  BY <1>1, <1>2, <1>4, <1>5 DEF Summable
<1>8. Sigma(q, K) = Sigma(h, X)
  BY <1>1, <1>3, <1>7, SigmaFibers
<1>9. \A x \in X : d[x] = s[x] + h[x]
  BY <1>1, <1>4
<1>10. Sigma(d, X) = Sigma(s, X) + Sigma(h, X)
  BY <1>7, <1>9, SigmaPlus
<1>11. Sigma(q, K) \in Nat /\ Sigma(d, X) \in Nat /\ Sigma(s, X) \in Nat
  BY <1>1, <1>2, <1>5, SigmaNat
<1>12. Total(q) \in Nat /\ Total(d) \in Nat /\ Total(q) <= Total(d) /\ Total(s) = Total(d) - Total(q)
  BY <1>6, <1>8, <1>10, <1>11
<1>13. QED
  BY <1>5, <1>12 DEF s, d, X

LEMMA PeakIs ==
    ASSUME NEW in, InputFacts(in), DOMAIN in.options # {}, NEW q \in [DOMAIN in.options -> Nat],
           NEW field
    PROVE  PeakOf(in, q, field) \in Nat /\ PeakOf(in, q, field) <= Total(q)
<1> DEFINE K == DOMAIN in.options
           T == {Bought(q, With(in, field, v)) : v \in Values(in, field)}
<1>1. IsFiniteSet(K)
  BY DEF InputFacts
<1>2. \A v : With(in, field, v) \in SUBSET K
  BY DEF With
<1>3. K \in SUBSET K
  OBVIOUS
<1>4. Total(q) \in Nat
  <2>1. Total(q) = Sigma(q, K)
    BY TotalIsSigma
  <2>2. \A k \in K : q[k] \in Nat
    OBVIOUS
  <2> HIDE DEF K
  <2>3. QED
    BY <1>1, <2>1, <2>2, SigmaNat
<1>5. \A v : Bought(q, With(in, field, v)) \in Nat /\ Bought(q, With(in, field, v)) <= Total(q)
  BY <1>1, <1>2, BoughtIs
<1>6. T \in SUBSET (0 .. Total(q))
  BY <1>4, <1>5
<1>7. T # {}
  <2>1. PICK k \in K : TRUE
    OBVIOUS
  <2>2. in.options[k][field] \in Values(in, field)
    BY DEF Values
  <2>3. QED
    BY <2>2
<1>8. PeakOf(in, q, field) = Max(T)
  BY DEF PeakOf
<1> HIDE DEF T
<1>9. Max(T) \in T
  BY <1>4, <1>6, <1>7, GreatestNatural
<1>10. Max(T) \in 0 .. Total(q)
  BY <1>6, <1>9
<1>11. QED
  BY <1>4, <1>8, <1>10

LEMMA WeightsAre ==
    ASSUME NEW profile \in DOMAIN Weights
    PROVE  LET w == Weights[profile] IN
           {w.cost, w.shortage, w.delay, w.risk, w.concentration, w.penalty, w.emissions}
               \subseteq Nat
BY DEF Weights, Weight

LEMMA ChargeIs ==
    ASSUME NEW in, InputFacts(in), NEW profile \in DOMAIN Weights, NEW k \in DOMAIN in.options
    PROVE  Charge(in, Weights[profile], k) \in Nat
<1> DEFINE w == Weights[profile]
           o == in.options[k]
<1>1. {w.cost, w.delay, w.risk, w.penalty, w.emissions} \subseteq Nat
  BY WeightsAre
<1>2. {o.cost, o.transit, o.distance, o.penalty, o.emissions} \subseteq Nat
  BY DEF InputFacts
<1>3. Charge(in, w, k) = w.cost * o.cost + w.delay * o.transit + w.risk * o.distance
                            + w.penalty * o.penalty + w.emissions * o.emissions
  BY DEF Charge
<1> HIDE DEF w, o
<1>4. /\ w.cost * o.cost \in Nat /\ w.delay * o.transit \in Nat /\ w.risk * o.distance \in Nat
      /\ w.penalty * o.penalty \in Nat /\ w.emissions * o.emissions \in Nat
  BY <1>1, <1>2, ProductsGrow
<1>5. QED
  BY <1>3, <1>4 DEF w

\* What the crude of a purchase costs in points, and what makes up its points.
Charged(in, w, q) == Total([k \in DOMAIN in.options |-> q[k] * Charge(in, w, k)])
Peaks(in, q) == PeakOf(in, q, "supplier") + PeakOf(in, q, "corridor")

LEMMA ChargedIs ==
    ASSUME NEW in, InputFacts(in), NEW profile \in DOMAIN Weights,
           NEW q \in [DOMAIN in.options -> Nat],
           NEW low \in Nat, NEW high \in Nat,
           \A k \in DOMAIN in.options :
               /\ low <= Charge(in, Weights[profile], k)
               /\ Charge(in, Weights[profile], k) <= high
    PROVE  /\ Charged(in, Weights[profile], q) \in Nat
           /\ low * Total(q) <= Charged(in, Weights[profile], q)
           /\ Charged(in, Weights[profile], q) <= high * Total(q)
<1> DEFINE K == DOMAIN in.options
           w == Weights[profile]
           f == [k \in K |-> q[k] * Charge(in, w, k)]
           l == [k \in K |-> low * q[k]]
           h == [k \in K |-> high * q[k]]
<1>1. IsFiniteSet(K)
  BY DEF InputFacts
<1>2. ASSUME NEW k \in K
      PROVE  f[k] \in Nat /\ l[k] \in Nat /\ h[k] \in Nat /\ l[k] <= f[k] /\ f[k] <= h[k]
  <2> DEFINE a == Charge(in, w, k)
  <2>1. a \in Nat /\ q[k] \in Nat /\ low <= a /\ a <= high
    BY ChargeIs
  <2>2. f[k] = q[k] * a /\ l[k] = low * q[k] /\ h[k] = high * q[k]
    OBVIOUS
  <2> HIDE DEF a, f, l, h
  <2>3. low * q[k] \in Nat /\ a * q[k] \in Nat /\ low * q[k] <= a * q[k]
    BY <2>1, ProductsGrow
  <2>4. high * q[k] \in Nat /\ a * q[k] <= high * q[k]
    BY <2>1, ProductsGrow
  <2>5. a * q[k] = q[k] * a
    BY <2>1
  <2>6. QED
    BY <2>2, <2>3, <2>4, <2>5
<1>3. \A k \in K : q[k] \in Nat /\ l[k] = low * q[k] /\ h[k] = high * q[k]
  OBVIOUS
<1>4. Total(q) = Sigma(q, K) /\ Charged(in, w, q) = Sigma(f, K)
  BY TotalIsSigma DEF Charged, Sigma
<1> HIDE DEF K, f, l, h, w
<1>5. Summable(f, K) /\ Summable(l, K) /\ Summable(h, K) /\ Summable(q, K)
  BY <1>1, <1>2, <1>3 DEF Summable
<1>6. Sigma(l, K) = low * Sigma(q, K) /\ Sigma(h, K) = high * Sigma(q, K)
  BY <1>3, <1>5, SigmaTimes
<1>7. Sigma(l, K) <= Sigma(f, K) /\ Sigma(f, K) <= Sigma(h, K)
  BY <1>2, <1>5, SigmaMonotone
<1>8. Sigma(f, K) \in Nat
  BY <1>1, <1>2, SigmaNat
<1>9. QED
  BY <1>4, <1>6, <1>7, <1>8 DEF w

\* The points of a purchase of D of the T that are short, charged C, with peaks P.
Scored(T, short, conc, D, C, P) ==
    T * (C + (1000 * short) * (T - D)) + (1000 * conc) * P

LEMMA PointsAre ==
    ASSUME NEW in, InputFacts(in), DOMAIN in.options # {}, Total(in.demand) # 0,
           NEW profile \in DOMAIN Weights, NEW q \in [DOMAIN in.options -> Nat],
           \A x \in DOMAIN in.demand : Delivered(in, q, x) <= in.demand[x]
    PROVE  LET w == Weights[profile] IN
           /\ Charged(in, w, q) \in Nat /\ Peaks(in, q) \in Nat
           /\ Peaks(in, q) <= 2 * Total(q)
           /\ Points(in, profile, q, Shortage(in, q)) =
                  Scored(Total(in.demand), w.shortage, w.concentration,
                         Total(q), Charged(in, w, q), Peaks(in, q))
           /\ Points(in, profile, q, Shortage(in, q)) \in Nat
<1> DEFINE w == Weights[profile]
           K == DOMAIN in.options
           T == Total(in.demand)
           D == Total(q)
           C == Charged(in, w, q)
           P == Peaks(in, q)
           S == Total(Shortage(in, q))
<1>1. D \in Nat /\ T \in Nat /\ D <= T /\ S = T - D
  BY PurchaseIs
<1>2. P \in Nat /\ P <= 2 * D
  <2>1. /\ PeakOf(in, q, "supplier") \in Nat /\ PeakOf(in, q, "supplier") <= D
        /\ PeakOf(in, q, "corridor") \in Nat /\ PeakOf(in, q, "corridor") <= D
    BY PeakIs
  <2> HIDE DEF D
  <2>2. QED
    BY <1>1, <2>1 DEF Peaks
<1>3. C \in Nat
  <2> DEFINE f == [k \in K |-> q[k] * Charge(in, w, k)]
  <2>1. \A k \in K : f[k] \in Nat
    <3> SUFFICES ASSUME NEW k \in K PROVE q[k] * Charge(in, w, k) \in Nat
      OBVIOUS
    <3>1. q[k] \in Nat /\ Charge(in, w, k) \in Nat
      BY ChargeIs
    <3> HIDE DEF w
    <3>2. QED
      BY <3>1, ProductsGrow
  <2>2. C = Sigma(f, K) /\ IsFiniteSet(K)
    BY DEF Charged, Sigma, InputFacts
  <2> HIDE DEF f, K, C
  <2>3. QED
    BY <2>1, <2>2, SigmaNat
<1>4. w.shortage \in Nat /\ w.concentration \in Nat
  BY WeightsAre
<1>5. Max({1, T}) = T
  BY <1>1, MaxOfTwo
<1>6. Points(in, profile, q, Shortage(in, q)) =
          Max({1, T}) * (C + 1000 * w.shortage * S) + 1000 * w.concentration * P
  <2>1. DOMAIN q = K
    OBVIOUS
  <2>2. QED
    BY <2>1 DEF Points, Charged, Peaks
<1> HIDE DEF w, K, T, D, C, P, S
<1>7. Points(in, profile, q, Shortage(in, q)) =
          T * (C + (1000 * w.shortage) * (T - D)) + (1000 * w.concentration) * P
  BY <1>1, <1>5, <1>6
<1>8. /\ (1000 * w.shortage) * (T - D) \in Nat
      /\ (1000 * w.concentration) * P \in Nat
  <2>1. 1000 * w.shortage \in Nat /\ 1000 * w.concentration \in Nat /\ T - D \in Nat
    BY <1>1, <1>4
  <2>2. QED
    BY <1>2, <2>1, ProductsGrow
<1>9. T * (C + (1000 * w.shortage) * (T - D)) \in Nat
  <2>1. C + (1000 * w.shortage) * (T - D) \in Nat
    BY <1>3, <1>8
  <2>2. QED
    BY <1>1, <2>1, ProductsGrow
<1>10. Points(in, profile, q, Shortage(in, q)) \in Nat
  BY <1>7, <1>8, <1>9
<1>11. QED
  BY <1>2, <1>3, <1>7, <1>10 DEF w, T, D, C, P, Scored

----------------------------------------------------------------------------
(* The optimum.                                                            *)

LEMMA OptimaExist ==
    ASSUME NEW in, InputFacts(in), DOMAIN in.options # {}, Total(in.demand) # 0,
           NEW profile \in DOMAIN Weights, NEW most \in Nat
    PROVE  Optima(in, profile, most) # {}
<1> DEFINE good == {q \in [DOMAIN in.options -> 0..most] : Solvable(in, q)}
           cost == [q \in good |-> Points(in, profile, q, Shortage(in, q))]
           T == {cost[q] : q \in good}
<1>1. NoPurchase(in) \in good
  <2>1. NoPurchase(in) \in [DOMAIN in.options -> 0..most]
    BY DEF NoPurchase
  <2>2. QED
    BY <2>1, NoPurchaseIsSolvable
<1>2. ASSUME NEW q \in good PROVE cost[q] \in Nat
  <2>1. q \in [DOMAIN in.options -> Nat]
    OBVIOUS
  <2>2. \A x \in DOMAIN in.demand : Delivered(in, q, x) <= in.demand[x]
    BY DEF Solvable
  <2>3. cost[q] = Points(in, profile, q, Shortage(in, q))
    OBVIOUS
  <2>4. QED
    BY <2>1, <2>2, <2>3, PointsAre
<1> HIDE DEF good, cost
<1>3. T \in SUBSET Nat /\ T # {}
  BY <1>1, <1>2
<1>4. Min(T) \in T /\ \A y \in T : Min(T) <= y
  <2> HIDE DEF T
  <2>1. QED
    BY <1>3, LeastNatural
<1>5. PICK q \in good : \A p \in good : cost[q] <= cost[p]
  BY <1>4
<1>6. [end |-> "optimal", q |-> q, s |-> Shortage(in, q), slack |-> FALSE]
         \in Optima(in, profile, most)
  BY <1>5 DEF Optima, good, cost
<1>7. QED
  BY <1>6

LEMMA OptimumIs ==
    ASSUME NEW in, NEW profile, NEW most, NEW out \in Optima(in, profile, most)
    PROVE  /\ out.end = "optimal" /\ out.slack = FALSE
           /\ out.q \in [DOMAIN in.options -> 0..most] /\ Solvable(in, out.q)
           /\ out.s = Shortage(in, out.q)
           /\ \A p \in [DOMAIN in.options -> 0..most] : Solvable(in, p) =>
                 Points(in, profile, out.q, Shortage(in, out.q))
                     <= Points(in, profile, p, Shortage(in, p))
<1> DEFINE good == {q \in [DOMAIN in.options -> 0..most] : Solvable(in, q)}
           cost == [q \in good |-> Points(in, profile, q, Shortage(in, q))]
<1>1. PICK q \in good : /\ \A p \in good : cost[q] <= cost[p]
                        /\ out = [end |-> "optimal", q |-> q, s |-> Shortage(in, q), slack |-> FALSE]
  BY DEF Optima
<1>2. out.q = q /\ out.end = "optimal" /\ out.slack = FALSE /\ out.s = Shortage(in, q)
  BY <1>1
<1>3. \A p \in good : cost[p] = Points(in, profile, p, Shortage(in, p))
  OBVIOUS
<1>4. \A p \in good : Points(in, profile, q, Shortage(in, q))
                          <= Points(in, profile, p, Shortage(in, p))
  BY <1>1, <1>3
<1>5. QED
  BY <1>2, <1>4

\* A kilotonne that is short outweighs all that buying one more can cost: its
\* own crude, dearer crude for all the rest, and the concentration.
ShortageWeighsMost(in, profile) ==
    LET w == Weights[profile] IN
    \A k, j \in DOMAIN in.options :
        Charge(in, w, k) + Total(in.demand) * (Charge(in, w, k) - Charge(in, w, j))
            + 2000 * w.concentration < 1000 * w.shortage

LEMMA OptimumDeliversTheMost ==
    ASSUME NEW in, InputFacts(in), DOMAIN in.options # {}, Total(in.demand) # 0,
           NEW profile \in DOMAIN Weights, ShortageWeighsMost(in, profile),
           NEW most \in Nat, NEW out \in Optima(in, profile, most),
           NEW q \in [DOMAIN in.options -> 0..most], Solvable(in, q)
    PROVE  Total(q) <= Total(out.q)
<1> DEFINE w == Weights[profile]
           K == DOMAIN in.options
           T == Total(in.demand)
           p == out.q
           f == [k \in K |-> Charge(in, w, k)]
           V == {f[k] : k \in K}
           low == Min(V)
           high == Max(V)
<1>1. /\ p \in [K -> 0..most] /\ Solvable(in, p)
      /\ Points(in, profile, p, Shortage(in, p)) <= Points(in, profile, q, Shortage(in, q))
  BY OptimumIs
<1>2. /\ p \in [K -> Nat] /\ q \in [K -> Nat]
      /\ \A x \in DOMAIN in.demand : /\ Delivered(in, p, x) <= in.demand[x]
                                     /\ Delivered(in, q, x) <= in.demand[x]
  BY <1>1 DEF Solvable
<1>3. V \in SUBSET Nat /\ V # {} /\ IsFiniteSet(V)
  <2>1. \A k \in K : f[k] \in Nat
    BY ChargeIs
  <2>2. IsFiniteSet(K)
    BY DEF InputFacts
  <2> HIDE DEF f
  <2>3. QED
    BY <2>1, <2>2, ImageIsFinite
<1>4. /\ low \in Nat /\ high \in Nat
      /\ \A k \in K : low <= Charge(in, w, k) /\ Charge(in, w, k) <= high
      /\ \E k, j \in K : high = Charge(in, w, k) /\ low = Charge(in, w, j)
  <2>1. \A y \in V : y \in Nat
    BY <1>3
  <2>2. \A k \in K : f[k] \in V
    OBVIOUS
  <2>3. \A y \in V : \E k \in K : y = f[k]
    OBVIOUS
  <2> HIDE DEF V
  <2>4. low \in V /\ \A y \in V : low <= y
    BY <1>3, LeastNatural
  <2>5. high \in V /\ \A y \in V : y <= high
    BY <1>3, <2>1, GreatestOfFinite
  <2> HIDE DEF low, high
  <2>6. QED
    BY <2>1, <2>2, <2>3, <2>4, <2>5
<1> HIDE DEF low, high, V, f
<1>5. low <= high
  BY <1>4
<1>6. high + T * (high - low) + 2000 * w.concentration < 1000 * w.shortage
  BY <1>4 DEF ShortageWeighsMost
<1>7. w.shortage \in Nat /\ w.concentration \in Nat
  BY WeightsAre
<1>8. /\ T \in Nat /\ Total(p) \in Nat /\ Total(q) \in Nat
      /\ Total(p) <= T /\ Total(q) <= T
  BY <1>2, PurchaseIs
<1>9. /\ Charged(in, w, p) \in Nat /\ low * Total(p) <= Charged(in, w, p)
      /\ Charged(in, w, q) \in Nat /\ Charged(in, w, q) <= high * Total(q)
  BY <1>2, <1>4, ChargedIs
<1>10. /\ Peaks(in, p) \in Nat
       /\ Points(in, profile, p, Shortage(in, p)) =
            Scored(T, w.shortage, w.concentration, Total(p), Charged(in, w, p), Peaks(in, p))
  BY <1>2, PointsAre
<1>11. /\ Peaks(in, q) \in Nat /\ Peaks(in, q) <= 2 * Total(q)
       /\ Points(in, profile, q, Shortage(in, q)) =
            Scored(T, w.shortage, w.concentration, Total(q), Charged(in, w, q), Peaks(in, q))
  BY <1>2, PointsAre
<1>12. T # 0
  OBVIOUS
<1> HIDE DEF w, T, p, K
<1>13. Scored(T, w.shortage, w.concentration, Total(p), Charged(in, w, p), Peaks(in, p))
         <= Scored(T, w.shortage, w.concentration, Total(q), Charged(in, w, q), Peaks(in, q))
  BY <1>1, <1>10, <1>11
<1>14. low \in Nat /\ high \in Nat
  BY <1>4
<1>15. Total(q) <= Total(p)
  <2> DEFINE D == Total(p)
             E == Total(q)
             C == Charged(in, w, p)
             B == Charged(in, w, q)
             P == Peaks(in, p)
             Q == Peaks(in, q)
             short == w.shortage
             conc == w.concentration
  <2>1. T \in Nat /\ D \in Nat /\ E \in Nat /\ D <= T /\ E <= T /\ T # 0
    BY <1>8, <1>12
  <2>2. C \in Nat /\ B \in Nat /\ P \in Nat /\ Q \in Nat /\ Q <= 2 * E
    BY <1>9, <1>10, <1>11
  <2>3. /\ low \in Nat /\ high \in Nat /\ low <= high
        /\ low * D <= C /\ B <= high * E
    BY <1>5, <1>9, <1>14
  <2>4. /\ short \in Nat /\ conc \in Nat
        /\ high + T * (high - low) + 2000 * conc < 1000 * short
    BY <1>6, <1>7
  <2>5. Scored(T, short, conc, D, C, P) <= Scored(T, short, conc, E, B, Q)
    BY <1>13
  <2> HIDE DEF D, E, C, B, P, Q, short, conc
  <2>6. E <= D
    <3> SUFFICES ASSUME E > D PROVE FALSE
      BY <2>1
    <3> USE <2>1, <2>2, <2>3, <2>4, <2>5 DEF Scored
    <3> DEFINE e == E - D
               X == high + T * (high - low) + 2000 * conc
    <3>1. e \in Nat /\ e >= 1 /\ E = D + e
      OBVIOUS
    <3>2. (1000 * conc) * Q <= T * (2000 * conc)
      <4>1. Q <= 2 * T
        OBVIOUS
      <4>2. (1000 * conc) * Q <= (1000 * conc) * (2 * T)
        <5>1. 1000 * conc \in Nat /\ 2 * T \in Nat
          OBVIOUS
        <5>2. QED
          BY <4>1, <5>1, ProductsGrow
      <4>3. (1000 * conc) * (2 * T) = T * (2000 * conc)
        OBVIOUS
      <4>4. (1000 * conc) * Q \in Int /\ T * (2000 * conc) \in Int
        OBVIOUS
      <4>5. QED
        BY <4>2, <4>3, <4>4
    <3>3. (1000 * conc) * P \in Nat
      <4>1. 1000 * conc \in Nat
        OBVIOUS
      <4>2. QED
        BY <4>1, ProductsGrow
    <3>4. T * (C + (1000 * short) * (T - D))
              <= T * (B + (1000 * short) * (T - E) + 2000 * conc)
      <4> DEFINE u == C + (1000 * short) * (T - D)
                 v == B + (1000 * short) * (T - E)
      <4>1. u \in Int /\ v \in Int /\ T * u \in Int /\ T * v \in Int /\ T * (2000 * conc) \in Int
            /\ (1000 * conc) * Q \in Int
        OBVIOUS
      <4>2. T * u + (1000 * conc) * P <= T * v + (1000 * conc) * Q
        OBVIOUS
      <4>3. T * (v + 2000 * conc) = T * v + T * (2000 * conc)
        BY <4>1
      <4> HIDE DEF u, v
      <4>4. T * u <= T * (v + 2000 * conc)
        BY <3>2, <3>3, <4>1, <4>2, <4>3
      <4>5. QED
        BY <4>4 DEF u, v
    <3>5. C + (1000 * short) * (T - D) <= B + (1000 * short) * (T - E) + 2000 * conc
      <4> DEFINE u == C + (1000 * short) * (T - D)
                 v == B + (1000 * short) * (T - E) + 2000 * conc
      <4>1. u \in Int /\ v \in Int /\ T * u <= T * v
        BY <3>4
      <4> HIDE DEF u, v
      <4>2. u <= v
        <5> SUFFICES ASSUME u >= v + 1 PROVE FALSE
          BY <4>1
        <5>1. u - v - 1 \in Nat /\ T \in Nat
          BY <4>1
        <5>2. T * (u - v - 1) \in Nat
          BY <5>1, ProductsGrow
        <5>3. T * (u - v - 1) = T * u - T * v - T
          BY <4>1
        <5>4. T * u \in Int /\ T * v \in Int
          BY <4>1
        <5>5. QED
          BY <4>1, <5>2, <5>3, <5>4
      <4>3. QED
        BY <4>2 DEF u, v
    <3>6. (1000 * short) * e <= B - C + 2000 * conc
      <4>1. (1000 * short) * (T - D) = (1000 * short) * (T - E) + (1000 * short) * e
        BY <3>1
      <4>2. /\ (1000 * short) * (T - D) \in Int /\ (1000 * short) * (T - E) \in Int
            /\ (1000 * short) * e \in Int
        BY <3>1
      <4> HIDE DEF e
      <4>3. QED
        BY <3>5, <4>1, <4>2
    <3>7. B - C <= high * e + (high - low) * D
      <4>1. high * E = high * D + high * e
        BY <3>1
      <4>2. (high - low) * D = high * D - low * D
        OBVIOUS
      <4>3. high * E \in Int /\ high * D \in Int /\ high * e \in Int /\ low * D \in Int
        BY <3>1
      <4> HIDE DEF e
      <4>4. QED
        BY <4>1, <4>2, <4>3
    <3>8. (high - low) * D <= (T * (high - low)) * e
      <4>1. high - low \in Nat
        OBVIOUS
      <4>2. T * (high - low) \in Nat /\ (high - low) * D <= (high - low) * T
        BY <4>1, ProductsGrow
      <4>3. (T * (high - low)) * 1 <= (T * (high - low)) * e
        BY <3>1, <4>2, ProductsGrow
      <4>4. (high - low) * T = T * (high - low)
        BY <4>1
      <4>5. (T * (high - low)) * e \in Int /\ (high - low) * D \in Int
        BY <3>1, <4>1, <4>2
      <4> HIDE DEF e
      <4>6. QED
        BY <4>2, <4>3, <4>4, <4>5
    <3>9. 2000 * conc <= (2000 * conc) * e
      <4>1. 2000 * conc \in Nat
        OBVIOUS
      <4>2. (2000 * conc) * 1 <= (2000 * conc) * e
        BY <3>1, <4>1, ProductsGrow
      <4>3. QED
        BY <4>1, <4>2
    <3>10. (1000 * short) * e <= X * e
      <4>1. X * e = high * e + (T * (high - low)) * e + (2000 * conc) * e
        BY <3>1
      <4>2. /\ high * e \in Int /\ (T * (high - low)) * e \in Int /\ (2000 * conc) * e \in Int
            /\ (high - low) * D \in Int /\ (1000 * short) * e \in Int
        BY <3>1
      <4> HIDE DEF e, X
      <4>3. QED
        BY <3>6, <3>7, <3>8, <3>9, <4>1, <4>2
    <3>11. (X + 1) * e <= (1000 * short) * e
      <4>1. X \in Int /\ X + 1 <= 1000 * short /\ 1000 * short \in Nat
        OBVIOUS
      <4>2. X + 1 \in Nat
        <5>1. T * (high - low) \in Nat
          BY ProductsGrow
        <5>2. QED
          BY <5>1
      <4> HIDE DEF X
      <4>3. QED
        BY <3>1, <4>1, <4>2, ProductsGrow
    <3>12. (X + 1) * e = X * e + e
      BY <3>1
    <3>13. X * e \in Int /\ (1000 * short) * e \in Int
      BY <3>1
    <3> HIDE DEF X, e
    <3>14. QED
      BY <3>1, <3>10, <3>11, <3>12, <3>13
  <2>7. QED
    BY <2>6 DEF D, E
<1>16. QED
  BY <1>15 DEF p

----------------------------------------------------------------------------
(* The verdict on an outcome.                                              *)

LEMMA SolvablePasses ==
    ASSUME NEW in, InputFacts(in), Total(in.demand) # 0, NEW q
    PROVE  /\ Solvable(in, q) => LimitsHold(in, q)
           /\ LimitsHold(in, q) /\ (\A x \in DOMAIN in.demand : Delivered(in, q, x) <= in.demand[x])
                 => Solvable(in, q)
<1>1. Total(in.demand) \in Nat
  <2>1. Total(in.demand) = Sigma(in.demand, DOMAIN in.demand)
    BY TotalIsSigma DEF InputFacts
  <2>2. QED
    BY <2>1, SigmaNat DEF InputFacts
<1>2. Max({1, Total(in.demand)}) = Total(in.demand)
  BY <1>1, MaxOfTwo
<1>3. QED
  BY <1>2 DEF Solvable, LimitsHold

\* An optimum passes the checker.
LEMMA OptimumPasses ==
    ASSUME NEW in, InputFacts(in), Total(in.demand) # 0, NEW profile, NEW most \in Nat,
           NEW out \in Optima(in, profile, most)
    PROVE  Passes(in, out)
<1>1. /\ out.slack = FALSE /\ out.q \in [DOMAIN in.options -> 0..most]
      /\ Solvable(in, out.q) /\ out.s = Shortage(in, out.q)
  BY OptimumIs
<1>2. LimitsHold(in, out.q)
  BY <1>1, SolvablePasses
<1>3. Reconciles(in, out.q, out.s)
  <2> SUFFICES ASSUME NEW x \in DOMAIN in.demand
               PROVE  Delivered(in, out.q, x) + out.s[x] = in.demand[x]
    BY DEF Reconciles
  <2>1. out.s[x] = in.demand[x] - Delivered(in, out.q, x)
    BY <1>1 DEF Shortage
  <2>2. Delivered(in, out.q, x) \in Nat /\ in.demand[x] \in Nat
    <3>1. With(in, "refinery", x) \in SUBSET DOMAIN in.options
      BY DEF With
    <3>2. out.q \in [DOMAIN in.options -> Nat] /\ IsFiniteSet(DOMAIN in.options)
      BY <1>1 DEF InputFacts
    <3>3. QED
      BY <3>1, <3>2, BoughtIs DEF Delivered, InputFacts
  <2>3. QED
    BY <2>1, <2>2
<1>4. InTime(in)
  BY DEF InTime, InputFacts
<1>5. QED
  BY <1>1, <1>2, <1>3, <1>4 DEF Passes

\* How a solver may have ended, and what that says of the verdict.
LEMMA OutcomeIs ==
    ASSUME NEW best, \A b \in best : b.end = "optimal",
           NEW stops, \A t \in stops : t.end = "stopped",
           NEW out \in Outcomes(best, stops)
    PROVE  /\ best # {} => out.end # "infeasible"
           /\ out.end = "optimal" => out \in best
           /\ \A verdict : LET made == Made(out, verdict) IN
                 /\ out.end \in {"infeasible", "failed"} => made.status = "ERROR"
                 /\ out.end \notin {"infeasible", "failed"} =>
                       made = verdict /\ (out \in best \/ out \in stops)
<1>1. CASE best = {}
  <2>1. out = [end |-> "infeasible"]
    BY <1>1 DEF Outcomes
  <2>2. QED
    BY <1>1, <2>1 DEF Made, Failed
<1>2. CASE best # {}
  <2>1. out = [end |-> "failed"] \/ out \in best \/ out \in stops
    BY <1>2 DEF Outcomes
  <2>2. CASE out = [end |-> "failed"]
    BY <1>2, <2>2 DEF Made, Failed
  <2>3. CASE out \in best
    <3>1. out.end = "optimal"
      BY <2>3
    <3>2. QED
      BY <2>3, <3>1 DEF Made
  <2>4. CASE out \in stops
    <3>1. out.end = "stopped"
      BY <2>4
    <3>2. QED
      BY <2>4, <3>1 DEF Made
  <2>5. QED
    BY <2>1, <2>2, <2>3, <2>4
<1>3. QED
  BY <1>1, <1>2

\* What becomes of the input when it is solved for a profile.
Solved(c, profile, out, verdict) ==
    LET in == ProcurementInput(c) IN
    /\ out \in Outcomes(Optima(in, profile, MaxVolume), Stops(in, MaxVolume))
    /\ verdict = Made(out, Verdict(in, out))

LEMMA SolvedIs ==
    ASSUME NEW c, GoodCase(c), Candidates(c) # {}, Total(ProcurementInput(c).demand) # 0,
           NEW profile \in DOMAIN Weights, NEW out, NEW verdict,
           Solved(c, profile, out, verdict)
    PROVE  /\ out.end # "infeasible"
           /\ out.end = "optimal" =>
                 /\ out \in Optima(ProcurementInput(c), profile, MaxVolume)
                 /\ verdict.status = "ERROR" =>
                       \/ Raises(ProcurementInput(c)) /\ verdict = Failed("CHECKER_ERROR")
                       \/ /\ ~Raises(ProcurementInput(c))
                          /\ verdict = Failed("NO_ACTIONS")
                          /\ \A k \in DOMAIN out.q : out.q[k] = 0
           /\ verdict.status # "ERROR" =>
                 /\ Checked(c, verdict.q, verdict.s)
                 /\ verdict.q \in [DOMAIN ProcurementInput(c).options -> 0..MaxVolume]
                 /\ verdict.status = "OPTIMAL" =>
                       /\ out \in Optima(ProcurementInput(c), profile, MaxVolume)
                       /\ verdict.q = out.q
<1> DEFINE in == ProcurementInput(c)
           K == DOMAIN in.options
           best == Optima(in, profile, MaxVolume)
           stops == Stops(in, MaxVolume)
<1>1. InputFacts(in) /\ MaxVolume \in Nat
  BY InputIs, VolumeAssumption
<1>2. K # {}
  BY OptionsAre
<1>3. best # {}
  BY <1>1, <1>2, OptimaExist
<1>4. \A b \in best : b.end = "optimal"
  BY OptimumIs
<1>5. \A t \in stops : /\ t.end = "stopped" /\ t.q \in [K -> 0..MaxVolume]
                       /\ t.s \in [DOMAIN in.demand -> 0..MaxVolume]
  BY DEF Stops
<1>6. out \in Outcomes(best, stops) /\ verdict = Made(out, Verdict(in, out))
  BY DEF Solved
<1> HIDE DEF best, stops
<1>7. /\ out.end # "infeasible" /\ (out.end = "optimal" => out \in best)
      /\ out.end \in {"infeasible", "failed"} => verdict.status = "ERROR"
      /\ out.end \notin {"infeasible", "failed"} =>
            verdict = Verdict(in, out) /\ (out \in best \/ out \in stops)
  BY <1>3, <1>4, <1>5, <1>6, OutcomeIs
<1>8. \/ Raises(in) /\ verdict = Failed("CHECKER_ERROR")
      \/ verdict = Failed("INDEPENDENT_CHECK_FAILED") /\ ~Passes(in, out)
      \/ /\ ~Raises(in) /\ verdict = Failed("NO_ACTIONS") /\ Passes(in, out)
         /\ \A k \in DOMAIN out.q : out.q[k] = 0
      \/ /\ Passes(in, out)
         /\ verdict = [status |-> IF out.end = "optimal" THEN "OPTIMAL" ELSE "FEASIBLE",
                       q |-> out.q, s |-> out.s]
      \/ out.end \in {"infeasible", "failed"}
  BY <1>7 DEF Verdict
<1>9. ASSUME out.end = "optimal"
      PROVE  /\ out \in best
             /\ verdict.status = "ERROR" =>
                   \/ Raises(in) /\ verdict = Failed("CHECKER_ERROR")
                   \/ /\ ~Raises(in) /\ verdict = Failed("NO_ACTIONS")
                      /\ \A k \in DOMAIN out.q : out.q[k] = 0
  <2>1. out \in best
    BY <1>7, <1>9
  <2>2. Passes(in, out)
    BY <1>1, <2>1, OptimumPasses DEF best
  <2>3. QED
    BY <1>8, <1>9, <2>1, <2>2
<1>10. ASSUME verdict.status # "ERROR"
       PROVE  /\ Checked(c, verdict.q, verdict.s)
              /\ verdict.q \in [K -> 0..MaxVolume]
              /\ verdict.status = "OPTIMAL" => out \in best /\ verdict.q = out.q
  <2>1. out.end \notin {"infeasible", "failed"}
    BY <1>7, <1>10
  <2>2. /\ Passes(in, out)
        /\ verdict = [status |-> IF out.end = "optimal" THEN "OPTIMAL" ELSE "FEASIBLE",
                      q |-> out.q, s |-> out.s]
    BY <1>8, <1>10, <2>1 DEF Failed
  <2>3. verdict.q = out.q /\ verdict.s = out.s /\ (verdict.status = "OPTIMAL" => out.end = "optimal")
    BY <2>2
  <2>4. out.q \in [K -> 0..MaxVolume] /\ out.s \in [DOMAIN in.demand -> Nat]
    <3>1. CASE out \in best
      <4>1. /\ out.q \in [K -> 0..MaxVolume] /\ Solvable(in, out.q)
            /\ out.s = Shortage(in, out.q)
        BY <3>1, OptimumIs DEF best
      <4>2. out.q \in [K -> Nat]
        BY <4>1
      <4>3. Shortage(in, out.q) \in [DOMAIN in.demand -> Nat]
        BY <1>1, <4>1, <4>2, PurchaseIs DEF Solvable
      <4>4. QED
        BY <4>1, <4>3
    <3>2. CASE out \in stops
      BY <1>5, <3>2
    <3>3. QED
      BY <1>7, <2>1, <3>1, <3>2
  <2>5. LimitsHold(in, out.q) /\ Reconciles(in, out.q, out.s)
    BY <2>2 DEF Passes
  <2>6. out.q \in [K -> Nat]
    BY <2>4
  <2>7. Checked(c, out.q, out.s)
    BY <2>4, <2>5, <2>6 DEF Checked
  <2>8. QED
    BY <1>7, <2>3, <2>4, <2>7
<1>11. QED
  BY <1>7, <1>9, <1>10 DEF best

----------------------------------------------------------------------------
(* The reserve.                                                            *)

\* What an input of the reserve is.
StoreFacts(rin) ==
    /\ IsFiniteSet(DOMAIN rin.sites) /\ IsFiniteSet(DOMAIN rin.demand)
    /\ rin.demand \in [DOMAIN rin.demand -> Nat] /\ rin.days \in Nat
    /\ rin.policy \in DOMAIN Policies
    /\ \A v \in DOMAIN rin.sites : LET site == rin.sites[v] IN
          /\ {site.stock, site.capacity, site.floor, site.rate, site.route, site.transit,
              site.receiving, site.committed, site.cost} \subseteq Nat
          /\ site.floor <= 100 * site.stock /\ site.stock <= site.capacity
          /\ site.committed <= site.receiving

LEMMA CommittedIs ==
    ASSUME NEW c, GoodCase(c), NEW p, Checked(c, p.q, p.s), NEW x
    PROVE  /\ Committed(p, x) = Delivered(ProcurementInput(c), p.q, x)
           /\ x \notin Refineries(c.twin) => Committed(p, x) = 0
<1> DEFINE in == ProcurementInput(c)
           ks == With(in, "refinery", x)
<1>1. /\ DOMAIN p.q = DOMAIN in.options
      /\ \A k \in DOMAIN in.options : OptionFacts(c, k, in.options[k])
  BY OptionsAre DEF Checked
<1>2. \A k \in DOMAIN in.options : in.options[k].refinery = k[4] /\ k[4] \in Refineries(c.twin)
  BY <1>1 DEF OptionFacts
<1>3. {k \in DOMAIN p.q : k[4] = x} = ks
  BY <1>1, <1>2 DEF With
<1>4. Committed(p, x) = Bought(p.q, ks) /\ Delivered(in, p.q, x) = Bought(p.q, ks)
  BY <1>3 DEF Committed, Delivered
<1>5. ASSUME x \notin Refineries(c.twin) PROVE Committed(p, x) = 0
  <2>1. ks = {}
    BY <1>2, <1>5 DEF With
  <2>2. Bought(p.q, ks) = Sigma(p.q, ks)
    BY DEF Bought, Sigma
  <2> HIDE DEF ks
  <2>3. QED
    BY <1>4, <2>1, <2>2, SigmaEmpty
<1>6. QED
  BY <1>4, <1>5

LEMMA StoreIs ==
    ASSUME NEW c, GoodCase(c), NEW p, Checked(c, p.q, p.s),
           \A v \in DOMAIN c.sites : SiteIsKnown(c, v), NEW policy \in DOMAIN Policies
    PROVE  LET in == ProcurementInput(c)
               rin == ReserveInput(c, in, p, policy)
           IN  /\ StoreFacts(rin)
               /\ DOMAIN rin.demand = Refineries(c.twin)
               /\ \A x \in Refineries(c.twin) :
                     rin.demand[x] = in.demand[x] - Delivered(in, p.q, x)
<1> DEFINE n == c.twin
           in == ProcurementInput(c)
           rin == ReserveInput(c, in, p, policy)
<1>1. HasFigures(n) /\ c.days \in Nat /\ IsFiniteSet(Refineries(n)) /\ References(n)
  BY CaseIs DEF Sound, Accepts
<1>2. /\ rin.sites = [v \in DOMAIN c.sites |-> Site(c, p, policy, v)]
      /\ rin.demand = [x \in DOMAIN in.demand |-> Max({0, in.demand[x] - Committed(p, x)})]
      /\ rin.days = in.days /\ rin.policy = policy /\ in.days = c.days
  BY DEF ReserveInput, ProcurementInput
<1>3. DOMAIN in.demand = Refineries(n)
  BY DemandIs
<1>4. ASSUME NEW x \in Refineries(n)
      PROVE  /\ rin.demand[x] = in.demand[x] - Delivered(in, p.q, x)
             /\ rin.demand[x] \in Nat
  <2>1. Committed(p, x) = Delivered(in, p.q, x)
    BY CommittedIs
  <2>2. rin.demand[x] = Max({0, in.demand[x] - Delivered(in, p.q, x)})
    BY <1>2, <1>3, <2>1
  <2>3. /\ Delivered(in, p.q, x) \in Nat /\ in.demand[x] \in Nat
        /\ Delivered(in, p.q, x) <= in.demand[x]
    <3>1. /\ Delivered(in, p.q, x) \in Nat /\ p.s[x] \in Nat /\ in.demand[x] \in Nat
          /\ Delivered(in, p.q, x) + p.s[x] = in.demand[x]
      BY DeliveredIs
    <3> HIDE DEF in
    <3>2. QED
      BY <3>1
  <2> HIDE DEF in, rin
  <2>4. Max({0, in.demand[x] - Delivered(in, p.q, x)}) = in.demand[x] - Delivered(in, p.q, x)
    <3> DEFINE a == in.demand[x] - Delivered(in, p.q, x)
    <3>1. a \in Nat
      BY <2>3
    <3> HIDE DEF a
    <3>2. Max({0, a}) = a
      BY <3>1, MaxOfTwo
    <3>3. QED
      BY <3>2 DEF a
  <2>5. QED
    BY <2>2, <2>3, <2>4
<1>5. ASSUME NEW v \in DOMAIN c.sites
      PROVE  LET site == rin.sites[v] IN
             /\ {site.stock, site.capacity, site.floor, site.rate, site.route, site.transit,
                 site.receiving, site.committed, site.cost} \subseteq Nat
             /\ site.floor <= 100 * site.stock /\ site.stock <= site.capacity
             /\ site.committed <= site.receiving
  <2> DEFINE given == c.sites[v]
             site == Site(c, p, policy, v)
             most == n.nodes[v].capacity
             x == given.refinery
             takes == n.nodes[x].capacity
             share == Policies[policy].floor
  <2>1. rin.sites[v] = site
    BY <1>2
  <2>2. /\ v \in DOMAIN n.nodes /\ most # Absent /\ given.stock <= most
        /\ given.route \in DOMAIN n.routes /\ n.routes[given.route].to = x /\ takes # Absent
    BY DEF SiteIsKnown, OfKind
  <2>3. x \in DOMAIN n.nodes
    BY <1>1, <2>2 DEF References
  <2>4. most \in Nat /\ takes \in Nat /\ n.routes[given.route].capacity \in Nat
    BY <1>1, <2>2, <2>3 DEF HasFigures
  <2>5. {given.stock, given.rate, given.cost, n.routes[given.route].transit} \subseteq Nat
    BY <2>2 DEF GoodCase, HasCaseFigures
  <2>6. share \in Nat
    BY DEF Policies, Policy
  <2>7. /\ site.stock = given.stock /\ site.capacity = most /\ site.rate = given.rate
        /\ site.floor = Floor(given.stock, most, policy) /\ site.cost = given.cost
        /\ site.route = n.routes[given.route].capacity
        /\ site.transit = n.routes[given.route].transit
        /\ site.receiving = takes * c.days /\ site.committed = Committed(p, x)
    BY DEF Site
  <2>8. site.floor \in Nat /\ site.floor <= 100 * given.stock
    <3> HIDE DEF given, most, share, site
    <3>1. 100 * given.stock \in Nat /\ most * share \in Nat
      BY <2>4, <2>5, <2>6, ProductsGrow
    <3>2. site.floor = Min({100 * given.stock, most * share})
      BY <2>7 DEF Floor, share
    <3> DEFINE a == 100 * given.stock
               b == most * share
    <3> HIDE DEF a, b
    <3>3. Min({a, b}) = IF a <= b THEN a ELSE b
      BY <3>1, MinOfTwo DEF a, b
    <3>4. QED
      BY <3>1, <3>2, <3>3 DEF a, b
  <2>9. site.committed \in Nat /\ site.receiving \in Nat /\ site.committed <= site.receiving
    <3> HIDE DEF given, most, share, site, x
    <3>1. takes * c.days \in Nat
      BY <1>1, <2>4, ProductsGrow
    <3>2. CASE x \in Refineries(n)
      <4>1. /\ Delivered(in, p.q, x) \in Nat /\ p.s[x] \in Nat /\ in.demand[x] \in Nat
            /\ Delivered(in, p.q, x) + p.s[x] = in.demand[x]
            /\ in.demand[x] <= takes * c.days
        BY <2>2, <3>2, DeliveredIs
      <4>2. Committed(p, x) = Delivered(in, p.q, x)
        BY CommittedIs
      <4> HIDE DEF in, takes
      <4>3. QED
        BY <2>7, <3>1, <4>1, <4>2
    <3>3. CASE x \notin Refineries(n)
      <4>1. Committed(p, x) = 0
        BY <3>3, CommittedIs
      <4> HIDE DEF takes
      <4>2. QED
        BY <2>7, <3>1, <4>1
    <3>4. QED
      BY <3>2, <3>3
  <2> HIDE DEF site, given, most, x, takes, share, rin
  <2>10. QED
    BY <2>1, <2>2, <2>4, <2>5, <2>7, <2>8, <2>9
<1>6. DOMAIN rin.sites = DOMAIN c.sites /\ IsFiniteSet(DOMAIN c.sites)
  BY <1>2 DEF GoodCase, HasCaseFigures
<1>7. rin.demand \in [Refineries(n) -> Nat]
  BY <1>2, <1>3, <1>4
<1>8. DOMAIN rin.demand = Refineries(n)
  BY <1>7
<1> HIDE DEF rin, in, n
<1>9. StoreFacts(rin)
  BY <1>1, <1>2, <1>5, <1>6, <1>7, <1>8 DEF StoreFacts
<1>10. QED
  BY <1>4, <1>8, <1>9 DEF rin, in, n

LEMMA ReceivedIs ==
    ASSUME NEW rin, StoreFacts(rin), NEW d \in [DOMAIN rin.sites -> Nat], NEW x
    PROVE  /\ Received(rin, d, x) \in Nat
           /\ (\A v \in DOMAIN rin.sites : d[v] = 0) => Received(rin, d, x) = 0
<1> DEFINE vs == {v \in DOMAIN rin.sites : rin.sites[v].refinery = x}
<1>1. Received(rin, d, x) = Sigma(d, vs)
  BY DEF Received, Sigma
<1>2. IsFiniteSet(vs)
  BY FS_Subset DEF StoreFacts
<1>3. \A v \in vs : v \in DOMAIN rin.sites /\ d[v] \in Nat
  OBVIOUS
<1> HIDE DEF vs
<1>4. Sigma(d, vs) \in Nat
  BY <1>2, <1>3, SigmaNat
<1>5. (\A v \in DOMAIN rin.sites : d[v] = 0) => Sigma(d, vs) = 0
  BY <1>2, <1>3, SigmaZero
<1>6. QED
  BY <1>1, <1>4, <1>5

LEMMA ReleaseCapIs ==
    ASSUME NEW rin, StoreFacts(rin), NEW v \in DOMAIN rin.sites
    PROVE  LET site == rin.sites[v] IN
           /\ ReleaseCap(rin, v) \in Nat
           /\ ReleaseCap(rin, v) <= site.rate * rin.days
           /\ ReleaseCap(rin, v) <= site.route * rin.days
           /\ ReleaseCap(rin, v) + site.committed <= site.receiving
<1> DEFINE site == rin.sites[v]
           a == Max({0, 100 * site.stock - site.floor}) \div 100
           b == site.rate * rin.days
           e == site.route * rin.days
           g == Max({0, site.receiving - site.committed})
           T == {a, b, e, g}
<1>1. /\ {site.stock, site.floor, site.rate, site.route, site.receiving, site.committed} \subseteq Nat
      /\ site.floor <= 100 * site.stock /\ site.committed <= site.receiving /\ rin.days \in Nat
  BY DEF StoreFacts
<1>2. ReleaseCap(rin, v) = Min(T)
  BY DEF ReleaseCap
<1> HIDE DEF site
<1>3. a \in Nat
  <2> DEFINE u == 100 * site.stock - site.floor
  <2>1. u \in Nat
    BY <1>1
  <2>2. a = Max({0, u}) \div 100
    OBVIOUS
  <2> HIDE DEF u, a
  <2>3. Max({0, u}) = u
    BY <2>1, MaxOfTwo
  <2>4. QED
    BY <2>1, <2>2, <2>3, Hundredths
<1>4. g = site.receiving - site.committed /\ g \in Nat
  <2> DEFINE u == site.receiving - site.committed
  <2>1. u \in Nat
    BY <1>1
  <2>2. g = Max({0, u})
    OBVIOUS
  <2> HIDE DEF u, g
  <2>3. Max({0, u}) = u
    BY <2>1, MaxOfTwo
  <2>4. QED
    BY <2>1, <2>2, <2>3 DEF u
<1>5. b \in Nat /\ e \in Nat
  BY <1>1, ProductsGrow
<1> HIDE DEF a, b, e, g
<1>6. T \in SUBSET Nat /\ T # {} /\ b \in T /\ e \in T /\ g \in T
  BY <1>3, <1>4, <1>5
<1> HIDE DEF T
<1>7. Min(T) \in T /\ Min(T) <= b /\ Min(T) <= e /\ Min(T) <= g
  BY <1>6, LeastNatural
<1>8. Min(T) \in Nat /\ Min(T) + site.committed <= site.receiving
  <2>1. Min(T) \in Nat /\ Min(T) <= g
    BY <1>6, <1>7
  <2>2. site.receiving \in Nat /\ site.committed \in Nat
    BY <1>1
  <2>3. QED
    BY <1>4, <2>1, <2>2
<1>9. QED
  BY <1>2, <1>7, <1>8 DEF b, e, site

LEMMA ReservePointsAre ==
    ASSUME NEW rin, StoreFacts(rin), NEW d \in [DOMAIN rin.sites -> Nat], Releasable(rin, d)
    PROVE  ReservePoints(rin, d) \in Nat /\ Residue(rin, d) \in [DOMAIN rin.demand -> Nat]
<1> DEFINE w == Policies[rin.policy]
           V == DOMAIN rin.sites
           f == [v \in V |-> Max({1, rin.sites[v].capacity})]
           S == {f[v] : v \in V}
           whole == ProductSet(S)
           per(v) == whole * (1000 * w.depletion + w.logistics * rin.sites[v].cost)
                        + 1000 * w.vulnerability * (whole \div f[v])
           g == [v \in V |-> d[v] * per(v)]
           left == Residue(rin, d)
<1>1. {w.shortage, w.depletion, w.logistics, w.vulnerability} \subseteq Nat
  BY DEF StoreFacts, Policies, Policy
<1>2. /\ IsFiniteSet(V) /\ IsFiniteSet(DOMAIN rin.demand)
      /\ \A v \in V : rin.sites[v].capacity \in Nat /\ rin.sites[v].cost \in Nat
  BY DEF StoreFacts
<1>3. ASSUME NEW v \in V PROVE f[v] \in Nat /\ f[v] # 0
  <2> DEFINE u == rin.sites[v].capacity
  <2>1. u \in Nat /\ f[v] = Max({1, u})
    BY <1>2
  <2> HIDE DEF u, f
  <2>2. QED
    BY <2>1, MaxOfTwo
<1>4. S = {Max({1, rin.sites[v].capacity}) : v \in DOMAIN rin.sites}
  OBVIOUS
<1>5. DOMAIN d = V
  OBVIOUS
<1>6. ReservePoints(rin, d) =
          whole * 1000 * w.shortage * Total(left) + Total(g)
  <2> DEFINE all == ProductSet({Max({1, rin.sites[v].capacity}) : v \in DOMAIN rin.sites})
             each(v) == all * (1000 * w.depletion + w.logistics * rin.sites[v].cost)
                          + 1000 * w.vulnerability * (all \div Max({1, rin.sites[v].capacity}))
  <2>1. all = whole
    BY <1>4, Zenon
  <2>2. \A v \in V : f[v] = Max({1, rin.sites[v].capacity})
    OBVIOUS
  <2>3. ReservePoints(rin, d) = all * 1000 * w.shortage * Total(left)
                                  + Total([v \in DOMAIN d |-> d[v] * each(v)])
    BY Zenon DEF ReservePoints
  <2> HIDE DEF all, f, whole
  <2>4. [v \in DOMAIN d |-> d[v] * each(v)] = g
    <3>1. \A v \in V : each(v) = per(v)
      <4> SUFFICES ASSUME NEW v \in V PROVE each(v) = per(v)
        OBVIOUS
      <4> DEFINE size == Max({1, rin.sites[v].capacity})
      <4>1. f[v] = size
        BY <2>2
      <4> HIDE DEF size
      <4>2. whole * (1000 * w.depletion + w.logistics * rin.sites[v].cost)
                + 1000 * w.vulnerability * (whole \div size) = per(v)
        <5>1. per(v) = whole * (1000 * w.depletion + w.logistics * rin.sites[v].cost)
                          + 1000 * w.vulnerability * (whole \div f[v])
          OBVIOUS
        <5> HIDE DEF per, w
        <5>2. QED
          BY <4>1, <5>1
      <4>3. each(v) = all * (1000 * w.depletion + w.logistics * rin.sites[v].cost)
                        + 1000 * w.vulnerability * (all \div size)
        BY DEF size
      <4> HIDE DEF each, per, w
      <4>4. QED
        BY <2>1, <4>2, <4>3
    <3> HIDE DEF each, per, V
    <3>2. QED
      BY <1>5, <3>1
  <2> HIDE DEF g, each, per, V, w, left
  <2>5. QED
    BY <2>1, <2>3, <2>4
<1>7. left \in [DOMAIN rin.demand -> Nat]
  <2>1. ASSUME NEW x \in DOMAIN rin.demand
        PROVE  rin.demand[x] - Received(rin, d, x) \in Nat
    <3>1. rin.demand[x] \in Nat /\ Received(rin, d, x) \in Nat
      BY ReceivedIs DEF StoreFacts
    <3>2. Received(rin, d, x) <= rin.demand[x]
      BY DEF Releasable
    <3>3. QED
      BY <3>1, <3>2
  <2>2. QED
    BY <2>1 DEF Residue
<1>8. Total(left) \in Nat
  <2>1. Total(left) = Sigma(left, DOMAIN rin.demand)
    BY <1>7, TotalIsSigma
  <2>2. \A x \in DOMAIN rin.demand : left[x] \in Nat
    BY <1>7
  <2> HIDE DEF left
  <2>3. QED
    BY <1>2, <2>1, <2>2, SigmaNat
<1> HIDE DEF f, left
<1>9. whole \in Nat
  <2>1. IsFiniteSet(S)
    BY <1>2, ImageIsFinite
  <2>2. \A y \in S : y \in Nat
    BY <1>3
  <2> HIDE DEF S
  <2>3. QED
    BY <2>1, <2>2, ProductIsNatural
<1> HIDE DEF whole, w
<1>10. ASSUME NEW v \in V PROVE g[v] \in Nat
  <2> DEFINE cost == rin.sites[v].cost
             part == whole \div f[v]
  <2>1. part \in Nat
    BY <1>3, <1>9
  <2>2. cost \in Nat /\ d[v] \in Nat
    BY <1>2
  <2>3. g[v] = d[v] * (whole * (1000 * w.depletion + w.logistics * cost)
                          + 1000 * w.vulnerability * part)
    OBVIOUS
  <2> HIDE DEF cost, part, g
  <2>4. w.logistics * cost \in Nat /\ 1000 * w.depletion \in Nat /\ 1000 * w.vulnerability \in Nat
    BY <1>1, <2>2, ProductsGrow
  <2>5. whole * (1000 * w.depletion + w.logistics * cost) \in Nat
    <3>1. 1000 * w.depletion + w.logistics * cost \in Nat
      BY <2>4
    <3>2. QED
      BY <1>9, <3>1, ProductsGrow
  <2>6. 1000 * w.vulnerability * part \in Nat
    BY <2>1, <2>4, ProductsGrow
  <2>7. whole * (1000 * w.depletion + w.logistics * cost) + 1000 * w.vulnerability * part \in Nat
    BY <2>5, <2>6
  <2>8. QED
    BY <2>2, <2>3, <2>7, ProductsGrow
<1>11. Total(g) \in Nat
  <2>1. Total(g) = Sigma(g, V)
    BY TotalIsSigma
  <2> HIDE DEF g, V
  <2>2. QED
    BY <1>2, <1>10, <2>1, SigmaNat
<1> HIDE DEF g
<1>12. whole * 1000 * w.shortage * Total(left) \in Nat
  <2>1. whole * 1000 \in Nat
    BY <1>9
  <2>2. whole * 1000 * w.shortage \in Nat
    BY <1>1, <2>1, ProductsGrow
  <2>3. QED
    BY <1>8, <2>2, ProductsGrow
<1>13. ReservePoints(rin, d) \in Nat
  BY <1>6, <1>11, <1>12
<1>14. QED
  BY <1>7, <1>13 DEF left

LEMMA ReserveOptimaExist ==
    ASSUME NEW rin, StoreFacts(rin), NEW most \in Nat
    PROVE  ReserveOptima(rin, most) # {}
<1> DEFINE good == {d \in [DOMAIN rin.sites -> 0..most] : Releasable(rin, d)}
           cost == [d \in good |-> ReservePoints(rin, d)]
           T == {cost[d] : d \in good}
           none == [v \in DOMAIN rin.sites |-> 0]
<1>1. none \in good
  <2>1. none \in [DOMAIN rin.sites -> 0..most] /\ none \in [DOMAIN rin.sites -> Nat]
    OBVIOUS
  <2>2. \A v \in DOMAIN rin.sites : none[v] = 0
    OBVIOUS
  <2> HIDE DEF none
  <2>3. \A x : Received(rin, none, x) = 0
    BY <2>1, <2>2, ReceivedIs
  <2>4. \A v \in DOMAIN rin.sites : none[v] <= ReleaseCap(rin, v)
    BY <2>2, ReleaseCapIs
  <2>5. \A v \in DOMAIN rin.sites : InStore(rin, none, v)
    <3> SUFFICES ASSUME NEW v \in DOMAIN rin.sites PROVE InStore(rin, none, v)
      OBVIOUS
    <3>1. /\ {rin.sites[v].stock, rin.sites[v].floor, rin.sites[v].capacity} \subseteq Nat
          /\ rin.sites[v].floor <= 100 * rin.sites[v].stock
          /\ rin.sites[v].stock <= rin.sites[v].capacity
      BY DEF StoreFacts
    <3>2. QED
      BY <2>2, <3>1 DEF InStore
  <2>6. \A x \in DOMAIN rin.demand : rin.demand[x] \in Nat
    BY DEF StoreFacts
  <2>7. Releasable(rin, none)
    BY <2>2, <2>3, <2>4, <2>5, <2>6 DEF Releasable
  <2>8. QED
    BY <2>1, <2>7
<1>2. ASSUME NEW d \in good PROVE cost[d] \in Nat
  <2>1. d \in [DOMAIN rin.sites -> Nat] /\ Releasable(rin, d) /\ cost[d] = ReservePoints(rin, d)
    OBVIOUS
  <2>2. QED
    BY <2>1, ReservePointsAre
<1> HIDE DEF good, cost, none
<1>3. T \in SUBSET Nat /\ T # {}
  BY <1>1, <1>2
<1>4. Min(T) \in T /\ \A y \in T : Min(T) <= y
  <2> HIDE DEF T
  <2>1. QED
    BY <1>3, LeastNatural
<1>5. PICK d \in good : \A e \in good : cost[d] <= cost[e]
  BY <1>4
<1>6. [end |-> "optimal", d |-> d, s |-> Residue(rin, d), false |-> FALSE]
         \in ReserveOptima(rin, most)
  BY <1>5 DEF ReserveOptima, good, cost
<1>7. QED
  BY <1>6

LEMMA ReserveOptimumIs ==
    ASSUME NEW rin, NEW most, NEW out \in ReserveOptima(rin, most)
    PROVE  /\ out.end = "optimal" /\ out.false = FALSE
           /\ out.d \in [DOMAIN rin.sites -> 0..most] /\ Releasable(rin, out.d)
           /\ out.s = Residue(rin, out.d)
BY DEF ReserveOptima

\* An optimum passes the checker unless some site is beyond the horizon.
LEMMA ReserveOptimumPasses ==
    ASSUME NEW rin, StoreFacts(rin), NEW most \in Nat, NEW out \in ReserveOptima(rin, most)
    PROVE  ReservePasses(rin, out) <=>
              \A v \in DOMAIN rin.sites : rin.sites[v].transit <= rin.days
<1>1. /\ out.false = FALSE /\ out.d \in [DOMAIN rin.sites -> Nat]
      /\ Releasable(rin, out.d) /\ out.s = Residue(rin, out.d)
  <2>1. /\ out.false = FALSE /\ out.d \in [DOMAIN rin.sites -> 0..most]
        /\ Releasable(rin, out.d) /\ out.s = Residue(rin, out.d)
    BY ReserveOptimumIs
  <2>2. QED
    BY <2>1
<1>2. \A x \in DOMAIN rin.demand : Received(rin, out.d, x) + out.s[x] = rin.demand[x]
  <2> SUFFICES ASSUME NEW x \in DOMAIN rin.demand
               PROVE  Received(rin, out.d, x) + out.s[x] = rin.demand[x]
    OBVIOUS
  <2>1. rin.demand[x] \in Nat /\ Received(rin, out.d, x) \in Nat
    BY <1>1, ReceivedIs DEF StoreFacts
  <2>2. out.s[x] = rin.demand[x] - Received(rin, out.d, x)
    BY <1>1 DEF Residue
  <2>3. QED
    BY <2>1, <2>2
<1>3. ASSUME NEW v \in DOMAIN rin.sites
      PROVE  SitePasses(rin, out.d, v) <=> rin.sites[v].transit <= rin.days
  <2> DEFINE site == rin.sites[v]
             cap == ReleaseCap(rin, v)
             a == out.d[v]
             b == site.rate * rin.days
             e == site.route * rin.days
  <2>1. a \in Nat /\ site.committed \in Nat /\ site.receiving \in Nat
    BY <1>1 DEF StoreFacts
  <2>2. cap \in Nat /\ cap <= b /\ cap <= e /\ cap + site.committed <= site.receiving
    BY ReleaseCapIs
  <2>3. a <= cap /\ InStore(rin, out.d, v) /\ (rin.policy = "NO_RESERVE_USE" => a = 0)
    BY <1>1 DEF Releasable
  <2>4. b \in Nat /\ e \in Nat
    <3>1. {site.rate, site.route, rin.days} \subseteq Nat
      BY DEF StoreFacts
    <3> HIDE DEF site
    <3>2. QED
      BY <3>1, ProductsGrow
  <2>5. SitePasses(rin, out.d, v) <=>
          /\ InStore(rin, out.d, v) /\ a <= b /\ a <= e /\ site.transit <= rin.days
          /\ a + site.committed <= site.receiving
          /\ rin.policy = "NO_RESERVE_USE" => a = 0
    BY DEF SitePasses
  <2> HIDE DEF site, cap, a, b, e
  <2>6. a <= b /\ a <= e /\ a + site.committed <= site.receiving
    BY <2>1, <2>2, <2>3, <2>4
  <2>7. SitePasses(rin, out.d, v) <=> site.transit <= rin.days
    BY <2>3, <2>5, <2>6
  <2>8. QED
    BY <2>7 DEF site
<1>4. QED
  BY <1>1, <1>2, <1>3 DEF ReservePasses

----------------------------------------------------------------------------
(* What holds of a plan and of a release at every stage.                   *)

\* The input has options and there is something to buy.
PlanInput ==
    stage \notin {"COMPLETED", "BLOCKED", "NO_DEMAND"} =>
        /\ Candidates(case) # {} /\ problem = ProcurementInput(case)
        /\ Total(problem.demand) # 0

\* The plan is the verdict on an outcome of the solver, and refused when it is
\* an error.
PlanSolved ==
    stage \notin {"COMPLETED", "BLOCKED", "NO_DEMAND", "BUILT"} =>
        \E profile \in DOMAIN Weights :
            \E out \in Outcomes(Optima(problem, profile, MaxVolume), Stops(problem, MaxVolume)) :
                /\ plan = Made(out, Verdict(problem, out))
                /\ stage = "REFUSED" <=> plan.status = "ERROR"
                /\ stage = "REFUSED" => end = out.end

\* The reserve's input is built from that plan.
ReleaseInput ==
    stage \in {"SELECTED", "RELEASED", "RELEASE_REFUSED"} =>
        /\ \A v \in DOMAIN case.sites : SiteIsKnown(case, v)
        /\ \E policy \in DOMAIN Policies : store = ReserveInput(case, problem, plan, policy)

\* The release is the verdict on an outcome of the solver.
ReleaseSolved ==
    stage \in {"RELEASED", "RELEASE_REFUSED"} =>
        \E out \in Outcomes(ReserveOptima(store, MaxVolume), ReserveStops(store, MaxVolume)) :
            /\ release = Made(out, ReserveVerdict(store, out)) /\ end = out.end
            /\ stage = "RELEASE_REFUSED" <=> release.status = "ERROR"

PlanInv ==
    /\ case \in Cases /\ Accepts(case.twin)
    /\ stage \in {"COMPLETED", "BLOCKED", "NO_DEMAND", "BUILT", "PLANNED", "REFUSED",
                  "RESERVE_BLOCKED", "SELECTED", "RELEASED", "RELEASE_REFUSED"}
    /\ stage \in {"COMPLETED", "BLOCKED", "NO_DEMAND", "BUILT"} => plan = Absent
    /\ PlanInput /\ PlanSolved /\ ReleaseInput /\ ReleaseSolved

LEMMA CaseIsGood == PlanInv => GoodCase(case)
BY CasesAssumption DEF PlanInv, GoodCase

LEMMA PlanInvInit == PlanInit => PlanInv
BY DEF PlanInit, PlanInv, PlanInput, PlanSolved, ReleaseInput, ReleaseSolved

LEMMA BuildKeeps == PlanInv /\ Build => PlanInv'
<1> SUFFICES ASSUME PlanInv, Build PROVE PlanInv'
  OBVIOUS
<1>1. /\ case' = case /\ plan' = plan /\ stage = "COMPLETED"
      /\ stage' \in {"BLOCKED", "NO_DEMAND", "BUILT"}
      /\ stage' = "BUILT" =>
            /\ Candidates(case) # {} /\ Total(ProcurementInput(case).demand) # 0
            /\ problem' = ProcurementInput(case)
  BY DEF Build
<1>2. PlanInput'
  BY <1>1 DEF PlanInput
<1>3. PlanSolved' /\ ReleaseInput' /\ ReleaseSolved'
  BY <1>1 DEF PlanSolved, ReleaseInput, ReleaseSolved
<1>4. QED
  BY <1>1, <1>2, <1>3 DEF PlanInv

LEMMA SolveKeeps == PlanInv /\ Solve => PlanInv'
<1> SUFFICES ASSUME PlanInv, Solve PROVE PlanInv'
  OBVIOUS
<1>1. PICK profile \in DOMAIN Weights :
         \E out \in Outcomes(Optima(problem, profile, MaxVolume), Stops(problem, MaxVolume)) :
             /\ plan' = Made(out, Verdict(problem, out))
             /\ end' = out.end
             /\ stage' = Settled(plan', "PLANNED", "REFUSED")
  BY DEF Solve
<1>2. PICK out \in Outcomes(Optima(problem, profile, MaxVolume), Stops(problem, MaxVolume)) :
         /\ plan' = Made(out, Verdict(problem, out))
         /\ end' = out.end
         /\ stage' = Settled(plan', "PLANNED", "REFUSED")
  BY <1>1
<1>3. case' = case /\ problem' = problem /\ stage = "BUILT"
  BY DEF Solve
<1>4. /\ stage' = "REFUSED" <=> plan'.status = "ERROR"
      /\ stage' \in {"PLANNED", "REFUSED"}
  BY <1>2 DEF Settled
<1>5. PlanInput'
  BY <1>3 DEF PlanInv, PlanInput
<1>6. PlanSolved'
  BY <1>2, <1>3, <1>4 DEF PlanSolved
<1>7. ReleaseInput' /\ ReleaseSolved'
  BY <1>4 DEF ReleaseInput, ReleaseSolved
<1>8. QED
  BY <1>3, <1>4, <1>5, <1>6, <1>7 DEF PlanInv

LEMMA BuildReleaseKeeps == PlanInv /\ BuildRelease => PlanInv'
<1> SUFFICES ASSUME PlanInv, BuildRelease PROVE PlanInv'
  OBVIOUS
<1>1. /\ case' = case /\ problem' = problem /\ plan' = plan /\ end' = end
      /\ stage = "PLANNED" /\ stage' \in {"SELECTED", "RESERVE_BLOCKED"}
      /\ stage' = "SELECTED" =>
            /\ \A v \in DOMAIN case.sites : SiteIsKnown(case, v)
            /\ \E policy \in DOMAIN Policies : store' = ReserveInput(case, problem, plan, policy)
  BY DEF BuildRelease
<1>2. PlanInput' /\ PlanSolved'
  BY <1>1 DEF PlanInv, PlanInput, PlanSolved
<1>3. ReleaseInput' /\ ReleaseSolved'
  BY <1>1 DEF ReleaseInput, ReleaseSolved
<1>4. QED
  BY <1>1, <1>2, <1>3 DEF PlanInv

LEMMA SolveReleaseKeeps == PlanInv /\ SolveRelease => PlanInv'
<1> SUFFICES ASSUME PlanInv, SolveRelease PROVE PlanInv'
  OBVIOUS
<1>1. PICK out \in Outcomes(ReserveOptima(store, MaxVolume), ReserveStops(store, MaxVolume)) :
         /\ release' = Made(out, ReserveVerdict(store, out))
         /\ end' = out.end
         /\ stage' = Settled(release', "RELEASED", "RELEASE_REFUSED")
  BY DEF SolveRelease
<1>2. /\ case' = case /\ problem' = problem /\ plan' = plan /\ store' = store
      /\ stage = "SELECTED"
  BY DEF SolveRelease
<1>3. /\ stage' = "RELEASE_REFUSED" <=> release'.status = "ERROR"
      /\ stage' \in {"RELEASED", "RELEASE_REFUSED"}
  BY <1>1 DEF Settled
<1>4. PlanInput' /\ ReleaseInput'
  BY <1>2, <1>3 DEF PlanInv, PlanInput, ReleaseInput
<1>5. PlanSolved'
  BY <1>2, <1>3 DEF PlanInv, PlanSolved
<1>6. ReleaseSolved'
  BY <1>1, <1>2, <1>3 DEF ReleaseSolved
<1>7. QED
  BY <1>2, <1>3, <1>4, <1>5, <1>6 DEF PlanInv

\* At every stage a plan is what the checker made of an outcome of the solver
\* on the input of the run, and a release what the reserve's checker made of an
\* outcome on the input built from that plan.
THEOREM PlanInvariance == PlanSpec => []PlanInv
<1>1. PlanInv /\ [PlanNext]_planVars => PlanInv'
  <2> SUFFICES ASSUME PlanInv, [PlanNext]_planVars PROVE PlanInv'
    OBVIOUS
  <2>1. CASE Build
    BY <2>1, BuildKeeps
  <2>2. CASE Solve
    BY <2>2, SolveKeeps
  <2>3. CASE BuildRelease
    BY <2>3, BuildReleaseKeeps
  <2>4. CASE SolveRelease
    BY <2>4, SolveReleaseKeeps
  <2>5. CASE UNCHANGED planVars
    BY <2>5 DEF planVars, PlanInv, PlanInput, PlanSolved, ReleaseInput, ReleaseSolved
  <2>6. QED
    BY <2>1, <2>2, <2>3, <2>4, <2>5 DEF PlanNext
<1>2. QED
  BY <1>1, PlanInvInit, PTL DEF PlanSpec

----------------------------------------------------------------------------
(* What follows of the plans.                                              *)

\* The outcome behind a plan.
LEMMA PlanIs ==
    ASSUME PlanInv, stage \notin {"COMPLETED", "BLOCKED", "NO_DEMAND", "BUILT"}
    PROVE  /\ GoodCase(case) /\ problem = ProcurementInput(case) /\ Candidates(case) # {}
           /\ Total(problem.demand) # 0
           /\ stage = "REFUSED" <=> plan.status = "ERROR"
           /\ \E profile \in DOMAIN Weights : \E out :
                 Solved(case, profile, out, plan) /\ (stage = "REFUSED" => end = out.end)
<1>1. /\ GoodCase(case) /\ problem = ProcurementInput(case) /\ Candidates(case) # {}
      /\ Total(problem.demand) # 0
  BY CaseIsGood DEF PlanInv, PlanInput
<1>2. PICK profile \in DOMAIN Weights :
         \E out \in Outcomes(Optima(problem, profile, MaxVolume), Stops(problem, MaxVolume)) :
             /\ plan = Made(out, Verdict(problem, out))
             /\ stage = "REFUSED" <=> plan.status = "ERROR"
             /\ stage = "REFUSED" => end = out.end
  BY DEF PlanInv, PlanSolved
<1>3. QED
  BY <1>1, <1>2 DEF Solved

LEMMA OfferedIsChecked ==
    ASSUME PlanInv, stage \notin {"COMPLETED", "BLOCKED", "NO_DEMAND", "BUILT", "REFUSED"}
    PROVE  Checked(case, plan.q, plan.s)
<1>1. /\ GoodCase(case) /\ problem = ProcurementInput(case) /\ Candidates(case) # {}
      /\ Total(problem.demand) # 0 /\ plan.status # "ERROR"
  BY PlanIs
<1>2. PICK profile \in DOMAIN Weights : \E out : Solved(case, profile, out, plan)
  BY PlanIs
<1>3. PICK out : Solved(case, profile, out, plan)
  BY <1>2
<1>4. QED
  BY <1>1, <1>3, SolvedIs

LEMMA OfferedWhen ==
    PlanInv /\ Offered => stage \notin {"COMPLETED", "BLOCKED", "NO_DEMAND", "BUILT", "REFUSED"}
BY DEF PlanInv, Offered

\* However many refineries, routes, options and kilotonnes: a plan that is
\* offered can be carried out on the disrupted network, whichever way the
\* solver ended.
THEOREM PlansAreDeliverableAlways == PlanSpec => []PlansAreDeliverable
<1>1. PlanInv => PlansAreDeliverable
  <2> SUFFICES ASSUME PlanInv, Offered PROVE PlansAreDeliverable
    BY DEF PlansAreDeliverable
  <2>1. stage \notin {"COMPLETED", "BLOCKED", "NO_DEMAND", "BUILT", "REFUSED"}
    BY OfferedWhen
  <2>2. GoodCase(case) /\ problem = ProcurementInput(case) /\ Checked(case, plan.q, plan.s)
    BY <2>1, PlanIs, OfferedIsChecked
  <2>3. QED
    BY <2>2, CheckedPlansAreDeliverable
<1>2. QED
  BY <1>1, PlanInvariance, PTL

\* One kilotonne of one option.
LEMMA OneIs ==
    ASSUME NEW in, InputFacts(in), NEW k \in DOMAIN in.options
    PROVE  Total([j \in DOMAIN in.options |-> IF j = k THEN 1 ELSE 0]) = 1
<1> DEFINE K == DOMAIN in.options
           one == [j \in K |-> IF j = k THEN 1 ELSE 0]
<1>1. one[k] = 1 /\ \A j \in K : one[j] \in Int /\ (j # k => one[j] = 0)
  OBVIOUS
<1>2. IsFiniteSet(K)
  BY DEF InputFacts
<1>3. Total(one) = Sigma(one, K)
  BY TotalIsSigma
<1> HIDE DEF one, K
<1>4. Summable(one, K) /\ k \in K
  BY <1>1, <1>2 DEF Summable, K
<1>5. Sigma(one, K) = one[k]
  BY <1>1, <1>4, SigmaOfOne
<1>6. QED
  BY <1>1, <1>3, <1>5 DEF one, K

\* In every case, under every profile, a kilotonne short outweighs a kilotonne
\* bought.  The weights and the prices of the cases decide whether it is so.
ShortageAlwaysWeighsMost ==
    \A c \in Cases : Accepts(c.twin) =>
        \A profile \in DOMAIN Weights : ShortageWeighsMost(ProcurementInput(c), profile)

\* The checker raises exactly when one of the refineries has no option.
LEMMA RaisesIs ==
    ASSUME NEW c, GoodCase(c)
    PROVE  Raises(ProcurementInput(c)) <=>
              \E x \in Refineries(c.twin) :
                  \A k \in DOMAIN ProcurementInput(c).options : k[4] # x
<1> DEFINE in == ProcurementInput(c)
<1>1. \A k \in DOMAIN in.options : in.options[k].refinery = k[4]
  BY OptionsAre DEF OptionFacts
<1>2. DOMAIN in.demand = Refineries(c.twin)
  BY DEF ProcurementInput
<1> HIDE DEF in
<1>3. QED
  BY <1>1, <1>2 DEF Raises, With, in

\* Where a shortage weighs most, an optimum ends as an error in two cases: there
\* is no option for one of the refineries, at which the checker raises, or not
\* even one kilotonne of one option could be bought.  No input is infeasible
\* (checker.py, solver.py).
THEOREM OptimaBecomePlansAlways ==
    ASSUME ShortageAlwaysWeighsMost
    PROVE  PlanSpec => []OptimaBecomePlans
<1>1. PlanInv => OptimaBecomePlans
  <2> SUFFICES ASSUME PlanInv, stage = "REFUSED" PROVE OptimaBecomePlans
    BY DEF OptimaBecomePlans
  <2> DEFINE in == ProcurementInput(case)
  <2>1. /\ GoodCase(case) /\ problem = in /\ Candidates(case) # {}
        /\ Total(in.demand) # 0 /\ plan.status = "ERROR"
    BY PlanIs
  <2>2. PICK profile \in DOMAIN Weights :
            \E out : Solved(case, profile, out, plan) /\ end = out.end
    BY PlanIs
  <2>3. PICK out : Solved(case, profile, out, plan) /\ end = out.end
    BY <2>2
  <2>4. /\ end # "infeasible"
        /\ end = "optimal" =>
              /\ out \in Optima(in, profile, MaxVolume)
              /\ \/ Raises(in) /\ plan = Failed("CHECKER_ERROR")
                 \/ /\ ~Raises(in) /\ plan = Failed("NO_ACTIONS")
                    /\ \A k \in DOMAIN out.q : out.q[k] = 0
    BY <2>1, <2>3, SolvedIs
  <2>5. ASSUME end = "optimal", ~Raises(in), NEW k \in DOMAIN in.options
        PROVE  LET one == [j \in DOMAIN in.options |-> IF j = k THEN 1 ELSE 0]
               IN  ~LimitsHold(in, one)
                   \/ \E x \in DOMAIN in.demand : Delivered(in, one, x) > in.demand[x]
    <3> DEFINE K == DOMAIN in.options
               one == [j \in K |-> IF j = k THEN 1 ELSE 0]
    <3> SUFFICES ASSUME LimitsHold(in, one),
                        \A x \in DOMAIN in.demand : ~ (Delivered(in, one, x) > in.demand[x])
                 PROVE  FALSE
      OBVIOUS
    <3>1. InputFacts(in) /\ IsFiniteSet(K) /\ MaxVolume \in Nat /\ MaxVolume # 0
      BY <2>1, InputIs, VolumeAssumption DEF InputFacts
    <3>2. one \in [K -> 0..MaxVolume] /\ one \in [K -> Nat]
      BY <3>1
    <3>3. Total(one) = 1
      BY <3>1, OneIs
    <3>4. \A x \in DOMAIN in.demand : Delivered(in, one, x) <= in.demand[x]
      <4> SUFFICES ASSUME NEW x \in DOMAIN in.demand
                   PROVE  Delivered(in, one, x) <= in.demand[x]
        OBVIOUS
      <4>1. With(in, "refinery", x) \in SUBSET K
        BY DEF With
      <4>2. Delivered(in, one, x) \in Nat
        BY <3>1, <3>2, <4>1, BoughtIs DEF Delivered
      <4>3. in.demand[x] \in Nat /\ ~ (Delivered(in, one, x) > in.demand[x])
        BY <3>1 DEF InputFacts
      <4> HIDE DEF one
      <4>4. QED
        BY <4>2, <4>3
    <3> HIDE DEF one
    <3>5. Solvable(in, one)
      BY <2>1, <3>1, <3>4, SolvablePasses
    <3>6. ShortageWeighsMost(in, profile)
      BY ShortageAlwaysWeighsMost DEF PlanInv, ShortageAlwaysWeighsMost
    <3>7. out \in Optima(in, profile, MaxVolume)
      BY <2>4, <2>5
    <3>8. Total(one) <= Total(out.q)
      BY <2>1, <2>5, <3>1, <3>2, <3>5, <3>6, <3>7, OptimumDeliversTheMost
    <3>9. Total(out.q) = 0
      <4>1. out.q \in [K -> 0..MaxVolume]
        BY <3>7, OptimumIs
      <4>2. \A j \in K : out.q[j] = 0
        BY <2>4, <2>5, <4>1
      <4>3. Total(out.q) = Sigma(out.q, K)
        BY <4>1, TotalIsSigma
      <4> HIDE DEF K
      <4>4. QED
        BY <3>1, <4>2, <4>3, SigmaZero
    <3>10. QED
      BY <3>3, <3>8, <3>9
  <2>6. Raises(in) <=> Unserved
    BY <2>1, RaisesIs DEF Unserved
  <2> HIDE DEF in
  <2>7. QED
    BY <2>1, <2>4, <2>5, <2>6 DEF OptimaBecomePlans
<1>2. QED
  BY <1>1, PlanInvariance, PTL

\* Where that is so, no purchase the checker would pass delivers more than the
\* optimum of any profile.
THEOREM OptimaDeliverTheMostAlways ==
    ASSUME ShortageAlwaysWeighsMost
    PROVE  PlanSpec => []OptimaDeliverTheMost
<1>1. PlanInv => OptimaDeliverTheMost
  <2> SUFFICES ASSUME PlanInv, Offered, plan.status = "OPTIMAL",
                      NEW q \in [DOMAIN problem.options -> 0..MaxVolume],
                      LimitsHold(problem, q),
                      \A x \in DOMAIN problem.demand : Delivered(problem, q, x) <= problem.demand[x]
               PROVE  Total(q) <= Total(plan.q)
    BY DEF OptimaDeliverTheMost
  <2> DEFINE in == ProcurementInput(case)
  <2>1. stage \notin {"COMPLETED", "BLOCKED", "NO_DEMAND", "BUILT", "REFUSED"}
    BY OfferedWhen
  <2>2. /\ GoodCase(case) /\ problem = in /\ Candidates(case) # {} /\ Total(in.demand) # 0
    BY <2>1, PlanIs
  <2>3. PICK profile \in DOMAIN Weights : \E out : Solved(case, profile, out, plan)
    BY <2>1, PlanIs
  <2>4. PICK out : Solved(case, profile, out, plan)
    BY <2>3
  <2>5. out \in Optima(in, profile, MaxVolume) /\ plan.q = out.q
    BY <2>2, <2>4, SolvedIs
  <2>6. InputFacts(in) /\ DOMAIN in.options # {} /\ MaxVolume \in Nat
    BY <2>2, InputIs, OptionsAre, VolumeAssumption
  <2>7. Solvable(in, q)
    BY <2>2, <2>6, SolvablePasses
  <2>8. ShortageWeighsMost(in, profile)
    BY ShortageAlwaysWeighsMost DEF PlanInv, ShortageAlwaysWeighsMost
  <2> HIDE DEF in
  <2>9. Total(q) <= Total(out.q)
    BY <2>2, <2>5, <2>6, <2>7, <2>8, OptimumDeliversTheMost
  <2>10. QED
    BY <2>5, <2>9
<1>2. QED
  BY <1>1, PlanInvariance, PTL

\* The outcome behind a release, and the input it is for.
LEMMA ReleaseIs ==
    ASSUME PlanInv, stage \in {"RELEASED", "RELEASE_REFUSED"}
    PROVE  /\ GoodCase(case) /\ problem = ProcurementInput(case)
           /\ Checked(case, plan.q, plan.s)
           /\ \A v \in DOMAIN case.sites : SiteIsKnown(case, v)
           /\ \E policy \in DOMAIN Policies : store = ReserveInput(case, problem, plan, policy)
           /\ StoreFacts(store) /\ DOMAIN store.demand = Refineries(case.twin)
           /\ \A x \in Refineries(case.twin) :
                 store.demand[x] = problem.demand[x] - Delivered(problem, plan.q, x)
           /\ \E out \in Outcomes(ReserveOptima(store, MaxVolume), ReserveStops(store, MaxVolume)) :
                 /\ release = Made(out, ReserveVerdict(store, out)) /\ end = out.end
                 /\ stage = "RELEASE_REFUSED" <=> release.status = "ERROR"
<1>1. GoodCase(case) /\ problem = ProcurementInput(case) /\ Checked(case, plan.q, plan.s)
  BY PlanIs, OfferedIsChecked
<1>2. \A v \in DOMAIN case.sites : SiteIsKnown(case, v)
  BY DEF PlanInv, ReleaseInput
<1>3. PICK policy \in DOMAIN Policies : store = ReserveInput(case, problem, plan, policy)
  BY DEF PlanInv, ReleaseInput
<1>4. /\ StoreFacts(store) /\ DOMAIN store.demand = Refineries(case.twin)
      /\ \A x \in Refineries(case.twin) :
            store.demand[x] = problem.demand[x] - Delivered(problem, plan.q, x)
  BY <1>1, <1>2, <1>3, StoreIs
<1>5. \E out \in Outcomes(ReserveOptima(store, MaxVolume), ReserveStops(store, MaxVolume)) :
         /\ release = Made(out, ReserveVerdict(store, out)) /\ end = out.end
         /\ stage = "RELEASE_REFUSED" <=> release.status = "ERROR"
  BY DEF PlanInv, ReleaseSolved
<1>6. QED
  BY <1>1, <1>2, <1>3, <1>4, <1>5

\* What the checker has passed of a release.
LEMMA ReleasedIs ==
    ASSUME PlanInv, stage = "RELEASED"
    PROVE  /\ release.d \in [DOMAIN store.sites -> Nat]
           /\ release.s \in [DOMAIN store.demand -> Nat]
           /\ release.left = [v \in DOMAIN release.d |-> store.sites[v].stock - release.d[v]]
           /\ \A v \in DOMAIN store.sites : SitePasses(store, release.d, v)
           /\ \A x \in DOMAIN store.demand :
                 Received(store, release.d, x) + release.s[x] = store.demand[x]
<1> DEFINE best == ReserveOptima(store, MaxVolume)
           stops == ReserveStops(store, MaxVolume)
<1>1. PICK out \in Outcomes(best, stops) :
         /\ release = Made(out, ReserveVerdict(store, out)) /\ end = out.end
         /\ stage = "RELEASE_REFUSED" <=> release.status = "ERROR"
  BY ReleaseIs
<1>2. StoreFacts(store) /\ MaxVolume \in Nat
  BY ReleaseIs, VolumeAssumption
<1>3. \A b \in best : b.end = "optimal"
  BY ReserveOptimumIs
<1>4. \A t \in stops : /\ t.end = "stopped" /\ t.d \in [DOMAIN store.sites -> 0..MaxVolume]
                       /\ t.s \in [DOMAIN store.demand -> 0..MaxVolume]
  BY DEF ReserveStops
<1> HIDE DEF best, stops
<1>5. out.end \notin {"infeasible", "failed"}
  BY <1>1, <1>3, <1>4, OutcomeIs
<1>6. release = ReserveVerdict(store, out) /\ (out \in best \/ out \in stops)
  BY <1>1, <1>3, <1>4, <1>5, OutcomeIs
<1>7. ReservePasses(store, out)
  BY <1>1, <1>6 DEF ReserveVerdict, Failed
<1>8. /\ release.d = out.d /\ release.s = out.s
      /\ release.left = [v \in DOMAIN out.d |-> store.sites[v].stock - out.d[v]]
  BY <1>6, <1>7 DEF ReserveVerdict
<1>9. out.d \in [DOMAIN store.sites -> Nat] /\ out.s \in [DOMAIN store.demand -> Nat]
  <2>1. CASE out \in best
    <3>1. /\ out.d \in [DOMAIN store.sites -> 0..MaxVolume] /\ Releasable(store, out.d)
          /\ out.s = Residue(store, out.d)
      BY <2>1, ReserveOptimumIs DEF best
    <3>2. out.d \in [DOMAIN store.sites -> Nat]
      BY <3>1
    <3>3. Residue(store, out.d) \in [DOMAIN store.demand -> Nat]
      BY <1>2, <3>1, <3>2, ReservePointsAre
    <3>4. QED
      BY <3>1, <3>2, <3>3
  <2>2. CASE out \in stops
    BY <1>4, <2>2
  <2>3. QED
    BY <1>6, <2>1, <2>2
<1>10. QED
  BY <1>7, <1>8, <1>9 DEF ReservePasses

\* Whatever the catalogue, the plan and the policy: purchases, dispatches and
\* what is still short make up the demand of every refinery, and no site sends
\* faster, later or deeper than it may.
THEOREM SupplyIsBalancedAlways == PlanSpec => []SupplyIsBalanced
<1>1. PlanInv => SupplyIsBalanced
  <2> SUFFICES ASSUME PlanInv, stage = "RELEASED" PROVE SupplyIsBalanced
    BY DEF SupplyIsBalanced
  <2> DEFINE n == case.twin
             in == problem
             floor == Policies[store.policy].floor
  <2>1. /\ GoodCase(case) /\ problem = ProcurementInput(case)
        /\ Checked(case, plan.q, plan.s)
        /\ \A v \in DOMAIN case.sites : SiteIsKnown(case, v)
        /\ StoreFacts(store) /\ DOMAIN store.demand = Refineries(n)
        /\ \A x \in Refineries(n) :
              store.demand[x] = in.demand[x] - Delivered(in, plan.q, x)
    BY ReleaseIs
  <2>2. PICK policy \in DOMAIN Policies : store = ReserveInput(case, problem, plan, policy)
    BY ReleaseIs
  <2>3. /\ release.d \in [DOMAIN store.sites -> Nat]
        /\ release.s \in [DOMAIN store.demand -> Nat]
        /\ release.left = [v \in DOMAIN release.d |-> store.sites[v].stock - release.d[v]]
        /\ \A v \in DOMAIN store.sites : SitePasses(store, release.d, v)
        /\ \A x \in DOMAIN store.demand :
              Received(store, release.d, x) + release.s[x] = store.demand[x]
    BY ReleasedIs
  <2>4. ASSUME NEW x \in Refineries(n)
        PROVE  LET sent == Received(store, release.d, x) IN
               /\ Delivered(in, plan.q, x) + sent + release.s[x] = in.demand[x]
               /\ n.nodes[x].capacity # Absent =>
                     Delivered(in, plan.q, x) + sent <= n.nodes[x].capacity * case.days
    <3> DEFINE sent == Received(store, release.d, x)
               bought == Delivered(in, plan.q, x)
               most == n.nodes[x].capacity * case.days
    <3>1. sent \in Nat /\ release.s[x] \in Nat
      BY <2>1, <2>3, ReceivedIs
    <3>2. sent + release.s[x] = in.demand[x] - bought
      BY <2>1, <2>3
    <3>3. /\ bought \in Nat /\ in.demand[x] \in Nat
          /\ n.nodes[x].capacity # Absent => most \in Nat /\ in.demand[x] <= most
      BY <2>1, DeliveredIs
    <3> HIDE DEF sent, bought, most, in
    <3>4. bought + sent + release.s[x] = in.demand[x]
      BY <3>1, <3>2, <3>3
    <3>5. n.nodes[x].capacity # Absent => bought + sent <= most
      BY <3>1, <3>3, <3>4
    <3>6. QED
      BY <3>4, <3>5 DEF sent, bought, most, in
  <2>5. ASSUME NEW v \in DOMAIN case.sites, release.d[v] > 0
        PROVE  /\ store.policy # "NO_RESERVE_USE"
               /\ release.d[v] <= case.sites[v].rate * case.days
               /\ n.routes[case.sites[v].route].transit <= case.days
               /\ 100 * release.left[v] >= floor * n.nodes[v].capacity
               /\ release.left[v] + release.d[v] = case.sites[v].stock
    <3> DEFINE given == case.sites[v]
               site == store.sites[v]
               d == release.d[v]
               most == n.nodes[v].capacity
    <3>1. /\ DOMAIN store.sites = DOMAIN case.sites /\ site = Site(case, plan, policy, v)
          /\ store.policy = policy /\ store.days = case.days
      BY <2>1, <2>2 DEF ReserveInput, ProcurementInput
    <3>2. /\ site.stock = given.stock /\ site.rate = given.rate
          /\ site.transit = n.routes[given.route].transit
          /\ site.floor = Floor(given.stock, most, policy)
      BY <3>1 DEF Site
    <3>3. SitePasses(store, release.d, v)
      BY <2>3, <3>1
    <3>4. /\ d <= given.rate * case.days /\ n.routes[given.route].transit <= case.days
          /\ 100 * (given.stock - d) >= site.floor
          /\ policy = "NO_RESERVE_USE" => d = 0
      BY <3>1, <3>2, <3>3 DEF SitePasses, InStore
    <3>5. release.left[v] = given.stock - d /\ d \in Nat /\ d > 0
      BY <2>3, <2>5, <3>1, <3>2
    <3>6. given.stock \in Nat /\ most \in Nat /\ floor \in Nat
      <4>1. given.stock \in Nat
        BY <2>1 DEF GoodCase, HasCaseFigures
      <4>2. v \in DOMAIN n.nodes /\ most # Absent
        BY <2>1 DEF SiteIsKnown, OfKind
      <4>3. HasFigures(n)
        BY <2>1 DEF GoodCase, HasCaseFigures
      <4>4. floor \in Nat
        BY <3>1 DEF Policies, Policy
      <4>5. QED
        BY <4>1, <4>2, <4>3, <4>4 DEF HasFigures
    <3>7. floor * most \in Nat /\ floor * most = most * floor
      BY <3>6, ProductsGrow
    <3> HIDE DEF given, site, d, most
    <3>8. 100 * (given.stock - d) >= floor * most
      <4> DEFINE a == 100 * given.stock
                 b == most * floor
      <4>1. a \in Nat /\ b \in Nat
        BY <3>6, <3>7
      <4>2. site.floor = Min({a, b})
        BY <3>1, <3>2 DEF Floor
      <4> HIDE DEF a, b
      <4>3. site.floor = IF a <= b THEN a ELSE b
        BY <4>1, <4>2, MinOfTwo
      <4>4. 100 * (given.stock - d) < a /\ 100 * (given.stock - d) \in Int
        BY <3>5, <3>6 DEF a
      <4>5. site.floor = b
        BY <3>4, <4>1, <4>3, <4>4
      <4>6. QED
        BY <3>4, <3>7, <4>5 DEF b
    <3>9. release.left[v] + d = given.stock
      BY <3>5, <3>6
    <3>10. store.policy # "NO_RESERVE_USE"
      BY <3>1, <3>4, <3>5
    <3>11. 100 * release.left[v] >= floor * most
      BY <3>5, <3>8
    <3>12. QED
      BY <3>4, <3>9, <3>10, <3>11 DEF given, d, most
  <2>6. QED
    BY <2>4, <2>5 DEF SupplyIsBalanced
<1>2. QED
  BY <1>1, PlanInvariance, PTL

\* Whatever the sites and the policy: a release always has an optimum, and the
\* checker refuses one exactly when some site is farther than the horizon.
THEOREM ReserveOptimaPassAlways == PlanSpec => []ReserveOptimaPass
<1>1. PlanInv => ReserveOptimaPass
  <2> SUFFICES ASSUME PlanInv, stage \in {"RELEASED", "RELEASE_REFUSED"}
               PROVE  /\ end # "infeasible"
                      /\ end = "optimal" =>
                            (stage = "RELEASE_REFUSED") =
                                \E v \in DOMAIN case.sites :
                                    case.twin.routes[case.sites[v].route].transit > case.days
    BY DEF ReserveOptimaPass
  <2> DEFINE best == ReserveOptima(store, MaxVolume)
             stops == ReserveStops(store, MaxVolume)
  <2>1. StoreFacts(store) /\ MaxVolume \in Nat
    BY ReleaseIs, VolumeAssumption
  <2>2. PICK out \in Outcomes(best, stops) :
           /\ release = Made(out, ReserveVerdict(store, out)) /\ end = out.end
           /\ stage = "RELEASE_REFUSED" <=> release.status = "ERROR"
    BY ReleaseIs
  <2>3. best # {}
    BY <2>1, ReserveOptimaExist
  <2>4. (\A b \in best : b.end = "optimal") /\ (\A t \in stops : t.end = "stopped")
    BY ReserveOptimumIs DEF ReserveStops
  <2> HIDE DEF best, stops
  <2>5. end # "infeasible"
    BY <2>2, <2>3, <2>4, OutcomeIs
  <2>6. ASSUME end = "optimal"
        PROVE  (stage = "RELEASE_REFUSED") =
                   \E v \in DOMAIN case.sites :
                       case.twin.routes[case.sites[v].route].transit > case.days
    <3>1. out \in best /\ release = ReserveVerdict(store, out)
      <4>1. out.end = "optimal"
        BY <2>2, <2>6
      <4>2. out \in best
        BY <2>4, <4>1, OutcomeIs
      <4>3. QED
        BY <2>2, <4>1, <4>2 DEF Made
    <3>2. ReservePasses(store, out) <=>
             \A v \in DOMAIN store.sites : store.sites[v].transit <= store.days
      BY <2>1, <3>1, ReserveOptimumPasses DEF best
    <3>3. release.status = "ERROR" <=> ~ReservePasses(store, out)
      BY <3>1 DEF ReserveVerdict, Failed
    <3>4. PICK policy \in DOMAIN Policies : store = ReserveInput(case, problem, plan, policy)
      BY ReleaseIs
    <3>5. problem = ProcurementInput(case)
      BY ReleaseIs
    <3>6. /\ DOMAIN store.sites = DOMAIN case.sites /\ store.days = case.days
          /\ \A v \in DOMAIN case.sites :
                store.sites[v].transit = case.twin.routes[case.sites[v].route].transit
      BY <3>4, <3>5 DEF ReserveInput, ProcurementInput, Site
    <3>7. /\ case.days \in Nat
          /\ \A v \in DOMAIN case.sites :
                case.twin.routes[case.sites[v].route].transit \in Nat
      <4>1. \A v \in DOMAIN store.sites : store.sites[v].transit \in Nat
        BY <2>1 DEF StoreFacts
      <4>2. store.days \in Nat
        BY <2>1 DEF StoreFacts
      <4>3. QED
        BY <3>6, <4>1, <4>2
    <3>8. ReservePasses(store, out) <=>
             \A v \in DOMAIN case.sites :
                 case.twin.routes[case.sites[v].route].transit <= case.days
      BY <3>2, <3>6
    <3>9. stage = "RELEASE_REFUSED" <=>
             \E v \in DOMAIN case.sites :
                 case.twin.routes[case.sites[v].route].transit > case.days
      <4>1. \A v \in DOMAIN case.sites :
               ~ (case.twin.routes[case.sites[v].route].transit <= case.days)
                   <=> case.twin.routes[case.sites[v].route].transit > case.days
        BY <3>7
      <4>2. QED
        BY <2>2, <3>3, <3>8, <4>1
    <3>10. QED
      BY <3>9
  <2>7. QED
    BY <2>5, <2>6
<1>2. QED
  BY <1>1, PlanInvariance, PTL
=============================================================================
