--------------------------- MODULE Compare_proofs ---------------------------
(***************************************************************************)
(* The safety properties of Split and of Compare hold for every dataset,   *)
(* ratio, hash, target and concurrency.                                    *)
(*                                                                         *)
(* What stratify computes comes first: a sum is the number of points under *)
(* the graph of a function, which makes sums add up; the first k of a      *)
(* strict order are k; what allocate leaves over fits among the groups     *)
(* that a remainder is owed to.                                            *)
(*                                                                         *)
(* Inv strengthens them: the two files of a split share no example, and    *)
(* its first already leaves out what the second will hold; the answers     *)
(* here are some of the job's; and a judge run has still to judge exactly  *)
(* the questions without a verdict.                                        *)
(***************************************************************************)
EXTENDS Compare, FiniteSetTheorems, TLAPS

-----------------------------------------------------------------------------
(* Sums over finite sets. *)

\* A family of sets that holds {} and every one more element holds all.
LEMMA SetInduction ==
  ASSUME NEW D, IsFiniteSet(D), NEW Good, {} \in Good,
         \A s \in SUBSET D : \A x \in D \ s : s \in Good => s \cup {x} \in Good
  PROVE  SUBSET D \subseteq Good
<1> DEFINE Bad == (SUBSET D) \ Good
<1> SUFFICES ASSUME Bad # {} PROVE FALSE
  OBVIOUS
<1>1. IsWellFoundedOn(StrictSubsetOrdering(D), SUBSET D)
  BY FS_StrictSubsetOrderingWellFounded, FS_FiniteSubsetsOfFinite
<1>2. PICK s \in Bad : \A r \in Bad : ~ (<<r, s>> \in StrictSubsetOrdering(D))
  <2> HIDE DEF Bad
  <2>1. Bad \subseteq SUBSET D
    BY DEF Bad
  <2> QED
    BY <1>1, <2>1, WFMin
<1>3. PICK x \in s : TRUE
  OBVIOUS
<1>4. <<s \ {x}, s>> \in StrictSubsetOrdering(D)
  BY <1>3 DEF StrictSubsetOrdering
<1>5. s \ {x} \in Good
  BY <1>2, <1>4
<1>6. (s \ {x}) \cup {x} = s /\ x \in D \ (s \ {x}) /\ s \ {x} \in SUBSET D
  BY <1>3
<1> QED
  BY <1>5, <1>6

LEMMA TwoParts ==
  ASSUME NEW A, NEW B, IsFiniteSet(A), IsFiniteSet(B), A \cap B = {}
  PROVE  /\ IsFiniteSet(A \cup B)
         /\ Cardinality(A \cup B) = Cardinality(A) + Cardinality(B)
<1>1. Cardinality(A) \in Nat /\ Cardinality(B) \in Nat
  BY FS_CardinalityType
<1>2. Cardinality(A \cap B) = 0
  BY FS_EmptySet, Zenon
<1>3. /\ IsFiniteSet(A \cup B)
      /\ Cardinality(A \cup B)
           = Cardinality(A) + Cardinality(B) - Cardinality(A \cap B)
  BY FS_Union, Zenon
<1> QED
  BY <1>1, <1>2, <1>3

\* One point under the graph of f for every one that f counts.
Area(f, s) == {p \in s \X Nat : p[2] < f[p[1]]}

LEMMA AreaAdds ==
  ASSUME NEW D, NEW f \in [D -> Nat], NEW s \in SUBSET D, NEW x \in D \ s,
         IsFiniteSet(Area(f, s))
  PROVE  /\ IsFiniteSet(Area(f, s \cup {x}))
         /\ Cardinality(Area(f, s \cup {x})) = f[x] + Cardinality(Area(f, s))
<1> DEFINE over == {x} \X (0 .. f[x] - 1)
           up == [i \in 0 .. f[x] - 1 |-> <<x, i>>]
<1>1. Area(f, s \cup {x}) = Area(f, s) \cup over /\ Area(f, s) \cap over = {}
  BY DEF Area
<1>2. up \in [0 .. f[x] - 1 -> over] /\ \A p \in over : \E i \in 0 .. f[x] - 1 : up[i] = p
  OBVIOUS
<1>3. up \in Bijection(0 .. f[x] - 1, over)
  BY <1>2 DEF Bijection, Injection, Surjection, IsInjective
<1>4. IsFiniteSet(0 .. f[x] - 1) /\ Cardinality(0 .. f[x] - 1) = f[x]
  BY FS_Interval
<1>5. IsFiniteSet(over) /\ Cardinality(over) = f[x]
  <2> HIDE DEF over, up
  <2>1. ExistsBijection(0 .. f[x] - 1, over)
    BY <1>3 DEF ExistsBijection
  <2> QED
    BY <2>1, <1>4, FS_Bijection
<1> HIDE DEF over, up
<1>6. /\ IsFiniteSet(Area(f, s) \cup over)
      /\ Cardinality(Area(f, s) \cup over)
           = Cardinality(Area(f, s)) + Cardinality(over)
  BY <1>1, <1>5, TwoParts, Zenon
<1>7. /\ IsFiniteSet(Area(f, s \cup {x}))
      /\ Cardinality(Area(f, s \cup {x})) = Cardinality(Area(f, s)) + f[x]
  BY <1>1, <1>5, <1>6, Zenon
<1>8. Cardinality(Area(f, s)) \in Nat /\ f[x] \in Nat
  BY FS_CardinalityType
<1> QED
  BY <1>7, <1>8

LEMMA AreaFinite ==
  ASSUME NEW E, NEW f \in [E -> Nat], NEW D \in SUBSET E, IsFiniteSet(D)
  PROVE  \A s \in SUBSET D : IsFiniteSet(Area(f, s))
<1> DEFINE Good == {s \in SUBSET D : IsFiniteSet(Area(f, s))}
<1>1. {} \in Good
  <2>1. Area(f, {}) = {}
    BY DEF Area
  <2> QED
    BY <2>1, FS_EmptySet
<1>2. \A s \in SUBSET D : \A x \in D \ s : s \in Good => s \cup {x} \in Good
  BY AreaAdds
<1> HIDE DEF Good
<1>3. SUBSET D \subseteq Good
  BY <1>1, <1>2, SetInduction
<1> QED
  BY <1>3 DEF Good

LEMMA AreaTakes ==
  ASSUME NEW E, NEW f \in [E -> Nat], NEW D \in SUBSET E, IsFiniteSet(D),
         NEW s \in SUBSET D, NEW x \in s
  PROVE  Cardinality(Area(f, s)) = f[x] + Cardinality(Area(f, s \ {x}))
<1> DEFINE r == s \ {x}
<1>1. r \in SUBSET D /\ r \in SUBSET E /\ x \in E \ r
  OBVIOUS
<1>2. r \cup {x} = s
  OBVIOUS
<1> HIDE DEF r
<1>3. IsFiniteSet(Area(f, r))
  BY <1>1, AreaFinite
<1>4. Cardinality(Area(f, r \cup {x})) = f[x] + Cardinality(Area(f, r))
  BY <1>1, <1>3, AreaAdds
<1> QED
  BY <1>2, <1>4, Zenon DEF r

\* SumFunctionOnSet takes the elements in whatever order CHOOSE gives them.
LEMMA SumIsArea ==
  ASSUME NEW E, NEW f \in [E -> Nat], NEW D \in SUBSET E, IsFiniteSet(D)
  PROVE  SumFunctionOnSet(f, D) = Cardinality(Area(f, D))
<1> DEFINE Sums(g) == g = [s \in SUBSET D |->
             IF s = {} THEN 0
             ELSE f[CHOOSE x \in s : TRUE] + g[s \ {CHOOSE x \in s : TRUE}]]
           h == [s \in SUBSET D |-> Cardinality(Area(f, s))]
           iter == CHOOSE g : Sums(g)
<1>1. SumFunctionOnSet(f, D) = iter[D]
  BY DEF SumFunctionOnSet, FoldFunctionOnSet, MapThenFoldSet
<1>2. Sums(h)
  <2> SUFFICES ASSUME NEW s \in SUBSET D
               PROVE  h[s] = IF s = {} THEN 0
                       ELSE f[CHOOSE x \in s : TRUE] + h[s \ {CHOOSE x \in s : TRUE}]
    BY Zenon
  <2>1. CASE s = {}
    BY <2>1, FS_EmptySet DEF Area
  <2>2. CASE s # {}
    <3> DEFINE x == CHOOSE x \in s : TRUE
    <3>1. x \in s
      BY <2>2
    <3> HIDE DEF x
    <3>2. Cardinality(Area(f, s)) = f[x] + Cardinality(Area(f, s \ {x}))
      BY <3>1, AreaTakes
    <3>3. s \ {x} \in SUBSET D
      OBVIOUS
    <3> QED
      BY <3>2, <3>3, <2>2 DEF x
  <2> QED
    BY <2>1, <2>2
<1>3. Sums(iter)
  BY <1>2
<1>4. \A s \in SUBSET D : iter[s] = Cardinality(Area(f, s))
  <2> DEFINE Bad == {s \in SUBSET D : iter[s] # Cardinality(Area(f, s))}
  <2> SUFFICES ASSUME Bad # {} PROVE FALSE
    OBVIOUS
  <2> HIDE DEF iter
  <2>1. IsWellFoundedOn(StrictSubsetOrdering(D), SUBSET D)
    BY FS_StrictSubsetOrderingWellFounded, FS_FiniteSubsetsOfFinite
  <2>2. PICK s \in Bad : \A r \in Bad : ~ (<<r, s>> \in StrictSubsetOrdering(D))
    <3> HIDE DEF Bad
    <3>1. Bad \subseteq SUBSET D
      BY DEF Bad
    <3> QED
      BY <2>1, <3>1, WFMin
  <2>3. iter[s] = IF s = {} THEN 0
                  ELSE f[CHOOSE x \in s : TRUE] + iter[s \ {CHOOSE x \in s : TRUE}]
    BY <1>3
  <2>4. CASE s = {}
    BY <2>3, <2>4, FS_EmptySet DEF Area
  <2>5. CASE s # {}
    <3> DEFINE x == CHOOSE x \in s : TRUE
    <3>1. x \in s
      BY <2>5
    <3>2. iter[s] = f[x] + iter[s \ {x}]
      BY <2>3, <2>5
    <3> HIDE DEF x
    <3>3. s \ {x} \in SUBSET D
      OBVIOUS
    <3>4. <<s \ {x}, s>> \in StrictSubsetOrdering(D)
      BY <3>1 DEF StrictSubsetOrdering
    <3>5. iter[s \ {x}] = Cardinality(Area(f, s \ {x}))
      BY <3>3, <3>4, <2>2
    <3>6. Cardinality(Area(f, s)) = f[x] + Cardinality(Area(f, s \ {x}))
      BY <3>1, AreaTakes
    <3> QED
      BY <3>2, <3>5, <3>6
  <2> QED
    BY <2>4, <2>5
<1> QED
  BY <1>1, <1>4

LEMMA SumAdds ==
  ASSUME NEW D, IsFiniteSet(D), NEW f \in [D -> Nat]
  PROVE  /\ \A s \in SUBSET D : SumFunctionOnSet(f, s) \in Nat
         /\ SumFunctionOnSet(f, {}) = 0
         /\ \A s \in SUBSET D : \A x \in D \ s :
              SumFunctionOnSet(f, s \cup {x}) = f[x] + SumFunctionOnSet(f, s)
<1>1. \A s \in SUBSET D : /\ IsFiniteSet(s) /\ IsFiniteSet(Area(f, s))
                          /\ Cardinality(Area(f, s)) \in Nat
  BY FS_Subset, AreaFinite, FS_CardinalityType
<1>2. \A s \in SUBSET D : SumFunctionOnSet(f, s) = Cardinality(Area(f, s))
  BY <1>1, SumIsArea
<1>3. SumFunctionOnSet(f, {}) = 0
  <2>1. Area(f, {}) = {}
    BY DEF Area
  <2> QED
    BY <1>2, <2>1, FS_EmptySet
<1>4. ASSUME NEW s \in SUBSET D, NEW x \in D \ s
      PROVE  SumFunctionOnSet(f, s \cup {x}) = f[x] + SumFunctionOnSet(f, s)
  <2>1. s \cup {x} \in SUBSET D
    OBVIOUS
  <2> QED
    BY <1>1, <1>2, <2>1, AreaAdds
<1> QED
  BY <1>1, <1>2, <1>3, <1>4

\* The sizes of the groups of Q by name add up to that of Q.
LEMMA SumCounts ==
  ASSUME NEW G, IsFiniteSet(G), NEW Q, IsFiniteSet(Q), NEW name, NEW f \in [G -> Nat],
         \A e \in Q : name[e] \in G,
         \A g \in G : f[g] = Cardinality({e \in Q : name[e] = g})
  PROVE  SumFunction(f) = Cardinality(Q)
<1> DEFINE In(s) == {e \in Q : name[e] \in s}
           Good == {s \in SUBSET G : SumFunctionOnSet(f, s) = Cardinality(In(s))}
<1>1. {} \in Good
  <2>1. In({}) = {}
    OBVIOUS
  <2> QED
    BY <2>1, SumAdds, FS_EmptySet
<1>2. ASSUME NEW s \in SUBSET G, NEW x \in G \ s,
             SumFunctionOnSet(f, s) = Cardinality(In(s))
      PROVE  SumFunctionOnSet(f, s \cup {x}) = Cardinality(In(s \cup {x}))
  <2> DEFINE here == {e \in Q : name[e] = x}
  <2>1. In(s \cup {x}) = In(s) \cup here /\ In(s) \cap here = {}
    OBVIOUS
  <2>2. In(s) \in SUBSET Q /\ here \in SUBSET Q
    OBVIOUS
  <2>3. f[x] = Cardinality(here)
    OBVIOUS
  <2>4. SumFunctionOnSet(f, s \cup {x}) = f[x] + SumFunctionOnSet(f, s)
    BY SumAdds
  <2> HIDE DEF In, here
  <2>5. IsFiniteSet(In(s)) /\ IsFiniteSet(here)
    BY <2>2, FS_Subset
  <2>6. Cardinality(In(s) \cup here) = Cardinality(In(s)) + Cardinality(here)
    BY <2>1, <2>5, TwoParts, Zenon
  <2>7. Cardinality(In(s \cup {x})) = Cardinality(In(s)) + Cardinality(here)
    BY <2>1, <2>6, Zenon
  <2>8. Cardinality(In(s)) \in Nat /\ Cardinality(here) \in Nat
    BY <2>5, FS_CardinalityType
  <2> QED
    BY <1>2, <2>3, <2>4, <2>7, <2>8
<1>3. In(G) = Q /\ DOMAIN f = G /\ G \in SUBSET G
  OBVIOUS
<1> HIDE DEF In
<1>5. \A s \in SUBSET G : \A x \in G \ s : s \in Good => s \cup {x} \in Good
  BY <1>2
<1> HIDE DEF Good
<1>4. SUBSET G \subseteq Good
  BY <1>1, <1>5, SetInduction
<1> QED
  BY <1>3, <1>4 DEF Good, SumFunction

LEMMA SumOfSums ==
  ASSUME NEW G, IsFiniteSet(G), NEW f \in [G -> Nat], NEW g \in [G -> Nat],
         NEW h \in [G -> Nat], \A x \in G : h[x] = f[x] + g[x]
  PROVE  SumFunction(h) = SumFunction(f) + SumFunction(g)
<1> DEFINE Good == {s \in SUBSET G : SumFunctionOnSet(h, s)
                      = SumFunctionOnSet(f, s) + SumFunctionOnSet(g, s)}
<1>1. {} \in Good
  BY SumAdds
<1>2. \A s \in SUBSET G : /\ SumFunctionOnSet(f, s) \in Nat
                          /\ SumFunctionOnSet(g, s) \in Nat
  BY SumAdds
<1>3. ASSUME NEW s \in SUBSET G, NEW x \in G \ s, s \in Good
      PROVE  s \cup {x} \in Good
  <2>1. /\ SumFunctionOnSet(h, s \cup {x}) = h[x] + SumFunctionOnSet(h, s)
        /\ SumFunctionOnSet(f, s \cup {x}) = f[x] + SumFunctionOnSet(f, s)
        /\ SumFunctionOnSet(g, s \cup {x}) = g[x] + SumFunctionOnSet(g, s)
    BY SumAdds
  <2>2. SumFunctionOnSet(h, s)
          = SumFunctionOnSet(f, s) + SumFunctionOnSet(g, s)
    BY <1>3
  <2>3. SumFunctionOnSet(h, s \cup {x})
          = SumFunctionOnSet(f, s \cup {x}) + SumFunctionOnSet(g, s \cup {x})
    BY <1>2, <2>1, <2>2
  <2> QED
    BY <2>3
<1> HIDE DEF Good
<1>4. SUBSET G \subseteq Good
  BY <1>1, <1>3, SetInduction
<1>5. DOMAIN f = G /\ DOMAIN g = G /\ DOMAIN h = G
  OBVIOUS
<1> QED
  BY <1>4, <1>5 DEF Good, SumFunction

LEMMA SumOfMultiples ==
  ASSUME NEW G, IsFiniteSet(G), NEW c \in Nat, NEW f \in [G -> Nat],
         NEW h \in [G -> Nat], \A x \in G : h[x] = c * f[x]
  PROVE  SumFunction(h) = c * SumFunction(f)
<1> DEFINE Good == {s \in SUBSET G :
                      SumFunctionOnSet(h, s) = c * SumFunctionOnSet(f, s)}
<1>1. {} \in Good
  BY SumAdds
<1>2. \A s \in SUBSET G : SumFunctionOnSet(f, s) \in Nat
  BY SumAdds
<1>3. ASSUME NEW s \in SUBSET G, NEW x \in G \ s, s \in Good
      PROVE  s \cup {x} \in Good
  <2>1. /\ SumFunctionOnSet(h, s \cup {x}) = h[x] + SumFunctionOnSet(h, s)
        /\ SumFunctionOnSet(f, s \cup {x}) = f[x] + SumFunctionOnSet(f, s)
    BY SumAdds
  <2>2. SumFunctionOnSet(h, s) = c * SumFunctionOnSet(f, s)
    BY <1>3
  <2>3. SumFunctionOnSet(h, s \cup {x}) = c * SumFunctionOnSet(f, s \cup {x})
    BY <1>2, <2>1, <2>2
  <2> QED
    BY <2>3
<1> HIDE DEF Good
<1>4. SUBSET G \subseteq Good
  BY <1>1, <1>3, SetInduction
<1>5. DOMAIN f = G /\ DOMAIN h = G
  OBVIOUS
<1> QED
  BY <1>4, <1>5 DEF Good, SumFunction

LEMMA SumBounded ==
  ASSUME NEW G, IsFiniteSet(G), NEW f \in [G -> Nat], NEW h \in [G -> Nat],
         \A x \in G : f[x] <= h[x]
  PROVE  SumFunction(f) <= SumFunction(h)
<1> DEFINE rest == [x \in G |-> h[x] - f[x]]
<1>1. rest \in [G -> Nat] /\ \A x \in G : h[x] = f[x] + rest[x]
  OBVIOUS
<1> HIDE DEF rest
<1>2. SumFunction(h) = SumFunction(f) + SumFunction(rest)
  BY <1>1, SumOfSums
<1>3. SumFunction(f) \in Nat /\ SumFunction(rest) \in Nat
  BY <1>1, SumAdds DEF SumFunction
<1> QED
  BY <1>2, <1>3

LEMMA SumOfMarks ==
  ASSUME NEW G, IsFiniteSet(G), NEW M \in SUBSET G, NEW f \in [G -> Nat],
         \A x \in G : f[x] = IF x \in M THEN 1 ELSE 0
  PROVE  IsFiniteSet(M) /\ SumFunction(f) = Cardinality(M)
<1> DEFINE self == [x \in G |-> x]
<1>1. IsFiniteSet(M)
  BY FS_Subset
<1>2. \A x \in M : self[x] \in G
  OBVIOUS
<1>3. ASSUME NEW x \in G PROVE f[x] = Cardinality({e \in M : self[e] = x})
  <2>1. CASE x \in M
    <3>1. {e \in M : self[e] = x} = {x}
      BY <2>1
    <3> HIDE DEF self
    <3> QED
      BY <2>1, <3>1, FS_Singleton
  <2>2. CASE x \notin M
    <3>1. {e \in M : self[e] = x} = {}
      BY <2>2
    <3> HIDE DEF self
    <3> QED
      BY <2>2, <3>1, FS_EmptySet
  <2> QED
    BY <2>1, <2>2
<1> HIDE DEF self
<1> QED
  BY <1>1, <1>2, <1>3, SumCounts

LEMMA Division ==
  ASSUME NEW a \in Nat, NEW n \in Nat \ {0}
  PROVE  /\ a \div n \in Nat /\ a % n \in 0 .. n - 1
         /\ n * (a \div n) + (a % n) = a
OBVIOUS

-----------------------------------------------------------------------------
(* The shares of allocate, and the first in an order. *)

\* b[g] is what comes before g in a strict order of G: k have less than k before.
LEMMA FirstOfOrder ==
  ASSUME NEW G, IsFiniteSet(G), NEW b \in [G -> SUBSET G],
         \A g \in G : g \notin b[g],
         \A g, h \in G : g # h => g \in b[h] \/ h \in b[g],
         \A g, h \in G : h \in b[g] => b[h] \subseteq b[g],
         NEW k \in Nat, k <= Cardinality(G)
  PROVE  /\ IsFiniteSet({g \in G : Cardinality(b[g]) < k})
         /\ Cardinality({g \in G : Cardinality(b[g]) < k}) = k
<1> DEFINE n == Cardinality(G)
           rank == [g \in G |-> Cardinality(b[g])]
           F == {g \in G : rank[g] < k}
           place == [g \in F |-> rank[g]]
<1>1. n \in Nat
  BY FS_CardinalityType
<1>2. ASSUME NEW g \in G PROVE IsFiniteSet(b[g]) /\ Cardinality(b[g]) \in 0 .. n - 1
  <2>1. b[g] \in SUBSET (G \ {g})
    OBVIOUS
  <2>2. IsFiniteSet(G \ {g}) /\ Cardinality(G \ {g}) = n - 1
    BY FS_RemoveElement
  <2>3. IsFiniteSet(b[g]) /\ Cardinality(b[g]) <= n - 1
    BY <2>1, <2>2, FS_Subset
  <2> QED
    BY <1>1, <2>3, FS_CardinalityType
<1>3. ASSUME NEW g \in G, NEW h \in G, h \in b[g]
      PROVE  Cardinality(b[h]) < Cardinality(b[g])
  <2>1. b[h] \in SUBSET b[g] /\ h \in b[g] /\ h \notin b[h]
    BY <1>3
  <2>2. b[h] # b[g]
    BY <2>1
  <2>3. Cardinality(b[h]) <= Cardinality(b[g]) /\ Cardinality(b[h]) # Cardinality(b[g])
    BY <1>2, <2>1, <2>2, FS_Subset
  <2> QED
    BY <1>2, <2>3
<1>4. rank \in Injection(G, 0 .. n - 1)
  <2>1. rank \in [G -> 0 .. n - 1]
    BY <1>2
  <2>2. ASSUME NEW g \in G, NEW h \in G, g # h PROVE rank[g] # rank[h]
    <3>1. Cardinality(b[g]) \in Int /\ Cardinality(b[h]) \in Int
      BY <1>2
    <3> QED
      BY <1>3, <2>2, <3>1
  <2> HIDE DEF rank
  <2> QED
    BY <2>1, <2>2 DEF Injection, IsInjective
<1>5. IsFiniteSet(0 .. n - 1) /\ Cardinality(0 .. n - 1) = n
  <2> HIDE DEF n
  <2> QED
    BY <1>1, FS_Interval
<1> HIDE DEF n, rank
<1>6. rank \in Surjection(G, 0 .. n - 1)
  <2>1. Cardinality(G) = Cardinality(0 .. n - 1)
    BY <1>5 DEF n
  <2> QED
    BY <1>4, <1>5, <2>1, FS_Injection, Zenon
<1>7. IsFiniteSet(F)
  BY FS_Subset
<1>8. place \in Bijection(F, 0 .. k - 1)
  <2>1. place \in [F -> 0 .. k - 1]
    BY <1>4 DEF Injection
  <2>2. \A x, y \in F : place[x] = place[y] => x = y
    BY <1>4 DEF Injection, IsInjective
  <2>3. \A i \in 0 .. k - 1 : \E x \in F : place[x] = i
    <3> SUFFICES ASSUME NEW i \in 0 .. k - 1 PROVE \E x \in F : place[x] = i
      OBVIOUS
    <3>1. i \in 0 .. n - 1
      BY <1>1 DEF n
    <3>2. PICK x \in G : rank[x] = i
      BY <1>6, <3>1 DEF Surjection
    <3> QED
      BY <3>2
  <2> HIDE DEF place, F
  <2>4. DOMAIN place = F
    BY <2>1
  <2> QED
    BY <2>1, <2>2, <2>3, <2>4 DEF Bijection, Injection, Surjection, IsInjective
<1>9. IsFiniteSet(0 .. k - 1) /\ Cardinality(0 .. k - 1) = k
  BY FS_Interval
<1>10. Cardinality(F) = k
  <2> HIDE DEF F, place
  <2>1. ExistsBijection(F, 0 .. k - 1)
    BY <1>8 DEF ExistsBijection
  <2> QED
    BY <1>7, <1>9, <2>1, FS_Bijection
<1>11. F = {g \in G : Cardinality(b[g]) < k}
  BY DEF rank
<1> QED
  BY <1>7, <1>10, <1>11, Zenon

\* pick: as many as the quota says.
LEMMA PickIsExact ==
  ASSUME NEW group \in SUBSET Example, NEW quota \in Nat,
         quota <= Cardinality(group)
  PROVE  pick(group, quota) \subseteq group /\ Cardinality(pick(group, quota)) = quota
<1> DEFINE b == [e \in group |-> {f \in group : hash_id[f] < hash_id[e]}]
<1>1. IsFiniteSet(group)
  BY ExampleAssumption, FS_Subset
<1>2. \A e \in group : hash_id[e] \in Int
  BY ExampleAssumption
<1>3. \A e, f \in group : hash_id[e] = hash_id[f] => e = f
  BY ExampleAssumption DEF IsInjective
<1>4. b \in [group -> SUBSET group]
  OBVIOUS
<1>5. \A e \in group : e \notin b[e]
  BY <1>2
<1>6. \A e, f \in group : e # f => e \in b[f] \/ f \in b[e]
  BY <1>2, <1>3
<1>7. \A e, f \in group : f \in b[e] => b[f] \subseteq b[e]
  BY <1>2
<1>8. pick(group, quota) = {e \in group : Cardinality(b[e]) < quota}
  BY DEF pick
<1> HIDE DEF b
<1>9. Cardinality({e \in group : Cardinality(b[e]) < quota}) = quota
  BY <1>1, <1>4, <1>5, <1>6, <1>7, FirstOfOrder
<1> QED
  BY <1>8, <1>9, Zenon

\* The integer part of a share, what is left over of it, and who comes before.
Share(size, E) ==
  [g \in DOMAIN size |-> (size[g] * E) \div SumFunction(size)]
Remainder(size, E) ==
  [g \in DOMAIN size |-> (size[g] * E) % SumFunction(size)]
First(size, E) ==
  [g \in DOMAIN size |->
     {h \in DOMAIN size : \/ Remainder(size, E)[h] > Remainder(size, E)[g]
                          \/ /\ Remainder(size, E)[h] = Remainder(size, E)[g]
                             /\ hash[h] < hash[g]}]
Left(size, E) == E - SumFunction(Share(size, E))
Lucky(size, E) ==
  {g \in DOMAIN size : Cardinality(First(size, E)[g]) < Left(size, E)}

LEMMA AllocateIs ==
  ASSUME NEW size, NEW E
  PROVE  allocate(size, E) =
           [g \in DOMAIN size |-> Share(size, E)[g]
              + IF g \in Lucky(size, E) THEN 1 ELSE 0]
BY DEF allocate, Share, Remainder, First, Left, Lucky

LEMMA ShareOfOne ==
  ASSUME NEW G, IsFiniteSet(G), NEW size \in [G -> Nat], NEW E \in Nat,
         SumFunction(size) > 0, NEW g \in G
  PROVE  /\ SumFunction(size) \in Nat
         /\ Share(size, E)[g] \in Nat
         /\ Remainder(size, E)[g] \in 0 .. SumFunction(size) - 1
         /\ SumFunction(size) * Share(size, E)[g] + Remainder(size, E)[g]
              = size[g] * E
<1> DEFINE total == SumFunction(size)
           share == Share(size, E)[g]
           remainder == Remainder(size, E)[g]
<1>1. total \in Nat /\ DOMAIN size = G
  BY SumAdds DEF SumFunction
<1>2. /\ share = (size[g] * E) \div total
      /\ remainder = (size[g] * E) % total
  BY <1>1 DEF Share, Remainder
<1>3. total \in Nat \ {0} /\ size[g] * E \in Nat
  BY <1>1
<1> HIDE DEF share, remainder, total
<1>4. /\ share \in Nat /\ remainder \in 0 .. total - 1
      /\ total * share + remainder = size[g] * E
  BY <1>2, <1>3, Division
<1> QED
  BY <1>1, <1>4 DEF share, remainder, total

LEMMA SharesAndRemainders ==
  ASSUME NEW G, IsFiniteSet(G), NEW size \in [G -> Nat], NEW E \in Nat,
         SumFunction(size) > 0
  PROVE  LET share == Share(size, E)
             remainder == Remainder(size, E)
             total == SumFunction(size)
         IN  /\ total \in Nat
             /\ share \in [G -> Nat] /\ remainder \in [G -> 0 .. total - 1]
             /\ SumFunction(share) \in Nat /\ SumFunction(remainder) \in Nat
             /\ total * SumFunction(share) + SumFunction(remainder) = E * total
<1> DEFINE share == Share(size, E)
           remainder == Remainder(size, E)
           total == SumFunction(size)
           scaled == [g \in G |-> total * share[g]]
           exact == [g \in G |-> E * size[g]]
<1>1. total \in Nat /\ DOMAIN size = G
  BY SumAdds DEF SumFunction
<1>2. ASSUME NEW g \in G
      PROVE  /\ share[g] \in Nat /\ remainder[g] \in 0 .. total - 1
             /\ total * share[g] + remainder[g] = size[g] * E
  BY ShareOfOne
<1>3. share \in [G -> Nat] /\ remainder \in [G -> 0 .. total - 1]
  <2>1. share = [g \in G |-> share[g]] /\ remainder = [g \in G |-> remainder[g]]
    BY <1>1 DEF Share, Remainder
  <2> HIDE DEF share, remainder, total
  <2> QED
    BY <1>2, <2>1
<1> HIDE DEF share, remainder, total
<1>4. remainder \in [G -> Nat]
  BY <1>1, <1>3
<1>5. scaled \in [G -> Nat] /\ exact \in [G -> Nat]
  BY <1>1, <1>2
<1>6. \A g \in G : exact[g] = scaled[g] + remainder[g]
  <2> SUFFICES ASSUME NEW g \in G PROVE exact[g] = scaled[g] + remainder[g]
    OBVIOUS
  <2>1. E * size[g] = size[g] * E
    OBVIOUS
  <2> QED
    BY <1>2, <2>1
<1>7. \A g \in G : scaled[g] = total * share[g] /\ exact[g] = E * size[g]
  OBVIOUS
<1> HIDE DEF scaled, exact
<1>8. SumFunction(exact) = SumFunction(scaled) + SumFunction(remainder)
  BY <1>4, <1>5, <1>6, SumOfSums
<1>9. SumFunction(scaled) = total * SumFunction(share)
  BY <1>1, <1>3, <1>5, <1>7, SumOfMultiples
<1>10. SumFunction(exact) = E * total
  BY <1>5, <1>7, SumOfMultiples DEF total
<1>11. SumFunction(share) \in Nat /\ SumFunction(remainder) \in Nat
  BY <1>3, <1>4, SumAdds DEF SumFunction
<1> QED
  BY <1>1, <1>2, <1>3, <1>8, <1>9, <1>10, <1>11 DEF share, remainder, total

\* As many are left over as some of the groups with a remainder.
LEMMA LeftFits ==
  ASSUME NEW G, IsFiniteSet(G), NEW size \in [G -> Nat], NEW E \in Nat,
         SumFunction(size) > 0
  PROVE  LET owed == {g \in G : Remainder(size, E)[g] > 0}
         IN  /\ Left(size, E) \in Nat /\ IsFiniteSet(owed)
             /\ Left(size, E) <= Cardinality(owed)
<1> DEFINE share == Share(size, E)
           remainder == Remainder(size, E)
           total == SumFunction(size)
           owed == {g \in G : remainder[g] > 0}
           mark == [g \in G |-> IF g \in owed THEN 1 ELSE 0]
           most == [g \in G |-> (total - 1) * mark[g]]
           left == Left(size, E)
           S == SumFunction(share)
           R == SumFunction(remainder)
           C == Cardinality(owed)
<1>1. /\ total \in Nat /\ total > 0 /\ S \in Nat /\ R \in Nat
      /\ remainder \in [G -> 0 .. total - 1]
      /\ total * S + R = E * total
  BY SharesAndRemainders, Zenon
<1>2. left = E - S
  BY DEF Left
<1> HIDE DEF share, remainder, total, left
<1>3. remainder \in [G -> Nat] /\ mark \in [G -> Nat] /\ most \in [G -> Nat]
  BY <1>1
<1>4. \A g \in G : remainder[g] <= most[g]
  BY <1>1
<1>5. \A g \in G : most[g] = (total - 1) * mark[g]
  OBVIOUS
<1>6. \A g \in G : mark[g] = IF g \in owed THEN 1 ELSE 0
  OBVIOUS
<1>7. owed \in SUBSET G /\ total - 1 \in Nat
  BY <1>1
<1> HIDE DEF mark, most, owed
<1>8. IsFiniteSet(owed) /\ SumFunction(mark) = C
  BY <1>3, <1>6, <1>7, SumOfMarks
<1>9. SumFunction(most) = (total - 1) * C
  BY <1>3, <1>5, <1>7, <1>8, SumOfMultiples
<1>10. R <= SumFunction(most)
  BY <1>3, <1>4, SumBounded
<1>11. C \in Nat
  BY <1>8, FS_CardinalityType
<1> HIDE DEF S, R, C
<1>12. R <= (total - 1) * C
  BY <1>9, <1>10
<1>13. total * (E - S) = R
  BY <1>1
<1>14. total * (E - S) <= total * C
  BY <1>1, <1>11, <1>12, <1>13
<1>15. E - S <= C /\ E - S >= 0
  BY <1>1, <1>11, <1>13, <1>14
<1> QED
  BY <1>1, <1>2, <1>8, <1>15 DEF owed, left, remainder, C

\* The lucky groups are as many as are left over, and each is owed some of it.
LEMMA LuckyCount ==
  ASSUME NEW G \in SUBSET DOMAIN hash, IsFiniteSet(G), NEW size \in [G -> Nat],
         NEW E \in Nat, SumFunction(size) > 0
  PROVE  /\ Cardinality(Lucky(size, E)) = Left(size, E)
         /\ \A g \in Lucky(size, E) : Remainder(size, E)[g] > 0
<1> DEFINE remainder == Remainder(size, E)
           first == First(size, E)
           left == Left(size, E)
           owed == {g \in G : remainder[g] > 0}
           total == SumFunction(size)
<1>1. remainder \in [G -> 0 .. total - 1] /\ total \in Nat
  BY SharesAndRemainders, Zenon
<1>2. left \in Nat /\ IsFiniteSet(owed) /\ left <= Cardinality(owed)
  BY LeftFits, Zenon
<1>3. DOMAIN size = G
  OBVIOUS
<1>4. /\ first \in [G -> SUBSET G]
      /\ \A g \in G : first[g] =
           {h \in G : \/ remainder[h] > remainder[g]
                      \/ /\ remainder[h] = remainder[g]
                         /\ hash[h] < hash[g]}
  BY <1>3 DEF First
<1>5. Lucky(size, E) = {g \in G : Cardinality(first[g]) < left}
  BY <1>3 DEF Lucky
<1> HIDE DEF remainder, first, left, total
<1>6. \A g \in G : remainder[g] \in Int /\ hash[g] \in Int
  BY <1>1, ExampleAssumption
<1>7. \A g, h \in G : hash[g] = hash[h] => g = h
  BY ExampleAssumption DEF IsInjective
<1>8. \A g \in G : g \notin first[g]
  BY <1>4, <1>6
<1>9. \A g, h \in G : g # h => g \in first[h] \/ h \in first[g]
  BY <1>4, <1>6, <1>7
<1>10. \A g, h \in G : h \in first[g] => first[h] \subseteq first[g]
  BY <1>4, <1>6
<1>11. Cardinality(owed) <= Cardinality(G) /\ Cardinality(owed) \in Nat
       /\ Cardinality(G) \in Nat
  BY FS_Subset, FS_CardinalityType
<1>12. Cardinality({g \in G : Cardinality(first[g]) < left}) = left
  <2>1. left <= Cardinality(G)
    BY <1>2, <1>11
  <2> QED
    BY <1>2, <1>4, <1>8, <1>9, <1>10, <2>1, FirstOfOrder
<1>13. ASSUME NEW g \in G, Cardinality(first[g]) < left PROVE remainder[g] > 0
  <2> SUFFICES ASSUME remainder[g] = 0 PROVE FALSE
    BY <1>1
  <2>1. owed \in SUBSET first[g]
    BY <1>4, <1>1
  <2>2. IsFiniteSet(first[g])
    BY <1>4, FS_Subset
  <2> HIDE DEF owed
  <2>3. Cardinality(owed) <= Cardinality(first[g])
    BY <2>1, <2>2, FS_Subset
  <2>4. Cardinality(first[g]) \in Nat
    BY <2>2, FS_CardinalityType
  <2> QED
    BY <1>2, <1>11, <1>13, <2>3, <2>4
<1>14. Cardinality(Lucky(size, E)) = left
  BY <1>5, <1>12, Zenon
<1>15. \A g \in Lucky(size, E) : remainder[g] > 0
  BY <1>5, <1>13
<1> QED
  BY <1>14, <1>15 DEF left, remainder

\* allocate: a quota is no more than its group holds, and its share but for
\* less than one.
LEMMA QuotaOfOne ==
  ASSUME NEW G \in SUBSET DOMAIN hash, IsFiniteSet(G), NEW size \in [G -> Nat],
         NEW E \in Nat, SumFunction(size) > 0, E <= SumFunction(size), NEW g \in G
  PROVE  LET quota == allocate(size, E)[g]
             total == SumFunction(size)
         IN  /\ quota \in Nat /\ quota <= size[g]
             /\ quota * total - size[g] * E < total
             /\ size[g] * E - quota * total < total
<1> DEFINE q == allocate(size, E)[g]
           r == Remainder(size, E)[g]
           h == Share(size, E)[g]
           z == size[g]
           x == IF g \in Lucky(size, E) THEN 1 ELSE 0
           total == SumFunction(size)
<1>1. /\ total \in Nat /\ h \in Nat /\ r \in 0 .. total - 1
      /\ total * h + r = z * E
  BY ShareOfOne
<1>2. q = h + x
  BY AllocateIs
<1>3. x = 1 => r > 0
  BY LuckyCount
<1>4. z \in Nat /\ x \in {0, 1} /\ total > 0 /\ E <= total
  OBVIOUS
<1> HIDE DEF q, r, h, z, x, total
<1>5. q \in Nat /\ q * total = total * h + x * total
  BY <1>1, <1>2, <1>4
<1>6. /\ q * total - z * E = x * total - r
      /\ z * E - q * total = r - x * total
  BY <1>1, <1>4, <1>5
<1>7. q * total - z * E < total /\ z * E - q * total < total
  <2>1. CASE x = 0
    BY <1>1, <1>4, <1>6, <2>1
  <2>2. CASE x = 1
    BY <1>1, <1>3, <1>4, <1>6, <2>2
  <2> QED
    BY <1>4, <2>1, <2>2
<1>8. z * E <= z * total
  BY <1>1, <1>4
<1>9. q * total < (z + 1) * total
  BY <1>1, <1>4, <1>5, <1>7, <1>8
<1>10. q < z + 1
  BY <1>1, <1>4, <1>5, <1>9
<1> QED
  BY <1>4, <1>5, <1>7, <1>10 DEF q, z, total

\* allocate: the quotas add up to the total shared out.
LEMMA QuotasAddUp ==
  ASSUME NEW G \in SUBSET DOMAIN hash, IsFiniteSet(G), NEW size \in [G -> Nat],
         NEW E \in Nat, SumFunction(size) > 0
  PROVE  /\ allocate(size, E) \in [G -> Nat]
         /\ SumFunction(allocate(size, E)) = E
<1> DEFINE quota == allocate(size, E)
           share == Share(size, E)
           lucky == Lucky(size, E)
           extra == [g \in G |-> IF g \in lucky THEN 1 ELSE 0]
           S == SumFunction(share)
<1>1. S \in Nat /\ share \in [G -> Nat]
  BY SharesAndRemainders, Zenon
<1>2. quota = [g \in G |-> share[g] + IF g \in lucky THEN 1 ELSE 0]
  BY AllocateIs, Zenon
<1>3. Cardinality(lucky) = E - S
  BY LuckyCount DEF Left
<1>4. lucky \in SUBSET G
  BY DEF Lucky
<1> HIDE DEF quota, share, lucky
<1>5. extra \in [G -> Nat] /\ \A g \in G : extra[g] = IF g \in lucky THEN 1 ELSE 0
  OBVIOUS
<1>6. /\ quota \in [G -> Nat]
      /\ \A g \in G : quota[g] = share[g] + extra[g]
  BY <1>1, <1>2
<1> HIDE DEF extra
<1>7. SumFunction(quota) = S + SumFunction(extra)
  BY <1>1, <1>5, <1>6, SumOfSums
<1>8. SumFunction(extra) = E - S
  BY <1>3, <1>4, <1>5, SumOfMarks
<1> QED
  BY <1>1, <1>6, <1>7, <1>8 DEF quota

-----------------------------------------------------------------------------
(* The two levels of stratify. *)

LEMMA ImageFinite ==
  ASSUME NEW S, IsFiniteSet(S), NEW name
  PROVE  IsFiniteSet({name[e] : e \in S})
<1> DEFINE f == [e \in S |-> name[e]]
           T == {name[e] : e \in S}
<1>1. f \in Surjection(S, T)
  BY DEF Surjection
<1> HIDE DEF f, T
<1>2. IsFiniteSet(T)
  BY <1>1, FS_Surjection
<1> QED
  BY <1>2 DEF T

LEMMA GroupSizes ==
  ASSUME NEW S \in SUBSET Example, NEW name \in [Example -> DOMAIN hash]
  PROVE  LET G == {name[e] : e \in S}
         IN  /\ IsFiniteSet(S) /\ Cardinality(S) \in Nat
             /\ G \in SUBSET DOMAIN hash /\ IsFiniteSet(G)
             /\ Sizes(S, name) \in [G -> Nat]
             /\ \A g \in G : Sizes(S, name)[g] = Cardinality({e \in S : name[e] = g})
             /\ SumFunction(Sizes(S, name)) = Cardinality(S)
<1> DEFINE G == {name[e] : e \in S}
           size == Sizes(S, name)
<1>1. IsFiniteSet(S) /\ Cardinality(S) \in Nat
  BY ExampleAssumption, FS_Subset, FS_CardinalityType
<1>2. G \in SUBSET DOMAIN hash /\ IsFiniteSet(G)
  BY <1>1, ImageFinite
<1>3. ASSUME NEW g \in G PROVE Cardinality({e \in S : name[e] = g}) \in Nat
  <2> DEFINE here == {e \in S : name[e] = g}
  <2>1. here \in SUBSET S
    OBVIOUS
  <2> HIDE DEF here
  <2>2. Cardinality(here) \in Nat
    BY <1>1, <2>1, FS_Subset, FS_CardinalityType
  <2> QED
    BY <2>2 DEF here
<1>4. size = [g \in G |-> Cardinality({e \in S : name[e] = g})]
  BY DEF Sizes
<1> HIDE DEF size
<1>5. size \in [G -> Nat]
  BY <1>3, <1>4
<1>6. \A g \in G : size[g] = Cardinality({e \in S : name[e] = g})
  BY <1>4
<1>7. \A e \in S : name[e] \in G
  OBVIOUS
<1> HIDE DEF G
<1>8. SumFunction(size) = Cardinality(S)
  BY <1>1, <1>2, <1>5, <1>6, <1>7, SumCounts
<1> QED
  BY <1>1, <1>2, <1>5, <1>6, <1>8 DEF size, G

\* One level of stratify: groups that give their quotas give E in all, fairly.
LEMMA LevelQuotas ==
  ASSUME NEW S \in SUBSET Example, S # {}, NEW name \in [Example -> DOMAIN hash],
         NEW E \in Nat, E <= Cardinality(S),
         NEW g \in {name[e] : e \in S}
  PROVE  LET quota == allocate(Sizes(S, name), E)
             here == Cardinality({e \in S : name[e] = g})
             total == Cardinality(S)
         IN  /\ quota[g] \in Nat /\ quota[g] <= here
             /\ quota[g] * total - here * E < total
             /\ here * E - quota[g] * total < total
<1> DEFINE G == {name[e] : e \in S}
           size == Sizes(S, name)
           quota == allocate(size, E)
           total == Cardinality(S)
<1>1. /\ IsFiniteSet(S) /\ total \in Nat /\ G \in SUBSET DOMAIN hash
      /\ IsFiniteSet(G) /\ size \in [G -> Nat]
      /\ size[g] = Cardinality({e \in S : name[e] = g})
      /\ SumFunction(size) = total
  BY GroupSizes
<1>2. total > 0
  <2> HIDE DEF size, G
  <2> QED
    BY <1>1, FS_EmptySet
<1> HIDE DEF size, G, total
<1>3. g \in G
  BY DEF G
<1>4. LET q == quota[g]
      IN  /\ q \in Nat /\ q <= size[g]
          /\ q * total - size[g] * E < total
          /\ size[g] * E - q * total < total
  BY <1>1, <1>2, <1>3, QuotaOfOne DEF total
<1> HIDE DEF quota
<1> QED
  BY <1>1, <1>4 DEF quota, size, total

LEMMA LevelIsFair ==
  ASSUME NEW S \in SUBSET Example, S # {}, NEW name \in [Example -> DOMAIN hash],
         NEW E \in Nat, E <= Cardinality(S), NEW Q \in SUBSET S,
         \A g \in {name[e] : e \in S} :
           Cardinality({e \in Q : name[e] = g}) = allocate(Sizes(S, name), E)[g]
  PROVE  Cardinality(Q) = E /\ Fair(S, name, Q)
<1> DEFINE G == {name[e] : e \in S}
           size == Sizes(S, name)
           quota == allocate(size, E)
           total == Cardinality(S)
<1>1. /\ IsFiniteSet(S) /\ total \in Nat /\ G \in SUBSET DOMAIN hash
      /\ IsFiniteSet(G) /\ size \in [G -> Nat] /\ SumFunction(size) = total
  BY GroupSizes
<1>2. total > 0
  <2> HIDE DEF size, G
  <2> QED
    BY <1>1, FS_EmptySet
<1>3. IsFiniteSet(Q)
  BY <1>1, FS_Subset
<1>4. \A g \in G : Cardinality({e \in Q : name[e] = g}) = quota[g]
  OBVIOUS
<1>5. \A e \in Q : name[e] \in G
  OBVIOUS
<1> HIDE DEF size, G, total
<1>6. quota \in [G -> Nat] /\ SumFunction(quota) = E
  BY <1>1, <1>2, QuotasAddUp DEF total
<1> HIDE DEF quota
<1>7. Cardinality(Q) = E
  BY <1>1, <1>3, <1>4, <1>5, <1>6, SumCounts
<1>8. ASSUME NEW g \in G
      PROVE  LET here == Cardinality({e \in S : name[e] = g})
             IN  /\ quota[g] * total - here * E < total
                 /\ here * E - quota[g] * total < total
  BY LevelQuotas DEF quota, size, total, G
<1>9. ASSUME NEW g \in G
      PROVE  LET exact == Cardinality({e \in S : name[e] = g}) * Cardinality(Q)
                 got == Cardinality({e \in Q : name[e] = g}) * total
             IN  got - exact < total /\ exact - got < total
  BY <1>4, <1>7, <1>8
<1> QED
  BY <1>7, <1>9 DEF Fair, G, total

\* eval_size: neither file of two examples or more is left empty.
LEMMA EvalSize ==
  ASSUME NEW n \in Nat, NEW r
  PROVE  /\ eval_size(n, r) \in Nat /\ eval_size(n, r) <= n
         /\ n >= 2 => eval_size(n, r) \in 1 .. n - 1
<1> DEFINE up == {i \in 0 .. n - 1 : Rounded(i + 1, r) > Rounded(i, r)}
           steps == Cardinality(up)
<1>1. IsFiniteSet(0 .. n - 1) /\ up \in SUBSET (0 .. n - 1)
  BY FS_Interval
<1>2. steps \in Nat
  <2> HIDE DEF up
  <2> QED
    BY <1>1, FS_Subset, FS_CardinalityType
<1>3. eval_size(n, r) = CASE n < 2 -> 0
                          [] n >= 2 /\ steps < 1 -> 1
                          [] n >= 2 /\ steps > n - 1 -> n - 1
                          [] OTHER -> steps
  BY DEF eval_size
<1> HIDE DEF steps
<1> QED
  BY <1>2, <1>3

\* The parts of stratify: the examples of a topic, and of a subtopic of it, what
\* each has to give, and what of a subtopic goes to eval.
InTopic(S, t) == {e \in S : topic[e] = t}
Group(S, t, u) == {e \in InTopic(S, t) : subtopic[e] = u}
Quota(S, r) == allocate(Sizes(S, topic), eval_size(Cardinality(S), r))
Quotas(S, r, t) == allocate(Sizes(InTopic(S, t), subtopic), Quota(S, r)[t])
Chosen(S, r, t, u) == pick(Group(S, t, u), Quotas(S, r, t)[u])

LEMMA StratifyIs ==
  ASSUME NEW S, NEW r
  PROVE  stratify(S, r) = UNION {Chosen(S, r, topic[x], subtopic[x]) : x \in S}
BY DEF stratify, Chosen, Group, InTopic, Quota, Quotas

LEMMA GroupGives ==
  ASSUME NEW S, NEW r, NEW x \in S
  PROVE  {e \in stratify(S, r) \cap InTopic(S, topic[x]) :
            subtopic[e] = subtopic[x]} = Chosen(S, r, topic[x], subtopic[x])
<1>1. \A t, u : Chosen(S, r, t, u) \subseteq Group(S, t, u)
  BY DEF Chosen, pick
<1>2. \A t, u : \A e \in Group(S, t, u) :
        e \in S /\ topic[e] = t /\ subtopic[e] = u
  BY DEF Group, InTopic
<1>3. \A e : e \in stratify(S, r) <=>
               \E y \in S : e \in Chosen(S, r, topic[y], subtopic[y])
  BY StratifyIs
<1>4. \A e \in Chosen(S, r, topic[x], subtopic[x]) :
        /\ e \in stratify(S, r) /\ e \in InTopic(S, topic[x])
        /\ subtopic[e] = subtopic[x]
  BY <1>1, <1>2, <1>3 DEF InTopic
<1>5. ASSUME NEW e \in stratify(S, r), e \in InTopic(S, topic[x]),
             subtopic[e] = subtopic[x]
      PROVE  e \in Chosen(S, r, topic[x], subtopic[x])
  <2>1. PICK y \in S : e \in Chosen(S, r, topic[y], subtopic[y])
    BY <1>3
  <2>2. topic[e] = topic[y] /\ subtopic[e] = subtopic[y]
    BY <1>1, <1>2, <2>1
  <2>3. topic[e] = topic[x]
    BY <1>5 DEF InTopic
  <2> QED
    BY <1>5, <2>1, <2>2, <2>3
<1> QED
  BY <1>4, <1>5

LEMMA TopicGives ==
  ASSUME NEW S \in SUBSET Example, NEW r, NEW x \in S
  PROVE  LET t == topic[x]
             Q == stratify(S, r) \cap InTopic(S, t)
         IN  /\ Cardinality(Q) = Quota(S, r)[t]
             /\ Fair(InTopic(S, t), subtopic, Q)
<1> DEFINE t == topic[x]
           T == InTopic(S, t)
           Q == stratify(S, r) \cap T
           E == Quota(S, r)[t]
           n == Cardinality(S)
<1>1. /\ topic \in [Example -> DOMAIN hash]
      /\ subtopic \in [Example -> DOMAIN hash]
  BY ExampleAssumption
<1>2. n \in Nat
  BY <1>1, GroupSizes
<1>3. eval_size(n, r) \in Nat /\ eval_size(n, r) <= n
  BY <1>2, EvalSize
<1>4. E \in Nat /\ E <= Cardinality(T)
  <2>1. S # {} /\ t \in {topic[e] : e \in S}
    OBVIOUS
  <2> QED
    BY <1>1, <1>3, <2>1, LevelQuotas DEF Quota, InTopic
<1>5. T \in SUBSET Example /\ T # {} /\ Q \in SUBSET T
  BY DEF InTopic
<1> HIDE DEF E
<1>6. ASSUME NEW u \in {subtopic[e] : e \in T}
      PROVE  Cardinality({e \in Q : subtopic[e] = u})
               = allocate(Sizes(T, subtopic), E)[u]
  <2>1. PICK y \in T : u = subtopic[y]
    OBVIOUS
  <2>2. y \in S /\ topic[y] = t
    BY DEF InTopic
  <2>3. {e \in Q : subtopic[e] = u} = Chosen(S, r, t, u)
    BY <2>1, <2>2, GroupGives
  <2> DEFINE q == allocate(Sizes(T, subtopic), E)[u]
             group == {e \in T : subtopic[e] = u}
  <2>4. q \in Nat /\ q <= Cardinality(group)
    BY <1>1, <1>4, <1>5, LevelQuotas
  <2>5. Chosen(S, r, t, u) = pick(group, q)
    BY DEF Chosen, Group, Quotas, E
  <2>6. group \in SUBSET Example
    BY <1>5
  <2> HIDE DEF q, group
  <2>7. Cardinality(pick(group, q)) = q
    BY <2>4, <2>6, PickIsExact
  <2> QED
    BY <2>3, <2>5, <2>7, Zenon DEF q
<1> HIDE DEF T, Q
<1>7. Cardinality(Q) = E /\ Fair(T, subtopic, Q)
  BY <1>1, <1>4, <1>5, <1>6, LevelIsFair
<1> QED
  BY <1>7 DEF T, Q, E

\* stratify: eval has the size it should, and each topic, and each subtopic within
\* its topic, has its share of it but for less than one example.
THEOREM StratifyIsFair ==
  ASSUME NEW S \in SUBSET Example, NEW r
  PROVE  LET Q == stratify(S, r)
         IN  /\ Cardinality(Q) = eval_size(Cardinality(S), r)
             /\ Fair(S, topic, Q)
             /\ \A t \in {topic[e] : e \in S} :
                  LET inTopic == {e \in S : topic[e] = t}
                  IN  Fair(inTopic, subtopic, Q \cap inTopic)
<1> DEFINE Q == stratify(S, r)
           E == eval_size(Cardinality(S), r)
<1>1. CASE S = {}
  <2>1. Q = {}
    BY <1>1 DEF stratify
  <2>2. E = 0
    BY <1>1, FS_EmptySet DEF eval_size
  <2> QED
    BY <1>1, <2>1, <2>2, FS_EmptySet DEF Fair
<1>2. CASE S # {}
  <2>1. topic \in [Example -> DOMAIN hash]
    BY ExampleAssumption
  <2>2. Cardinality(S) \in Nat
    BY <2>1, GroupSizes
  <2>3. E \in Nat /\ E <= Cardinality(S)
    BY <2>2, EvalSize
  <2>4. Q \in SUBSET S
    BY DEF stratify, pick
  <2>5. ASSUME NEW t \in {topic[e] : e \in S}
        PROVE  /\ Cardinality({e \in Q : topic[e] = t})
                    = allocate(Sizes(S, topic), E)[t]
               /\ Fair(InTopic(S, t), subtopic, Q \cap InTopic(S, t))
    <3>1. PICK x \in S : t = topic[x]
      OBVIOUS
    <3>2. {e \in Q : topic[e] = t} = Q \cap InTopic(S, t)
      BY <2>4 DEF InTopic
    <3> HIDE DEF Q
    <3>3. /\ Cardinality(Q \cap InTopic(S, t)) = Quota(S, r)[t]
          /\ Fair(InTopic(S, t), subtopic, Q \cap InTopic(S, t))
      BY <3>1, TopicGives DEF Q
    <3> QED
      BY <3>2, <3>3, Zenon DEF Quota
  <2> HIDE DEF Q, E
  <2>6. Cardinality(Q) = E /\ Fair(S, topic, Q)
    BY <1>2, <2>1, <2>3, <2>4, <2>5, LevelIsFair
  <2>7. \A t \in {topic[e] : e \in S} :
          Fair({e \in S : topic[e] = t}, subtopic, Q \cap {e \in S : topic[e] = t})
    BY <2>5 DEF InTopic
  <2> QED
    BY <2>6, <2>7 DEF Q, E
<1> QED
  BY <1>1, <1>2

-----------------------------------------------------------------------------
(* The invariant. *)

\* The files of a split, whole or under way.
SplitInv ==
  /\ pc # "split" /\ ~cut => train \cap eval = {}
  /\ pc = "split" => train = Usable \ stratify(Usable, ratio)
  /\ pc # "split" /\ ~stale /\ ~cut => eval = stratify(Usable, ratio)
  /\ SplitIsWhole

\* An export on record, and what a compare about to start was told of it.
ExportInv ==
  /\ ~parted => gguf = exported
  /\ pc = "start" => sha = exported

\* What is here of the child's answers is what it answered.
AnswersInv ==
  /\ setting.target = "local" => answers = replies
  /\ \A q \in Example : answers[q] # "none" => answers[q] = replies[q]

\* The verdicts, and those a judge run has still to find.
JudgeInv ==
  /\ pc = "judge" => asked # {}
  /\ pc = "judge" => \A q \in asked : q \in todo <=> verdicts[q] = "none"
  /\ \A q \in known : q \in Example /\ answers[q] = "answer"
  /\ \A q \in Example : verdicts[q] = "judged" => answers[q] = "answer"

ReportInv ==
  /\ report # Nothing => asked # {}
  /\ ReportIsWhole

Inv == TypeOK /\ SplitInv /\ ExportInv /\ AnswersInv /\ JudgeInv /\ ReportInv

\* split.rs stratify: the eval examples are among those split.
LEMMA StratifyWithin == \A S, r : stratify(S, r) \subseteq S
BY DEF stratify, pick

LEMMA InitInv == Init => Inv
<1> SUFFICES ASSUME Init PROVE Inv
  OBVIOUS
<1> USE DEF Init, SplitInit
<1>1. TypeOK
  <2>1. class \in [Example -> SplitClass]
    BY DEF SplitClass
  <2>2. changes \in 0 .. MaxChanges
    BY ChangesAssumption
  <2>3. SplitTypeOK
    BY <2>1, <2>2 DEF SplitTypeOK
  <2>4. Nothing \in [Example -> Reply] /\ Nothing \in [Example -> Verdict]
    BY DEF Nothing, Reply, Verdict
  <2>5. 0 \in GGUF
    BY ExportsAssumption DEF GGUF
  <2> QED
    BY <2>3, <2>4, <2>5 DEF TypeOK
<1>2. SplitInv /\ ExportInv /\ AnswersInv
  BY DEF SplitInv, SplitIsWhole, ExportInv, AnswersInv, Nothing
<1>3. JudgeInv /\ ReportInv
  BY DEF JudgeInv, ReportInv, ReportIsWhole, Nothing
<1> QED
  BY <1>1, <1>2, <1>3 DEF Inv

-----------------------------------------------------------------------------
(* Types. *)

LEMMA DataTypes == TypeOK /\ DataNext => TypeOK'
<1> SUFFICES ASSUME TypeOK, DataNext PROVE TypeOK'
  OBVIOUS
<1>1. UNCHANGED <<setting, exportVars, jobVars, judgeVars>>
  BY DEF DataNext
<1>2. pc' \in {"idle", "split"} /\ pc # "judge"
  BY DEF DataNext, SplitNext, Change, SplitTrain, SplitEval, SplitCut, Train
<1>3. stratify(Usable, ratio) \subseteq Example
  BY StratifyWithin DEF Usable
<1>4. SplitTypeOK'
  <2>1. CASE Change
    <3>1. class' \in [Example -> SplitClass] /\ ratio' \in Ratio
      BY <2>1 DEF Change, TypeOK, SplitTypeOK
    <3>2. changes' \in 0 .. MaxChanges
      BY <2>1, ChangesAssumption DEF Change, TypeOK, SplitTypeOK
    <3> QED
      BY <2>1, <3>1, <3>2 DEF Change, TypeOK, SplitTypeOK
  <2>2. CASE SplitTrain \/ SplitEval \/ SplitCut \/ Train
    BY <2>2, <1>3 DEF SplitTrain, SplitEval, SplitCut, Train, TypeOK,
       SplitTypeOK, Usable
  <2> QED
    BY <2>1, <2>2 DEF DataNext, SplitNext
<1> QED
  BY <1>1, <1>2, <1>4 DEF TypeOK, exportVars, jobVars, judgeVars, fileVars

LEMMA ExportTypes == TypeOK /\ (Deliver \/ Record \/ CompareStart) => TypeOK'
<1> SUFFICES ASSUME TypeOK, Deliver \/ Record \/ CompareStart PROVE TypeOK'
  OBVIOUS
<1> USE ExportsAssumption DEF TypeOK, GGUF, splitVars, SplitTypeOK, Usable,
    exportVars, jobVars, judgeVars, fileVars, Goes
<1>1. CASE Deliver
  BY <1>1 DEF Deliver
<1>2. CASE Record
  BY <1>2 DEF Record
<1>3. CASE CompareStart
  <2>1. asked = {} /\ asked' \in SUBSET Example
    BY <1>3 DEF CompareStart
  <2>2. todo = {} /\ flying = {}
    BY <2>1
  <2> QED
    BY <1>3, <2>1, <2>2 DEF CompareStart
<1> QED
  BY <1>1, <1>2, <1>3

JobSteps == JobStarts \/ StartFails \/ JobAnswers \/ JobEnds \/ FollowEnds
            \/ Interrupt

LEMMA JobTypes == TypeOK /\ JobSteps => TypeOK'
<1> SUFFICES ASSUME TypeOK, JobSteps PROVE TypeOK'
  OBVIOUS
<1> USE DEF TypeOK, splitVars, SplitTypeOK, exportVars, jobVars, judgeVars,
    fileVars, Goes
<1>1. CASE JobStarts
  BY <1>1 DEF JobStarts, gguf_on_target, GGUF
<1>2. CASE StartFails
  BY <1>2 DEF StartFails
<1>3. CASE JobAnswers
  <2>1. replies' \in [Example -> Reply]
    BY <1>3 DEF JobAnswers, Reply
  <2>2. answers' \in [Example -> Reply]
    BY <1>3, <2>1 DEF JobAnswers, Shared
  <2> QED
    BY <1>3, <2>1, <2>2 DEF JobAnswers
<1>4. CASE JobEnds
  BY <1>4 DEF JobEnds
<1>5. CASE FollowEnds
  BY <1>5 DEF FollowEnds, Collects
<1>6. CASE Interrupt
  BY <1>6 DEF Interrupt, Collects
<1> QED
  BY <1>1, <1>2, <1>3, <1>4, <1>5, <1>6 DEF JobSteps

JudgeSteps == JudgeStart \/ JudgeNext \/ SaveCut \/ JudgeFails \/ Crash

LEMMA JudgeTypes == TypeOK /\ JudgeSteps => TypeOK'
<1> SUFFICES ASSUME TypeOK, JudgeSteps PROVE TypeOK'
  OBVIOUS
<1> USE DEF TypeOK, splitVars, SplitTypeOK, exportVars, jobVars, judgeVars,
    fileVars, Goes, JudgeOver
<1>1. CASE JudgeStart
  BY <1>1 DEF JudgeStart, Todo
<1>2. CASE Ask
  BY <1>2 DEF Ask
<1>3. CASE Save
  <2>1. verdicts' \in [Example -> Verdict]
    BY <1>3 DEF Save, Append, VerdictOf, Verdict
  <2> QED
    BY <1>3, <2>1 DEF Save, Append
<1>4. CASE Report
  BY <1>4 DEF Report, Verdict
<1>5. CASE SaveCut
  <2>1. verdicts' \in [Example -> Verdict]
    BY <1>5 DEF SaveCut, VerdictOf, Verdict
  <2>2. unended' \in SUBSET Example
    BY <1>5 DEF SaveCut
  <2> QED
    BY <1>5, <2>1, <2>2 DEF SaveCut
<1>6. CASE JudgeFails
  BY <1>6 DEF JudgeFails
<1>7. CASE Crash
  BY <1>7 DEF Crash
<1> QED
  BY <1>1, <1>2, <1>3, <1>4, <1>5, <1>6, <1>7 DEF JudgeSteps, JudgeNext

LEMMA NextCases == Next => DataNext \/ Deliver \/ Record \/ CompareStart
                           \/ JobSteps \/ JudgeSteps
BY DEF Next, JobSteps, JudgeSteps

LEMMA TypeStep == TypeOK /\ [Next]_vars => TypeOK'
<1>1. TypeOK /\ UNCHANGED vars => TypeOK'
  BY DEF TypeOK, vars, splitVars, SplitTypeOK, exportVars, jobVars, judgeVars,
     fileVars
<1> QED
  BY <1>1, NextCases, DataTypes, ExportTypes, JobTypes, JudgeTypes

-----------------------------------------------------------------------------
(* The split, and the export. *)

\* A split is one whatever a compare does with what it wrote.
LEMMA SplitNextStep == SplitInv /\ [SplitNext]_splitAll => SplitInv'
<1> SUFFICES ASSUME SplitInv, [SplitNext]_splitAll PROVE SplitInv'
  OBVIOUS
<1>1. CASE Change \/ Train
  BY <1>1 DEF Change, Train, SplitInv, SplitIsWhole, Usable
<1>2. CASE SplitTrain
  <2>1. class' = class /\ ratio' = ratio /\ Usable' = Usable
    BY <1>2 DEF SplitTrain, Usable
  <2> QED
    BY <1>2, <2>1 DEF SplitTrain, SplitInv, SplitIsWhole
<1>3. CASE SplitEval
  <2>1. Usable' = Usable /\ train' = train /\ pc = "split"
        /\ ratio' = ratio /\ eval' = stratify(Usable, ratio)
    BY <1>3 DEF SplitEval, Usable
  <2>2. stratify(Usable, ratio) \subseteq Usable
    BY StratifyWithin
  <2> QED
    BY <1>3, <2>1, <2>2 DEF SplitEval, SplitInv, SplitIsWhole
<1>4. CASE SplitCut
  BY <1>4 DEF SplitCut, SplitInv, SplitIsWhole
<1>5. CASE UNCHANGED splitAll
  <2>1. Usable' = Usable /\ ratio' = ratio
    BY <1>5 DEF splitAll, splitVars, Usable
  <2> QED
    BY <1>5, <2>1 DEF splitAll, splitVars, SplitInv, SplitIsWhole
<1> QED
  BY <1>1, <1>2, <1>3, <1>4, <1>5 DEF SplitNext

LEMMA SplitStep == Inv /\ [Next]_vars => SplitInv'
<1> SUFFICES ASSUME SplitInv, [Next]_vars PROVE SplitInv'
  BY DEF Inv
<1>1. CASE DataNext
  BY <1>1, SplitNextStep DEF DataNext
<1>2. CASE UNCHANGED splitVars /\ pc # "split" /\ pc' # "split"
  <2>1. Usable' = Usable /\ ratio' = ratio
    BY <1>2 DEF splitVars, Usable
  <2> QED
    BY <1>2, <2>1 DEF splitVars, SplitInv, SplitIsWhole
<1>3. CASE UNCHANGED splitVars /\ pc' = pc
  <2>1. Usable' = Usable /\ ratio' = ratio
    BY <1>3 DEF splitVars, Usable
  <2> QED
    BY <1>3, <2>1 DEF splitVars, SplitInv, SplitIsWhole
<1>4. Deliver \/ Record \/ CompareStart \/ JobSteps \/ JudgeSteps
        => \/ UNCHANGED splitVars /\ pc # "split" /\ pc' # "split"
           \/ UNCHANGED splitVars /\ pc' = pc
  BY DEF Deliver, Record, CompareStart, JobSteps, JobStarts, StartFails,
     JobAnswers, JobEnds, FollowEnds, Interrupt, JudgeSteps, JudgeStart,
     JudgeNext, Ask, Save, Report, SaveCut, JudgeFails, Crash, Goes
<1>5. UNCHANGED vars => UNCHANGED splitVars /\ pc' = pc
  BY DEF vars
<1> QED
  BY <1>1, <1>2, <1>3, <1>4, <1>5, NextCases

\* Of a whole split, the two files are the two sides of stratify.
LEMMA WholeIsFair == SplitInv => EvalIsFair
<1> SUFFICES ASSUME SplitInv, pc # "split", ~stale, ~cut
             PROVE  /\ Cardinality(eval) = eval_size(Cardinality(Usable), ratio)
                    /\ Cardinality(Usable) >= 2 => train # {} /\ eval # {}
                    /\ Fair(Usable, topic, eval)
                    /\ \A t \in {topic[e] : e \in Usable} :
                         LET inTopic == {e \in Usable : topic[e] = t}
                         IN  Fair(inTopic, subtopic, eval \cap inTopic)
  BY DEF EvalIsFair, EvalIsSized, Proportional
<1> DEFINE S == Usable
           n == Cardinality(S)
<1>1. S \in SUBSET Example /\ eval = stratify(S, ratio) /\ train \cup eval = S
  BY DEF SplitInv, SplitIsWhole, Usable
<1> HIDE DEF S
<1>2. Cardinality(eval) = eval_size(n, ratio) /\ Fair(S, topic, eval)
  BY <1>1, StratifyIsFair
<1>3. \A t \in {topic[e] : e \in S} :
        Fair({e \in S : topic[e] = t}, subtopic, eval \cap {e \in S : topic[e] = t})
  BY <1>1, StratifyIsFair
<1>4. n >= 2 => train # {} /\ eval # {}
  <2>1. n \in Nat
    BY <1>1, ExampleAssumption, FS_Subset, FS_CardinalityType
  <2>2. n >= 2 => eval_size(n, ratio) \in 1 .. n - 1
    BY <2>1, EvalSize
  <2>3. eval = {} => Cardinality(eval) = 0
    BY FS_EmptySet
  <2>4. train = {} => eval = S
    BY <1>1
  <2>5. eval = S => Cardinality(eval) = n
    OBVIOUS
  <2> HIDE DEF n
  <2> QED
    BY <1>2, <2>1, <2>2, <2>3, <2>4, <2>5
<1> QED
  BY <1>2, <1>3, <1>4 DEF S

LEMMA ExportStep == Inv /\ [Next]_vars => ExportInv'
<1> SUFFICES ASSUME ExportInv, [Next]_vars PROVE ExportInv'
  BY DEF Inv
<1> USE DEF ExportInv, exportVars, jobVars, Goes
<1>1. CASE DataNext
  <2>1. pc' \in {"idle", "split"}
    BY <1>1 DEF DataNext, SplitNext, Change, SplitTrain, SplitEval, SplitCut,
       Train
  <2> QED
    BY <1>1, <2>1 DEF DataNext
<1>2. CASE Deliver \/ Record \/ CompareStart
  BY <1>2 DEF Deliver, Record, CompareStart
<1>3. CASE JobSteps
  BY <1>3 DEF JobSteps, JobStarts, StartFails, JobAnswers, JobEnds, FollowEnds,
     Interrupt
<1>4. CASE JudgeSteps
  BY <1>4 DEF JudgeSteps, JudgeStart, JudgeNext, Ask, Save, Report, SaveCut,
     JudgeFails, Crash
<1>5. CASE UNCHANGED vars
  BY <1>5 DEF vars
<1> QED
  BY <1>1, <1>2, <1>3, <1>4, <1>5, NextCases

-----------------------------------------------------------------------------
(* The answers. *)

\* An answer of the child stays what it is, here and on the target.
LEMMA AnswersStep ==
  Inv /\ [Next]_vars =>
    /\ AnswersInv'
    /\ \A q \in Example : answers[q] # "none" => answers'[q] = answers[q]
<1> SUFFICES ASSUME TypeOK, AnswersInv, [Next]_vars
             PROVE  /\ AnswersInv'
                    /\ \A q \in Example :
                         answers[q] # "none" => answers'[q] = answers[q]
  BY DEF Inv
<1>1. CASE JobAnswers
  <2>1. PICK q \in asked, reply \in {"answer", "error"} :
          replies[q] = "none" /\ replies' = [replies EXCEPT ![q] = reply]
    BY <1>1 DEF JobAnswers
  <2>2. q \in Example /\ replies \in [Example -> Reply]
    BY <2>1 DEF TypeOK
  <2>3. answers[q] = "none"
    BY <2>1, <2>2 DEF AnswersInv
  <2>4. \A e \in Example : answers[e] # "none" => replies'[e] = answers[e]
    BY <2>1, <2>2, <2>3 DEF AnswersInv
  <2>5. setting' = setting
        /\ answers' = IF setting.target = "local" THEN replies' ELSE answers
    BY <1>1 DEF JobAnswers, Shared
  <2>6. \A e \in Example : answers[e] # "none" => answers'[e] = answers[e]
    BY <2>4, <2>5
  <2>7. \A e \in Example : answers'[e] # "none" => answers'[e] = replies'[e]
    BY <2>4, <2>5
  <2> QED
    BY <2>5, <2>6, <2>7 DEF AnswersInv
<1>2. CASE FollowEnds \/ Interrupt
  <2>1. answers' \in {answers, replies} /\ replies' = replies
        /\ setting' = setting
    BY <1>2 DEF FollowEnds, Interrupt, Collects
  <2> QED
    BY <2>1 DEF AnswersInv
<1>3. CASE UNCHANGED <<setting, replies, answers>>
  BY <1>3 DEF AnswersInv
<1>4. JobStarts \/ StartFails \/ JobEnds
        => UNCHANGED <<setting, replies, answers>>
  BY DEF JobStarts, StartFails, JobEnds, jobVars
<1>5. DataNext \/ Deliver \/ Record \/ CompareStart \/ JudgeSteps
        => UNCHANGED <<setting, replies, answers>>
  BY DEF DataNext, Deliver, Record, CompareStart, JudgeSteps, JudgeStart,
     JudgeNext, Ask, Save, Report, SaveCut, JudgeFails, Crash, jobVars
<1>6. UNCHANGED vars => UNCHANGED <<setting, replies, answers>>
  BY DEF vars, jobVars
<1> QED
  BY <1>1, <1>2, <1>3, <1>4, <1>5, <1>6, NextCases DEF JobSteps

-----------------------------------------------------------------------------
(* The judge, and its report. *)

LEMMA JudgeStep == Inv /\ [Next]_vars => JudgeInv'
<1> SUFFICES ASSUME TypeOK, JudgeInv, [Next]_vars,
                    \A q \in Example : answers[q] # "none"
                                         => answers'[q] = answers[q]
             PROVE  JudgeInv'
  BY AnswersStep DEF Inv
<1>1. \A q \in Example : answers[q] = "answer" => answers'[q] = "answer"
  OBVIOUS
<1>2. CASE /\ UNCHANGED judgeVars /\ UNCHANGED asked
           /\ pc' = "judge" => pc = "judge"
  BY <1>1, <1>2 DEF JudgeInv, judgeVars, fileVars
<1>3. CASE CompareStart
  <2>1. UNCHANGED judgeVars /\ pc' # "judge"
    BY <1>3 DEF CompareStart, Goes
  <2> QED
    BY <1>1, <2>1 DEF JudgeInv, judgeVars, fileVars
<1>4. CASE JudgeStart
  <2>1. verdicts' = verdicts /\ asked' = asked /\ asked # {}
        /\ todo' = {q \in asked : verdicts[q] = "none"}
        /\ known' = {q \in asked : answers[q] = "answer"}
    BY <1>4 DEF JudgeStart, Todo, fileVars, jobVars
  <2>2. asked \subseteq Example
    BY DEF TypeOK
  <2> QED
    BY <1>1, <2>1, <2>2 DEF JudgeInv
<1>5. CASE Save
  <2>1. PICK q \in flying : Append(q) /\ todo' = todo \ {q}
    BY <1>5 DEF Save
  <2>2. asked' = asked /\ known' = known /\ pc = "judge"
    BY <1>5 DEF Save, jobVars
  <2>3. q \in asked /\ asked \subseteq Example
        /\ verdicts \in [Example -> Verdict]
    BY <2>1 DEF TypeOK
  <2>4. verdicts' = [verdicts EXCEPT ![q] = VerdictOf(q)]
    BY <2>1 DEF Append
  <2>5. VerdictOf(q) # "none" /\ (VerdictOf(q) = "judged" => q \in known)
    BY DEF VerdictOf
  <2>6. asked' # {} /\ \A e \in asked' : e \in todo' <=> verdicts'[e] = "none"
    BY <2>1, <2>2, <2>3, <2>4, <2>5 DEF JudgeInv
  <2>7. \A e \in known' : e \in Example /\ answers'[e] = "answer"
    BY <1>1, <2>2 DEF JudgeInv
  <2>8. ASSUME NEW e \in Example, verdicts'[e] = "judged"
        PROVE  answers'[e] = "answer"
    BY <1>1, <2>3, <2>4, <2>5, <2>8 DEF JudgeInv
  <2> QED
    BY <2>6, <2>7, <2>8 DEF JudgeInv
<1>6. CASE Ask
  <2>1. UNCHANGED <<pc, asked, todo, known, verdicts>>
    BY <1>6 DEF Ask, fileVars, jobVars
  <2> QED
    BY <1>1, <2>1 DEF JudgeInv
<1>7. CASE JudgeFails \/ Report \/ Crash
  <2>1. pc' = "idle" /\ known' = {} /\ verdicts' = verdicts
    BY <1>7 DEF JudgeFails, Report, Crash, Goes, JudgeOver, fileVars
  <2> QED
    BY <1>1, <2>1 DEF JudgeInv
<1>8. CASE SaveCut
  <2>1. pc' = "idle" /\ known' = {}
    BY <1>8 DEF SaveCut, Goes, JudgeOver
  <2>2. PICK q \in flying :
          \/ verdicts' = [verdicts EXCEPT ![q] = VerdictOf(q)]
          \/ verdicts' = [e \in Example |->
                            IF e \in unended THEN "none" ELSE verdicts[e]]
    BY <1>8 DEF SaveCut
  <2>3. q \in Example /\ verdicts \in [Example -> Verdict]
    BY DEF TypeOK
  <2>4. VerdictOf(q) = "judged" => q \in known
    BY DEF VerdictOf
  <2>5. ASSUME NEW e \in Example, verdicts'[e] = "judged"
        PROVE  answers'[e] = "answer"
    BY <1>1, <2>2, <2>3, <2>4, <2>5 DEF JudgeInv
  <2> QED
    BY <2>1, <2>5 DEF JudgeInv
<1>9. DataNext \/ Deliver \/ Record \/ JobSteps
        => /\ UNCHANGED judgeVars /\ UNCHANGED asked
           /\ pc' = "judge" => pc = "judge"
  BY DEF DataNext, SplitNext, Change, SplitTrain, SplitEval, SplitCut, Train,
     Deliver, Record, JobSteps, JobStarts, StartFails, JobAnswers, JobEnds,
     FollowEnds, Interrupt, Goes, jobVars
<1>10. UNCHANGED vars => /\ UNCHANGED judgeVars /\ UNCHANGED asked
                         /\ pc' = "judge" => pc = "judge"
  BY DEF vars, jobVars
<1> QED
  BY <1>2, <1>3, <1>4, <1>5, <1>6, <1>7, <1>8, <1>9, <1>10, NextCases
     DEF JudgeSteps, JudgeNext

LEMMA ReportStep == Inv /\ [Next]_vars => ReportInv'
<1> SUFFICES ASSUME TypeOK, JudgeInv, ReportInv, [Next]_vars,
                    \A q \in Example : answers[q] # "none"
                                         => answers'[q] = answers[q]
             PROVE  ReportInv'
  BY AnswersStep DEF Inv
<1>1. asked \subseteq Example
  BY DEF TypeOK
<1>2. Nothing' = Nothing
  BY DEF Nothing
<1>3. CASE UNCHANGED <<report, asked>>
  BY <1>1, <1>2, <1>3 DEF ReportInv, ReportIsWhole
<1>4. CASE CompareStart
  <2>1. report' = report /\ asked = {}
    BY <1>4 DEF CompareStart, judgeVars
  <2> QED
    BY <1>2, <2>1 DEF ReportInv, ReportIsWhole
<1>5. CASE Report
  <2>1. report' = [q \in Example |->
                     IF q \in asked THEN verdicts[q] ELSE "none"]
    BY <1>5 DEF Report
  <2>2. asked' = asked /\ answers' = answers /\ todo = {} /\ pc = "judge"
    BY <1>5 DEF Report, Goes, jobVars
  <2>3. asked # {} /\ \A q \in asked : verdicts[q] # "none"
    BY <2>2 DEF JudgeInv
  <2>4. \A q \in asked : verdicts[q] = "judged" => answers[q] = "answer"
    BY <1>1 DEF JudgeInv
  <2>5. ReportIsWhole'
    BY <1>1, <2>1, <2>2, <2>3, <2>4 DEF ReportIsWhole
  <2> QED
    BY <2>2, <2>3, <2>5 DEF ReportInv
<1>6. DataNext \/ Deliver \/ Record \/ JobSteps => UNCHANGED <<report, asked>>
  BY DEF DataNext, Deliver, Record, JobSteps, JobStarts, StartFails, JobAnswers,
     JobEnds, FollowEnds, Interrupt, jobVars, judgeVars
<1>7. JudgeStart \/ Ask \/ Save \/ SaveCut \/ JudgeFails \/ Crash
        => UNCHANGED <<report, asked>>
  BY DEF JudgeStart, Ask, Save, SaveCut, JudgeFails, Crash, jobVars
<1>8. UNCHANGED vars => UNCHANGED <<report, asked>>
  BY DEF vars, jobVars, judgeVars
<1> QED
  BY <1>3, <1>4, <1>5, <1>6, <1>7, <1>8, NextCases DEF JudgeSteps, JudgeNext

LEMMA InvStep == Inv /\ [Next]_vars => Inv'
<1> SUFFICES ASSUME Inv, [Next]_vars PROVE Inv'
  OBVIOUS
<1>1. TypeOK'
  BY TypeStep DEF Inv
<1> QED
  BY <1>1, SplitStep, ExportStep, AnswersStep, JudgeStep, ReportStep DEF Inv

LEMMA Invariance == Spec => []Inv
<1> QED
  BY InitInv, InvStep, PTL DEF Spec

-----------------------------------------------------------------------------
(* Theorems. *)

\* Every reachable state has the types of TypeOK: in particular nothing is left
\* to judge outside a judge run (src/compare/judge.rs).
THEOREM TypeCorrect == Spec => []TypeOK
<1>1. Inv => TypeOK
  BY DEF Inv
<1> QED
  BY <1>1, Invariance, PTL

\* split.rs split: the two files of a whole split hold each usable example once.
THEOREM WholeSplit == Spec => []SplitIsWhole
<1>1. Inv => SplitIsWhole
  BY DEF Inv, SplitInv
<1> QED
  BY <1>1, Invariance, PTL

\* split.rs stratify: a whole split has an eval set of its size, and of each topic
\* and subtopic the share of it that is due but for less than one example,
\* whatever a compare does meanwhile.
THEOREM FairSplit == Spec => []EvalIsFair
<1>1. Inv => EvalIsFair
  BY WholeIsFair DEF Inv
<1> QED
  BY <1>1, Invariance, PTL

\* split.rs split: the same of the splits alone.
THEOREM SplitsAlone == SplitSpec => [](SplitIsWhole /\ EvalIsFair)
<1>1. SplitInit => SplitInv
  BY DEF SplitInit, SplitInv, SplitIsWhole
<1>2. SplitInv => SplitIsWhole /\ EvalIsFair
  BY WholeIsFair DEF SplitInv
<1> QED
  BY <1>1, <1>2, SplitNextStep, PTL DEF SplitSpec

\* judge.rs judge_all: no question whose verdict can be read is judged again,
\* after any interruption, failure and crash inside a write.
THEOREM NoSecondJudgement == Spec => []JudgedOnce
<1>1. Inv => JudgedOnce
  <2> SUFFICES ASSUME Inv, NEW q \in flying PROVE verdicts[q] = "none"
    BY DEF JudgedOnce
  <2>1. q \in todo /\ q \in asked /\ pc = "judge"
    BY DEF Inv, TypeOK
  <2> QED
    BY <2>1 DEF Inv, JudgeInv
<1> QED
  BY <1>1, Invariance, PTL

\* report.rs build: a report counts every question of its compare, and judges
\* only where the child answered.
THEOREM WholeReport == Spec => []ReportIsWhole
<1>1. Inv => ReportIsWhole
  BY DEF Inv, ReportInv
<1> QED
  BY <1>1, Invariance, PTL

\* cli/compare.rs plan, split.rs split: the questions of a compare are none the
\* run trained on, whatever the dataset, as long as its split is the last one.
THEOREM QuestionsHeldOut == Spec => HeldOut
<1>1. Inv /\ [Next]_vars =>
        (asked = {} /\ asked' # {} /\ train = trained /\ ~cut
           => asked' \cap trained = {})
  <2> SUFFICES ASSUME Inv, [Next]_vars, asked = {}, asked' # {},
                      train = trained, ~cut
               PROVE  asked' \cap trained = {}
    OBVIOUS
  <2>1. CompareStart \/ asked' = asked
    <3>1. DataNext \/ Deliver \/ Record \/ JobSteps => asked' = asked
      BY DEF DataNext, Deliver, Record, JobSteps, JobStarts, StartFails,
         JobAnswers, JobEnds, FollowEnds, Interrupt, jobVars
    <3>2. JudgeSteps => asked' = asked
      BY DEF JudgeSteps, JudgeStart, JudgeNext, Ask, Save, Report, SaveCut,
         JudgeFails, Crash, jobVars
    <3>3. UNCHANGED vars => asked' = asked
      BY DEF vars, jobVars
    <3> QED
      BY <3>1, <3>2, <3>3, NextCases
  <2>2. asked' \subseteq eval /\ pc = "idle"
    BY <2>1 DEF CompareStart, Goes
  <2> QED
    BY <2>2 DEF Inv, SplitInv
<1> QED
  BY <1>1, Invariance, PTL DEF Spec, HeldOut

\* cli/compare.rs gguf_on_target: the child a compare asks is the GGUF its
\* setup names, whatever the target held.
THEOREM RecordedChildServed == Spec => ServedAsRecorded
<1>1. Inv /\ [Next]_vars =>
        (job = "none" /\ job' = "running" /\ ~parted => served' = sha)
  <2> SUFFICES ASSUME Inv, [Next]_vars, job = "none", job' = "running", ~parted
               PROVE  served' = sha
    OBVIOUS
  <2>1. JobStarts \/ job' = job \/ job' # "running"
    <3>1. DataNext \/ Deliver \/ Record \/ CompareStart \/ JudgeSteps
            => job' = job
      BY DEF DataNext, Deliver, Record, CompareStart, JudgeSteps, JudgeStart,
         JudgeNext, Ask, Save, Report, SaveCut, JudgeFails, Crash, jobVars
    <3>2. JobSteps => JobStarts \/ job' = job \/ job' # "running"
      BY DEF JobSteps, StartFails, JobAnswers, JobEnds, FollowEnds, Interrupt,
         jobVars
    <3>3. UNCHANGED vars => job' = job
      BY DEF vars, jobVars
    <3> QED
      BY <3>1, <3>2, <3>3, NextCases
  <2>2. served' = gguf_on_target /\ pc = "start"
    BY <2>1 DEF JobStarts, Goes
  <2>3. gguf = sha
    BY <2>2 DEF Inv, ExportInv
  <2> QED
    BY <2>2, <2>3 DEF gguf_on_target
<1> QED
  BY <1>1, Invariance, PTL DEF Spec, ServedAsRecorded

=============================================================================
