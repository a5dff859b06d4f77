------------------------------ MODULE MapProofs -------------------------------
(*****************************************************************************)
(* Lines inserted or saved stay in the map, and the cache within its limit,  *)
(* while layers are merged, reduced, released and read again (MapLayers):    *)
(* for all lines, lower nodes and limits.                                    *)
(*****************************************************************************)
EXTENDS MapLayers, FiniteSetTheorems, SequenceTheorems, WellFoundedInduction, TLAPS

\* The library states induction with operators, well-foundedness with sets.
LEMMA LeastNatural ==
  ASSUME NEW T, T \subseteq Nat, T # {}
  PROVE  \E m \in T : \A n \in T : m <= n
<1>1. PICK m \in T : \A n \in T : ~ (<<n, m>> \in OpToRel(<, Nat))
  BY NatLessThanWellFounded, WFMin, Zenon
<1>2. ASSUME NEW n \in T PROVE m <= n
  <2>1. ~(n < m)
    BY <1>1, Zenon DEF OpToRel
  <2> QED
    BY <2>1
<1> QED
  BY <1>1, <1>2

LEMMA Inductive ==
  ASSUME NEW T, 0 \in T, \A n \in Nat : n \in T => n + 1 \in T
  PROVE  Nat \subseteq T
<1>1. SUFFICES ASSUME Nat \ T # {} PROVE FALSE
  OBVIOUS
<1>2. PICK m \in Nat \ T : \A n \in Nat \ T : m <= n
  BY <1>1, LeastNatural, Zenon
<1>3. m \in Nat /\ m \notin T /\ m # 0
  BY <1>2
<1>4. m - 1 \in Nat /\ (m - 1) + 1 = m /\ ~(m <= m - 1)
  BY <1>3
<1>5. m - 1 \in T
  BY <1>2, <1>4
<1> QED
  BY <1>3, <1>4, <1>5

\* Induction over finite sets, by their size.
LEMMA BySize ==
  ASSUME NEW S, IsFiniteSet(S), NEW T,
         \A t \in SUBSET S : (\A u \in SUBSET S : Cardinality(u) < Cardinality(t) => u \in T) => t \in T
  PROVE  SUBSET S \subseteq T
<1> DEFINE N == {n \in Nat : \A t \in SUBSET S : Cardinality(t) < n => t \in T}
<1>1. \A t \in SUBSET S : IsFiniteSet(t) /\ Cardinality(t) \in Nat
  BY FS_Subset, FS_CardinalityType
<1>2. 0 \in N
  BY <1>1
<1>3. ASSUME NEW n \in Nat, n \in N PROVE n + 1 \in N
  <2>1. SUFFICES ASSUME NEW t \in SUBSET S, Cardinality(t) < n + 1 PROVE t \in T
    OBVIOUS
  <2>2. \A u \in SUBSET S : Cardinality(u) < Cardinality(t) => Cardinality(u) < n
    BY <1>1, <2>1
  <2>3. \A u \in SUBSET S : Cardinality(u) < n => u \in T
    BY <1>3
  <2> QED
    BY <2>2, <2>3
<1>4. Nat \subseteq N
  <2> HIDE DEF N
  <2> QED
    BY <1>2, <1>3, Inductive, Zenon
<1>5. ASSUME NEW t \in SUBSET S PROVE t \in T
  <2>1. Cardinality(t) + 1 \in N /\ Cardinality(t) < Cardinality(t) + 1
    BY <1>1, <1>4
  <2> QED
    BY <2>1
<1> QED
  BY <1>5
-------------------------------------------------------------------------------
\* Sums over finite sets: a function of the subsets that takes one element at a time.
Some(t) == CHOOSE x \in t : TRUE
IsSum(it, f, S) ==
  it = [t \in SUBSET S |-> IF t = {} THEN 0 ELSE f[Some(t)] + it[t \ {Some(t)}]]

LEMMA SomeIs == ASSUME NEW t, t # {} PROVE Some(t) \in t
BY DEF Some

LEMMA Smaller ==
  ASSUME NEW S, IsFiniteSet(S), NEW x \in S
  PROVE  IsFiniteSet(S \ {x}) /\ Cardinality(S \ {x}) = Cardinality(S) - 1 /\ Cardinality(S \ {x}) < Cardinality(S)
<1>1. Cardinality(S) \in Nat
  BY FS_CardinalityType
<1> QED
  BY <1>1, FS_RemoveElement

LEMMA SumsExist ==
  ASSUME NEW f, NEW S, IsFiniteSet(S)
  PROVE  \E it : IsSum(it, f, S)
<1> DEFINE Small(n) == {t \in SUBSET S : Cardinality(t) < n}
           G(it, t) == IF t = {} THEN 0 ELSE f[Some(t)] + it[t \ {Some(t)}]
           N == {n \in Nat : \E it : it = [t \in Small(n) |-> G(it, t)]}
<1>1. \A t \in SUBSET S : IsFiniteSet(t) /\ Cardinality(t) \in Nat
  BY FS_Subset, FS_CardinalityType
<1>2. 0 \in N
  <2>1. Small(0) = {}
    BY <1>1
  <2>2. [t \in Small(0) |-> 0] = [t \in Small(0) |-> G([u \in Small(0) |-> 0], t)]
    BY <2>1
  <2> QED
    BY <2>2
<1>3. ASSUME NEW n \in Nat, n \in N PROVE n + 1 \in N
  <2>1. PICK it : it = [t \in Small(n) |-> G(it, t)]
    BY <1>3
  <2> DEFINE jt == [t \in Small(n + 1) |-> G(it, t)]
  <2>2. ASSUME NEW t \in Small(n + 1) PROVE G(it, t) = G(jt, t)
    <3>1. CASE t = {}
      BY <3>1
    <3>2. CASE t # {}
      <4> DEFINE u == t \ {Some(t)}
      <4>1. Some(t) \in t /\ IsFiniteSet(t) /\ t \in SUBSET S /\ Cardinality(t) < n + 1 /\ Cardinality(t) \in Nat
        BY <1>1, <3>2, SomeIs
      <4>2. u \in SUBSET S /\ Cardinality(u) = Cardinality(t) - 1
        BY <4>1, Smaller
      <4>3. u \in Small(n) /\ u \in Small(n + 1)
        BY <4>1, <4>2
      <4>4. it[u] = G(it, u) /\ jt[u] = G(it, u)
        <5> HIDE DEF u, G
        <5> QED
          BY <2>1, <4>3
      <4> QED
        BY <4>4, <3>2
    <3> QED
      BY <3>1, <3>2
  <2>3. jt = [t \in Small(n + 1) |-> G(it, t)]
    <3> HIDE DEF G, Small
    <3> QED
      OBVIOUS
  <2> HIDE DEF G, Small, jt
  <2>4. jt = [t \in Small(n + 1) |-> G(jt, t)]
    BY <2>2, <2>3
  <2> QED
    BY <2>4
<1>4. Cardinality(S) + 1 \in N
  <2> HIDE DEF N
  <2>1. Nat \subseteq N
    BY <1>2, <1>3, Inductive, Zenon
  <2> QED
    BY <1>1, <2>1
<1>5. Small(Cardinality(S) + 1) = SUBSET S
  <2>1. ASSUME NEW t \in SUBSET S PROVE Cardinality(t) < Cardinality(S) + 1
    <3>1. Cardinality(t) <= Cardinality(S)
      BY FS_Subset
    <3> QED
      BY <1>1, <3>1
  <2> QED
    BY <2>1
<1>6. PICK it : it = [t \in Small(Cardinality(S) + 1) |-> G(it, t)]
  BY <1>4
<1>7. it = [t \in SUBSET S |-> G(it, t)]
  <2> HIDE DEF G, Small
  <2> QED
    BY <1>5, <1>6
<1> QED
  BY <1>7 DEF IsSum

LEMMA SumIs ==
  ASSUME NEW f, NEW S, IsFiniteSet(S)
  PROVE  \E it : IsSum(it, f, S) /\ SumFunctionOnSet(f, S) = it[S]
<1> DEFINE it == CHOOSE it : IsSum(it, f, S)
<1>1. IsSum(it, f, S)
  BY SumsExist, Zenon
<1>2. SumFunctionOnSet(f, S) = it[S]
  BY DEF SumFunctionOnSet, FoldFunctionOnSet, MapThenFoldSet, IsSum, Some
<1> QED
  BY <1>1, <1>2

LEMMA SumsAgree ==
  ASSUME NEW f, NEW S, NEW T, IsFiniteSet(S), NEW g, NEW h, IsSum(g, f, S), IsSum(h, f, T), T \subseteq S
  PROVE  g[T] = h[T]
<1> DEFINE A == {t \in SUBSET T : g[t] = h[t]}
<1>1. IsFiniteSet(T)
  BY FS_Subset
<1>2. ASSUME NEW t \in SUBSET T, \A u \in SUBSET T : Cardinality(u) < Cardinality(t) => u \in A
      PROVE  t \in A
  <2>1. /\ g[t] = IF t = {} THEN 0 ELSE f[Some(t)] + g[t \ {Some(t)}]
        /\ h[t] = IF t = {} THEN 0 ELSE f[Some(t)] + h[t \ {Some(t)}]
    BY DEF IsSum
  <2>2. CASE t = {}
    BY <2>1, <2>2
  <2>3. CASE t # {}
    <3>1. Some(t) \in t /\ IsFiniteSet(t)
      BY <2>3, SomeIs, <1>1, FS_Subset
    <3>2. t \ {Some(t)} \in A
      BY <3>1, Smaller, <1>2
    <3> QED
      BY <2>1, <2>3, <3>2
  <2> QED
    BY <2>2, <2>3
<1>3. SUBSET T \subseteq A
  <2> HIDE DEF A
  <2> QED
    BY <1>1, <1>2, BySize, Zenon
<1> QED
  BY <1>3

LEMMA SumPick ==
  ASSUME NEW f, NEW S, IsFiniteSet(S)
  PROVE  SumFunctionOnSet(f, S) =
           IF S = {} THEN 0 ELSE f[Some(S)] + SumFunctionOnSet(f, S \ {Some(S)})
<1>1. PICK it : IsSum(it, f, S) /\ SumFunctionOnSet(f, S) = it[S]
  BY SumIs
<1>2. it[S] = IF S = {} THEN 0 ELSE f[Some(S)] + it[S \ {Some(S)}]
  BY <1>1 DEF IsSum
<1>3. ASSUME S # {} PROVE it[S \ {Some(S)}] = SumFunctionOnSet(f, S \ {Some(S)})
  <2>1. IsFiniteSet(S \ {Some(S)})
    BY FS_Subset
  <2>2. PICK jt : IsSum(jt, f, S \ {Some(S)}) /\ SumFunctionOnSet(f, S \ {Some(S)}) = jt[S \ {Some(S)}]
    BY <2>1, SumIs
  <2> QED
    BY <1>1, <2>2, SumsAgree
<1> QED
  BY <1>1, <1>2, <1>3

LEMMA SumType ==
  ASSUME NEW f, NEW S, IsFiniteSet(S)
  PROVE  /\ (\A x \in S : f[x] \in Int) => SumFunctionOnSet(f, S) \in Int
         /\ (\A x \in S : f[x] \in Nat) =>
              SumFunctionOnSet(f, S) \in Nat /\ (SumFunctionOnSet(f, S) = 0 <=> \A x \in S : f[x] = 0)
<1> DEFINE Typed(t) ==
             /\ (\A x \in t : f[x] \in Int) => SumFunctionOnSet(f, t) \in Int
             /\ (\A x \in t : f[x] \in Nat) =>
                  SumFunctionOnSet(f, t) \in Nat /\ (SumFunctionOnSet(f, t) = 0 <=> \A x \in t : f[x] = 0)
           A == {t \in SUBSET S : Typed(t)}
<1>1. ASSUME NEW t \in SUBSET S, \A u \in SUBSET S : Cardinality(u) < Cardinality(t) => u \in A
      PROVE  t \in A
  <2>0. IsFiniteSet(t)
    BY FS_Subset
  <2>1. CASE t = {}
    <3>1. SumFunctionOnSet(f, t) = 0
      BY <2>0, <2>1, SumPick
    <3> QED
      BY <2>1, <3>1
  <2>2. CASE t # {}
    <3>1. Some(t) \in t
      BY <2>2, SomeIs
    <3>2. t \ {Some(t)} \in A
      BY <2>0, <3>1, Smaller, <1>1
    <3>3. SumFunctionOnSet(f, t) = f[Some(t)] + SumFunctionOnSet(f, t \ {Some(t)})
      BY <2>0, <2>2, SumPick
    <3>4. Typed(t \ {Some(t)})
      BY <3>2
    <3>5. Typed(t)
      BY <3>1, <3>3, <3>4
    <3> QED
      BY <3>5
  <2> QED
    BY <2>1, <2>2
<1>2. SUBSET S \subseteq A
  <2> HIDE DEF A
  <2> QED
    BY <1>1, BySize, Zenon
<1>3. S \in A
  BY <1>2
<1> QED
  BY <1>3

\* Any element may be taken first.
LEMMA SumAt ==
  ASSUME NEW f, NEW S, IsFiniteSet(S), \A x \in S : f[x] \in Int, NEW y \in S
  PROVE  SumFunctionOnSet(f, S) = f[y] + SumFunctionOnSet(f, S \ {y})
<1> DEFINE Sum(t) == SumFunctionOnSet(f, t)
           A == {t \in SUBSET S : \A x \in t : Sum(t) = f[x] + Sum(t \ {x})}
<1>1. ASSUME NEW t \in SUBSET S, \A u \in SUBSET S : Cardinality(u) < Cardinality(t) => u \in A
      PROVE  t \in A
  <2>0. IsFiniteSet(t)
    BY FS_Subset
  <2>1. SUFFICES ASSUME NEW x \in t PROVE Sum(t) = f[x] + Sum(t \ {x})
    <3> HIDE DEF Sum
    <3> QED
      OBVIOUS
  <2> DEFINE s == Some(t)
  <2>2. s \in t /\ Sum(t) = f[s] + Sum(t \ {s})
    BY <2>0, SumPick, SomeIs
  <2> HIDE DEF s
  <2>3. CASE s = x
    BY <2>2, <2>3
  <2>4. CASE s # x
    <3>1. t \ {s} \in A /\ t \ {x} \in A
      BY <2>0, <2>2, Smaller, <1>1
    <3>2. Sum(t \ {s}) = f[x] + Sum((t \ {s}) \ {x})
      <4> HIDE DEF Sum
      <4> QED
        BY <3>1, <2>4
    <3>3. Sum(t \ {x}) = f[s] + Sum((t \ {x}) \ {s})
      <4> HIDE DEF Sum
      <4> QED
        BY <3>1, <2>2, <2>4
    <3>4. (t \ {s}) \ {x} = (t \ {x}) \ {s}
      OBVIOUS
    <3>5. IsFiniteSet((t \ {s}) \ {x}) /\ \A z \in (t \ {s}) \ {x} : f[z] \in Int
      BY <2>0, FS_Subset
    <3>6. Sum((t \ {s}) \ {x}) \in Int /\ f[s] \in Int /\ f[x] \in Int
      BY <2>2, <3>5, SumType
    <3>7. Sum(t) = f[s] + (f[x] + Sum((t \ {s}) \ {x}))
      BY <2>2, <3>2
    <3>8. Sum(t \ {x}) = f[s] + Sum((t \ {s}) \ {x})
      BY <3>3, <3>4
    <3> HIDE DEF Sum
    <3> QED
      BY <3>7, <3>8, <3>6
  <2> QED
    BY <2>3, <2>4
<1>2. SUBSET S \subseteq A
  <2> HIDE DEF A
  <2> QED
    BY <1>1, BySize, Zenon
<1>3. S \in A
  BY <1>2
<1> QED
  BY <1>3

LEMMA SumSame ==
  ASSUME NEW f, NEW g, NEW S, IsFiniteSet(S), \A x \in S : f[x] = g[x]
  PROVE  SumFunctionOnSet(f, S) = SumFunctionOnSet(g, S)
<1> DEFINE A == {t \in SUBSET S : SumFunctionOnSet(f, t) = SumFunctionOnSet(g, t)}
<1>1. ASSUME NEW t \in SUBSET S, \A u \in SUBSET S : Cardinality(u) < Cardinality(t) => u \in A
      PROVE  t \in A
  <2>0. IsFiniteSet(t)
    BY FS_Subset
  <2>1. CASE t = {}
    BY <2>0, <2>1, SumPick
  <2>2. CASE t # {}
    <3>1. Some(t) \in t
      BY <2>2, SomeIs
    <3>2. t \ {Some(t)} \in A
      BY <2>0, <3>1, Smaller, <1>1
    <3> QED
      BY <2>0, <2>2, <3>1, <3>2, SumPick
  <2> QED
    BY <2>1, <2>2
<1>2. SUBSET S \subseteq A
  <2> HIDE DEF A
  <2> QED
    BY <1>1, BySize, Zenon
<1> QED
  BY <1>2

LEMMA SumChange ==
  ASSUME NEW f, NEW g, NEW S, IsFiniteSet(S), NEW y \in S,
         \A x \in S : f[x] \in Int /\ g[x] \in Int, \A x \in S : x # y => f[x] = g[x]
  PROVE  SumFunctionOnSet(g, S) = SumFunctionOnSet(f, S) - f[y] + g[y]
<1>1. IsFiniteSet(S \ {y})
  BY FS_Subset
<1>2. SumFunctionOnSet(f, S \ {y}) = SumFunctionOnSet(g, S \ {y}) /\ SumFunctionOnSet(f, S \ {y}) \in Int
  BY <1>1, SumSame, SumType
<1>3. /\ SumFunctionOnSet(f, S) = f[y] + SumFunctionOnSet(f, S \ {y})
      /\ SumFunctionOnSet(g, S) = g[y] + SumFunctionOnSet(g, S \ {y})
  BY SumAt
<1>4. f[y] \in Int /\ g[y] \in Int
  OBVIOUS
<1> QED
  BY <1>2, <1>3, <1>4

\* Nothing comes from where there is nothing.
LEMMA SumWithin ==
  ASSUME NEW f, NEW S, IsFiniteSet(S), NEW T, T \subseteq S, \A x \in S : f[x] \in Int, \A x \in S \ T : f[x] = 0
  PROVE  SumFunctionOnSet(f, S) = SumFunctionOnSet(f, T)
<1> DEFINE A == {t \in SUBSET S : T \subseteq t => SumFunctionOnSet(f, t) = SumFunctionOnSet(f, T)}
<1>1. ASSUME NEW t \in SUBSET S, \A u \in SUBSET S : Cardinality(u) < Cardinality(t) => u \in A
      PROVE  t \in A
  <2>0. IsFiniteSet(t)
    BY FS_Subset
  <2>1. SUFFICES ASSUME T \subseteq t, t # T PROVE SumFunctionOnSet(f, t) = SumFunctionOnSet(f, T)
    OBVIOUS
  <2>2. PICK x \in t : x \notin T
    BY <2>1
  <2>3. SumFunctionOnSet(f, t) = f[x] + SumFunctionOnSet(f, t \ {x}) /\ f[x] = 0
    <3>1. \A z \in t : f[z] \in Int
      OBVIOUS
    <3>2. SumFunctionOnSet(f, t) = f[x] + SumFunctionOnSet(f, t \ {x})
      BY <2>0, <2>2, <3>1, SumAt
    <3> QED
      BY <2>2, <3>2
  <2>4. t \ {x} \in A /\ T \subseteq t \ {x}
    BY <2>0, <2>1, <2>2, Smaller, <1>1
  <2>5. SumFunctionOnSet(f, t \ {x}) = SumFunctionOnSet(f, T)
    BY <2>4
  <2>6. SumFunctionOnSet(f, t \ {x}) \in Int
    BY <2>0, FS_Subset, SumType
  <2> QED
    BY <2>3, <2>5, <2>6
<1>2. SUBSET S \subseteq A
  <2> HIDE DEF A
  <2> QED
    BY <1>1, BySize, Zenon
<1>3. S \in A
  BY <1>2
<1> QED
  BY <1>3
-------------------------------------------------------------------------------
\* Folds over a list.  The steps of all of them are taken as one operator, since
\* the provers instantiate no lemma about an operator.
Part(lines, b) == [c \in Charts |-> IF Place[c] = b THEN lines[c] ELSE 0]
FoldStep(k, p, e, b) ==
  CASE k = "restruct" -> IF Releasable(e, b) THEN Release(e, b) ELSE e
    [] k = "distribute" -> IF SizeOf(Part(p, b)) = 0 THEN e ELSE Locked(AddHere(e, b, Part(p, b)), b, -1)
    [] k = "read" -> IF b \in p THEN Handed(e, b) ELSE e
    [] k = "found" -> IF b \in p THEN Locked(Accessed(e, b), b, 0) ELSE e
    [] k = "givenup" -> IF b \in p THEN Locked(Accessed(e, b), b, -1) ELSE e
    [] k = "save" -> IF p THEN NodeSave(e, b) ELSE e

\* A fold, as a function of the places passed.
IsFold(it, k, p, d, s) ==
  it = [t \in SUBSET DOMAIN s |-> IF t = {} THEN d ELSE FoldStep(k, p, it[t \ {Max(t)}], s[Max(t)])]

LEMMA MaxIs ==
  ASSUME NEW n \in Nat, NEW t \in SUBSET (1..n), t # {}
  PROVE  Max(t) \in t /\ \A x \in t : x <= Max(t)
<1> DEFINE up == {m \in Nat : \A x \in t : x <= m}
<1>1. n \in up
  OBVIOUS
<1>2. PICK m \in up : \A k \in up : m <= k
  <2> HIDE DEF up
  <2>1. up \subseteq Nat
    BY DEF up
  <2> QED
    BY <1>1, <2>1, LeastNatural
<1>3. m \in t
  <2>1. SUFFICES ASSUME m \notin t PROVE FALSE
    OBVIOUS
  <2>2. PICK x \in t : TRUE
    OBVIOUS
  <2>3. m - 1 \in Nat
    BY <2>2, <1>2
  <2>4. \A z \in t : z <= m - 1
    BY <1>2, <2>1
  <2> QED
    BY <1>2, <2>3, <2>4
<1>4. \E x \in t : \A y \in t : x >= y
  BY <1>2, <1>3
<1>5. Max(t) \in t /\ \A y \in t : Max(t) >= y
  <2>1. Max(t) = CHOOSE x \in t : \A y \in t : x >= y
    BY DEF Max
  <2> QED
    BY <1>4, <2>1
<1> QED
  BY <1>5

LEMMA FoldsExist ==
  ASSUME NEW k, NEW p, NEW d, NEW s, NEW n \in Nat, DOMAIN s = 1..n
  PROVE  \E it : IsFold(it, k, p, d, s)
<1> DEFINE G(it, t) == IF t = {} THEN d ELSE FoldStep(k, p, it[t \ {Max(t)}], s[Max(t)])
           N == {m \in Nat : m <= n => \E it : it = [t \in SUBSET (1..m) |-> G(it, t)]}
<1>1. 0 \in N
  <2>1. SUBSET (1..0) = {{}}
    OBVIOUS
  <2>2. [t \in SUBSET (1..0) |-> d] = [t \in SUBSET (1..0) |-> G([u \in SUBSET (1..0) |-> d], t)]
    BY <2>1
  <2> QED
    BY <2>2
<1>2. ASSUME NEW m \in Nat, m \in N PROVE m + 1 \in N
  <2>1. SUFFICES ASSUME m + 1 <= n PROVE \E it : it = [t \in SUBSET (1..(m + 1)) |-> G(it, t)]
    <3>1. m + 1 \in Nat
      OBVIOUS
    <3> HIDE DEF G
    <3> QED
      BY <3>1, Zenon
  <2>2. PICK it : it = [t \in SUBSET (1..m) |-> G(it, t)]
    <3>1. m <= n
      BY <2>1
    <3> HIDE DEF G
    <3> QED
      BY <1>2, <3>1
  <2> DEFINE jt == [t \in SUBSET (1..(m + 1)) |-> IF t \in SUBSET (1..m) THEN it[t] ELSE G(it, t)]
  <2>3. ASSUME NEW t \in SUBSET (1..(m + 1)) PROVE jt[t] = G(it, t) /\ G(it, t) = G(jt, t)
    <3>1. CASE t = {}
      <4>1. t \in SUBSET (1..m)
        BY <3>1
      <4>2. it[t] = G(it, t)
        <5> HIDE DEF G
        <5> QED
          BY <2>2, <4>1
      <4> QED
        BY <3>1, <4>1, <4>2
    <3>2. CASE t # {}
      <4> DEFINE u == t \ {Max(t)}
      <4>1. Max(t) \in t /\ \A x \in t : x <= Max(t)
        BY <3>2, MaxIs, m + 1 \in Nat
      <4>2. u \in SUBSET (1..m) /\ u \in SUBSET (1..(m + 1))
        <5>1. ASSUME NEW x \in u PROVE x \in 1..m
          <6>1. x \in 1..(m + 1) /\ Max(t) \in 1..(m + 1) /\ x <= Max(t) /\ x # Max(t)
            BY <4>1
          <6> QED
            BY <6>1
        <5> QED
          BY <5>1
      <4>3. jt[u] = it[u]
        <5> HIDE DEF u, G
        <5> QED
          BY <4>2
      <4>4. G(it, t) = G(jt, t)
        BY <3>2, <4>3
      <4>5. jt[t] = IF t \in SUBSET (1..m) THEN it[t] ELSE G(it, t)
        <5> HIDE DEF G
        <5> QED
          OBVIOUS
      <4>6. t \in SUBSET (1..m) => it[t] = G(it, t)
        <5> HIDE DEF G
        <5> QED
          BY <2>2
      <4> HIDE DEF G, jt
      <4> QED
        BY <4>4, <4>5, <4>6
    <3> QED
      BY <3>1, <3>2
  <2>4. DOMAIN jt = SUBSET (1..(m + 1)) /\ jt = [t \in DOMAIN jt |-> jt[t]]
    <3> HIDE DEF G
    <3> QED
      OBVIOUS
  <2> HIDE DEF G, jt
  <2>5. jt = [t \in SUBSET (1..(m + 1)) |-> G(jt, t)]
    BY <2>3, <2>4
  <2> QED
    BY <2>5
<1>3. n \in N
  <2> HIDE DEF N
  <2>1. Nat \subseteq N
    BY <1>1, <1>2, Inductive, Zenon
  <2> QED
    BY <2>1
<1>4. PICK it : it = [t \in SUBSET (1..n) |-> G(it, t)]
  <2>1. n <= n
    OBVIOUS
  <2> HIDE DEF G
  <2> QED
    BY <1>3, <2>1
<1> QED
  BY <1>4 DEF IsFold

\* The results of a fold, one after the other.
IsRun(r, k, p, d, s) ==
  r[0] = d /\ \A i \in DOMAIN s : r[i] = FoldStep(k, p, r[i - 1], s[i])

LEMMA FoldRuns ==
  ASSUME NEW k, NEW p, NEW d, NEW s, NEW n \in Nat, DOMAIN s = 1..n, NEW it, IsFold(it, k, p, d, s)
  PROVE  \E r : IsRun(r, k, p, d, s) /\ r[n] = it[DOMAIN s]
<1> DEFINE r == [i \in 0..n |-> it[1..i]]
<1>1. r[0] = d
  <2>1. 1..0 = {} /\ {} \in SUBSET (1..n)
    OBVIOUS
  <2> QED
    BY <2>1 DEF IsFold
<1>2. ASSUME NEW i \in 1..n PROVE r[i] = FoldStep(k, p, r[i - 1], s[i])
  <2>0. i \in Nat /\ 1 <= i /\ i <= n
    OBVIOUS
  <2>1. 1..i \in SUBSET (1..n) /\ 1..i # {} /\ i \in 1..i
    <3>1. \A x \in 1..i : x \in 1..n
      BY <2>0
    <3>2. i \in 1..i
      BY <2>0
    <3> QED
      BY <3>1, <3>2, Zenon
  <2>2. Max(1..i) = i
    <3>1. Max(1..i) \in 1..i /\ \A x \in 1..i : x <= Max(1..i)
      BY <2>1, MaxIs
    <3> QED
      BY <2>1, <3>1
  <2>3. (1..i) \ {i} = 1..(i - 1)
    OBVIOUS
  <2>4. it[1..i] = FoldStep(k, p, it[(1..i) \ {Max(1..i)}], s[Max(1..i)])
    BY <2>1 DEF IsFold
  <2>5. it[1..i] = FoldStep(k, p, it[1..(i - 1)], s[i])
    BY <2>2, <2>3, <2>4
  <2>6. r[i] = it[1..i] /\ r[i - 1] = it[1..(i - 1)]
    OBVIOUS
  <2> QED
    BY <2>5, <2>6
<1>3. r[n] = it[1..n]
  OBVIOUS
<1> HIDE DEF r
<1> QED
  BY <1>1, <1>2, <1>3 DEF IsRun

\* The model's folds are such runs.
LEMMA RestructRuns ==
  ASSUME NEW d, NEW S, d.list \in Seq(S)
  PROVE  \E r : IsRun(r, "restruct", 0, d, d.list) /\ Restruct(d) = r[Len(d.list)]
<1> DEFINE s == d.list
           body(it, t) == IF t = {} THEN d
                          ELSE IF Releasable(it[t \ {Max(t)}], s[Max(t)])
                               THEN Release(it[t \ {Max(t)}], s[Max(t)]) ELSE it[t \ {Max(t)}]
           it == CHOOSE it : it = [t \in SUBSET DOMAIN s |-> body(it, t)]
<1>1. Len(s) \in Nat /\ DOMAIN s = 1..Len(s)
  OBVIOUS
<1>2. \A f, t : body(f, t) = IF t = {} THEN d ELSE FoldStep("restruct", 0, f[t \ {Max(t)}], s[Max(t)])
  BY ZenonT(30) DEF FoldStep
<1>3. Restruct(d) = it[DOMAIN s]
  BY DEF Restruct, FoldLeft, MapThenFoldSet
<1>4. \E f : f = [t \in SUBSET DOMAIN s |-> body(f, t)]
  <2>1. PICK f : IsFold(f, "restruct", 0, d, s)
    BY <1>1, FoldsExist
  <2> HIDE DEF body, s
  <2> QED
    BY <2>1, <1>2 DEF IsFold
<1>5. it = [t \in SUBSET DOMAIN s |-> body(it, t)]
  <2> HIDE DEF body, s
  <2> QED
    BY <1>4
<1> HIDE DEF it
<1>6. IsFold(it, "restruct", 0, d, s)
  <2> HIDE DEF body, s
  <2> QED
    BY <1>5, <1>2 DEF IsFold
<1> QED
  BY <1>1, <1>3, <1>6, FoldRuns

LEMMA DistributeRuns ==
  ASSUME NEW d, NEW lines
  PROVE  \E r : IsRun(r, "distribute", lines, d, Below) /\ Distribute(d, lines) = r[Len(Below)]
<1> DEFINE step(e, b) == LET part == [c \in Charts |-> IF Place[c] = b THEN lines[c] ELSE 0]
                         IN  IF SizeOf(part) = 0 THEN e ELSE Locked(AddHere(e, b, part), b, -1)
           body(it, t) == IF t = {} THEN d ELSE step(it[t \ {Max(t)}], Below[Max(t)])
           it == CHOOSE it : it = [t \in SUBSET DOMAIN Below |-> body(it, t)]
<1>1. Len(Below) \in Nat /\ DOMAIN Below = 1..Len(Below)
  BY MapAssumption DEF MapAssumption
<1>2. \A f, t : body(f, t) = IF t = {} THEN d ELSE FoldStep("distribute", lines, f[t \ {Max(t)}], Below[Max(t)])
  BY DEF FoldStep, Part
<1>3. Distribute(d, lines) = it[DOMAIN Below]
  BY DEF Distribute, FoldLeft, MapThenFoldSet
<1>4. \E f : f = [t \in SUBSET DOMAIN Below |-> body(f, t)]
  <2>1. PICK f : IsFold(f, "distribute", lines, d, Below)
    BY <1>1, FoldsExist
  <2> HIDE DEF body
  <2> QED
    BY <2>1, <1>2 DEF IsFold
<1>5. it = [t \in SUBSET DOMAIN Below |-> body(it, t)]
  <2> HIDE DEF body
  <2> QED
    BY <1>4
<1> HIDE DEF it
<1>6. IsFold(it, "distribute", lines, d, Below)
  <2> HIDE DEF body
  <2> QED
    BY <1>5, <1>2 DEF IsFold
<1>7. PICK r : IsRun(r, "distribute", lines, d, Below) /\ r[Len(Below)] = it[DOMAIN Below]
  BY <1>1, <1>6, FoldRuns
<1> QED
  BY <1>3, <1>7

LEMMA ReadRuns ==
  ASSUME NEW d, NEW met
  PROVE  \E r : IsRun(r, "read", met, d, Below) /\ Read(d, met) = r[Len(Below)]
<1> DEFINE step(e, b) == IF b \in met THEN Handed(e, b) ELSE e
           body(it, t) == IF t = {} THEN d ELSE step(it[t \ {Max(t)}], Below[Max(t)])
           it == CHOOSE it : it = [t \in SUBSET DOMAIN Below |-> body(it, t)]
<1>1. Len(Below) \in Nat /\ DOMAIN Below = 1..Len(Below)
  BY MapAssumption DEF MapAssumption
<1>2. \A f, t : body(f, t) = IF t = {} THEN d ELSE FoldStep("read", met, f[t \ {Max(t)}], Below[Max(t)])
  BY DEF FoldStep, Part
<1>3. Read(d, met) = it[DOMAIN Below]
  BY DEF Read, FoldLeft, MapThenFoldSet
<1>4. \E f : f = [t \in SUBSET DOMAIN Below |-> body(f, t)]
  <2>1. PICK f : IsFold(f, "read", met, d, Below)
    BY <1>1, FoldsExist
  <2> HIDE DEF body
  <2> QED
    BY <2>1, <1>2 DEF IsFold
<1>5. it = [t \in SUBSET DOMAIN Below |-> body(it, t)]
  <2> HIDE DEF body
  <2> QED
    BY <1>4
<1> HIDE DEF it
<1>6. IsFold(it, "read", met, d, Below)
  <2> HIDE DEF body
  <2> QED
    BY <1>5, <1>2 DEF IsFold
<1>7. PICK r : IsRun(r, "read", met, d, Below) /\ r[Len(Below)] = it[DOMAIN Below]
  BY <1>1, <1>6, FoldRuns
<1> QED
  BY <1>3, <1>7

LEMMA FoundRuns ==
  ASSUME NEW d, NEW met
  PROVE  \E r : IsRun(r, "found", met, d, Below) /\ GivenUp(d, met, TRUE) = r[Len(Below)]
<1> DEFINE step(e, b) == IF b \in met THEN Locked(Accessed(e, b), b, IF TRUE THEN 0 ELSE -1) ELSE e
           body(it, t) == IF t = {} THEN d ELSE step(it[t \ {Max(t)}], Below[Max(t)])
           it == CHOOSE it : it = [t \in SUBSET DOMAIN Below |-> body(it, t)]
<1>1. Len(Below) \in Nat /\ DOMAIN Below = 1..Len(Below)
  BY MapAssumption DEF MapAssumption
<1>2. \A f, t : body(f, t) = IF t = {} THEN d ELSE FoldStep("found", met, f[t \ {Max(t)}], Below[Max(t)])
  BY DEF FoldStep, Part
<1>3. GivenUp(d, met, TRUE) = it[DOMAIN Below]
  BY DEF GivenUp, FoldLeft, MapThenFoldSet
<1>4. \E f : f = [t \in SUBSET DOMAIN Below |-> body(f, t)]
  <2>1. PICK f : IsFold(f, "found", met, d, Below)
    BY <1>1, FoldsExist
  <2> HIDE DEF body
  <2> QED
    BY <2>1, <1>2 DEF IsFold
<1>5. it = [t \in SUBSET DOMAIN Below |-> body(it, t)]
  <2> HIDE DEF body
  <2> QED
    BY <1>4
<1> HIDE DEF it
<1>6. IsFold(it, "found", met, d, Below)
  <2> HIDE DEF body
  <2> QED
    BY <1>5, <1>2 DEF IsFold
<1>7. PICK r : IsRun(r, "found", met, d, Below) /\ r[Len(Below)] = it[DOMAIN Below]
  BY <1>1, <1>6, FoldRuns
<1> QED
  BY <1>3, <1>7

LEMMA GivenUpRuns ==
  ASSUME NEW d, NEW met
  PROVE  \E r : IsRun(r, "givenup", met, d, Below) /\ GivenUp(d, met, FALSE) = r[Len(Below)]
<1> DEFINE step(e, b) == IF b \in met THEN Locked(Accessed(e, b), b, IF FALSE THEN 0 ELSE -1) ELSE e
           body(it, t) == IF t = {} THEN d ELSE step(it[t \ {Max(t)}], Below[Max(t)])
           it == CHOOSE it : it = [t \in SUBSET DOMAIN Below |-> body(it, t)]
<1>1. Len(Below) \in Nat /\ DOMAIN Below = 1..Len(Below)
  BY MapAssumption DEF MapAssumption
<1>2. \A f, t : body(f, t) = IF t = {} THEN d ELSE FoldStep("givenup", met, f[t \ {Max(t)}], Below[Max(t)])
  BY DEF FoldStep, Part
<1>3. GivenUp(d, met, FALSE) = it[DOMAIN Below]
  BY DEF GivenUp, FoldLeft, MapThenFoldSet
<1>4. \E f : f = [t \in SUBSET DOMAIN Below |-> body(f, t)]
  <2>1. PICK f : IsFold(f, "givenup", met, d, Below)
    BY <1>1, FoldsExist
  <2> HIDE DEF body
  <2> QED
    BY <2>1, <1>2 DEF IsFold
<1>5. it = [t \in SUBSET DOMAIN Below |-> body(it, t)]
  <2> HIDE DEF body
  <2> QED
    BY <1>4
<1> HIDE DEF it
<1>6. IsFold(it, "givenup", met, d, Below)
  <2> HIDE DEF body
  <2> QED
    BY <1>5, <1>2 DEF IsFold
<1>7. PICK r : IsRun(r, "givenup", met, d, Below) /\ r[Len(Below)] = it[DOMAIN Below]
  BY <1>1, <1>6, FoldRuns
<1> QED
  BY <1>3, <1>7

LEMMA SaveRuns ==
  ASSUME NEW d, NEW down
  PROVE  \E r : IsRun(r, "save", down, d, Below) /\ Saved(d, down) = r[Len(Below)]
<1> DEFINE step(e, b) == IF down THEN NodeSave(e, b) ELSE e
           body(it, t) == IF t = {} THEN d ELSE step(it[t \ {Max(t)}], Below[Max(t)])
           it == CHOOSE it : it = [t \in SUBSET DOMAIN Below |-> body(it, t)]
<1>1. Len(Below) \in Nat /\ DOMAIN Below = 1..Len(Below)
  BY MapAssumption DEF MapAssumption
<1>2. \A f, t : body(f, t) = IF t = {} THEN d ELSE FoldStep("save", down, f[t \ {Max(t)}], Below[Max(t)])
  BY DEF FoldStep, Part
<1>3. Saved(d, down) = it[DOMAIN Below]
  BY DEF Saved, FoldLeft, MapThenFoldSet
<1>4. \E f : f = [t \in SUBSET DOMAIN Below |-> body(f, t)]
  <2>1. PICK f : IsFold(f, "save", down, d, Below)
    BY <1>1, FoldsExist
  <2> HIDE DEF body
  <2> QED
    BY <2>1, <1>2 DEF IsFold
<1>5. it = [t \in SUBSET DOMAIN Below |-> body(it, t)]
  <2> HIDE DEF body
  <2> QED
    BY <1>4
<1> HIDE DEF it
<1>6. IsFold(it, "save", down, d, Below)
  <2> HIDE DEF body
  <2> QED
    BY <1>5, <1>2 DEF IsFold
<1>7. PICK r : IsRun(r, "save", down, d, Below) /\ r[Len(Below)] = it[DOMAIN Below]
  BY <1>1, <1>6, FoldRuns
<1> QED
  BY <1>3, <1>7
-------------------------------------------------------------------------------
\* The database as it should be.
Points == [Charts -> 0..2]
LayerType == [active : BOOLEAN, lines : Points, size : Nat, bupdate : BOOLEAN, refcount : Nat]
NodeType == [hasLayer : BOOLEAN, bdownLink : BOOLEAN, bupdate : BOOLEAN]
IndexType == [hasLayer : BOOLEAN, bdownLink : BOOLEAN]
DiskType == [file : [Layers -> Points], index : [Layers -> IndexType]]
DbType == [list : Seq(Layers), layer : [Layers -> LayerType], total : Int, file : [Layers -> Points],
           node : [Layers -> NodeType], index : [Layers -> IndexType], cuts : SUBSET DiskType]

Listed(d) == Range(d.list)
Sizes(d) == [l \in Layers |-> IF l \in Listed(d) THEN d.layer[l].size ELSE 0]

\* The lines of a node, wherever they are.
Held(d, l) == IF d.layer[l].active THEN d.layer[l].lines ELSE d.file[l]

\* A layer in memory is of a node, and counted with its size; what changes it tells
\* the node; readers have it in memory.
LayerOK(d, l) ==
  /\ d.layer[l].active => d.layer[l].size = SizeOf(d.layer[l].lines) /\ d.node[l].hasLayer
  /\ d.layer[l].bupdate => d.layer[l].active /\ d.node[l].bupdate
  /\ d.layer[l].refcount > 0 => d.layer[l].active

\* What is not to be saved is saved.
Clean(d, l) == d.layer[l].active /\ ~d.layer[l].bupdate => d.file[l] = d.layer[l].lines

\* Nodes below with a layer are linked, also in what is saved.
NodesOK(d) ==
  /\ \A b \in Range(Below) : d.node[b].hasLayer => d.node["up"].bdownLink
  /\ \A b \in Range(Below) : d.index[b].hasLayer => d.index["up"].bdownLink
  /\ d.index["up"].bdownLink => d.node["up"].bdownLink
  /\ \A l \in Layers : ~d.node[l].bupdate => d.index[l].hasLayer = d.node[l].hasLayer
  /\ ~d.node["up"].bupdate => d.index["up"].bdownLink = d.node["up"].bdownLink

\* The database, but for layers X taken off the list and Y whose file is to be written.
OKBut(d, X, Y) ==
  /\ d \in DbType /\ IsInjective(d.list) /\ d.total = SumFunctionOnSet(Sizes(d), Layers)
  /\ \A l \in Layers : LayerOK(d, l) /\ (l \notin Y => Clean(d, l))
                       /\ (l \in Listed(d) <=> d.layer[l].active /\ l \notin X)
  /\ NodesOK(d)

DbOK(d) == OKBut(d, {}, {})

\* CacheBounded.
Bounded(d) ==
  d.list = <<>> \/ d.total - d.layer[d.list[Len(d.list)]].size < MaxTotalSizeLayerData
                \/ \A i \in 1..(Len(d.list) - 1) : d.layer[d.list[i]].refcount > 0

\* A node below is not updated alone: save would not find it.
Settled(d) == \A b \in Range(Below) : d.node[b].hasLayer /\ d.node[b].bupdate => d.node["up"].bupdate

\* A line is in the upper node, if with fewer points, in memory and as saved, but for
\* the closed ones.
Found(d, c) == d.node["up"].hasLayer /\ (c \in Closed \/ Held(d, "up")[c] > 0)
Filed(d, c) == d.index["up"].hasLayer /\ (c \in Closed \/ d.file["up"][c] > 0)

\* Once there are nodes below, a line that is whole above is whole below, so that it
\* may be reduced; the same of what is saved, which the next process reads.
Detailed(d, c) ==
  d.node["up"].bdownLink /\ Held(d, "up")[c] = 2 => d.node[Place[c]].hasLayer /\ Held(d, Place[c])[c] = 2
Backed(d, c) ==
  d.index["up"].bdownLink /\ (Held(d, "up")[c] = 2 \/ d.file["up"][c] = 2) =>
    /\ d.index[Place[c]].hasLayer /\ d.file[Place[c]][c] = 2
    /\ d.node[Place[c]].hasLayer /\ Held(d, Place[c])[c] = 2

\* The database when the lines S are inserted and T saved: after a crash within a call
\* there may be lines saved, if with fewer points, that are not inserted again.
Keeps(d, S, T) ==
  /\ DbOK(d) /\ Bounded(d) /\ Settled(d) /\ S \subseteq Charts /\ T \subseteq Charts
  /\ \A c \in S : Found(d, c) /\ Detailed(d, c)
  /\ \A c \in T : Found(d, c) /\ Filed(d, c)
  /\ \A c \in S \intersect T : Backed(d, c)

\* The inductive invariant.
MapInv == Keeps(db, inserted, saved) /\ saves \in Nat

LEMMA LayersAre ==
  /\ IsFiniteSet(Layers) /\ "up" \in Layers /\ Range(Below) \subseteq Layers
  /\ \A l \in Layers : l = "up" \/ l \in Range(Below)
  /\ \A c \in Charts : Place[c] \in Range(Below) /\ Place[c] # "up"
  /\ MaxTotalSizeLayerData \in Nat /\ NoLines \in Points
<1>1. Len(Below) \in Nat /\ DOMAIN Below = 1..Len(Below) /\ Below \in [1..Len(Below) -> Range(Below)]
  BY MapAssumption DEF MapAssumption
<1>2. IsFiniteSet(Range(Below))
  <2>1. IsFiniteSet(1..Len(Below))
    BY <1>1, FS_Interval
  <2>2. Below \in Surjection(1..Len(Below), Range(Below))
    BY <1>1 DEF Range, Surjection
  <2> QED
    BY <2>1, <2>2, FS_Surjection
<1>3. IsFiniteSet({"up"})
  BY FS_Singleton
<1>4. IsFiniteSet(Layers)
  BY <1>2, <1>3, FS_Union DEF Layers
<1> QED
  BY MapAssumption, <1>4 DEF Layers, MapAssumption, NoLines, Points

LEMMA SizeIs ==
  ASSUME NEW p \in Points
  PROVE  SizeOf(p) \in Nat /\ (SizeOf(p) = 0 => \A c \in Charts : p[c] = 0) /\ SizeOf(NoLines) = 0
<1>1. IsFiniteSet(Charts)
  BY MapAssumption DEF MapAssumption
<1>2. \A c \in Charts : p[c] \in Nat /\ NoLines[c] \in Nat /\ NoLines[c] = 0
  BY DEF Points, NoLines
<1> QED
  BY <1>1, <1>2, SumType DEF SizeOf

LEMMA LengthOfRest ==
  ASSUME NEW i \in Nat, NEW n \in Nat, i <= n
  PROVE  (IF i + 1 <= n THEN n - (i + 1) + 1 ELSE 0) = n - i
<1>1. CASE i + 1 <= n
  BY <1>1
<1>2. CASE ~(i + 1 <= n)
  BY <1>2
<1> QED
  BY <1>1, <1>2

LEMMA Removed ==
  ASSUME NEW S, NEW s \in Seq(S), IsInjective(s), NEW l \in Range(s)
  PROVE  /\ RemoveFirst(s, l) \in Seq(S) /\ IsInjective(RemoveFirst(s, l))
         /\ Range(RemoveFirst(s, l)) = Range(s) \ {l}
<1>1. Len(s) \in Nat /\ DOMAIN s = 1..Len(s)
  OBVIOUS
<1>2. PICK i \in 1..Len(s) : s[i] = l
  BY <1>1 DEF Range
<1>3. \A j \in 1..Len(s) : s[j] = l => j = i
  BY <1>1, <1>2 DEF IsInjective
<1>4. {j \in 1..Len(s) : s[j] = l} = {i}
  BY <1>2, <1>3
<1>5. SelectInSeq(s, LAMBDA v : v = l) = i
  <2>1. Min({i}) = i
    <3>1. \E x \in {i} : \A y \in {i} : x <= y
      OBVIOUS
    <3> QED
      BY <3>1 DEF Min
  <2> QED
    BY <1>4, <2>1 DEF SelectInSeq
<1> DEFINE t == RemoveAt(s, i)
<1>6. RemoveFirst(s, l) = t
  BY <1>2, <1>5 DEF RemoveFirst
<1>7. /\ t \in Seq(S) /\ Len(t) = Len(s) - 1 /\ Len(t) \in Nat
      /\ \A j \in 1..Len(t) : t[j] = IF j < i THEN s[j] ELSE s[j + 1]
  <2>1. i \in Nat /\ 1 <= i /\ i <= Len(s)
    BY <1>1, <1>2
  <2>2. SubSeq(s, 1, i - 1) \in Seq(S) /\ Len(SubSeq(s, 1, i - 1)) = i - 1
        /\ \A j \in 1..(i - 1) : SubSeq(s, 1, i - 1)[j] = s[j]
    <3>1. \A j \in 1..(i - 1) : s[j] \in S
      BY <1>1, <2>1
    <3> QED
      BY <1>1, <2>1, <3>1, SubSeqProperties
  <2>3. SubSeq(s, i + 1, Len(s)) \in Seq(S) /\ Len(SubSeq(s, i + 1, Len(s))) = Len(s) - i
        /\ \A j \in 1..(Len(s) - i) : SubSeq(s, i + 1, Len(s))[j] = s[i + j]
    <3>1. \A j \in (i + 1)..Len(s) : s[j] \in S
      BY <1>1, <2>1
    <3>2. i + 1 \in Int
      BY <2>1
    <3>3. /\ SubSeq(s, i + 1, Len(s)) \in Seq(S)
          /\ Len(SubSeq(s, i + 1, Len(s))) = IF i + 1 <= Len(s) THEN Len(s) - (i + 1) + 1 ELSE 0
          /\ \A j \in 1..(Len(s) - (i + 1) + 1) : SubSeq(s, i + 1, Len(s))[j] = s[(i + 1) + j - 1]
      BY <1>1, <3>1, <3>2, SubSeqProperties
    <3>4. \A j \in Int : (i + 1) + j - 1 = i + j
      BY <2>1
    <3>5. Len(s) - (i + 1) + 1 = Len(s) - i
      BY <1>1, <2>1
    <3>6. ASSUME NEW j \in 1..(Len(s) - i) PROVE SubSeq(s, i + 1, Len(s))[j] = s[i + j]
      <4>1. j \in 1..(Len(s) - (i + 1) + 1) /\ j \in Int
        BY <3>5
      <4>2. SubSeq(s, i + 1, Len(s))[j] = s[(i + 1) + j - 1]
        BY <3>3, <4>1, Zenon
      <4> QED
        BY <3>4, <4>1, <4>2, Zenon
    <3>7. Len(SubSeq(s, i + 1, Len(s))) = Len(s) - i
      <4>1. (IF i + 1 <= Len(s) THEN Len(s) - (i + 1) + 1 ELSE 0) = Len(s) - i
        BY <1>1, <2>1, LengthOfRest, Zenon
      <4> QED
        BY <3>3, <4>1
    <3> QED
      BY <3>3, <3>6, <3>7
  <2>4. /\ t \in Seq(S) /\ Len(t) = Len(s) - 1
        /\ \A j \in 1..Len(t) : t[j] = IF j <= i - 1 THEN s[j] ELSE SubSeq(s, i + 1, Len(s))[j - (i - 1)]
    <3> DEFINE u == SubSeq(s, 1, i - 1)
               v == SubSeq(s, i + 1, Len(s))
    <3>1. u \in Seq(S) /\ v \in Seq(S) /\ Len(u) = i - 1 /\ Len(v) = Len(s) - i
      BY <2>2, <2>3
    <3>2. \A j \in 1..(i - 1) : u[j] = s[j]
      BY <2>2
    <3>3. t = u \o v
      BY DEF RemoveAt
    <3> HIDE DEF u, v, t
    <3>7. /\ t \in Seq(S) /\ Len(t) = Len(u) + Len(v)
          /\ \A j \in 1..(Len(u) + Len(v)) : t[j] = IF j <= Len(u) THEN u[j] ELSE v[j - Len(u)]
      BY <3>1, <3>3, ConcatProperties
    <3>4. /\ t \in Seq(S) /\ Len(t) = (i - 1) + (Len(s) - i)
          /\ \A j \in 1..((i - 1) + (Len(s) - i)) : t[j] = IF j <= i - 1 THEN u[j] ELSE v[j - (i - 1)]
      BY <3>1, <3>7, Zenon
    <3>5. (i - 1) + (Len(s) - i) = Len(s) - 1
      BY <1>1, <2>1
    <3>6. t \in Seq(S) /\ Len(t) = Len(s) - 1 /\ \A j \in 1..Len(t) : t[j] = IF j <= i - 1 THEN s[j] ELSE v[j - (i - 1)]
      BY <3>2, <3>4, <3>5
    <3> QED
      BY <3>6 DEF v
  <2>5. ASSUME NEW j \in 1..Len(t) PROVE t[j] = IF j < i THEN s[j] ELSE s[j + 1]
    <3>1. j \in Nat /\ 1 <= j /\ j <= Len(s) - 1
      BY <1>1, <2>4
    <3>2. CASE j < i
      BY <2>1, <2>4, <3>1, <3>2
    <3>3. CASE ~(j < i)
      <4>1. j - (i - 1) \in 1..(Len(s) - i) /\ i + (j - (i - 1)) = j + 1 /\ ~(j <= i - 1)
        BY <1>1, <2>1, <3>1, <3>3
      <4>2. t[j] = SubSeq(s, i + 1, Len(s))[j - (i - 1)]
        BY <2>4, <4>1
      <4> QED
        BY <2>3, <3>3, <4>1, <4>2
    <3> QED
      BY <3>2, <3>3
  <2>6. Len(t) \in Nat
    BY <1>1, <2>1, <2>4
  <2> HIDE DEF t
  <2> QED
    BY <2>4, <2>5, <2>6
<1>8. IsInjective(t)
  <2>1. ASSUME NEW j \in 1..Len(t), NEW k \in 1..Len(t), t[j] = t[k] PROVE j = k
    <3>1. \E x \in {j, j + 1}, y \in {k, k + 1} :
            /\ x \in 1..Len(s) /\ y \in 1..Len(s) /\ s[x] = s[y]
            /\ x = (IF j < i THEN j ELSE j + 1) /\ y = (IF k < i THEN k ELSE k + 1)
      BY <1>1, <1>2, <1>7, <2>1
    <3>2. PICK x \in {j, j + 1}, y \in {k, k + 1} :
            /\ x \in 1..Len(s) /\ y \in 1..Len(s) /\ s[x] = s[y]
            /\ x = (IF j < i THEN j ELSE j + 1) /\ y = (IF k < i THEN k ELSE k + 1)
      BY <3>1
    <3>3. x = y
      BY <1>1, <3>2 DEF IsInjective
    <3> QED
      BY <3>2, <3>3, <1>2
  <2>2. DOMAIN t = 1..Len(t)
    BY <1>7
  <2> HIDE DEF t
  <2> QED
    BY <2>1, <2>2 DEF IsInjective
<1>9. Range(t) = Range(s) \ {l}
  <2>1. DOMAIN t = 1..Len(t)
    BY <1>7
  <2>2. ASSUME NEW x \in Range(t) PROVE x \in Range(s) \ {l}
    <3>1. PICK j \in 1..Len(t) : t[j] = x
      BY <2>1 DEF Range
    <3>3. CASE j < i
      <4>1. j \in 1..Len(s) /\ j # i /\ x = s[j]
        BY <1>1, <1>2, <1>7, <3>1, <3>3
      <4> QED
        BY <1>1, <1>3, <4>1 DEF Range
    <3>4. CASE ~(j < i)
      <4>1. j + 1 \in 1..Len(s) /\ j + 1 # i /\ x = s[j + 1]
        BY <1>1, <1>2, <1>7, <3>1, <3>4
      <4> QED
        BY <1>1, <1>3, <4>1 DEF Range
    <3> QED
      BY <3>3, <3>4
  <2>3. ASSUME NEW x \in Range(s) \ {l} PROVE x \in Range(t)
    <3>1. PICK j \in 1..Len(s) : s[j] = x
      BY <1>1 DEF Range
    <3>2. j # i
      BY <1>2, <3>1
    <3>3. CASE j < i
      <4>1. j \in 1..Len(t) /\ t[j] = x
        BY <1>1, <1>2, <1>7, <3>1, <3>3
      <4> QED
        BY <2>1, <4>1 DEF Range
    <3>4. CASE i < j
      <4>1. j - 1 \in 1..Len(t) /\ t[j - 1] = x
        BY <1>1, <1>2, <1>7, <3>1, <3>4
      <4> QED
        BY <2>1, <4>1 DEF Range
    <3> QED
      BY <1>1, <1>2, <3>2, <3>3, <3>4
  <2> QED
    BY <2>2, <2>3
<1> HIDE DEF t
<1> QED
  BY <1>6, <1>7, <1>8, <1>9
-------------------------------------------------------------------------------
\* One layer.
Alike(d, e, k) ==
  e.layer[k] = d.layer[k] /\ e.file[k] = d.file[k] /\ e.node[k] = d.node[k] /\ e.index[k] = d.index[k]

\* What a node has is the same, in memory or not, and stays in memory for readers.
Same(d, e, k) ==
  /\ e.node[k] = d.node[k] /\ e.index[k] = d.index[k] /\ Held(e, k) = Held(d, k)
  /\ e.layer[k].refcount = d.layer[k].refcount
  /\ d.layer[k].refcount > 0 => e.layer[k] = d.layer[k]
  /\ e.file[k] \in {d.file[k], Held(d, k)}

LEMMA SameIsTransitive ==
  ASSUME NEW d, NEW e, NEW f, NEW k, Same(d, e, k), Same(e, f, k)
  PROVE  Same(d, f, k)
BY DEF Same

LEMMA AlikeIsSame ==
  ASSUME NEW d, NEW e, NEW k, Alike(d, e, k)
  PROVE  Same(d, e, k)
BY DEF Same, Alike, Held

LEMMA SumOfSizes ==
  ASSUME NEW d \in DbType, NEW e \in DbType, NEW l \in Layers,
         \A k \in Layers : k # l => Sizes(e)[k] = Sizes(d)[k]
  PROVE  SumFunctionOnSet(Sizes(e), Layers) = SumFunctionOnSet(Sizes(d), Layers) - Sizes(d)[l] + Sizes(e)[l]
<1>1. \A k \in Layers : Sizes(d)[k] \in Int /\ Sizes(e)[k] \in Int
  BY DEF Sizes, DbType, LayerType
<1> QED
  BY <1>1, LayersAre, SumChange

LEMMA LayerIs ==
  ASSUME NEW d \in DbType, NEW l \in Layers
  PROVE  /\ d.layer[l] \in LayerType /\ d.layer[l].lines \in Points /\ d.file[l] \in Points
         /\ d.layer[l].size \in Nat /\ d.layer[l].refcount \in Nat
         /\ d.layer[l].active \in BOOLEAN /\ d.layer[l].bupdate \in BOOLEAN
         /\ d.node[l] \in NodeType /\ d.index[l] \in IndexType /\ Held(d, l) \in Points
         /\ Listed(d) \subseteq Layers
<1>1. d.list \in Seq(Layers)
  BY DEF DbType
<1>2. Listed(d) \subseteq Layers
  BY <1>1 DEF Listed, Range
<1> QED
  BY <1>2 DEF DbType, LayerType, Held

LEMMA ListedAre ==
  ASSUME NEW d \in DbType
  PROVE  Listed(d) \subseteq Layers
<1>1. d.list \in Seq(Layers)
  BY DEF DbType
<1> QED
  BY <1>1 DEF Listed, Range

\* The database with one layer, or one node, replaced.
LEMMA Put ==
  ASSUME NEW d \in DbType, NEW l \in Layers, NEW x \in LayerType
  PROVE  LET e == [d EXCEPT !.layer[l] = x]
         IN  /\ e \in DbType /\ e.list = d.list /\ e.total = d.total /\ e.file = d.file
             /\ e.node = d.node /\ e.index = d.index
             /\ e.layer[l] = x /\ \A k \in Layers : k # l => e.layer[k] = d.layer[k]
BY DEF DbType

LEMMA PutNode ==
  ASSUME NEW d \in DbType, NEW l \in Layers, NEW x \in NodeType
  PROVE  LET e == [d EXCEPT !.node[l] = x]
         IN  /\ e \in DbType /\ e.list = d.list /\ e.total = d.total /\ e.layer = d.layer
             /\ e.file = d.file /\ e.index = d.index
             /\ e.node[l] = x /\ \A k \in Layers : k # l => e.node[k] = d.node[k]
BY DEF DbType

\* What a file holds while it is written.
LEMMA FilesCutAre ==
  ASSUME NEW d \in DbType, NEW l \in Layers
  PROVE  FilesCut(d, l) \in SUBSET DiskType
<1>1. d.layer[l].lines \in Points /\ d.file \in [Layers -> Points] /\ d.index \in [Layers -> IndexType]
  BY LayerIs DEF DbType
<1>2. Begun(d.layer[l].lines) \subseteq Points
  BY <1>1 DEF Begun, Points
<1>3. ASSUME NEW p \in Points
      PROVE  [file |-> [d.file EXCEPT ![l] = p], index |-> d.index] \in DiskType
  BY <1>1 DEF DiskType
<1> QED
  BY <1>2, <1>3 DEF FilesCut

LEMMA SaveIs ==
  ASSUME NEW d \in DbType, NEW l \in Layers
  PROVE  LET e == Save(d, l)
         IN  /\ e \in DbType /\ e.list = d.list /\ e.total = d.total /\ e.node = d.node /\ e.index = d.index
             /\ \A k \in Layers : k # l => Alike(d, e, k)
             /\ e.layer[l].active = d.layer[l].active /\ e.layer[l].lines = d.layer[l].lines
             /\ e.layer[l].size = d.layer[l].size /\ e.layer[l].refcount = d.layer[l].refcount
             /\ e.layer[l].bupdate = FALSE
             /\ e.file[l] = IF d.layer[l].bupdate THEN d.layer[l].lines ELSE d.file[l]
<1> DEFINE e == Save(d, l)
<1>1. CASE d.layer[l].bupdate
  <2> DEFINE w == d.cuts \union FilesCut(d, l)
             f == [d EXCEPT !.cuts = w, !.file[l] = d.layer[l].lines]
             x == [d.layer[l] EXCEPT !.bupdate = FALSE]
  <2>0. w \in SUBSET DiskType
    <3>1. d.cuts \in SUBSET DiskType
      BY DEF DbType
    <3> QED
      BY <3>1, FilesCutAre
  <2> HIDE DEF w
  <2>1. /\ f \in DbType /\ f.list = d.list /\ f.total = d.total /\ f.layer = d.layer
        /\ f.node = d.node /\ f.index = d.index
        /\ f.file[l] = d.layer[l].lines /\ \A k \in Layers : k # l => f.file[k] = d.file[k]
    <3>1. d.layer[l].lines \in Points
      BY LayerIs
    <3> DEFINE y == d.layer[l].lines
    <3>2. y \in Points /\ f = [d EXCEPT !.cuts = w, !.file[l] = y]
      BY <3>1
    <3> HIDE DEF f, y
    <3>3. /\ f \in DbType /\ f.list = d.list /\ f.total = d.total /\ f.layer = d.layer
          /\ f.node = d.node /\ f.index = d.index
          /\ f.file[l] = y /\ \A k \in Layers : k # l => f.file[k] = d.file[k]
      BY <2>0, <3>2 DEF DbType
    <3> QED
      BY <3>3 DEF y
  <2>2. /\ x \in LayerType /\ x.active = d.layer[l].active /\ x.lines = d.layer[l].lines
        /\ x.size = d.layer[l].size /\ x.refcount = d.layer[l].refcount /\ x.bupdate = FALSE
    <3>1. d.layer[l] \in LayerType
      BY LayerIs
    <3> QED
      BY <3>1 DEF LayerType
  <2>3. e = [f EXCEPT !.layer[l] = x]
    BY <1>1 DEF Save, DbType, w
  <2> HIDE DEF e, f, x
  <2>4. /\ e \in DbType /\ e.list = f.list /\ e.total = f.total /\ e.file = f.file
        /\ e.node = f.node /\ e.index = f.index
        /\ e.layer[l] = x /\ \A k \in Layers : k # l => e.layer[k] = f.layer[k]
    BY <2>1, <2>2, <2>3, Put
  <2>5. \A k \in Layers : k # l => Alike(d, e, k)
    BY <2>1, <2>4 DEF Alike
  <2> QED
    BY <1>1, <2>1, <2>2, <2>4, <2>5 DEF e
<1>2. CASE ~d.layer[l].bupdate
  BY <1>2, LayerIs DEF Save, Alike
<1> QED
  BY <1>1, <1>2, LayerIs

\* A layer taken off the list.
LEMMA PopLayerIs ==
  ASSUME NEW d \in DbType, IsInjective(d.list), NEW l \in Listed(d)
  PROVE  LET e == PopLayer(d, l)
         IN  /\ e \in DbType /\ IsInjective(e.list) /\ Listed(e) = Listed(d) \ {l}
             /\ e.total = d.total - d.layer[l].size
             /\ e.layer = d.layer /\ e.file = d.file /\ e.node = d.node /\ e.index = d.index
<1>0. l \in Layers
  BY ListedAre
<1>1. d.list \in Seq(Layers) /\ d.total \in Int /\ d.layer[l].size \in Int
  BY <1>0, LayerIs DEF DbType
<1>2. RemoveFirst(d.list, l) \in Seq(Layers) /\ IsInjective(RemoveFirst(d.list, l))
      /\ Range(RemoveFirst(d.list, l)) = Range(d.list) \ {l}
  BY <1>1, Removed DEF Listed
<1>3. d.total - d.layer[l].size \in Int
  BY <1>1
<1>4. PopLayer(d, l) = [d EXCEPT !.list = RemoveFirst(d.list, l), !.total = d.total - d.layer[l].size]
  BY DEF PopLayer, DbType
<1> DEFINE e == PopLayer(d, l)
           s == RemoveFirst(d.list, l)
           t == d.total - d.layer[l].size
<1>6. s \in Seq(Layers) /\ t \in Int /\ e = [d EXCEPT !.list = s, !.total = t]
  BY <1>2, <1>3, <1>4
<1> HIDE DEF e, s, t
<1>7. /\ e \in DbType /\ e.list = s /\ e.total = t
      /\ e.layer = d.layer /\ e.file = d.file /\ e.node = d.node /\ e.index = d.index
  BY <1>6 DEF DbType
<1>5. /\ e \in DbType /\ e.list = RemoveFirst(d.list, l) /\ e.total = d.total - d.layer[l].size
      /\ e.layer = d.layer /\ e.file = d.file /\ e.node = d.node /\ e.index = d.index
  BY <1>7 DEF s, t
<1> QED
  BY <1>2, <1>5 DEF Listed, e

LEMMA ReleaseIs ==
  ASSUME NEW d \in DbType, IsInjective(d.list), NEW l \in Listed(d)
  PROVE  LET e == Release(d, l)
         IN  /\ e \in DbType /\ IsInjective(e.list) /\ Listed(e) = Listed(d) \ {l}
             /\ e.total = d.total - d.layer[l].size /\ e.node = d.node /\ e.index = d.index
             /\ \A k \in Layers : k # l => Alike(d, e, k)
             /\ e.layer[l].active = FALSE /\ e.layer[l].refcount = d.layer[l].refcount
             /\ e.layer[l].bupdate = FALSE
             /\ e.file[l] = IF d.layer[l].bupdate THEN d.layer[l].lines ELSE d.file[l]
<1> DEFINE s == Save(d, l)
           z == [s EXCEPT !.layer[l].lines = NoLines]
           p == PopLayer(z, l)
           e == Release(d, l)
<1>1. l \in Layers
  BY ListedAre
<1>2. /\ s \in DbType /\ s.list = d.list /\ s.total = d.total /\ s.node = d.node /\ s.index = d.index
      /\ \A k \in Layers : k # l => Alike(d, s, k)
      /\ s.layer[l].refcount = d.layer[l].refcount /\ s.layer[l].size = d.layer[l].size
      /\ s.layer[l].bupdate = FALSE
      /\ s.file[l] = IF d.layer[l].bupdate THEN d.layer[l].lines ELSE d.file[l]
  BY <1>1, SaveIs
<1>3. e = [p EXCEPT !.layer[l].active = FALSE]
  BY DEF Release
<1> HIDE DEF s, e
<1>4. /\ z \in DbType /\ z.list = s.list /\ z.total = s.total /\ z.node = s.node /\ z.index = s.index
      /\ z.file = s.file /\ z.layer[l] = [s.layer[l] EXCEPT !.lines = NoLines]
      /\ \A k \in Layers : k # l => z.layer[k] = s.layer[k]
  <2> DEFINE x == [s.layer[l] EXCEPT !.lines = NoLines]
  <2>1. x \in LayerType
    BY <1>1, <1>2, LayersAre, LayerIs DEF LayerType
  <2>2. z = [s EXCEPT !.layer[l] = x]
    BY <1>2 DEF DbType
  <2> HIDE DEF x, z
  <2>3. /\ z \in DbType /\ z.list = s.list /\ z.total = s.total /\ z.node = s.node /\ z.index = s.index
        /\ z.file = s.file /\ z.layer[l] = x /\ \A k \in Layers : k # l => z.layer[k] = s.layer[k]
    BY <1>1, <1>2, <2>1, <2>2, Put
  <2> QED
    BY <2>3 DEF x
<1> HIDE DEF z
<1>5. /\ z.layer[l].size = s.layer[l].size /\ z.layer[l].refcount = s.layer[l].refcount
      /\ z.layer[l].bupdate = FALSE
  <2>1. s.layer[l] \in LayerType
    BY <1>1, <1>2, LayerIs
  <2> QED
    BY <1>2, <1>4, <2>1 DEF LayerType
<1>6. /\ p \in DbType /\ IsInjective(p.list) /\ Listed(p) = Listed(d) \ {l} /\ p.total = d.total - d.layer[l].size
      /\ p.layer = z.layer /\ p.file = z.file /\ p.node = z.node /\ p.index = z.index
  <2>1. IsInjective(z.list) /\ l \in Listed(z) /\ Listed(z) = Listed(d)
    BY <1>2, <1>4 DEF Listed
  <2>2. /\ p \in DbType /\ IsInjective(p.list) /\ Listed(p) = Listed(z) \ {l}
        /\ p.total = z.total - z.layer[l].size
        /\ p.layer = z.layer /\ p.file = z.file /\ p.node = z.node /\ p.index = z.index
    BY <1>4, <2>1, PopLayerIs
  <2> QED
    BY <1>2, <1>4, <1>5, <2>1, <2>2
<1> HIDE DEF p
<1>7. /\ e \in DbType /\ e.list = p.list /\ e.total = p.total /\ e.node = p.node /\ e.index = p.index
      /\ e.file = p.file /\ e.layer[l] = [p.layer[l] EXCEPT !.active = FALSE]
      /\ \A k \in Layers : k # l => e.layer[k] = p.layer[k]
  <2> DEFINE x == [p.layer[l] EXCEPT !.active = FALSE]
  <2>1. x \in LayerType
    BY <1>1, <1>6, LayerIs, ZenonT(30) DEF LayerType
  <2>2. e = [p EXCEPT !.layer[l] = x]
    BY <1>3, <1>6 DEF DbType
  <2> HIDE DEF x
  <2>3. /\ e \in DbType /\ e.list = p.list /\ e.total = p.total /\ e.node = p.node /\ e.index = p.index
        /\ e.file = p.file /\ e.layer[l] = x /\ \A k \in Layers : k # l => e.layer[k] = p.layer[k]
    BY <1>1, <1>6, <2>1, <2>2, Put, SMTT(30)
  <2> QED
    BY <2>3 DEF x
<1>8. /\ e.layer[l].active = FALSE /\ e.layer[l].refcount = p.layer[l].refcount
      /\ e.layer[l].bupdate = FALSE
  <2>1. p.layer[l] \in LayerType
    BY <1>1, <1>6, LayerIs
  <2> QED
    BY <1>5, <1>6, <1>7, <2>1 DEF LayerType
<1>9. Listed(e) = Listed(p)
  BY <1>7 DEF Listed
<1>10. \A k \in Layers : k # l => Alike(d, e, k)
  BY <1>2, <1>4, <1>6, <1>7 DEF Alike
<1> QED
  BY <1>2, <1>4, <1>5, <1>6, <1>7, <1>8, <1>9, <1>10 DEF e

\* A layer released keeps the database as it should be.
LEMMA ReleaseKeeps ==
  ASSUME NEW X, NEW Y, NEW d, OKBut(d, X, Y), NEW l \in Listed(d), l \notin Y,
         d.layer[l].refcount = 0
  PROVE  LET e == Release(d, l)
         IN  /\ OKBut(e, X, Y) /\ Listed(e) = Listed(d) \ {l} /\ e.total = d.total - d.layer[l].size
             /\ \A k \in Layers : Same(d, e, k) /\ (k # l => Alike(d, e, k))
<1> DEFINE e == Release(d, l)
<1>1. d \in DbType /\ IsInjective(d.list) /\ l \in Layers /\ Listed(d) \subseteq Layers
  BY ListedAre DEF OKBut
<1>2. /\ e \in DbType /\ IsInjective(e.list) /\ Listed(e) = Listed(d) \ {l}
      /\ e.total = d.total - d.layer[l].size /\ e.node = d.node /\ e.index = d.index
      /\ \A k \in Layers : k # l => Alike(d, e, k)
      /\ e.layer[l].active = FALSE /\ e.layer[l].refcount = d.layer[l].refcount
      /\ e.layer[l].bupdate = FALSE
      /\ e.file[l] = IF d.layer[l].bupdate THEN d.layer[l].lines ELSE d.file[l]
  BY <1>1, ReleaseIs
<1> HIDE DEF e
<1>3. d.layer[l].active /\ l \notin X /\ Clean(d, l) /\ LayerOK(d, l)
  BY <1>1 DEF OKBut
<1>4. Held(e, l) = Held(d, l) /\ e.file[l] = Held(d, l)
  BY <1>1, <1>2, <1>3, LayerIs DEF Held, Clean
<1>5. e.total = SumFunctionOnSet(Sizes(e), Layers)
  <2>1. \A k \in Layers : k # l => Sizes(e)[k] = Sizes(d)[k]
    BY <1>2 DEF Sizes, Alike
  <2>2. Sizes(d)[l] = d.layer[l].size /\ Sizes(e)[l] = 0 /\ d.layer[l].size \in Nat /\ d.total \in Int
    BY <1>1, <1>2, LayerIs DEF Sizes, DbType
  <2>3. SumFunctionOnSet(Sizes(e), Layers) = SumFunctionOnSet(Sizes(d), Layers) - Sizes(d)[l] + Sizes(e)[l]
    BY <1>1, <1>2, <2>1, SumOfSizes
  <2>4. SumFunctionOnSet(Sizes(d), Layers) = d.total
    BY DEF OKBut
  <2> QED
    BY <1>2, <2>2, <2>3, <2>4
<1>6. ASSUME NEW k \in Layers
      PROVE  /\ LayerOK(e, k) /\ (k \notin Y => Clean(e, k)) /\ (k \in Listed(e) <=> e.layer[k].active /\ k \notin X)
             /\ Same(d, e, k)
  <2>1. CASE k = l
    BY <1>1, <1>2, <1>3, <1>4, <2>1 DEF LayerOK, Clean, Same
  <2>2. CASE k # l
    <3>1. Alike(d, e, k)
      BY <1>2, <2>2
    <3>2. LayerOK(d, k) /\ (k \notin Y => Clean(d, k)) /\ (k \in Listed(d) <=> d.layer[k].active /\ k \notin X)
      BY DEF OKBut
    <3> QED
      BY <1>2, <2>2, <3>1, <3>2, AlikeIsSame DEF Alike, LayerOK, Clean
  <2> QED
    BY <2>1, <2>2
<1>7. NodesOK(e)
  BY <1>2 DEF OKBut, NodesOK
<1>8. OKBut(e, X, Y)
  BY <1>2, <1>5, <1>6, <1>7 DEF OKBut
<1> QED
  BY <1>2, <1>6, <1>8 DEF e
-------------------------------------------------------------------------------
\* The database after a part of the list has been looked at.
Looked(d, e, i) ==
  /\ Listed(e) \subseteq Listed(d) /\ e.total <= d.total
  /\ \A k \in Layers : Same(d, e, k) /\ (k \notin Listed(d) => Alike(d, e, k))
  /\ \A j \in DOMAIN d.list :
       IF j > i THEN d.list[j] \in Listed(e)
       ELSE d.list[j] \in Listed(e) /\ e.total >= MaxTotalSizeLayerData => d.layer[d.list[j]].refcount > 0

LEMMA LookedStep ==
  ASSUME NEW X, NEW Y, NEW d, OKBut(d, X, Y), Listed(d) \cap Y = {},
         NEW e, OKBut(e, X, Y), NEW i \in DOMAIN d.list, Looked(d, e, i - 1)
  PROVE  LET f == FoldStep("restruct", 0, e, d.list[i]) IN OKBut(f, X, Y) /\ Looked(d, f, i)
<1> DEFINE l == d.list[i]
           f == FoldStep("restruct", 0, e, l)
<1>1. /\ d \in DbType /\ e \in DbType /\ i \in Nat /\ d.list \in Seq(Layers) /\ DOMAIN d.list \subseteq Nat
      /\ l \in Listed(d) /\ l \in Layers /\ l \in Listed(e) /\ l \notin Y
  <2>1. d \in DbType /\ e \in DbType
    BY DEF OKBut
  <2>2. d.list \in Seq(Layers)
    BY <2>1 DEF DbType
  <2>3. i \in Nat /\ DOMAIN d.list \subseteq Nat /\ l \in Listed(d) /\ l \in Layers
    BY <2>2 DEF Listed, Range
  <2>4. l \in Listed(e)
    BY <2>3 DEF Looked
  <2> QED
    BY <2>1, <2>2, <2>3, <2>4
<1>2. e.total \in Int /\ d.total \in Int /\ e.layer[l].refcount \in Nat /\ e.layer[l].size \in Nat
      /\ e.layer[l].refcount = d.layer[l].refcount /\ d.layer[l].refcount \in Nat
  BY <1>1, LayerIs DEF DbType, Looked, Same
<1>3. \A j \in DOMAIN d.list : j # i => d.list[j] # l
  BY <1>1 DEF OKBut, IsInjective
<1>4. CASE Releasable(e, l)
  <2>1. f = Release(e, l) /\ e.layer[l].refcount = 0 /\ e.total >= MaxTotalSizeLayerData
    BY <1>4 DEF FoldStep, Releasable
  <2> HIDE DEF f, l
  <2>2. /\ OKBut(f, X, Y) /\ Listed(f) = Listed(e) \ {l} /\ f.total = e.total - e.layer[l].size
        /\ \A k \in Layers : Same(e, f, k) /\ (k # l => Alike(e, f, k))
    BY <1>1, <2>1, ReleaseKeeps
  <2>3. f.total <= e.total /\ f.total \in Int
    BY <1>2, <2>2
  <2>4. ASSUME NEW k \in Layers PROVE Same(d, f, k) /\ (k \notin Listed(d) => Alike(d, f, k))
    <3>1. Same(d, e, k) /\ (k \notin Listed(d) => Alike(d, e, k))
      BY DEF Looked
    <3>2. Same(d, f, k)
      BY <2>2, <3>1, SameIsTransitive
    <3> QED
      BY <1>1, <2>2, <3>1, <3>2 DEF Alike
  <2>5. ASSUME NEW j \in DOMAIN d.list
        PROVE  IF j > i THEN d.list[j] \in Listed(f)
               ELSE d.list[j] \in Listed(f) /\ f.total >= MaxTotalSizeLayerData => d.layer[d.list[j]].refcount > 0
    <3>1. CASE j > i
      <4>1. d.list[j] \in Listed(e) /\ d.list[j] # l
        BY <1>1, <1>3, <3>1 DEF Looked
      <4> QED
        BY <2>2, <3>1, <4>1
    <3>2. CASE j = i
      BY <1>1, <2>2, <3>2 DEF l
    <3>3. CASE j < i
      <4>1. d.list[j] \in Listed(e) => d.layer[d.list[j]].refcount > 0
        BY <1>1, <2>1, <3>3 DEF Looked
      <4> QED
        BY <1>1, <2>2, <3>3, <4>1
    <3> QED
      BY <1>1, <3>1, <3>2, <3>3
  <2>6. Listed(f) \subseteq Listed(d) /\ f.total <= d.total
    BY <1>2, <2>2, <2>3 DEF Looked
  <2>7. Looked(d, f, i)
    BY <2>4, <2>5, <2>6 DEF Looked
  <2> QED
    BY <2>2, <2>7 DEF f, l
<1>5. CASE ~Releasable(e, l)
  <2>1. f = e
    BY <1>5 DEF FoldStep
  <2>2. e.total >= MaxTotalSizeLayerData => d.layer[l].refcount > 0
    BY <1>2, <1>5 DEF Releasable
  <2> HIDE DEF f
  <2>3. ASSUME NEW j \in DOMAIN d.list
        PROVE  IF j > i THEN d.list[j] \in Listed(e)
               ELSE d.list[j] \in Listed(e) /\ e.total >= MaxTotalSizeLayerData => d.layer[d.list[j]].refcount > 0
    <3>1. CASE j > i
      BY <1>1, <3>1 DEF Looked
    <3>2. CASE j = i
      BY <1>1, <2>2, <3>2
    <3>3. CASE j < i
      BY <1>1, <3>3 DEF Looked
    <3> QED
      BY <1>1, <3>1, <3>2, <3>3
  <2>4. Looked(d, e, i)
    BY <2>3 DEF Looked
  <2> QED
    BY <2>1, <2>4 DEF f
<1> QED
  BY <1>4, <1>5

\* restruct(): layers leave the list until there is room, or readers hold all.
LEMMA RestructIs ==
  ASSUME NEW X, NEW Y, NEW d, OKBut(d, X, Y), Listed(d) \cap Y = {}
  PROVE  LET e == Restruct(d)
         IN  /\ OKBut(e, X, Y) /\ Listed(e) \subseteq Listed(d) /\ e.total <= d.total
             /\ \A k \in Layers : Same(d, e, k) /\ (k \notin Listed(d) => Alike(d, e, k))
             /\ e.total < MaxTotalSizeLayerData \/ \A k \in Listed(e) : e.layer[k].refcount > 0
<1>1. d \in DbType /\ d.list \in Seq(Layers) /\ d.total \in Int
  BY DEF OKBut, DbType
<1>2. PICK r : IsRun(r, "restruct", 0, d, d.list) /\ Restruct(d) = r[Len(d.list)]
  BY <1>1, RestructRuns
<1> DEFINE n == Len(d.list)
           P(e, i) == OKBut(e, X, Y) /\ Looked(d, e, i)
           T == {i \in Nat : i <= n => P(r[i], i)}
<1>3. n \in Nat /\ DOMAIN d.list = 1..n
  BY <1>1
<1> HIDE DEF n
<1>4. 0 \in T
  <2>1. r[0] = d
    BY <1>2 DEF IsRun
  <2>2. \A j \in DOMAIN d.list : j > 0 /\ d.list[j] \in Listed(d)
    BY <1>3 DEF Listed, Range
  <2>3. Looked(d, d, 0)
    BY <1>1, <2>2 DEF Looked, Alike, Same, Held
  <2> QED
    BY <2>1, <2>3
<1>5. ASSUME NEW i \in Nat, i \in T PROVE i + 1 \in T
  <2>1. SUFFICES ASSUME i + 1 <= n PROVE P(r[i + 1], i + 1)
    <3> HIDE DEF P
    <3> QED
      OBVIOUS
  <2>2. i + 1 \in DOMAIN d.list /\ (i + 1) - 1 = i /\ i <= n
    BY <1>3, <2>1
  <2>3. OKBut(r[i], X, Y) /\ Looked(d, r[i], (i + 1) - 1)
    BY <1>5, <2>2
  <2>4. r[i + 1] = FoldStep("restruct", 0, r[i], d.list[i + 1])
    BY <1>2, <2>2 DEF IsRun
  <2> QED
    BY <2>2, <2>3, <2>4, LookedStep
<1>6. P(r[n], n)
  <2> HIDE DEF T, P
  <2>1. Nat \subseteq T
    BY <1>4, <1>5, Inductive, Zenon
  <2>2. n \in T /\ n <= n
    BY <1>3, <2>1
  <2> QED
    BY <2>2 DEF T
<1> DEFINE e == Restruct(d)
<1>7. OKBut(e, X, Y) /\ Looked(d, e, n)
  BY <1>2, <1>6 DEF n
<1> HIDE DEF e
<1>8. ASSUME ~(e.total < MaxTotalSizeLayerData), NEW k \in Listed(e) PROVE e.layer[k].refcount > 0
  <2>1. k \in Listed(d) /\ e \in DbType
    BY <1>7 DEF Looked, OKBut
  <2>2. PICK j \in DOMAIN d.list : d.list[j] = k
    BY <2>1 DEF Listed, Range
  <2>3. ~(j > n) /\ e.total \in Int /\ MaxTotalSizeLayerData \in Nat
    BY <1>3, <2>1, LayersAre DEF DbType
  <2>4. e.total >= MaxTotalSizeLayerData
    BY <1>8, <2>3
  <2>5. d.layer[k].refcount > 0
    BY <1>7, <2>2, <2>3, <2>4 DEF Looked
  <2>6. k \in Layers
    BY <2>1, ListedAre
  <2> QED
    BY <1>7, <2>5, <2>6 DEF Looked, Same
<1>9. Listed(e) \subseteq Listed(d) /\ e.total <= d.total
      /\ \A k \in Layers : Same(d, e, k) /\ (k \notin Listed(d) => Alike(d, e, k))
  BY <1>7 DEF Looked
<1> QED
  BY <1>7, <1>8, <1>9 DEF e
-------------------------------------------------------------------------------
\* The list ends with l, and there is room beside it or readers hold the others.
Ends(d, l) ==
  /\ d.list # <<>> /\ d.list[Len(d.list)] = l
  /\ d.total - d.layer[l].size < MaxTotalSizeLayerData \/ \A k \in Listed(d) : k = l \/ d.layer[k].refcount > 0

LEMMA AppendIs ==
  ASSUME NEW S, NEW s \in Seq(S), IsInjective(s), NEW l \in S, l \notin Range(s)
  PROVE  LET t == Append(s, l)
         IN  /\ t \in Seq(S) /\ IsInjective(t) /\ Range(t) = Range(s) \union {l} /\ t # <<>> /\ t[Len(t)] = l
<1> DEFINE t == Append(s, l)
<1>1. Len(s) \in Nat /\ DOMAIN s = 1..Len(s)
  OBVIOUS
<1>2. t \in Seq(S) /\ Len(t) = Len(s) + 1 /\ t[Len(s) + 1] = l /\ \A i \in 1..Len(s) : t[i] = s[i]
  OBVIOUS
<1>3. DOMAIN t = 1..(Len(s) + 1)
  BY <1>2
<1> HIDE DEF t
<1>4. IsInjective(t)
  <2>1. ASSUME NEW i \in DOMAIN t, NEW j \in DOMAIN t, t[i] = t[j] PROVE i = j
    <3>1. CASE i \in 1..Len(s) /\ j \in 1..Len(s)
      BY <1>1, <1>2, <2>1, <3>1 DEF IsInjective
    <3>2. CASE i \notin 1..Len(s) /\ j \notin 1..Len(s)
      BY <1>1, <1>3, <3>2
    <3>3. CASE i \in 1..Len(s) /\ j \notin 1..Len(s)
      <4>1. j = Len(s) + 1
        BY <1>1, <1>3, <3>3
      <4> QED
        BY <1>1, <1>2, <2>1, <3>3, <4>1 DEF Range
    <3>4. CASE i \notin 1..Len(s) /\ j \in 1..Len(s)
      <4>1. i = Len(s) + 1
        BY <1>1, <1>3, <3>4
      <4> QED
        BY <1>1, <1>2, <2>1, <3>4, <4>1 DEF Range
    <3> QED
      BY <3>1, <3>2, <3>3, <3>4
  <2> QED
    BY <2>1 DEF IsInjective
<1>5. Range(t) = Range(s) \union {l}
  <2>1. ASSUME NEW x \in Range(t) PROVE x \in Range(s) \union {l}
    <3>1. PICK i \in 1..(Len(s) + 1) : t[i] = x
      BY <1>3 DEF Range
    <3>2. CASE i = Len(s) + 1
      BY <1>2, <3>1, <3>2
    <3>3. CASE i # Len(s) + 1
      <4>1. i \in 1..Len(s)
        BY <1>1, <3>1, <3>3
      <4> QED
        BY <1>1, <1>2, <3>1, <4>1 DEF Range
    <3> QED
      BY <3>2, <3>3
  <2>2. ASSUME NEW x \in Range(s) PROVE x \in Range(t)
    <3>1. PICK i \in 1..Len(s) : s[i] = x
      BY <1>1 DEF Range
    <3>2. i \in DOMAIN t /\ t[i] = x
      BY <1>1, <1>2, <1>3, <3>1
    <3> QED
      BY <3>2 DEF Range
  <2>3. l \in Range(t)
    <3>1. Len(s) + 1 \in DOMAIN t
      BY <1>1, <1>3
    <3> QED
      BY <1>2, <3>1 DEF Range
  <2> QED
    BY <2>1, <2>2, <2>3
<1>6. t # <<>>
  BY <1>1, <1>2
<1> QED
  BY <1>2, <1>4, <1>5, <1>6 DEF t

LEMMA InsertIs ==
  ASSUME NEW d, NEW l \in Layers, NEW Y \in SUBSET {l}, OKBut(d, {l}, Y), d.layer[l].active
  PROVE  LET e == Insert(d, l)
         IN  /\ OKBut(e, {}, Y) /\ Alike(d, e, l) /\ Ends(e, l) /\ \A k \in Layers : Same(d, e, k)
<1> DEFINE r == Restruct(d)
           e == Insert(d, l)
<1>1. l \notin Listed(d) /\ Listed(d) \cap Y = {}
  BY DEF OKBut
<1>2. /\ OKBut(r, {l}, Y) /\ Listed(r) \subseteq Listed(d)
      /\ \A k \in Layers : Same(d, r, k) /\ (k \notin Listed(d) => Alike(d, r, k))
      /\ r.total < MaxTotalSizeLayerData \/ \A k \in Listed(r) : r.layer[k].refcount > 0
  BY <1>1, RestructIs
<1>3. e = [r EXCEPT !.list = Append(r.list, l), !.total = r.total + r.layer[l].size]
  <2>1. r \in DbType
    BY <1>2 DEF OKBut
  <2> QED
    BY <2>1 DEF Insert, DbType
<1> HIDE DEF e, r
<1>4. /\ r \in DbType /\ IsInjective(r.list) /\ r.list \in Seq(Layers) /\ r.total \in Int
      /\ l \notin Range(r.list) /\ r.layer[l].size \in Nat
  <2>1. r \in DbType /\ IsInjective(r.list)
    BY <1>2 DEF OKBut
  <2> QED
    BY <1>1, <1>2, <2>1, LayerIs DEF DbType, Listed
<1> DEFINE s == Append(r.list, l)
<1>5. s \in Seq(Layers) /\ IsInjective(s) /\ Range(s) = Range(r.list) \union {l} /\ s # <<>> /\ s[Len(s)] = l
  BY <1>4, AppendIs
<1> HIDE DEF s
<1>6. /\ e \in DbType /\ e.list = s /\ e.total = r.total + r.layer[l].size
      /\ e.layer = r.layer /\ e.file = r.file /\ e.node = r.node /\ e.index = r.index
  <2>1. e = [r EXCEPT !.list = s, !.total = r.total + r.layer[l].size] /\ r.total + r.layer[l].size \in Int
    BY <1>3, <1>4 DEF s
  <2> QED
    BY <1>4, <1>5, <2>1 DEF DbType
<1>7. Listed(e) = Listed(r) \union {l}
  BY <1>5, <1>6 DEF Listed
<1>8. e.total = SumFunctionOnSet(Sizes(e), Layers)
  <2>1. \A k \in Layers : k # l => Sizes(e)[k] = Sizes(r)[k]
    BY <1>6, <1>7 DEF Sizes
  <2>2. Sizes(r)[l] = 0 /\ Sizes(e)[l] = r.layer[l].size
    BY <1>4, <1>6, <1>7 DEF Sizes, Listed
  <2>3. SumFunctionOnSet(Sizes(e), Layers) = SumFunctionOnSet(Sizes(r), Layers) - Sizes(r)[l] + Sizes(e)[l]
    BY <1>4, <1>6, <2>1, SumOfSizes
  <2>4. SumFunctionOnSet(Sizes(r), Layers) = r.total
    BY <1>2 DEF OKBut
  <2> QED
    BY <1>4, <1>6, <2>2, <2>3, <2>4
<1>9. Alike(d, r, l)
  BY <1>1, <1>2
<1>10. ASSUME NEW k \in Layers
       PROVE  LayerOK(e, k) /\ (k \notin Y => Clean(e, k)) /\ (k \in Listed(e) <=> e.layer[k].active /\ k \notin {})
  <2>1. LayerOK(r, k) /\ (k \notin Y => Clean(r, k)) /\ (k \in Listed(r) <=> r.layer[k].active /\ k \notin {l})
    BY <1>2 DEF OKBut
  <2>2. r.layer[l].active
    BY <1>9 DEF Alike
  <2> QED
    BY <1>6, <1>7, <2>1, <2>2 DEF LayerOK, Clean
<1>11. NodesOK(e)
  BY <1>2, <1>6 DEF OKBut, NodesOK
<1>12. OKBut(e, {}, Y)
  BY <1>5, <1>6, <1>8, <1>10, <1>11 DEF OKBut
<1>13. Alike(d, e, l) /\ \A k \in Layers : Same(d, e, k)
  BY <1>2, <1>6, <1>9 DEF Alike, Same, Held
<1>14. Ends(e, l)
  <2>1. e.total - e.layer[l].size = r.total
    BY <1>4, <1>6
  <2> QED
    BY <1>2, <1>5, <1>6, <1>7, <2>1 DEF Ends
<1> QED
  BY <1>12, <1>13, <1>14 DEF e

LEMMA AccessedIs ==
  ASSUME NEW d, NEW l \in Layers, NEW Y \in SUBSET {l}, OKBut(d, {}, Y), d.layer[l].active
  PROVE  LET e == Accessed(d, l)
         IN  /\ OKBut(e, {}, Y) /\ Alike(d, e, l) /\ Ends(e, l) /\ \A k \in Layers : Same(d, e, k)
<1> DEFINE p == PopLayer(d, l)
           e == Accessed(d, l)
<1>1. e = Insert(p, l)
  BY DEF Accessed
<1>2. d \in DbType /\ IsInjective(d.list) /\ l \in Listed(d)
  BY DEF OKBut
<1>3. /\ p \in DbType /\ IsInjective(p.list) /\ Listed(p) = Listed(d) \ {l}
      /\ p.total = d.total - d.layer[l].size
      /\ p.layer = d.layer /\ p.file = d.file /\ p.node = d.node /\ p.index = d.index
  BY <1>2, PopLayerIs
<1> HIDE DEF e, p
<1>4. p.total = SumFunctionOnSet(Sizes(p), Layers)
  <2>1. \A k \in Layers : k # l => Sizes(p)[k] = Sizes(d)[k]
    BY <1>3 DEF Sizes
  <2>2. Sizes(d)[l] = d.layer[l].size /\ Sizes(p)[l] = 0 /\ d.layer[l].size \in Nat /\ d.total \in Int
    BY <1>2, <1>3, LayerIs DEF Sizes, DbType
  <2>3. SumFunctionOnSet(Sizes(p), Layers) = SumFunctionOnSet(Sizes(d), Layers) - Sizes(d)[l] + Sizes(p)[l]
    BY <1>2, <1>3, <2>1, SumOfSizes
  <2>4. SumFunctionOnSet(Sizes(d), Layers) = d.total
    BY DEF OKBut
  <2> QED
    BY <1>3, <2>2, <2>3, <2>4
<1>5. \A k \in Layers : LayerOK(p, k) /\ (k \notin Y => Clean(p, k)) /\ (k \in Listed(p) <=> p.layer[k].active /\ k \notin {l})
  BY <1>3 DEF OKBut, LayerOK, Clean
<1>6. OKBut(p, {l}, Y)
  BY <1>3, <1>4, <1>5 DEF OKBut, NodesOK
<1>7. OKBut(e, {}, Y) /\ Alike(p, e, l) /\ Ends(e, l) /\ \A k \in Layers : Same(p, e, k)
  BY <1>1, <1>3, <1>6, InsertIs
<1>8. Alike(d, e, l) /\ \A k \in Layers : Same(d, e, k)
  BY <1>3, <1>7 DEF Alike, Same, Held
<1> QED
  BY <1>7, <1>8 DEF e
-------------------------------------------------------------------------------
\* A layer is read, made, changed and locked.
LEMMA LoadIs ==
  ASSUME NEW d, NEW l \in Layers, DbOK(d), ~d.layer[l].active, d.node[l].hasLayer
  PROVE  LET e == Load(d, l)
         IN  /\ DbOK(e) /\ e.layer[l].active /\ Ends(e, l) /\ \A k \in Layers : Same(d, e, k)
<1> DEFINE x == [d.layer[l] EXCEPT !.lines = d.file[l], !.size = SizeOf(d.file[l]), !.bupdate = FALSE, !.active = TRUE]
           m == [d EXCEPT !.layer[l] = x]
           e == Load(d, l)
<1>1. e = Insert(m, l)
  BY DEF Load
<1>2. d \in DbType /\ d.layer[l].refcount = 0 /\ l \notin Listed(d)
  BY LayerIs DEF DbOK, OKBut, LayerOK
<1>3. /\ x \in LayerType /\ x.active /\ x.lines = d.file[l] /\ x.size = SizeOf(d.file[l])
      /\ x.bupdate = FALSE /\ x.refcount = 0
  <2>1. d.layer[l] \in LayerType /\ SizeOf(d.file[l]) \in Nat /\ d.file[l] \in Points
    BY <1>2, LayerIs, SizeIs
  <2> QED
    BY <1>2, <2>1 DEF LayerType
<1> HIDE DEF e, x
<1>4. /\ m \in DbType /\ m.list = d.list /\ m.total = d.total /\ m.file = d.file
      /\ m.node = d.node /\ m.index = d.index
      /\ m.layer[l] = x /\ \A k \in Layers : k # l => m.layer[k] = d.layer[k]
  BY <1>2, <1>3, Put
<1> HIDE DEF m
<1>5. Sizes(m) = Sizes(d) /\ Listed(m) = Listed(d)
  BY <1>2, <1>4 DEF Sizes, Listed
<1>6. ASSUME NEW k \in Layers
      PROVE  LayerOK(m, k) /\ (k \notin {} => Clean(m, k)) /\ (k \in Listed(m) <=> m.layer[k].active /\ k \notin {l})
  <2>1. LayerOK(d, k) /\ Clean(d, k) /\ (k \in Listed(d) <=> d.layer[k].active)
    BY DEF DbOK, OKBut
  <2>2. CASE k = l
    BY <1>2, <1>3, <1>4, <1>5, <2>2 DEF LayerOK, Clean
  <2>3. CASE k # l
    BY <1>4, <1>5, <2>1, <2>3 DEF LayerOK, Clean
  <2> QED
    BY <2>2, <2>3
<1>7. OKBut(m, {l}, {})
  BY <1>4, <1>5, <1>6 DEF DbOK, OKBut, NodesOK
<1>8. OKBut(e, {}, {}) /\ Alike(m, e, l) /\ Ends(e, l) /\ \A k \in Layers : Same(m, e, k)
  BY <1>1, <1>3, <1>4, <1>7, InsertIs
<1>9. ASSUME NEW k \in Layers PROVE Same(d, e, k)
  <2>1. Same(d, m, k)
    BY <1>2, <1>3, <1>4 DEF Same, Held
  <2> QED
    BY <1>8, <2>1, SameIsTransitive
<1> QED
  BY <1>3, <1>4, <1>8, <1>9 DEF e, DbOK, Alike

LEMMA MadeIs ==
  ASSUME NEW d, NEW l \in Layers, DbOK(d), ~d.node[l].hasLayer,
         d.node[l].bupdate, l # "up" => d.node["up"].bdownLink
  PROVE  LET e == Activated(d, l)
         IN  /\ OKBut(e, {}, {l}) /\ Ends(e, l) /\ \A k \in Layers : k # l => Same(d, e, k)
             /\ e.layer[l].active /\ e.layer[l].lines = NoLines /\ e.layer[l].refcount = 0 /\ d.layer[l].refcount = 0
             /\ e.node[l].hasLayer /\ e.node[l].bupdate /\ e.node[l].bdownLink = d.node[l].bdownLink
             /\ e.index[l] = d.index[l] /\ e.file[l] = d.file[l]
<1> DEFINE n == [d EXCEPT !.node[l] = [d.node[l] EXCEPT !.hasLayer = TRUE]]
           x == [Inactive EXCEPT !.active = TRUE]
           m == [n EXCEPT !.layer[l] = x]
           e == Activated(d, l)
<1>0. d \in DbType /\ ~d.layer[l].active /\ d.layer[l].refcount = 0 /\ l \notin Listed(d)
  <2>1. d \in DbType
    BY DEF DbOK, OKBut
  <2> QED
    BY <2>1, LayerIs DEF DbOK, OKBut, LayerOK
<1>1. e = Insert(m, l)
  BY <1>0 DEF Activated, DbType
<1>2. /\ [d.node[l] EXCEPT !.hasLayer = TRUE] \in NodeType
      /\ [d.node[l] EXCEPT !.hasLayer = TRUE].hasLayer
      /\ [d.node[l] EXCEPT !.hasLayer = TRUE].bupdate
      /\ [d.node[l] EXCEPT !.hasLayer = TRUE].bdownLink = d.node[l].bdownLink
  <2>1. d.node[l] \in NodeType
    BY <1>0, LayerIs
  <2> QED
    BY <2>1 DEF NodeType
<1>3. /\ n \in DbType /\ n.list = d.list /\ n.total = d.total /\ n.layer = d.layer
      /\ n.file = d.file /\ n.index = d.index
      /\ n.node[l] = [d.node[l] EXCEPT !.hasLayer = TRUE] /\ \A k \in Layers : k # l => n.node[k] = d.node[k]
  <2> DEFINE y == [d.node[l] EXCEPT !.hasLayer = TRUE]
  <2>1. y \in NodeType
    BY <1>2
  <2> HIDE DEF y
  <2>2. LET z == [d EXCEPT !.node[l] = y]
        IN  /\ z \in DbType /\ z.list = d.list /\ z.total = d.total /\ z.layer = d.layer
            /\ z.file = d.file /\ z.index = d.index
            /\ z.node[l] = y /\ \A k \in Layers : k # l => z.node[k] = d.node[k]
    BY <1>0, <2>1, PutNode
  <2> QED
    BY <2>2, Zenon DEF y
<1> HIDE DEF e, n
<1>4. /\ x \in LayerType /\ x.active /\ x.lines = NoLines /\ x.size = 0 /\ x.bupdate = FALSE /\ x.refcount = 0
  BY LayersAre DEF LayerType, Inactive
<1> HIDE DEF x
<1>5. /\ m \in DbType /\ m.list = n.list /\ m.total = n.total /\ m.file = n.file
      /\ m.node = n.node /\ m.index = n.index
      /\ m.layer[l] = x /\ \A k \in Layers : k # l => m.layer[k] = n.layer[k]
  BY <1>3, <1>4, Put
<1> HIDE DEF m
<1>6. Sizes(m) = Sizes(d) /\ Listed(m) = Listed(d)
  BY <1>0, <1>3, <1>5 DEF Sizes, Listed
<1>7. ASSUME NEW k \in Layers
      PROVE  LayerOK(m, k) /\ (k \notin {l} => Clean(m, k)) /\ (k \in Listed(m) <=> m.layer[k].active /\ k \notin {l})
  <2>1. LayerOK(d, k) /\ Clean(d, k) /\ (k \in Listed(d) <=> d.layer[k].active)
    BY DEF DbOK, OKBut
  <2>2. CASE k = l
    <3>1. SizeOf(NoLines) = 0
      BY LayersAre, SizeIs
    <3> QED
      BY <1>0, <1>2, <1>3, <1>4, <1>5, <1>6, <2>2, <3>1, ZenonT(30) DEF LayerOK
  <2>3. CASE k # l
    BY <1>3, <1>5, <1>6, <2>1, <2>3 DEF LayerOK, Clean
  <2> QED
    BY <2>2, <2>3
<1>8. NodesOK(m)
  <2>1. NodesOK(d)
    BY DEF DbOK, OKBut
  <2>2. \A b \in Range(Below) : b \in Layers /\ b # "up"
    BY MapAssumption, LayersAre DEF MapAssumption
  <2>3. "up" \in Layers
    BY LayersAre
  <2>4. m.node["up"].bdownLink = d.node["up"].bdownLink
    BY <1>2, <1>3, <1>5, <2>3
  <2>5. ~m.node["up"].bupdate => "up" # l /\ m.node["up"] = d.node["up"]
    BY <1>2, <1>3, <1>5, <2>3, ZenonT(30)
  <2>6. \A b \in Range(Below) : m.node[b].hasLayer => m.node["up"].bdownLink
    BY <1>3, <1>5, <2>1, <2>2, <2>4 DEF NodesOK
  <2>7. ASSUME NEW k \in Layers, ~m.node[k].bupdate PROVE m.index[k].hasLayer = m.node[k].hasLayer
    <3>1. k # l
      BY <1>2, <1>3, <1>5, <2>7
    <3>2. m.node[k] = d.node[k] /\ m.index[k] = d.index[k]
      BY <1>3, <1>5, <3>1
    <3> QED
      BY <2>1, <2>7, <3>2 DEF NodesOK
  <2> QED
    BY <1>3, <1>5, <2>1, <2>4, <2>5, <2>6, <2>7 DEF NodesOK
<1>9. OKBut(m, {l}, {l})
  <2>1. m.total = SumFunctionOnSet(Sizes(m), Layers) /\ IsInjective(m.list)
    BY <1>3, <1>5, <1>6 DEF DbOK, OKBut
  <2> QED
    BY <1>5, <1>7, <1>8, <2>1 DEF OKBut
<1>10. OKBut(e, {}, {l}) /\ Alike(m, e, l) /\ Ends(e, l) /\ \A k \in Layers : Same(m, e, k)
  BY <1>1, <1>4, <1>5, <1>9, InsertIs
<1>11. ASSUME NEW k \in Layers, k # l PROVE Same(d, e, k)
  <2>1. Same(d, m, k)
    BY <1>3, <1>5, <1>11 DEF Same, Held
  <2> QED
    BY <1>10, <2>1, SameIsTransitive
<1> QED
  BY <1>0, <1>2, <1>3, <1>4, <1>5, <1>10, <1>11 DEF e, Alike

LEMMA ActivatedIs ==
  ASSUME NEW d, NEW l \in Layers, DbOK(d), d.node[l].hasLayer
  PROVE  LET e == Activated(d, l)
         IN  DbOK(e) /\ e.layer[l].active /\ \A k \in Layers : Same(d, e, k)
<1>1. CASE d.layer[l].active
  <2>1. Activated(d, l) = d
    BY <1>1 DEF Activated
  <2>2. \A k \in Layers : Same(d, d, k)
    BY AlikeIsSame DEF Alike
  <2> QED
    BY <1>1, <2>1, <2>2
<1>2. CASE ~d.layer[l].active
  <2>1. Activated(d, l) = Load(d, l)
    BY <1>2 DEF Activated
  <2> QED
    BY <1>2, <2>1, LoadIs
<1> QED
  BY <1>1, <1>2
-------------------------------------------------------------------------------
\* What a node has is the same, in memory or not.
Intact(d, e, k) ==
  /\ e.node[k] = d.node[k] /\ e.index[k] = d.index[k] /\ Held(e, k) = Held(d, k)
  /\ e.file[k] \in {d.file[k], Held(d, k)}

LEMMA IntactIsTransitive ==
  ASSUME NEW d, NEW e, NEW f, NEW k, Intact(d, e, k), Intact(e, f, k)
  PROVE  Intact(d, f, k)
BY DEF Intact

LEMMA SameIsIntact ==
  ASSUME NEW d, NEW e, NEW k, Same(d, e, k)
  PROVE  Intact(d, e, k) /\ e.layer[k].refcount = d.layer[k].refcount
BY DEF Same, Intact

LEMMA ResizedIs ==
  ASSUME NEW d, NEW l \in Layers, OKBut(d, {}, {l}), d.layer[l].active, d.node[l].bupdate,
         NEW lines \in Points
  PROVE  LET e == Resized(d, l, lines)
         IN  /\ DbOK(e) /\ Ends(e, l) /\ \A k \in Layers : k # l => Same(d, e, k)
             /\ e.layer[l].active /\ e.layer[l].lines = lines /\ e.layer[l].refcount = d.layer[l].refcount
             /\ e.file[l] = d.file[l] /\ e.node[l] = d.node[l] /\ e.index[l] = d.index[l]
<1> DEFINE x == [d.layer[l] EXCEPT !.lines = lines, !.size = SizeOf(lines), !.bupdate = TRUE]
           n == [d EXCEPT !.layer[l] = x]
           m == [n EXCEPT !.total = d.total + SizeOf(lines) - d.layer[l].size]
           e == Resized(d, l, lines)
<1>1. d \in DbType /\ d.total \in Int /\ d.layer[l] \in LayerType /\ d.layer[l].size \in Nat /\ SizeOf(lines) \in Nat
  BY LayerIs, SizeIs DEF OKBut, DbType
<1>2. e = Accessed(m, l)
  BY <1>1 DEF Resized, DbType
<1>3. /\ x \in LayerType /\ x.active /\ x.lines = lines /\ x.size = SizeOf(lines) /\ x.bupdate
      /\ x.refcount = d.layer[l].refcount
  BY <1>1 DEF LayerType
<1> HIDE DEF e, x
<1>4. /\ n \in DbType /\ n.list = d.list /\ n.total = d.total /\ n.file = d.file
      /\ n.node = d.node /\ n.index = d.index
      /\ n.layer[l] = x /\ \A k \in Layers : k # l => n.layer[k] = d.layer[k]
  BY <1>1, <1>3, Put
<1> HIDE DEF n
<1>5. /\ m \in DbType /\ m.list = n.list /\ m.total = d.total + SizeOf(lines) - d.layer[l].size
      /\ m.layer = n.layer /\ m.file = n.file /\ m.node = n.node /\ m.index = n.index
  <2>1. d.total + SizeOf(lines) - d.layer[l].size \in Int
    BY <1>1
  <2> QED
    BY <1>4, <2>1 DEF DbType
<1> HIDE DEF m
<1>6. Listed(m) = Listed(d) /\ l \in Listed(d)
  BY <1>4, <1>5 DEF Listed, OKBut
<1>7. m.total = SumFunctionOnSet(Sizes(m), Layers)
  <2>1. \A k \in Layers : k # l => Sizes(m)[k] = Sizes(d)[k]
    BY <1>4, <1>5, <1>6 DEF Sizes
  <2>2. Sizes(d)[l] = d.layer[l].size /\ Sizes(m)[l] = SizeOf(lines)
    BY <1>3, <1>4, <1>5, <1>6 DEF Sizes
  <2>3. SumFunctionOnSet(Sizes(m), Layers) = SumFunctionOnSet(Sizes(d), Layers) - Sizes(d)[l] + Sizes(m)[l]
    BY <1>1, <1>5, <2>1, SumOfSizes
  <2>4. SumFunctionOnSet(Sizes(d), Layers) = d.total
    BY DEF OKBut
  <2> QED
    BY <1>1, <1>5, <2>2, <2>3, <2>4
<1>8. ASSUME NEW k \in Layers
      PROVE  LayerOK(m, k) /\ (k \notin {} => Clean(m, k)) /\ (k \in Listed(m) <=> m.layer[k].active /\ k \notin {})
  <2>1. LayerOK(d, k) /\ (k \notin {l} => Clean(d, k)) /\ (k \in Listed(d) <=> d.layer[k].active)
    BY DEF OKBut
  <2>2. CASE k = l
    BY <1>3, <1>4, <1>5, <1>6, <2>1, <2>2 DEF LayerOK, Clean
  <2>3. CASE k # l
    BY <1>4, <1>5, <1>6, <2>1, <2>3 DEF LayerOK, Clean
  <2> QED
    BY <2>2, <2>3
<1>9. OKBut(m, {}, {})
  BY <1>4, <1>5, <1>7, <1>8 DEF OKBut, NodesOK
<1>10. OKBut(e, {}, {}) /\ Alike(m, e, l) /\ Ends(e, l) /\ \A k \in Layers : Same(m, e, k)
  BY <1>2, <1>3, <1>4, <1>5, <1>9, AccessedIs
<1>11. ASSUME NEW k \in Layers, k # l PROVE Same(d, e, k)
  <2>1. Same(d, m, k)
    BY <1>4, <1>5, <1>11 DEF Same, Held
  <2> QED
    BY <1>10, <2>1, SameIsTransitive
<1> QED
  BY <1>3, <1>4, <1>5, <1>10, <1>11 DEF e, Alike, DbOK

LEMMA LockedIs ==
  ASSUME NEW d, NEW l \in Layers, NEW Y, OKBut(d, {}, Y), d.layer[l].active,
         NEW n \in Int, d.layer[l].refcount + n \in Nat
  PROVE  LET e == Locked(d, l, n)
         IN  /\ OKBut(e, {}, Y) /\ \A k \in Layers : k # l => Alike(d, e, k)
             /\ e.layer[l].active /\ e.layer[l].lines = d.layer[l].lines /\ e.layer[l].size = d.layer[l].size
             /\ e.layer[l].refcount = d.layer[l].refcount + n
             /\ e.list = d.list /\ e.total = d.total /\ e.file = d.file /\ e.node = d.node /\ e.index = d.index
             /\ (Ends(d, l) => Ends(e, l)) /\ \A k \in Layers : Intact(d, e, k)
<1> DEFINE x == [d.layer[l] EXCEPT !.refcount = d.layer[l].refcount + n]
           e == Locked(d, l, n)
<1>1. d \in DbType /\ d.layer[l] \in LayerType
  BY LayerIs DEF OKBut
<1>2. e = [d EXCEPT !.layer[l] = x]
  BY <1>1 DEF Locked, DbType
<1>3. /\ x \in LayerType /\ x.active /\ x.lines = d.layer[l].lines /\ x.size = d.layer[l].size
      /\ x.bupdate = d.layer[l].bupdate /\ x.refcount = d.layer[l].refcount + n
  BY <1>1 DEF LayerType
<1> HIDE DEF e, x
<1>4. /\ e \in DbType /\ e.list = d.list /\ e.total = d.total /\ e.file = d.file
      /\ e.node = d.node /\ e.index = d.index
      /\ e.layer[l] = x /\ \A k \in Layers : k # l => e.layer[k] = d.layer[k]
  BY <1>1, <1>2, <1>3, Put
<1>5. Listed(e) = Listed(d)
  BY <1>4 DEF Listed
<1>6. Sizes(e) = Sizes(d)
  BY <1>3, <1>4, <1>5 DEF Sizes
<1>7. ASSUME NEW k \in Layers
      PROVE  LayerOK(e, k) /\ (k \notin Y => Clean(e, k)) /\ (k \in Listed(e) <=> e.layer[k].active /\ k \notin {})
  <2>1. LayerOK(d, k) /\ (k \notin Y => Clean(d, k)) /\ (k \in Listed(d) <=> d.layer[k].active)
    BY DEF OKBut
  <2>2. CASE k = l
    BY <1>3, <1>4, <1>5, <2>1, <2>2 DEF LayerOK, Clean
  <2>3. CASE k # l
    BY <1>4, <1>5, <2>1, <2>3 DEF LayerOK, Clean
  <2> QED
    BY <2>2, <2>3
<1>8. OKBut(e, {}, Y)
  BY <1>4, <1>6, <1>7 DEF OKBut, NodesOK
<1>9. Ends(d, l) => Ends(e, l)
  <2>1. Listed(d) \subseteq Layers
    BY <1>1, ListedAre
  <2> QED
    BY <1>3, <1>4, <1>5, <2>1 DEF Ends
<1>10. \A k \in Layers : Intact(d, e, k)
  BY <1>3, <1>4 DEF Intact, Held
<1> QED
  BY <1>3, <1>4, <1>8, <1>9, <1>10 DEF e, Alike

\* The larger of two numbers of points.
More(p, q) == [c \in Charts |-> IF q[c] > p[c] THEN q[c] ELSE p[c]]

\* The lines a node has, none without a layer.
Had(d, l) == IF d.node[l].hasLayer THEN Held(d, l) ELSE NoLines

LEMMA MoreIs ==
  ASSUME NEW p \in Points, NEW q \in Points
  PROVE  More(p, q) \in Points /\ [c \in Charts |-> Max({p[c], q[c]})] = More(p, q)
<1>1. ASSUME NEW c \in Charts PROVE Max({p[c], q[c]}) = IF q[c] > p[c] THEN q[c] ELSE p[c]
  <2>1. p[c] \in Nat /\ q[c] \in Nat
    BY DEF Points
  <2>2. CASE q[c] > p[c]
    BY <2>1, <2>2 DEF Max
  <2>3. CASE ~(q[c] > p[c])
    BY <2>1, <2>3 DEF Max
  <2> QED
    BY <2>2, <2>3
<1> QED
  BY <1>1 DEF More, Points

LEMMA AddHereIs ==
  ASSUME NEW d, NEW l \in Layers, DbOK(d), l # "up" => d.node["up"].bdownLink, NEW lines \in Points
  PROVE  LET e == AddHere(d, l, lines)
         IN  /\ DbOK(e) /\ Ends(e, l) /\ \A k \in Layers : k # l => Same(d, e, k)
             /\ e.layer[l].active /\ e.layer[l].lines = More(lines, Had(d, l))
             /\ e.layer[l].refcount = d.layer[l].refcount + 1
             /\ e.node[l].hasLayer /\ e.node[l].bupdate /\ e.node[l].bdownLink = d.node[l].bdownLink
             /\ e.index[l] = d.index[l] /\ e.file[l] \in {d.file[l], Held(d, l)}
<1> DEFINE n == [d EXCEPT !.node[l] = [d.node[l] EXCEPT !.bupdate = TRUE]]
           a == Activated(n, l)
           m == Locked(a, l, 1)
           e == AddHere(d, l, lines)
<1>1. d \in DbType /\ d.node[l] \in NodeType
  BY LayerIs DEF DbOK, OKBut
<1>2. e = Merge(m, l, lines)
  BY <1>1 DEF AddHere, DbType
<1>3. /\ n \in DbType /\ n.list = d.list /\ n.total = d.total /\ n.layer = d.layer
      /\ n.file = d.file /\ n.index = d.index
      /\ n.node[l] \in NodeType /\ n.node[l].bupdate
      /\ n.node[l].hasLayer = d.node[l].hasLayer /\ n.node[l].bdownLink = d.node[l].bdownLink
      /\ \A k \in Layers : k # l => n.node[k] = d.node[k]
  <2>1. /\ [d.node[l] EXCEPT !.bupdate = TRUE] \in NodeType /\ [d.node[l] EXCEPT !.bupdate = TRUE].bupdate
        /\ [d.node[l] EXCEPT !.bupdate = TRUE].hasLayer = d.node[l].hasLayer
        /\ [d.node[l] EXCEPT !.bupdate = TRUE].bdownLink = d.node[l].bdownLink
    BY <1>1 DEF NodeType
  <2> DEFINE x == [d.node[l] EXCEPT !.bupdate = TRUE]
  <2>2. x \in NodeType /\ x.bupdate /\ x.hasLayer = d.node[l].hasLayer /\ x.bdownLink = d.node[l].bdownLink
        /\ n = [d EXCEPT !.node[l] = x]
    BY <2>1
  <2> HIDE DEF x, n
  <2> QED
    BY <1>1, <2>2, PutNode
<1> HIDE DEF n, e
<1>4. DbOK(n)
  <2>1. Sizes(n) = Sizes(d) /\ Listed(n) = Listed(d)
    BY <1>3 DEF Sizes, Listed
  <2>2. ASSUME NEW k \in Layers PROVE LayerOK(n, k) /\ Clean(n, k) /\ (k \in Listed(n) <=> n.layer[k].active)
    <3>1. LayerOK(d, k) /\ Clean(d, k) /\ (k \in Listed(d) <=> d.layer[k].active)
      BY DEF DbOK, OKBut
    <3> QED
      BY <1>3, <2>1, <3>1 DEF LayerOK, Clean
  <2>3. NodesOK(n)
    <3>1. NodesOK(d) /\ "up" \in Layers /\ Range(Below) \subseteq Layers
      BY LayersAre DEF DbOK, OKBut
    <3>2. /\ n.node["up"].bdownLink = d.node["up"].bdownLink /\ n.node["up"].hasLayer = d.node["up"].hasLayer
          /\ ~n.node["up"].bupdate => ~d.node["up"].bupdate
      BY <1>3, <3>1
    <3>3. \A b \in Range(Below) : n.node[b].hasLayer = d.node[b].hasLayer
      BY <1>3, <3>1
    <3> QED
      BY <1>3, <3>1, <3>2, <3>3 DEF NodesOK
  <2> QED
    BY <1>3, <2>1, <2>2, <2>3 DEF DbOK, OKBut
<1>5. \A k \in Layers : k # l => Same(d, n, k)
  BY <1>3 DEF Same, Held
<1>6. /\ OKBut(a, {}, {l}) /\ a.layer[l].active /\ a.layer[l].lines = Had(d, l)
      /\ a.layer[l].refcount = d.layer[l].refcount /\ \A k \in Layers : k # l => Same(n, a, k)
      /\ a.node[l].hasLayer /\ a.node[l].bupdate /\ a.node[l].bdownLink = d.node[l].bdownLink
      /\ a.index[l] = d.index[l] /\ a.file[l] \in {d.file[l], Held(d, l)}
  <2>1. CASE d.node[l].hasLayer
    <3>1. DbOK(a) /\ a.layer[l].active /\ \A k \in Layers : Same(n, a, k)
      BY <1>3, <1>4, <2>1, ActivatedIs
    <3> HIDE DEF a
    <3>2. OKBut(a, {}, {l})
      BY <3>1 DEF DbOK, OKBut
    <3>3. Same(n, a, l)
      BY <3>1
    <3>4. /\ a.node[l] = n.node[l] /\ a.index[l] = n.index[l] /\ Held(a, l) = Held(n, l)
          /\ a.layer[l].refcount = n.layer[l].refcount /\ a.file[l] \in {n.file[l], Held(n, l)}
      BY <3>3 DEF Same
    <3>5. Held(n, l) = Held(d, l) /\ n.file[l] = d.file[l] /\ n.layer[l] = d.layer[l]
      BY <1>3 DEF Held
    <3>6. a.layer[l].lines = Had(d, l)
      BY <2>1, <3>1, <3>4, <3>5 DEF Had, Held
    <3> QED
      BY <1>3, <2>1, <3>1, <3>2, <3>4, <3>5, <3>6
  <2>2. CASE ~d.node[l].hasLayer
    <3>1. l # "up" => n.node["up"].bdownLink
      BY <1>3, LayersAre
    <3>2. /\ OKBut(a, {}, {l}) /\ \A k \in Layers : k # l => Same(n, a, k)
          /\ a.layer[l].active /\ a.layer[l].lines = NoLines /\ a.layer[l].refcount = 0 /\ n.layer[l].refcount = 0
          /\ a.node[l].hasLayer /\ a.node[l].bupdate /\ a.node[l].bdownLink = n.node[l].bdownLink
          /\ a.index[l] = n.index[l] /\ a.file[l] = n.file[l]
      BY <1>3, <1>4, <2>2, <3>1, MadeIs, SMTT(30)
    <3> QED
      BY <1>3, <2>2, <3>2 DEF Had
  <2> QED
    BY <2>1, <2>2
<1> HIDE DEF a
<1>7. /\ OKBut(m, {}, {l}) /\ \A k \in Layers : k # l => Alike(a, m, k)
      /\ m.layer[l].active /\ m.layer[l].lines = a.layer[l].lines
      /\ m.layer[l].refcount = a.layer[l].refcount + 1
      /\ m.file = a.file /\ m.node = a.node /\ m.index = a.index
  <2>1. a.layer[l].refcount \in Nat
    BY <1>1, <1>6, LayerIs
  <2>2. a.layer[l].refcount + 1 \in Nat
    BY <2>1
  <2> QED
    BY <1>6, <2>2, LockedIs
<1> HIDE DEF m
<1>8. m.layer[l].lines \in Points
  BY <1>7, LayerIs DEF OKBut
<1>9. e = Resized(m, l, More(lines, m.layer[l].lines)) /\ More(lines, m.layer[l].lines) \in Points
  BY <1>2, <1>8, MoreIs DEF Merge
<1>10. /\ DbOK(e) /\ Ends(e, l) /\ \A k \in Layers : k # l => Same(m, e, k)
       /\ e.layer[l].active /\ e.layer[l].lines = More(lines, m.layer[l].lines)
       /\ e.layer[l].refcount = m.layer[l].refcount
       /\ e.file[l] = m.file[l] /\ e.node[l] = m.node[l] /\ e.index[l] = m.index[l]
  <2> DEFINE q == More(lines, m.layer[l].lines)
  <2>1. m.node[l].bupdate /\ m.layer[l].active /\ OKBut(m, {}, {l}) /\ q \in Points /\ e = Resized(m, l, q)
    BY <1>6, <1>7, <1>9
  <2> DEFINE r == Resized(m, l, q)
  <2>3. r = e
    BY <2>1
  <2> HIDE DEF q, e
  <2>2. /\ DbOK(r) /\ Ends(r, l) /\ \A k \in Layers : k # l => Same(m, r, k)
        /\ r.layer[l].active /\ r.layer[l].lines = q
        /\ r.layer[l].refcount = m.layer[l].refcount
        /\ r.file[l] = m.file[l] /\ r.node[l] = m.node[l] /\ r.index[l] = m.index[l]
    BY <2>1, ResizedIs, Z3
  <2> HIDE DEF r
  <2> QED
    BY <2>2, <2>3 DEF q
<1>11. ASSUME NEW k \in Layers, k # l PROVE Same(d, e, k)
  <2>1. Same(d, n, k) /\ Same(n, a, k) /\ Same(a, m, k) /\ Same(m, e, k)
    BY <1>5, <1>6, <1>7, <1>10, <1>11, AlikeIsSame
  <2> QED
    BY <2>1, SameIsTransitive
<1> QED
  BY <1>6, <1>7, <1>10, <1>11 DEF e
-------------------------------------------------------------------------------
\* Readers.
LEMMA EndsIsBounded ==
  ASSUME NEW d, DbOK(d), NEW l \in Layers, Ends(d, l)
  PROVE  Bounded(d)
<1>1. d.list \in Seq(Layers) /\ IsInjective(d.list)
  BY DEF DbOK, OKBut, DbType
<1>2. Len(d.list) \in Nat /\ DOMAIN d.list = 1..Len(d.list) /\ Len(d.list) > 0
  BY <1>1 DEF Ends
<1>3. ASSUME \A k \in Listed(d) : k = l \/ d.layer[k].refcount > 0, NEW i \in 1..(Len(d.list) - 1)
      PROVE  d.layer[d.list[i]].refcount > 0
  <2>1. i \in DOMAIN d.list /\ Len(d.list) \in DOMAIN d.list /\ i # Len(d.list)
    BY <1>2
  <2>2. d.list[i] \in Listed(d) /\ d.list[i] # l
    BY <1>1, <2>1 DEF Listed, Range, IsInjective, Ends
  <2> QED
    BY <1>3, <2>2
<1> QED
  BY <1>3 DEF Ends, Bounded

\* A step of a reader.
Reads(d, e) == DbOK(e) /\ (Bounded(d) => Bounded(e)) /\ \A k \in Layers : Intact(d, e, k)

LEMMA ReadsIsTransitive ==
  ASSUME NEW d, NEW e, NEW f, Reads(d, e), Reads(e, f)
  PROVE  Reads(d, f)
BY IntactIsTransitive DEF Reads

LEMMA ReadsNothing ==
  ASSUME NEW d, DbOK(d)
  PROVE  Reads(d, d)
BY DEF Reads, Intact

LEMMA GetIs ==
  ASSUME NEW d, NEW l \in Layers, DbOK(d)
  PROVE  LET e == GetLayerData(d, l)
         IN  /\ Reads(d, e) /\ (d.node[l].hasLayer => e.layer[l].active)
             /\ \A k \in Layers : Same(d, e, k)
<1> DEFINE a == Activated(d, l)
           e == GetLayerData(d, l)
<1>1. CASE ~d.node[l].hasLayer
  <2>1. \A k \in Layers : Same(d, d, k)
    BY AlikeIsSame DEF Alike
  <2> QED
    BY <1>1, <2>1, ReadsNothing DEF GetLayerData
<1>2. CASE d.node[l].hasLayer
  <2>1. e = Accessed(a, l)
    BY <1>2 DEF GetLayerData
  <2>2. DbOK(a) /\ a.layer[l].active /\ \A k \in Layers : Same(d, a, k)
    BY <1>2, ActivatedIs
  <2> HIDE DEF e, a
  <2>3. OKBut(e, {}, {}) /\ Alike(a, e, l) /\ Ends(e, l) /\ \A k \in Layers : Same(a, e, k)
    BY <2>1, <2>2, AccessedIs DEF DbOK
  <2>4. \A k \in Layers : Same(d, e, k)
    BY <2>2, <2>3, SameIsTransitive
  <2>5. Reads(d, e)
    <3>1. DbOK(e)
      BY <2>3 DEF DbOK
    <3> QED
      BY <2>3, <2>4, <3>1, EndsIsBounded, SameIsIntact DEF Reads
  <2>6. e.layer[l].active
    BY <2>2, <2>3 DEF Alike
  <2> QED
    BY <2>4, <2>5, <2>6 DEF e
<1> QED
  BY <1>1, <1>2

\* A pointer is taken, n = 1, given up, n = -1, or handed on.
LEMMA PointerIs ==
  ASSUME NEW d, NEW l \in Layers, DbOK(d), d.layer[l].active,
         NEW n \in Int, d.layer[l].refcount + n \in Nat
  PROVE  /\ LET e == Locked(Accessed(d, l), l, n)
            IN  /\ Reads(d, e) /\ e.layer[l].refcount = d.layer[l].refcount + n
                /\ \A k \in Layers : k # l => Same(d, e, k)
         /\ LET e == Accessed(Locked(d, l, n), l)
            IN  /\ Reads(d, e) /\ e.layer[l].refcount = d.layer[l].refcount + n
                /\ \A k \in Layers : k # l => Same(d, e, k)
<1>1. OKBut(d, {}, {})
  BY DEF DbOK
<1>2. ASSUME NEW a, NEW e, a = Accessed(d, l), e = Locked(a, l, n)
      PROVE  /\ Reads(d, e) /\ e.layer[l].refcount = d.layer[l].refcount + n
             /\ \A k \in Layers : k # l => Same(d, e, k)
  <2>1. OKBut(a, {}, {}) /\ Alike(d, a, l) /\ Ends(a, l) /\ \A k \in Layers : Same(d, a, k)
    BY <1>1, <1>2, AccessedIs
  <2>2. a.layer[l] = d.layer[l]
    BY <2>1 DEF Alike
  <2>3. /\ OKBut(e, {}, {}) /\ \A k \in Layers : k # l => Alike(a, e, k)
        /\ e.layer[l].refcount = a.layer[l].refcount + n
        /\ (Ends(a, l) => Ends(e, l)) /\ \A k \in Layers : Intact(a, e, k)
    BY <1>2, <2>1, <2>2, LockedIs
  <2>4. \A k \in Layers : k # l => Same(d, e, k)
    BY <2>1, <2>3, AlikeIsSame, SameIsTransitive
  <2>5. \A k \in Layers : Intact(d, e, k)
    BY <2>1, <2>3, SameIsIntact, IntactIsTransitive
  <2> QED
    BY <2>1, <2>2, <2>3, <2>4, <2>5, EndsIsBounded DEF Reads, DbOK
<1>3. ASSUME NEW a, NEW e, a = Locked(d, l, n), e = Accessed(a, l)
      PROVE  /\ Reads(d, e) /\ e.layer[l].refcount = d.layer[l].refcount + n
             /\ \A k \in Layers : k # l => Same(d, e, k)
  <2>1. /\ OKBut(a, {}, {}) /\ \A k \in Layers : k # l => Alike(d, a, k)
        /\ a.layer[l].active /\ a.layer[l].refcount = d.layer[l].refcount + n
        /\ \A k \in Layers : Intact(d, a, k)
    BY <1>1, <1>3, LockedIs
  <2>2. OKBut(e, {}, {}) /\ Alike(a, e, l) /\ Ends(e, l) /\ \A k \in Layers : Same(a, e, k)
    BY <1>3, <2>1, AccessedIs
  <2>3. \A k \in Layers : k # l => Same(d, e, k)
    BY <2>1, <2>2, AlikeIsSame, SameIsTransitive
  <2>4. \A k \in Layers : Intact(d, e, k)
    BY <2>1, <2>2, SameIsIntact, IntactIsTransitive
  <2>5. e.layer[l].refcount = a.layer[l].refcount
    BY <2>2 DEF Alike
  <2> QED
    BY <2>1, <2>2, <2>3, <2>4, <2>5, EndsIsBounded DEF Reads, DbOK
<1> QED
  BY <1>2, <1>3

LEMMA HandedIs ==
  ASSUME NEW d, NEW l \in Layers, DbOK(d)
  PROVE  LET e == Handed(d, l)
         IN  /\ Reads(d, e) /\ \A k \in Layers : e.layer[k].refcount >= d.layer[k].refcount
             /\ d.node[l].hasLayer => e.layer[l].refcount > 0
<1> DEFINE a == GetLayerData(d, l)
           e == Handed(d, l)
<1>0. \A k \in Layers : d.layer[k].refcount \in Nat
  BY LayerIs DEF DbOK, OKBut
<1>1. CASE ~d.node[l].hasLayer
  BY <1>0, <1>1, ReadsNothing DEF Handed
<1>2. CASE d.node[l].hasLayer
  <2>1. e = Accessed(Locked(a, l, 1), l)
    BY <1>2 DEF Handed
  <2>2. Reads(d, a) /\ a.layer[l].active /\ \A k \in Layers : Same(d, a, k)
    BY <1>2, GetIs
  <2> HIDE DEF a
  <2>3. DbOK(a) /\ \A k \in Layers : a.layer[k].refcount = d.layer[k].refcount
    BY <2>2 DEF Reads, Same
  <2>4. 1 \in Int /\ a.layer[l].refcount + 1 \in Nat
    BY <1>0, <2>3
  <2>5. /\ Reads(a, e) /\ e.layer[l].refcount = a.layer[l].refcount + 1
        /\ \A k \in Layers : k # l => Same(a, e, k)
    BY <2>1, <2>2, <2>3, <2>4, PointerIs
  <2> HIDE DEF e
  <2>6. Reads(d, e)
    BY <2>2, <2>5, ReadsIsTransitive
  <2>7. ASSUME NEW k \in Layers PROVE e.layer[k].refcount >= d.layer[k].refcount /\ e.layer[l].refcount > 0
    <3>1. k # l => e.layer[k].refcount = d.layer[k].refcount
      BY <2>3, <2>5 DEF Same
    <3> QED
      BY <1>0, <2>3, <2>5, <3>1
  <2> QED
    BY <2>6, <2>7 DEF e
<1> QED
  BY <1>1, <1>2

LEMMA BelowAre ==
  /\ Len(Below) \in Nat /\ DOMAIN Below = 1..Len(Below)
  /\ \A i \in 1..Len(Below) : Below[i] \in Layers /\ Below[i] \in Range(Below) /\ Below[i] # "up"
  /\ \A i \in 1..Len(Below) : \A j \in 1..Len(Below) : Below[i] = Below[j] => i = j
  /\ \A b \in Range(Below) : \E i \in 1..Len(Below) : Below[i] = b
<1>1. Len(Below) \in Nat /\ DOMAIN Below = 1..Len(Below)
  BY MapAssumption DEF MapAssumption
<1> QED
  BY MapAssumption, <1>1 DEF MapAssumption, Layers, Range, IsInjective

\* The nodes that a request meets are read.
LEMMA ReadIs ==
  ASSUME NEW d, DbOK(d), NEW met \in SUBSET Range(Below), \A b \in met : d.node[b].hasLayer
  PROVE  LET e == Read(d, met)
         IN  Reads(d, e) /\ \A b \in met : e.layer[b].refcount > 0
<1>1. PICK r : IsRun(r, "read", met, d, Below) /\ Read(d, met) = r[Len(Below)]
  BY ReadRuns
<1> DEFINE n == Len(Below)
           P(i) == Reads(d, r[i]) /\ \A j \in 1..i : Below[j] \in met => r[i].layer[Below[j]].refcount > 0
           T == {i \in Nat : i <= n => P(i)}
<1>2. n \in Nat /\ DOMAIN Below = 1..n /\ \A i \in 1..n : Below[i] \in Layers
  BY BelowAre
<1> HIDE DEF n
<1>3. 0 \in T
  <2>1. r[0] = d
    BY <1>1 DEF IsRun
  <2> QED
    BY <2>1, ReadsNothing
<1>4. ASSUME NEW i \in Nat, i \in T PROVE i + 1 \in T
  <2>1. SUFFICES ASSUME i + 1 <= n PROVE P(i + 1)
    <3> HIDE DEF P
    <3> QED
      OBVIOUS
  <2>2. i + 1 \in 1..n /\ (i + 1) - 1 = i /\ i <= n /\ P(i)
    BY <1>2, <1>4, <2>1
  <2> DEFINE b == Below[i + 1]
             e == r[i]
             f == r[i + 1]
  <2>3. f = FoldStep("read", met, e, b)
    BY <1>1, <1>2, <2>2 DEF IsRun
  <2>4. f = IF b \in met THEN Handed(e, b) ELSE e
    BY <2>3 DEF FoldStep
  <2>5. b \in Layers /\ DbOK(e) /\ Reads(d, e) /\ (b \in met => e.node[b].hasLayer)
    BY <1>2, <2>2 DEF Reads, Intact
  <2>6. \A j \in 1..i : Below[j] \in Layers /\ (Below[j] \in met => e.layer[Below[j]].refcount > 0)
    BY <1>2, <2>1, <2>2
  <2>7. ASSUME NEW j \in 1..(i + 1), j \notin 1..i PROVE j = i + 1
    BY <2>7
  <2> HIDE DEF e, f
  <2>8. Reads(e, f) /\ (b \in met => f.layer[b].refcount > 0) /\ \A k \in Layers : f.layer[k].refcount >= e.layer[k].refcount
    <3>1. \A k \in Layers : e.layer[k].refcount \in Nat
      BY <2>5, LayerIs DEF DbOK, OKBut
    <3>2. CASE b \in met
      <4> HIDE DEF b
      <4> QED
        BY <2>4, <2>5, <3>2, HandedIs
    <3>3. CASE b \notin met
      BY <2>4, <2>5, <3>1, <3>3, ReadsNothing
    <3> QED
      BY <3>2, <3>3
  <2>9. Reads(d, f)
    BY <2>5, <2>8, ReadsIsTransitive
  <2>10. ASSUME NEW j \in 1..(i + 1), Below[j] \in met PROVE f.layer[Below[j]].refcount > 0
    <3>1. CASE j \in 1..i
      <4>1. e.layer[Below[j]].refcount \in Nat /\ f.layer[Below[j]].refcount \in Nat
        BY <2>5, <2>6, <2>8, <3>1, LayerIs DEF DbOK, OKBut, Reads
      <4> QED
        BY <2>6, <2>8, <2>10, <3>1, <4>1
    <3>2. CASE j \notin 1..i
      BY <2>7, <2>8, <2>10, <3>2
    <3> QED
      BY <3>1, <3>2
  <2> QED
    BY <2>9, <2>10 DEF f
<1>5. P(n)
  <2> HIDE DEF T, P
  <2>1. Nat \subseteq T
    BY <1>3, <1>4, Inductive, Zenon
  <2>2. n \in T /\ n <= n
    BY <1>2, <2>1
  <2> QED
    BY <2>2 DEF T
<1>6. \A b \in met : r[n].layer[b].refcount > 0
  BY <1>5, BelowAre DEF n
<1> QED
  BY <1>1, <1>5, <1>6 DEF n

\* A pointer is given up or handed to the caller.
LEMMA YieldedIs ==
  ASSUME NEW d, NEW l \in Layers, DbOK(d), d.layer[l].refcount > 0, NEW n \in {0, -1}
  PROVE  LET e == Locked(Accessed(d, l), l, n)
         IN  Reads(d, e) /\ \A k \in Layers : k # l => e.layer[k].refcount = d.layer[k].refcount
<1>1. d.layer[l].refcount \in Nat /\ d.layer[l].active
  BY LayerIs DEF DbOK, OKBut, LayerOK
<1>2. n \in Int /\ d.layer[l].refcount + n \in Nat
  BY <1>1
<1> DEFINE e == Locked(Accessed(d, l), l, n)
<1>3. Reads(d, e) /\ \A k \in Layers : k # l => Same(d, e, k)
  BY <1>1, <1>2, PointerIs
<1> HIDE DEF e
<1> QED
  BY <1>3 DEF e, Same

LEMMA GivenUpIs ==
  ASSUME NEW d, DbOK(d), NEW met \in SUBSET Range(Below), \A b \in met : d.layer[b].refcount > 0,
         NEW fine \in BOOLEAN
  PROVE  Reads(d, GivenUp(d, met, fine))
<1> DEFINE kind == IF fine THEN "found" ELSE "givenup"
           m == IF fine THEN 0 ELSE -1
           e0 == GivenUp(d, met, fine)
<1>1. PICK r : IsRun(r, kind, met, d, Below) /\ e0 = r[Len(Below)]
  <2>1. CASE fine = TRUE
    BY <2>1, FoundRuns
  <2>2. CASE fine = FALSE
    BY <2>2, GivenUpRuns
  <2> QED
    BY <2>1, <2>2
<1>k. m \in {0, -1} /\ \A e, b : FoldStep(kind, met, e, b) = IF b \in met THEN Locked(Accessed(e, b), b, m) ELSE e
  BY DEF FoldStep
<1> HIDE DEF kind, m, e0
<1> DEFINE n == Len(Below)
           P(i) == Reads(d, r[i]) /\ \A j \in 1..n : j > i /\ Below[j] \in met => r[i].layer[Below[j]].refcount > 0
           T == {i \in Nat : i <= n => P(i)}
<1>2. n \in Nat /\ DOMAIN Below = 1..n /\ \A i \in 1..n : Below[i] \in Layers
  BY BelowAre
<1>d. \A i \in 1..n : \A j \in 1..n : Below[i] = Below[j] => i = j
  BY BelowAre
<1> HIDE DEF n
<1>3. 0 \in T
  <2>1. r[0] = d
    BY <1>1 DEF IsRun
  <2> QED
    BY <2>1, ReadsNothing
<1>4. ASSUME NEW i \in Nat, i \in T PROVE i + 1 \in T
  <2>1. SUFFICES ASSUME i + 1 <= n PROVE P(i + 1)
    <3> HIDE DEF P
    <3> QED
      OBVIOUS
  <2>2. i + 1 \in 1..n /\ (i + 1) - 1 = i /\ i <= n /\ P(i) /\ i + 1 > i
    BY <1>2, <1>4, <2>1
  <2> DEFINE b == Below[i + 1]
             e == r[i]
             f == r[i + 1]
  <2>3. f = FoldStep(kind, met, e, b)
    BY <1>1, <1>2, <2>2 DEF IsRun
  <2>4. f = IF b \in met THEN Locked(Accessed(e, b), b, m) ELSE e
    BY <1>k, <2>3
  <2>5. b \in Layers /\ DbOK(e) /\ Reads(d, e) /\ (b \in met => e.layer[b].refcount > 0)
    BY <1>2, <2>2 DEF Reads
  <2>6. \A j \in 1..n : j > i + 1 /\ Below[j] \in met =>
          Below[j] \in Layers /\ Below[j] # b /\ e.layer[Below[j]].refcount > 0
    <3>1. SUFFICES ASSUME NEW j \in 1..n, j > i + 1, Below[j] \in met
                   PROVE  Below[j] \in Layers /\ Below[j] # b /\ e.layer[Below[j]].refcount > 0
      OBVIOUS
    <3>2. j # i + 1 /\ j > i
      BY <3>1
    <3> QED
      BY <1>2, <1>d, <2>2, <3>1, <3>2
  <2> HIDE DEF e, f, b
  <2>7. Reads(e, f) /\ \A k \in Layers : k # b => f.layer[k].refcount = e.layer[k].refcount
    <3>1. CASE b \in met
      BY <1>k, <2>4, <2>5, <3>1, YieldedIs
    <3>2. CASE b \notin met
      BY <2>4, <2>5, <3>2, ReadsNothing
    <3> QED
      BY <3>1, <3>2
  <2>8. Reads(d, f)
    BY <2>5, <2>7, ReadsIsTransitive
  <2>9. \A j \in 1..n : j > i + 1 /\ Below[j] \in met => f.layer[Below[j]].refcount > 0
    BY <2>6, <2>7
  <2> QED
    BY <2>8, <2>9 DEF f
<1>5. P(n)
  <2> HIDE DEF T, P
  <2>1. Nat \subseteq T
    BY <1>3, <1>4, Inductive, Zenon
  <2>2. n \in T /\ n <= n
    BY <1>2, <2>1
  <2> QED
    BY <2>2 DEF T
<1> QED
  BY <1>1, <1>5 DEF n, e0
-------------------------------------------------------------------------------
\* The nodes below, when lines are added: what they have in full stays so.
Grown(d, e, b) ==
  /\ e.index[b].hasLayer = d.index[b].hasLayer /\ e.layer[b].refcount = d.layer[b].refcount
  /\ d.node[b].hasLayer =>
       /\ e.node[b].hasLayer
       /\ \A c \in Charts : Held(d, b)[c] = 2 => Held(e, b)[c] = 2 /\ (d.file[b][c] = 2 => e.file[b][c] = 2)

\* All of the points of line c.
Whole(d, b, c) == d.node[b].hasLayer /\ Held(d, b)[c] = 2

LEMMA GrownIsTransitive ==
  ASSUME NEW d, NEW e, NEW f, NEW b, Grown(d, e, b), Grown(e, f, b)
  PROVE  Grown(d, f, b)
BY DEF Grown

LEMMA SameIsGrown ==
  ASSUME NEW d, NEW e, NEW b, Same(d, e, b)
  PROVE  Grown(d, e, b)
BY DEF Grown, Same

LEMMA WholeStays ==
  ASSUME NEW d, NEW e, NEW b, Grown(d, e, b), NEW c \in Charts, Whole(d, b, c)
  PROVE  Whole(e, b, c)
BY DEF Grown, Whole

LEMMA PartIs ==
  ASSUME NEW lines \in Points, NEW b \in Range(Below)
  PROVE  /\ Part(lines, b) \in Points
         /\ \A c \in Charts : Place[c] = b => Part(lines, b)[c] = lines[c]
         /\ SizeOf(Part(lines, b)) = 0 => \A c \in Charts : Place[c] = b => lines[c] = 0
<1>1. Part(lines, b) \in Points /\ \A c \in Charts : Place[c] = b => Part(lines, b)[c] = lines[c]
  BY DEF Part, Points
<1>2. SizeOf(Part(lines, b)) = 0 => \A c \in Charts : Part(lines, b)[c] = 0
  BY <1>1, SizeIs
<1> QED
  BY <1>1, <1>2

\* A step of distribute().
LEMMA DistributeStep ==
  ASSUME NEW d, DbOK(d), d.node["up"].bdownLink, NEW lines \in Points, NEW b \in Range(Below)
  PROVE  LET e == FoldStep("distribute", lines, d, b)
         IN  /\ DbOK(e) /\ (Bounded(d) => Bounded(e)) /\ Same(d, e, "up")
             /\ \A k \in Range(Below) : Grown(d, e, k)
             /\ \A c \in Charts : Place[c] = b /\ lines[c] = 2 => Whole(e, b, c)
<1> DEFINE p == Part(lines, b)
           a == AddHere(d, b, p)
           e == FoldStep("distribute", lines, d, b)
<1>1. b \in Layers /\ b # "up" /\ "up" \in Layers /\ Range(Below) \subseteq Layers
  BY MapAssumption, LayersAre DEF MapAssumption
<1>2. p \in Points /\ (\A c \in Charts : Place[c] = b => p[c] = lines[c])
      /\ (SizeOf(p) = 0 => \A c \in Charts : Place[c] = b => lines[c] = 0)
  BY PartIs
<1>3. e = IF SizeOf(p) = 0 THEN d ELSE Locked(a, b, -1)
  BY DEF FoldStep
<1>4. d \in DbType
  BY DEF DbOK, OKBut
<1>5. CASE SizeOf(p) = 0
  <2> HIDE DEF p, e
  <2>1. e = d
    BY <1>3, <1>5
  <2>2. \A k \in Layers : Same(d, d, k)
    BY AlikeIsSame DEF Alike
  <2>3. \A c \in Charts : Place[c] = b => lines[c] # 2
    BY <1>2, <1>5
  <2>4. DbOK(e) /\ (Bounded(d) => Bounded(e)) /\ Same(d, e, "up") /\ \A k \in Range(Below) : Grown(d, e, k)
    BY <1>1, <2>1, <2>2, SameIsGrown
  <2> QED
    BY <2>3, <2>4 DEF e
<1>6. CASE SizeOf(p) # 0
  <2> HIDE DEF p, e
  <2>1. e = Locked(a, b, -1)
    BY <1>3, <1>6
  <2>2. /\ DbOK(a) /\ Ends(a, b) /\ \A k \in Layers : k # b => Same(d, a, k)
        /\ a.layer[b].active /\ a.layer[b].lines = More(p, Had(d, b))
        /\ a.layer[b].refcount = d.layer[b].refcount + 1
        /\ a.node[b].hasLayer /\ a.node[b].bupdate /\ a.node[b].bdownLink = d.node[b].bdownLink
        /\ a.index[b] = d.index[b] /\ a.file[b] \in {d.file[b], Held(d, b)}
    BY <1>1, <1>2, AddHereIs
  <2> HIDE DEF a
  <2>3. d.layer[b].refcount \in Nat /\ -1 \in Int /\ a.layer[b].refcount + (-1) = d.layer[b].refcount
    BY <1>1, <1>4, <2>2, LayerIs
  <2>4. /\ OKBut(e, {}, {}) /\ \A k \in Layers : k # b => Alike(a, e, k)
        /\ e.layer[b].active /\ e.layer[b].lines = a.layer[b].lines
        /\ e.layer[b].refcount = d.layer[b].refcount
        /\ e.file = a.file /\ e.node = a.node /\ e.index = a.index /\ (Ends(a, b) => Ends(e, b))
    <3>1. OKBut(a, {}, {}) /\ a.layer[b].refcount + (-1) \in Nat
      BY <2>2, <2>3 DEF DbOK
    <3>2. /\ OKBut(e, {}, {}) /\ \A k \in Layers : k # b => Alike(a, e, k)
          /\ e.layer[b].active /\ e.layer[b].lines = a.layer[b].lines
          /\ e.layer[b].refcount = a.layer[b].refcount + (-1)
          /\ e.file = a.file /\ e.node = a.node /\ e.index = a.index /\ (Ends(a, b) => Ends(e, b))
      BY <1>1, <2>1, <2>2, <2>3, <3>1, LockedIs
    <3> QED
      BY <2>3, <3>2
  <2>5. \A k \in Layers : k # b => Same(d, e, k)
    BY <2>2, <2>4, AlikeIsSame, SameIsTransitive
  <2>6. DbOK(e) /\ Bounded(e) /\ Same(d, e, "up")
    BY <1>1, <2>2, <2>4, <2>5, EndsIsBounded DEF DbOK
  <2>7. Held(e, b) = More(p, Had(d, b)) /\ Had(d, b) \in Points
    BY <1>1, <1>4, <2>2, <2>4, LayerIs, LayersAre DEF Held, Had
  <2>8. \A c \in Charts : (p[c] = 2 \/ Had(d, b)[c] = 2) => Held(e, b)[c] = 2
    <3>1. \A c \in Charts : p[c] \in 0..2 /\ Had(d, b)[c] \in 0..2
      BY <1>2, <2>7 DEF Points
    <3>2. \A c \in Charts : Held(e, b)[c] = IF Had(d, b)[c] > p[c] THEN Had(d, b)[c] ELSE p[c]
      BY <2>7 DEF More
    <3> QED
      BY <3>1, <3>2
  <2>9. Grown(d, e, b)
    BY <2>2, <2>4, <2>8 DEF Grown, Had
  <2>10. \A c \in Charts : Place[c] = b /\ lines[c] = 2 => Whole(e, b, c)
    BY <1>2, <2>2, <2>4, <2>8 DEF Whole
  <2>11. \A k \in Range(Below) : Grown(d, e, k)
    BY <1>1, <2>5, <2>9, SameIsGrown
  <2> QED
    BY <2>6, <2>10, <2>11 DEF e
<1> QED
  BY <1>5, <1>6

\* distributeLayerData(): what is whole in lines is whole below.
LEMMA DistributeIs ==
  ASSUME NEW d, DbOK(d), d.node["up"].bdownLink, NEW lines \in Points
  PROVE  LET e == Distribute(d, lines)
         IN  /\ DbOK(e) /\ (Bounded(d) => Bounded(e)) /\ Same(d, e, "up")
             /\ \A b \in Range(Below) : Grown(d, e, b)
             /\ \A c \in Charts : lines[c] = 2 => Whole(e, Place[c], c)
<1>1. PICK r : IsRun(r, "distribute", lines, d, Below) /\ Distribute(d, lines) = r[Len(Below)]
  BY DistributeRuns
<1> DEFINE n == Len(Below)
           P(i) == /\ DbOK(r[i]) /\ (Bounded(d) => Bounded(r[i])) /\ Same(d, r[i], "up")
                   /\ \A b \in Range(Below) : Grown(d, r[i], b)
                   /\ \A c \in Charts, j \in 1..i : Place[c] = Below[j] /\ lines[c] = 2 => Whole(r[i], Below[j], c)
           T == {i \in Nat : i <= n => P(i)}
<1>2. n \in Nat /\ DOMAIN Below = 1..n /\ \A i \in 1..n : Below[i] \in Range(Below)
  BY BelowAre
<1> HIDE DEF n
<1>3. 0 \in T
  <2>1. r[0] = d
    BY <1>1 DEF IsRun
  <2>2. Same(d, d, "up") /\ \A b \in Range(Below) : Grown(d, d, b)
    BY AlikeIsSame, SameIsGrown DEF Alike
  <2> QED
    BY <2>1, <2>2
<1>4. ASSUME NEW i \in Nat, i \in T PROVE i + 1 \in T
  <2>1. SUFFICES ASSUME i + 1 <= n PROVE P(i + 1)
    <3> HIDE DEF P
    <3> QED
      OBVIOUS
  <2>2. i + 1 \in 1..n /\ (i + 1) - 1 = i /\ i <= n /\ P(i)
    BY <1>2, <1>4, <2>1
  <2> DEFINE b == Below[i + 1]
             e == r[i]
             f == r[i + 1]
  <2>3. f = FoldStep("distribute", lines, e, b)
    BY <1>1, <1>2, <2>2 DEF IsRun
  <2>4. /\ b \in Range(Below) /\ DbOK(e) /\ (Bounded(d) => Bounded(e)) /\ Same(d, e, "up")
        /\ e.node["up"].bdownLink /\ \A k \in Range(Below) : Grown(d, e, k)
    BY <1>2, <2>2 DEF Same
  <2>5. \A c \in Charts, j \in 1..i : Place[c] = Below[j] /\ lines[c] = 2 => Below[j] \in Range(Below) /\ Whole(e, Below[j], c)
    BY <1>2, <2>1, <2>2
  <2>6. ASSUME NEW j \in 1..(i + 1), j \notin 1..i PROVE j = i + 1
    BY <2>6
  <2> HIDE DEF e, f, b
  <2>7. /\ DbOK(f) /\ (Bounded(e) => Bounded(f)) /\ Same(e, f, "up")
        /\ \A k \in Range(Below) : Grown(e, f, k)
        /\ \A c \in Charts : Place[c] = b /\ lines[c] = 2 => Whole(f, b, c)
    BY <2>3, <2>4, DistributeStep
  <2>8. /\ DbOK(f) /\ (Bounded(d) => Bounded(f)) /\ Same(d, f, "up")
        /\ \A k \in Range(Below) : Grown(d, f, k)
    BY <2>4, <2>7, SameIsTransitive, GrownIsTransitive
  <2>9. ASSUME NEW c \in Charts, NEW j \in 1..(i + 1), Place[c] = Below[j], lines[c] = 2 PROVE Whole(f, Below[j], c)
    <3>1. CASE j \in 1..i
      BY <2>5, <2>7, <2>9, <3>1, WholeStays
    <3>2. CASE j \notin 1..i
      BY <2>6, <2>7, <2>9, <3>2 DEF b
    <3> QED
      BY <3>1, <3>2
  <2> QED
    BY <2>8, <2>9 DEF f
<1>5. P(n)
  <2> HIDE DEF T, P
  <2>1. Nat \subseteq T
    BY <1>3, <1>4, Inductive, Zenon
  <2>2. n \in T /\ n <= n
    BY <1>2, <2>1
  <2> QED
    BY <2>2 DEF T
<1>6. \A c \in Charts : lines[c] = 2 => Whole(r[n], Place[c], c)
  <2>1. \A c \in Charts : Place[c] \in Range(Below)
    BY LayersAre
  <2>2. \A b \in Range(Below) : \E j \in 1..n : Below[j] = b
    BY BelowAre DEF n
  <2> QED
    BY <1>5, <2>1, <2>2
<1> QED
  BY <1>1, <1>5, <1>6 DEF n

\* createDownLink().
LEMMA CreatedIs ==
  ASSUME NEW d, DbOK(d), ~d.node["up"].bdownLink, d.node["up"].bupdate, d.layer["up"].refcount > 0
  PROVE  LET e == CreateDownLink(d)
         IN  /\ DbOK(e) /\ e.layer["up"] = d.layer["up"] /\ e.index["up"] = d.index["up"]
             /\ e.node["up"].bdownLink /\ e.node["up"].bupdate /\ e.node["up"].hasLayer
             /\ e.file["up"] \in {d.file["up"], Held(d, "up")}
             /\ \A b \in Range(Below) : Grown(d, e, b)
             /\ \A c \in Charts : Held(d, "up")[c] = 2 => Whole(e, Place[c], c)
<1> DEFINE nn == [l \in Layers |-> IF l = "up" THEN [d.node[l] EXCEPT !.bdownLink = TRUE] ELSE Updated(NewNode, FALSE)]
           ii == [l \in Layers |-> IF l = "up" THEN d.index[l] ELSE NewNode]
           m == [d EXCEPT !.node = nn, !.index = ii]
           lines == d.layer["up"].lines
           e == CreateDownLink(d)
<1>0. "up" \in Layers /\ Range(Below) \subseteq Layers /\ (\A b \in Range(Below) : b # "up")
      /\ \A l \in Layers : l = "up" \/ l \in Range(Below)
  BY MapAssumption, LayersAre DEF MapAssumption
<1>1. d \in DbType /\ d.layer["up"].active /\ d.node["up"].hasLayer /\ lines \in Points /\ d.node["up"] \in NodeType
  <2>1. d \in DbType
    BY DEF DbOK, OKBut
  <2> QED
    BY <1>0, <2>1, LayerIs DEF DbOK, OKBut, LayerOK
<1>2. e = Distribute(m, m.layer["up"].lines)
  <2>1. m = [d EXCEPT !.node = [l \in Layers |-> IF l = "up" THEN [@[l] EXCEPT !.bdownLink = TRUE] ELSE Updated(NewNode, FALSE)],
                      !.index = [l \in Layers |-> IF l = "up" THEN @[l] ELSE NewNode]]
    BY <1>1 DEF DbType
  <2> QED
    BY <2>1 DEF CreateDownLink
<1>3. /\ nn \in [Layers -> NodeType] /\ nn["up"].bdownLink /\ nn["up"].hasLayer /\ nn["up"].bupdate
      /\ \A b \in Range(Below) : nn[b].hasLayer = FALSE
  <2>1. [d.node["up"] EXCEPT !.bdownLink = TRUE] \in NodeType /\ [d.node["up"] EXCEPT !.bdownLink = TRUE].bdownLink
        /\ [d.node["up"] EXCEPT !.bdownLink = TRUE].hasLayer = d.node["up"].hasLayer
        /\ [d.node["up"] EXCEPT !.bdownLink = TRUE].bupdate = d.node["up"].bupdate
    BY <1>1 DEF NodeType
  <2>2. Updated(NewNode, FALSE) \in NodeType /\ Updated(NewNode, FALSE).hasLayer = FALSE
    BY DEF Updated, NewNode, NodeType
  <2> QED
    BY <1>0, <1>1, <2>1, <2>2
<1>4. ii \in [Layers -> IndexType] /\ ii["up"] = d.index["up"] /\ \A b \in Range(Below) : ii[b].hasLayer = FALSE
  <2>1. NewNode \in IndexType /\ NewNode.hasLayer = FALSE /\ d.index["up"] \in IndexType
    BY <1>0, <1>1, LayerIs DEF NewNode, IndexType
  <2> QED
    BY <1>0, <2>1
<1> HIDE DEF nn, ii
<1>5. /\ m \in DbType /\ m.list = d.list /\ m.total = d.total /\ m.layer = d.layer /\ m.file = d.file
      /\ m.node = nn /\ m.index = ii
  BY <1>1, <1>3, <1>4 DEF DbType
<1> HIDE DEF m, e
<1>6. \A b \in Range(Below) : ~d.node[b].hasLayer /\ ~d.index[b].hasLayer
  BY DEF DbOK, OKBut, NodesOK
<1>7. DbOK(m)
  <2>1. Sizes(m) = Sizes(d) /\ Listed(m) = Listed(d)
    BY <1>5 DEF Sizes, Listed
  <2>2. ASSUME NEW k \in Layers PROVE LayerOK(m, k) /\ Clean(m, k) /\ (k \in Listed(m) <=> m.layer[k].active)
    <3>1. LayerOK(d, k) /\ Clean(d, k) /\ (k \in Listed(d) <=> d.layer[k].active)
      BY DEF DbOK, OKBut
    <3>2. CASE k = "up"
      BY <1>3, <1>5, <2>1, <3>1, <3>2 DEF LayerOK, Clean
    <3>3. CASE k \in Range(Below)
      BY <1>5, <1>6, <2>1, <3>1, <3>3 DEF LayerOK, Clean
    <3> QED
      BY <1>0, <3>2, <3>3
  <2>3. NodesOK(m)
    BY <1>0, <1>3, <1>4, <1>5 DEF NodesOK
  <2> QED
    BY <1>5, <2>1, <2>2, <2>3 DEF DbOK, OKBut
<1>8. /\ DbOK(e) /\ Same(m, e, "up") /\ \A b \in Range(Below) : Grown(m, e, b)
  BY <1>1, <1>2, <1>3, <1>5, <1>7, DistributeIs
<1>9. \A c \in Charts : lines[c] = 2 => Whole(e, Place[c], c)
  BY <1>1, <1>2, <1>3, <1>5, <1>7, DistributeIs
<1>10. Held(d, "up") = lines /\ Held(m, "up") = lines
  BY <1>1, <1>5 DEF Held
<1>11. ASSUME NEW b \in Range(Below) PROVE Grown(d, e, b)
  <2>1. Grown(m, e, b)
    BY <1>8
  <2>2. d.index[b] \in IndexType
    BY <1>0, <1>1, LayerIs
  <2>3. d.index[b].hasLayer = FALSE
    BY <1>6, <2>2 DEF IndexType
  <2> QED
    BY <1>4, <1>5, <1>6, <2>1, <2>3 DEF Grown
<1>12. /\ e.layer["up"] = d.layer["up"] /\ e.index["up"] = d.index["up"]
       /\ e.node["up"].bdownLink /\ e.node["up"].bupdate /\ e.node["up"].hasLayer
       /\ e.file["up"] \in {d.file["up"], Held(d, "up")}
  BY <1>3, <1>4, <1>5, <1>8, <1>10 DEF Same
<1> QED
  BY <1>8, <1>9, <1>10, <1>11, <1>12 DEF e

LEMMA LessIs ==
  ASSUME NEW n \in 0..2
  PROVE  Min({1, n}) = (IF n > 1 THEN 1 ELSE n) /\ Min({1, n}) \in 0..2
<1>1. CASE n > 1
  BY <1>1 DEF Min
<1>2. CASE ~(n > 1)
  BY <1>2 DEF Min
<1> QED
  BY <1>1, <1>2

LEMMA ReducedIs ==
  ASSUME NEW d, NEW l \in Layers, DbOK(d), d.layer[l].active, d.node[l].bupdate, NEW gone
  PROVE  LET e == Reduce(d, l, gone)
         IN  /\ DbOK(e) /\ Ends(e, l) /\ \A k \in Layers : k # l => Same(d, e, k)
             /\ e.layer[l].active /\ e.layer[l].refcount = d.layer[l].refcount
             /\ e.file[l] = d.file[l] /\ e.node[l] = d.node[l] /\ e.index[l] = d.index[l]
             /\ \A c \in Charts : e.layer[l].lines[c] = IF c \in gone THEN 0
                                                        ELSE IF d.layer[l].lines[c] > 1 THEN 1 ELSE d.layer[l].lines[c]
<1> DEFINE p == d.layer[l].lines
           less == [c \in Charts |-> IF c \in gone THEN 0 ELSE Min({1, p[c]})]
           e == Reduce(d, l, gone)
<1>1. e = Resized(d, l, less)
  BY DEF Reduce
<1>2. p \in Points
  BY LayerIs DEF DbOK, OKBut
<1> HIDE DEF p
<1>3. less \in Points /\ \A c \in Charts : less[c] = IF c \in gone THEN 0 ELSE IF p[c] > 1 THEN 1 ELSE p[c]
  <2>1. \A c \in Charts : Min({1, p[c]}) = (IF p[c] > 1 THEN 1 ELSE p[c]) /\ Min({1, p[c]}) \in 0..2
    BY <1>2, LessIs DEF Points
  <2> QED
    BY <2>1 DEF Points
<1> HIDE DEF less, e
<1>4. OKBut(d, {}, {l})
  BY DEF DbOK, OKBut
<1>5. /\ DbOK(e) /\ Ends(e, l) /\ \A k \in Layers : k # l => Same(d, e, k)
      /\ e.layer[l].active /\ e.layer[l].lines = less /\ e.layer[l].refcount = d.layer[l].refcount
      /\ e.file[l] = d.file[l] /\ e.node[l] = d.node[l] /\ e.index[l] = d.index[l]
  BY <1>1, <1>3, <1>4, ResizedIs, Z3
<1> QED
  BY <1>3, <1>5 DEF e, p

\* abstract(): the layer is reduced once the nodes below have all of its lines.
LEMMA AbstractedIs ==
  ASSUME NEW d, DbOK(d), d.node["up"].bupdate, d.layer["up"].refcount > 0, NEW gone
  PROVE  LET e == Abstracted(d, gone)
         IN  /\ DbOK(e) /\ Ends(e, "up") /\ e.layer["up"].active /\ e.layer["up"].refcount = d.layer["up"].refcount
             /\ e.index["up"] = d.index["up"] /\ e.node["up"].bdownLink /\ e.node["up"].bupdate /\ e.node["up"].hasLayer
             /\ e.file["up"] \in {d.file["up"], Held(d, "up")}
             /\ \A c \in Charts : Held(e, "up")[c] = IF c \in gone THEN 0 ELSE IF Held(d, "up")[c] > 1 THEN 1 ELSE Held(d, "up")[c]
             /\ \A b \in Range(Below) : Grown(d, e, b)
             /\ \A c \in Charts : Held(d, "up")[c] = 2 /\ (d.node["up"].bdownLink => Whole(d, Place[c], c))
                                  => Whole(e, Place[c], c)
<1> DEFINE a == IF d.node["up"].bdownLink THEN d ELSE CreateDownLink(d)
           e == Abstracted(d, gone)
<1>0. "up" \in Layers /\ Range(Below) \subseteq Layers /\ (\A b \in Range(Below) : b # "up")
      /\ \A c \in Charts : Place[c] \in Range(Below)
  BY MapAssumption, LayersAre DEF MapAssumption
<1>1. d \in DbType /\ d.layer["up"].active /\ d.node["up"].hasLayer
  <2>1. d \in DbType
    BY DEF DbOK, OKBut
  <2> QED
    BY <1>0, <2>1, LayerIs DEF DbOK, OKBut, LayerOK
<1>2. e = Reduce(a, "up", gone)
  BY DEF Abstracted
<1>3. /\ DbOK(a) /\ a.layer["up"] = d.layer["up"] /\ a.index["up"] = d.index["up"]
      /\ a.node["up"].bdownLink /\ a.node["up"].bupdate /\ a.node["up"].hasLayer
      /\ a.file["up"] \in {d.file["up"], Held(d, "up")}
      /\ \A b \in Range(Below) : Grown(d, a, b)
      /\ \A c \in Charts : Held(d, "up")[c] = 2 /\ (d.node["up"].bdownLink => Whole(d, Place[c], c))
                           => Whole(a, Place[c], c)
  <2>1. CASE d.node["up"].bdownLink
    <3>1. \A b \in Range(Below) : Grown(d, d, b)
      BY AlikeIsSame, SameIsGrown DEF Alike
    <3> QED
      BY <1>1, <2>1, <3>1
  <2>2. CASE ~d.node["up"].bdownLink
    <3>1. a = CreateDownLink(d)
      BY <2>2
    <3> HIDE DEF a
    <3> QED
      BY <2>2, <3>1, CreatedIs
  <2> QED
    BY <2>1, <2>2
<1> HIDE DEF a, e
<1>4. /\ DbOK(e) /\ Ends(e, "up") /\ \A k \in Layers : k # "up" => Same(a, e, k)
      /\ e.layer["up"].active /\ e.layer["up"].refcount = a.layer["up"].refcount
      /\ e.file["up"] = a.file["up"] /\ e.node["up"] = a.node["up"] /\ e.index["up"] = a.index["up"]
      /\ \A c \in Charts : e.layer["up"].lines[c] = IF c \in gone THEN 0
                                              ELSE IF a.layer["up"].lines[c] > 1 THEN 1 ELSE a.layer["up"].lines[c]
  <2>1. "up" \in Layers /\ DbOK(a) /\ a.layer["up"].active /\ a.node["up"].bupdate
    BY <1>0, <1>1, <1>3
  <2> QED
    BY <1>2, <2>1, ReducedIs
<1>6. Held(e, "up") = e.layer["up"].lines /\ Held(d, "up") = d.layer["up"].lines
  BY <1>1, <1>4 DEF Held
<1>7. \A b \in Range(Below) : Grown(a, e, b)
  BY <1>0, <1>4, SameIsGrown
<1>8. \A b \in Range(Below) : Grown(d, e, b)
  BY <1>3, <1>7, GrownIsTransitive
<1>9. ASSUME NEW c \in Charts, Held(d, "up")[c] = 2, d.node["up"].bdownLink => Whole(d, Place[c], c)
      PROVE  Whole(e, Place[c], c)
  <2>1. Whole(a, Place[c], c)
    BY <1>3, <1>9
  <2> QED
    BY <1>0, <1>7, <2>1, WholeStays
<1>10. \A c \in Charts : Held(e, "up")[c] = IF c \in gone THEN 0 ELSE IF Held(d, "up")[c] > 1 THEN 1 ELSE Held(d, "up")[c]
  BY <1>3, <1>4, <1>6
<1> QED
  BY <1>3, <1>4, <1>8, <1>9, <1>10 DEF e

\* addLayerData() at the upper node.
LEMMA AddedIs ==
  ASSUME NEW d, DbOK(d), NEW lines \in Points, NEW gone \in SUBSET Closed
  PROVE  LET e == AddLayerData(d, lines, gone)
             m == More(lines, Had(d, "up"))
         IN  /\ DbOK(e) /\ Bounded(e) /\ e.index["up"] = d.index["up"]
             /\ e.node["up"].hasLayer /\ e.node["up"].bupdate /\ (d.node["up"].bdownLink => e.node["up"].bdownLink)
             /\ e.file["up"] \in {d.file["up"], Held(d, "up"), m}
             /\ \A b \in Range(Below) : Grown(d, e, b)
             /\ \A c \in Charts :
                  /\ m[c] > 0 /\ c \notin Closed => Held(e, "up")[c] > 0
                  /\ Held(e, "up")[c] = 2 => m[c] = 2
                  /\ m[c] = 2 /\ (lines[c] # 2 /\ Had(d, "up")[c] = 2 => Detailed(d, c)) =>
                       /\ Held(e, "up")[c] = 2 \/ (e.node["up"].bdownLink /\ Whole(e, Place[c], c))
                       /\ Detailed(e, c)
<1> DEFINE x == IF d.node["up"].bdownLink THEN Distribute(d, lines) ELSE d
           h == AddHere(x, "up", lines)
           g == IF h.layer["up"].size > MaxSizeLayerData THEN Abstracted(h, gone) ELSE h
           e == AddLayerData(d, lines, gone)
           m == More(lines, Had(d, "up"))
<1>0. "up" \in Layers /\ Range(Below) \subseteq Layers /\ (\A b \in Range(Below) : b # "up")
      /\ \A c \in Charts : Place[c] \in Range(Below)
  BY MapAssumption, LayersAre DEF MapAssumption
<1>1. d \in DbType
  BY DEF DbOK, OKBut
<1>2. e = Locked(g, "up", -1)
  BY DEF AddLayerData
<1>3. /\ DbOK(x) /\ Same(d, x, "up") /\ \A b \in Range(Below) : Grown(d, x, b)
      /\ \A c \in Charts : d.node["up"].bdownLink /\ lines[c] = 2 => Whole(x, Place[c], c)
  <2>1. CASE d.node["up"].bdownLink
    <3>1. x = Distribute(d, lines)
      BY <2>1
    <3> HIDE DEF x
    <3> QED
      BY <2>1, <3>1, DistributeIs
  <2>2. CASE ~d.node["up"].bdownLink
    <3>1. x = d
      BY <2>2
    <3>2. \A k \in Layers : Same(d, d, k)
      BY AlikeIsSame DEF Alike
    <3> HIDE DEF x
    <3> QED
      BY <1>0, <2>2, <3>1, <3>2, SameIsGrown
  <2> QED
    BY <2>1, <2>2
<1> HIDE DEF x, g, e
<1>4. Had(x, "up") = Had(d, "up") /\ Held(x, "up") = Held(d, "up") /\ x.node["up"] = d.node["up"]
      /\ x.index["up"] = d.index["up"] /\ x.layer["up"].refcount \in Nat /\ x.file["up"] \in {d.file["up"], Held(d, "up")}
  <2>1. x.layer["up"].refcount \in Nat
    BY <1>0, <1>3, LayerIs DEF DbOK, OKBut
  <2> QED
    BY <1>3, <2>1 DEF Same, Had
<1>5. /\ DbOK(h) /\ Ends(h, "up") /\ \A k \in Layers : k # "up" => Same(x, h, k)
      /\ h.layer["up"].active /\ h.layer["up"].lines = m
      /\ h.layer["up"].refcount = x.layer["up"].refcount + 1
      /\ h.node["up"].hasLayer /\ h.node["up"].bupdate /\ h.node["up"].bdownLink = d.node["up"].bdownLink
      /\ h.index["up"] = d.index["up"] /\ h.file["up"] \in {d.file["up"], Held(d, "up")}
  <2>1. /\ DbOK(h) /\ Ends(h, "up") /\ \A k \in Layers : k # "up" => Same(x, h, k)
        /\ h.layer["up"].active /\ h.layer["up"].lines = More(lines, Had(x, "up"))
        /\ h.layer["up"].refcount = x.layer["up"].refcount + 1
        /\ h.node["up"].hasLayer /\ h.node["up"].bupdate /\ h.node["up"].bdownLink = x.node["up"].bdownLink
        /\ h.index["up"] = x.index["up"] /\ h.file["up"] \in {x.file["up"], Held(x, "up")}
    BY <1>0, <1>3, AddHereIs
  <2> HIDE DEF h
  <2> QED
    BY <1>4, <2>1
<1> HIDE DEF h
<1>6. Held(h, "up") = m /\ h.layer["up"].refcount > 0
  BY <1>4, <1>5 DEF Held
<1>7. m \in Points /\ \A c \in Charts : m[c] = IF Had(d, "up")[c] > lines[c] THEN Had(d, "up")[c] ELSE lines[c]
  <2>1. Had(d, "up") \in Points
    BY <1>0, <1>1, LayerIs, LayersAre DEF Had
  <2> QED
    BY <2>1, MoreIs DEF More
<1>8. \A b \in Range(Below) : Grown(x, h, b) /\ Grown(d, h, b)
  BY <1>0, <1>3, <1>5, SameIsGrown, GrownIsTransitive
<1> HIDE DEF m
<1>9. ASSUME NEW c \in Charts, m[c] = 2, lines[c] # 2 /\ Had(d, "up")[c] = 2 => Detailed(d, c), d.node["up"].bdownLink
      PROVE  Whole(h, Place[c], c)
  <2>1. CASE lines[c] = 2
    <3>1. Whole(x, Place[c], c)
      BY <1>3, <1>9, <2>1
    <3> QED
      BY <1>0, <1>8, <3>1, WholeStays
  <2>2. CASE lines[c] # 2
    <3>1. Had(d, "up")[c] = 2
      BY <1>7, <1>9, <2>2
    <3>2. Held(d, "up")[c] = 2
      BY <3>1 DEF Had, NoLines
    <3>3. Whole(d, Place[c], c)
      BY <1>9, <2>2, <3>1, <3>2 DEF Detailed, Whole
    <3> QED
      BY <1>0, <1>8, <3>3, WholeStays
  <2> QED
    BY <2>1, <2>2
<1>10. /\ DbOK(g) /\ Ends(g, "up") /\ g.layer["up"].active /\ g.layer["up"].refcount = h.layer["up"].refcount
       /\ g.index["up"] = d.index["up"] /\ (d.node["up"].bdownLink => g.node["up"].bdownLink)
       /\ g.node["up"].bupdate /\ g.node["up"].hasLayer
       /\ g.file["up"] \in {d.file["up"], Held(d, "up"), m}
       /\ \A b \in Range(Below) : Grown(d, g, b)
       /\ \A c \in Charts :
            /\ m[c] > 0 /\ c \notin Closed => Held(g, "up")[c] > 0
            /\ Held(g, "up")[c] = 2 => m[c] = 2
            /\ m[c] = 2 /\ (lines[c] # 2 /\ Had(d, "up")[c] = 2 => Detailed(d, c)) =>
                 /\ Held(g, "up")[c] = 2 \/ (g.node["up"].bdownLink /\ Whole(g, Place[c], c))
                 /\ Detailed(g, c)
  <2>1. CASE h.layer["up"].size > MaxSizeLayerData
    <3>1. /\ g = Abstracted(h, gone)
      BY <2>1 DEF g
    <3>2. /\ DbOK(g) /\ Ends(g, "up") /\ g.layer["up"].active /\ g.layer["up"].refcount = h.layer["up"].refcount
          /\ g.index["up"] = h.index["up"] /\ g.node["up"].bdownLink /\ g.node["up"].bupdate /\ g.node["up"].hasLayer
          /\ g.file["up"] \in {h.file["up"], Held(h, "up")}
          /\ \A c \in Charts : Held(g, "up")[c] = IF c \in gone THEN 0 ELSE IF Held(h, "up")[c] > 1 THEN 1 ELSE Held(h, "up")[c]
          /\ \A b \in Range(Below) : Grown(h, g, b)
          /\ \A c \in Charts : Held(h, "up")[c] = 2 /\ (h.node["up"].bdownLink => Whole(h, Place[c], c))
                               => Whole(g, Place[c], c)
      BY <1>5, <1>6, <3>1, AbstractedIs
    <3>3. \A b \in Range(Below) : Grown(d, g, b)
      BY <1>8, <3>2, GrownIsTransitive
    <3>4. ASSUME NEW c \in Charts
          PROVE  /\ m[c] > 0 /\ c \notin Closed => Held(g, "up")[c] > 0
                 /\ Held(g, "up")[c] # 2
                 /\ m[c] = 2 /\ (lines[c] # 2 /\ Had(d, "up")[c] = 2 => Detailed(d, c)) => Whole(g, Place[c], c)
      <4>1. m[c] \in 0..2 /\ Held(g, "up")[c] = IF c \in gone THEN 0 ELSE IF m[c] > 1 THEN 1 ELSE m[c]
        BY <1>6, <1>7, <3>2 DEF Points
      <4>2. m[c] = 2 /\ (lines[c] # 2 /\ Had(d, "up")[c] = 2 => Detailed(d, c)) => Whole(g, Place[c], c)
        BY <1>5, <1>6, <1>9, <3>2
      <4> QED
        BY <4>1, <4>2
    <3>5. \A c \in Charts : Detailed(g, c)
      BY <3>4 DEF Detailed
    <3> QED
      BY <1>5, <1>6, <3>2, <3>3, <3>4, <3>5
  <2>2. CASE ~(h.layer["up"].size > MaxSizeLayerData)
    <3>1. g = h
      BY <2>2 DEF g
    <3>2. ASSUME NEW c \in Charts, m[c] = 2, lines[c] # 2 /\ Had(d, "up")[c] = 2 => Detailed(d, c) PROVE Detailed(h, c)
      BY <1>5, <1>9, <3>2 DEF Detailed, Whole
    <3>3. ASSUME NEW c \in Charts
          PROVE  /\ m[c] > 0 /\ c \notin Closed => Held(g, "up")[c] > 0
                 /\ Held(g, "up")[c] = 2 => m[c] = 2
                 /\ m[c] = 2 /\ (lines[c] # 2 /\ Had(d, "up")[c] = 2 => Detailed(d, c)) =>
                      /\ Held(g, "up")[c] = 2 \/ (g.node["up"].bdownLink /\ Whole(g, Place[c], c))
                      /\ Detailed(g, c)
      <4>1. Held(g, "up") = m
        BY <1>6, <3>1
      <4>2. m[c] = 2 /\ (lines[c] # 2 /\ Had(d, "up")[c] = 2 => Detailed(d, c)) => Detailed(g, c)
        <5>1. m[c] = 2 /\ (lines[c] # 2 /\ Had(d, "up")[c] = 2 => Detailed(d, c)) => Detailed(h, c)
          BY <3>2
        <5> QED
          BY <3>1, <5>1, Zenon
      <4>3. Held(g, "up")[c] = m[c]
        BY <4>1
      <4>4. m[c] > 0 /\ c \notin Closed => Held(g, "up")[c] > 0
        BY <4>3
      <4> QED
        BY <4>2, <4>3, <4>4, Zenon
    <3>4. /\ DbOK(g) /\ Ends(g, "up") /\ g.layer["up"].active /\ g.layer["up"].refcount = h.layer["up"].refcount
          /\ g.index["up"] = d.index["up"] /\ (d.node["up"].bdownLink => g.node["up"].bdownLink)
          /\ g.node["up"].bupdate /\ g.node["up"].hasLayer
          /\ g.file["up"] \in {d.file["up"], Held(d, "up"), m}
          /\ \A b \in Range(Below) : Grown(d, g, b)
      BY <1>5, <1>8, <3>1
    <3> HIDE DEF g
    <3> QED
      BY <3>3, <3>4, Zenon
  <2> QED
    BY <2>1, <2>2
<1>11. -1 \in Int /\ g.layer["up"].refcount + (-1) \in Nat /\ OKBut(g, {}, {})
  BY <1>4, <1>5, <1>10 DEF DbOK
<1>12. /\ DbOK(e) /\ \A k \in Layers : k # "up" => Alike(g, e, k)
       /\ e.file = g.file /\ e.node = g.node /\ e.index = g.index /\ Ends(e, "up")
       /\ e.layer["up"].refcount = g.layer["up"].refcount + (-1)
       /\ \A k \in Layers : Intact(g, e, k)
  BY <1>0, <1>2, <1>10, <1>11, LockedIs DEF DbOK
<1>13. Bounded(e)
  BY <1>0, <1>12, EndsIsBounded
<1>14. \A b \in Range(Below) : Grown(d, e, b)
  BY <1>0, <1>10, <1>12, AlikeIsSame, SameIsGrown, GrownIsTransitive
<1>15. ASSUME NEW k \in Layers PROVE Held(e, k) = Held(g, k)
  BY <1>12 DEF Intact
<1>16. ASSUME NEW c \in Charts PROVE (Whole(g, Place[c], c) => Whole(e, Place[c], c)) /\ (Detailed(g, c) => Detailed(e, c))
  <2>1. Held(e, Place[c]) = Held(g, Place[c]) /\ Held(e, "up") = Held(g, "up")
    BY <1>0, <1>15
  <2> QED
    BY <1>12, <2>1 DEF Whole, Detailed
<1> QED
  BY <1>0, <1>10, <1>12, <1>13, <1>14, <1>15, <1>16 DEF e, m
-------------------------------------------------------------------------------
\* Saving.
Stays(d, e, k) ==
  e.node[k].hasLayer = d.node[k].hasLayer /\ e.node[k].bdownLink = d.node[k].bdownLink /\ Held(e, k) = Held(d, k)
Written(d, e, k) ==
  Stays(d, e, k) /\ e.layer[k].size = d.layer[k].size /\ e.layer[k].refcount = d.layer[k].refcount

LEMMA FileIs ==
  ASSUME NEW d, DbOK(d), NEW l \in Layers, ~d.node[l].bupdate
  PROVE  d.file[l] = Held(d, l) /\ d.index[l].hasLayer = d.node[l].hasLayer
<1>1. LayerOK(d, l) /\ Clean(d, l) /\ NodesOK(d)
  BY DEF DbOK, OKBut
<1> QED
  BY <1>1 DEF LayerOK, Clean, NodesOK, Held

\* What an index holds while it is written, and then.
LEMMA IndexWrittenIs ==
  ASSUME NEW d \in DbType, NEW l \in Layers
  PROVE  LET e == IndexWritten(d, l)
         IN  /\ e \in DbType /\ e.list = d.list /\ e.total = d.total /\ e.layer = d.layer
             /\ e.file = d.file /\ e.node = d.node
             /\ e.index[l].hasLayer = d.node[l].hasLayer /\ e.index[l].bdownLink = d.node[l].bdownLink
             /\ \A k \in Layers : k # l => e.index[k] = d.index[k]
<1> DEFINE x == IndexOf(d.node[l])
           z == {[file |-> d.file, index |-> [d.index EXCEPT ![l] = i]] : i \in IndicesBegun(d.node[l])}
           w == d.cuts \union z
           e == IndexWritten(d, l)
<1>1. d.node[l] \in NodeType /\ d.file \in [Layers -> Points] /\ d.index \in [Layers -> IndexType]
      /\ d.cuts \in SUBSET DiskType
  BY LayerIs DEF DbType
<1>2. x \in IndexType /\ x.hasLayer = d.node[l].hasLayer /\ x.bdownLink = d.node[l].bdownLink
  BY <1>1 DEF IndexOf, NodeType, IndexType
<1>3. IndicesBegun(d.node[l]) \subseteq IndexType
  <2>1. [hasLayer : {FALSE}, bdownLink : {FALSE, d.node[l].bdownLink}] \subseteq IndexType
    BY <1>1 DEF NodeType, IndexType
  <2> QED
    BY <1>2, <2>1 DEF IndicesBegun
<1>4. ASSUME NEW i \in IndexType
      PROVE  [file |-> d.file, index |-> [d.index EXCEPT ![l] = i]] \in DiskType
  BY <1>1 DEF DiskType
<1>5. w \in SUBSET DiskType
  BY <1>1, <1>3, <1>4
<1>6. e = [d EXCEPT !.cuts = w, !.index[l] = x]
  BY DEF IndexWritten, DbType
<1> HIDE DEF w, x, e
<1>7. /\ e \in DbType /\ e.list = d.list /\ e.total = d.total /\ e.layer = d.layer
      /\ e.file = d.file /\ e.node = d.node
      /\ e.index[l] = x /\ \A k \in Layers : k # l => e.index[k] = d.index[k]
  BY <1>2, <1>5, <1>6 DEF DbType
<1> QED
  BY <1>2, <1>7 DEF e

\* Node::save() writes what the node has, and nothing changes in it.
LEMMA NodeSaveIs ==
  ASSUME NEW d, DbOK(d), NEW l \in Layers,
         l # "up" => d.index["up"].bdownLink = d.node["up"].bdownLink
  PROVE  LET e == NodeSave(d, l)
         IN  /\ DbOK(e) /\ e.list = d.list /\ e.total = d.total /\ \A k \in Layers : Written(d, e, k)
             /\ ~e.node[l].bupdate /\ \A k \in Layers : k # l => Alike(d, e, k)
<1> DEFINE i == IndexWritten(d, l)
           s == Save(i, l)
           x == [s.node[l] EXCEPT !.bupdate = FALSE]
           e == NodeSave(d, l)
           y == e.index[l]
<1>1. d \in DbType
  BY DEF DbOK, OKBut
<1>2. CASE ~d.node[l].bupdate
  <2>1. e = d
    BY <1>2 DEF NodeSave
  <2> QED
    BY <1>2, <2>1 DEF Written, Stays, Alike
<1>3. CASE d.node[l].bupdate
  <2>0. /\ i \in DbType /\ i.list = d.list /\ i.total = d.total /\ i.layer = d.layer
        /\ i.file = d.file /\ i.node = d.node
        /\ i.index[l].hasLayer = d.node[l].hasLayer /\ i.index[l].bdownLink = d.node[l].bdownLink
        /\ \A k \in Layers : k # l => i.index[k] = d.index[k]
    BY <1>1, IndexWrittenIs
  <2> HIDE DEF i
  <2>1. /\ s \in DbType /\ s.list = d.list /\ s.total = d.total /\ s.node = d.node /\ s.index = i.index
        /\ \A k \in Layers : k # l => Alike(d, s, k)
        /\ s.layer[l].active = d.layer[l].active /\ s.layer[l].lines = d.layer[l].lines
        /\ s.layer[l].size = d.layer[l].size /\ s.layer[l].refcount = d.layer[l].refcount
        /\ s.layer[l].bupdate = FALSE
        /\ s.file[l] = IF d.layer[l].bupdate THEN d.layer[l].lines ELSE d.file[l]
    <3>1. /\ s \in DbType /\ s.list = i.list /\ s.total = i.total /\ s.node = i.node /\ s.index = i.index
          /\ \A k \in Layers : k # l => Alike(i, s, k)
          /\ s.layer[l].active = i.layer[l].active /\ s.layer[l].lines = i.layer[l].lines
          /\ s.layer[l].size = i.layer[l].size /\ s.layer[l].refcount = i.layer[l].refcount
          /\ s.layer[l].bupdate = FALSE
          /\ s.file[l] = IF i.layer[l].bupdate THEN i.layer[l].lines ELSE i.file[l]
      BY <2>0, SaveIs
    <3> HIDE DEF s
    <3>2. \A k \in Layers : k # l => Alike(d, s, k)
      BY <2>0, <3>1 DEF Alike
    <3> QED
      BY <2>0, <3>1, <3>2
  <2>2. e = [s EXCEPT !.node[l] = x]
    BY <1>3, <2>1 DEF NodeSave, DbType, i
  <2> HIDE DEF s
  <2>3. x \in NodeType /\ x.bupdate = FALSE /\ x.hasLayer = d.node[l].hasLayer /\ x.bdownLink = d.node[l].bdownLink
    <3>1. s.node[l] \in NodeType /\ s.node[l] = d.node[l]
      BY <2>1, LayerIs
    <3> QED
      BY <3>1 DEF NodeType
  <2> HIDE DEF x, e
  <2>4. /\ e \in DbType /\ e.list = s.list /\ e.total = s.total /\ e.layer = s.layer
        /\ e.file = s.file /\ e.index = s.index
        /\ e.node[l] = x /\ \A k \in Layers : k # l => e.node[k] = s.node[k]
    BY <2>1, <2>3, <2>2, PutNode
  <2>5. y.hasLayer = d.node[l].hasLayer /\ y.bdownLink = d.node[l].bdownLink
    BY <2>0, <2>1, <2>4
  <2> HIDE DEF y
  <2>6. e.index[l] = y /\ \A k \in Layers : k # l => e.index[k] = d.index[k]
    BY <2>0, <2>1, <2>4 DEF y
  <2>7. \A k \in Layers : k # l => Alike(d, e, k)
    BY <2>1, <2>4, <2>6 DEF Alike
  <2>8. Held(e, l) = Held(d, l) /\ Clean(e, l) /\ LayerOK(e, l)
    <3>1. Clean(d, l) /\ LayerOK(d, l)
      BY DEF DbOK, OKBut
    <3> QED
      BY <2>1, <2>3, <2>4, <2>6, <3>1 DEF Held, Clean, LayerOK
  <2>9. Sizes(e) = Sizes(d) /\ Listed(e) = Listed(d)
    <3>1. \A k \in Layers : e.layer[k].size = d.layer[k].size
      BY <2>1, <2>4, <2>6, <2>7 DEF Alike
    <3> QED
      BY <2>1, <2>4, <2>6, <3>1 DEF Sizes, Listed
  <2>10. ASSUME NEW k \in Layers PROVE LayerOK(e, k) /\ Clean(e, k) /\ (k \in Listed(e) <=> e.layer[k].active)
    <3>1. LayerOK(d, k) /\ Clean(d, k) /\ (k \in Listed(d) <=> d.layer[k].active)
      BY DEF DbOK, OKBut
    <3>2. CASE k = l
      BY <2>1, <2>4, <2>6, <2>8, <2>9, <3>1, <3>2
    <3>3. CASE k # l
      BY <2>7, <2>9, <3>1, <3>3 DEF LayerOK, Clean, Alike
    <3> QED
      BY <3>2, <3>3
  <2>11. NodesOK(e)
    <3>1. NodesOK(d) /\ "up" \in Layers /\ Range(Below) \subseteq Layers /\ \A b \in Range(Below) : b # "up"
      BY MapAssumption, LayersAre DEF DbOK, OKBut, MapAssumption
    <3>2. \A k \in Layers : e.node[k].hasLayer = d.node[k].hasLayer /\ e.node[k].bdownLink = d.node[k].bdownLink
      BY <2>1, <2>3, <2>4, <2>6
    <3>3. e.index["up"].bdownLink = d.node["up"].bdownLink \/ (l # "up" /\ e.index["up"] = d.index["up"])
      BY <2>1, <2>5, <2>4, <2>6, <3>1
    <3>4. \A b \in Range(Below) : e.index[b].hasLayer => d.index[b].hasLayer \/ (d.node[b].hasLayer /\ b = l)
      BY <2>1, <2>5, <2>4, <2>6, <3>1
    <3>5. d.index["up"].bdownLink => d.node["up"].bdownLink
      BY <3>1 DEF NodesOK
    <3>6. \A b \in Range(Below) : e.index[b].hasLayer => e.index["up"].bdownLink
      BY <3>1, <3>3, <3>4 DEF NodesOK
    <3>7. ASSUME NEW k \in Layers, ~e.node[k].bupdate PROVE e.index[k].hasLayer = e.node[k].hasLayer
      <4>1. CASE k = l
        BY <2>3, <2>5, <2>4, <2>6, <4>1
      <4>2. CASE k # l
        BY <2>7, <3>1, <3>7, <4>2 DEF Alike, NodesOK
      <4> QED
        BY <4>1, <4>2
    <3>8. ~e.node["up"].bupdate => e.index["up"].bdownLink = e.node["up"].bdownLink
      BY <3>2, <3>3, <3>1
    <3> QED
      BY <3>1, <3>2, <3>3, <3>5, <3>6, <3>7, <3>8 DEF NodesOK
  <2>12. DbOK(e)
    <3>1. e.total = SumFunctionOnSet(Sizes(e), Layers) /\ IsInjective(e.list)
      BY <2>1, <2>4, <2>6, <2>9 DEF DbOK, OKBut
    <3> QED
      BY <2>4, <2>10, <2>11, <3>1 DEF DbOK, OKBut
  <2>13. \A k \in Layers : Written(d, e, k)
    BY <2>1, <2>3, <2>4, <2>6, <2>7, <2>8 DEF Written, Stays, Alike, Held
  <2> QED
    BY <2>1, <2>3, <2>4, <2>6, <2>7, <2>12, <2>13 DEF e
<1> QED
  BY <1>2, <1>3

LEMMA WrittenIsTransitive ==
  ASSUME NEW d, NEW e, NEW f, NEW k, Written(d, e, k), Written(e, f, k)
  PROVE  Written(d, f, k)
BY DEF Written, Stays

LEMMA WrittenIsBounded ==
  ASSUME NEW d, DbOK(d), NEW e, e.list = d.list, e.total = d.total, \A k \in Layers : Written(d, e, k), Bounded(d)
  PROVE  Bounded(e)
<1>1. d.list \in Seq(Layers)
  BY DEF DbOK, OKBut, DbType
<1>2. CASE d.list = <<>>
  BY <1>2 DEF Bounded
<1>3. CASE d.list # <<>>
  <2>1. Len(d.list) \in Nat /\ Len(d.list) \in 1..Len(d.list) /\ \A i \in 1..Len(d.list) : d.list[i] \in Layers
    BY <1>1, <1>3
  <2>2. \A i \in 1..(Len(d.list) - 1) : i \in 1..Len(d.list)
    BY <2>1
  <2> QED
    BY <2>1, <2>2 DEF Bounded, Written
<1> QED
  BY <1>2, <1>3

LEMMA SavedIs ==
  ASSUME NEW d, DbOK(d), ~d.node["up"].bupdate, NEW down \in BOOLEAN, down = d.node["up"].bdownLink
  PROVE  LET e == Saved(d, down)
         IN  /\ DbOK(e) /\ e.list = d.list /\ e.total = d.total /\ \A k \in Layers : Written(d, e, k)
             /\ ~e.node["up"].bupdate /\ \A b \in Range(Below) : e.node[b].hasLayer => ~e.node[b].bupdate
<1>1. PICK r : IsRun(r, "save", down, d, Below) /\ Saved(d, down) = r[Len(Below)]
  BY SaveRuns
<1> DEFINE n == Len(Below)
           P(i) == /\ DbOK(r[i]) /\ r[i].list = d.list /\ r[i].total = d.total
                   /\ \A k \in Layers : Written(d, r[i], k)
                   /\ ~r[i].node["up"].bupdate
                   /\ \A j \in 1..i : down => ~r[i].node[Below[j]].bupdate
           T == {i \in Nat : i <= n => P(i)}
<1>2. n \in Nat /\ DOMAIN Below = 1..n /\ \A i \in 1..n : Below[i] \in Layers /\ Below[i] # "up"
  BY BelowAre
<1>d. \A i \in 1..n : \A j \in 1..n : Below[i] = Below[j] => i = j
  BY BelowAre
<1> HIDE DEF n
<1>3. 0 \in T
  <2>1. r[0] = d
    BY <1>1 DEF IsRun
  <2> QED
    BY <2>1 DEF Written, Stays
<1>4. ASSUME NEW i \in Nat, i \in T PROVE i + 1 \in T
  <2>1. SUFFICES ASSUME i + 1 <= n PROVE P(i + 1)
    <3> HIDE DEF P
    <3> QED
      OBVIOUS
  <2>2. i + 1 \in 1..n /\ (i + 1) - 1 = i /\ i <= n /\ P(i)
    BY <1>2, <1>4, <2>1
  <2> DEFINE b == Below[i + 1]
             e == r[i]
             f == r[i + 1]
  <2>3. f = FoldStep("save", down, e, b)
    BY <1>1, <1>2, <2>2 DEF IsRun
  <2>4. f = IF down THEN NodeSave(e, b) ELSE e
    BY <2>3 DEF FoldStep
  <2>5. /\ b \in Layers /\ b # "up" /\ DbOK(e) /\ e.list = d.list /\ e.total = d.total
        /\ (\A k \in Layers : Written(d, e, k)) /\ ~e.node["up"].bupdate
    BY <1>2, <2>2
  <2>6. \A j \in 1..i : Below[j] \in Layers /\ Below[j] # b /\ (down => ~e.node[Below[j]].bupdate)
    <3>1. SUFFICES ASSUME NEW j \in 1..i PROVE Below[j] \in Layers /\ Below[j] # b /\ (down => ~e.node[Below[j]].bupdate)
      OBVIOUS
    <3>2. j \in 1..n /\ j # i + 1
      BY <1>2, <2>1
    <3> QED
      BY <1>2, <1>d, <2>2, <3>2
  <2>7. ASSUME NEW j \in 1..(i + 1), j \notin 1..i PROVE Below[j] = b
    BY <2>7
  <2> HIDE DEF e, f, b
  <2>8. /\ DbOK(f) /\ f.list = d.list /\ f.total = d.total
        /\ (\A k \in Layers : Written(e, f, k)) /\ ~f.node["up"].bupdate
        /\ (down => ~f.node[b].bupdate) /\ \A k \in Layers : k # b => f.node[k] = e.node[k]
    <3>1. CASE down
      <4>1. f = NodeSave(e, b)
        BY <2>4, <3>1
      <4>2. e.index["up"].bdownLink = e.node["up"].bdownLink
        BY <2>5 DEF DbOK, OKBut, NodesOK
      <4>3. /\ DbOK(f) /\ f.list = e.list /\ f.total = e.total /\ \A k \in Layers : Written(e, f, k)
            /\ ~f.node[b].bupdate /\ \A k \in Layers : k # b => Alike(e, f, k)
        BY <2>5, <4>1, <4>2, NodeSaveIs
      <4> QED
        BY <2>5, <4>3, LayersAre DEF Alike
    <3>2. CASE ~down
      BY <2>4, <2>5, <3>2 DEF Written, Stays
    <3> QED
      BY <3>1, <3>2
  <2>9. \A k \in Layers : Written(d, f, k)
    BY <2>5, <2>8, WrittenIsTransitive
  <2>10. ASSUME NEW j \in 1..(i + 1), down PROVE ~f.node[Below[j]].bupdate
    <3>1. CASE j \in 1..i
      BY <2>6, <2>8, <2>10, <3>1
    <3>2. CASE j \notin 1..i
      BY <2>7, <2>8, <2>10, <3>2
    <3> QED
      BY <3>1, <3>2
  <2> QED
    BY <2>8, <2>9, <2>10 DEF f
<1>5. P(n)
  <2> HIDE DEF T, P
  <2>1. Nat \subseteq T
    BY <1>3, <1>4, Inductive, Zenon
  <2>2. n \in T /\ n <= n
    BY <1>2, <2>1
  <2> QED
    BY <2>2 DEF T
<1>6. ASSUME NEW b \in Range(Below), r[n].node[b].hasLayer PROVE ~r[n].node[b].bupdate
  <2>1. "up" \in Layers /\ b \in Layers
    BY LayersAre
  <2>2. r[n].node["up"].bdownLink
    BY <1>5, <1>6 DEF DbOK, OKBut, NodesOK
  <2>3. down
    BY <1>5, <2>1, <2>2 DEF Written, Stays
  <2>4. PICK j \in 1..n : Below[j] = b
    BY BelowAre DEF n
  <2> QED
    BY <1>5, <2>3, <2>4
<1> QED
  BY <1>1, <1>5, <1>6 DEF n
-------------------------------------------------------------------------------
\* What the steps keep.
FullIn(d, c) ==
  \E l \in Layers : /\ d.node[l].hasLayer /\ (l # "up" => d.node["up"].bdownLink)
                    /\ Held(d, l)[c] = 2

LEMMA FullStays ==
  ASSUME NEW d, NEW e, \A k \in Layers : Stays(d, e, k), NEW c, FullIn(d, c)
  PROVE  FullIn(e, c)
<1>1. "up" \in Layers
  BY LayersAre
<1> QED
  BY <1>1 DEF FullIn, Stays

\* A step of a reader, insert(), save() and a crash.
LEMMA ReadsKeep ==
  ASSUME NEW d, NEW e, NEW S, NEW T, Keeps(d, S, T), Reads(d, e)
  PROVE  Keeps(e, S, T) /\ \A c \in S : FullIn(d, c) => FullIn(e, c)
<1>1. "up" \in Layers /\ Range(Below) \subseteq Layers /\ \A c \in Charts : Place[c] \in Layers
  BY LayersAre
<1>2. \A k \in Layers : Intact(d, e, k)
  BY DEF Reads
<1>3. \A c \in S : FullIn(d, c) => FullIn(e, c)
  <2>1. \A k \in Layers : Stays(d, e, k)
    BY <1>2 DEF Intact, Stays
  <2> QED
    BY <2>1, FullStays
<1>4. DbOK(e) /\ Bounded(e) /\ Settled(e) /\ S \subseteq Charts /\ T \subseteq Charts
  BY <1>1, <1>2 DEF Keeps, Reads, Settled, Intact
<1>5. ASSUME NEW c \in Charts
      PROVE  /\ Found(d, c) => Found(e, c)
             /\ Detailed(d, c) => Detailed(e, c)
             /\ Found(d, c) /\ Filed(d, c) => Filed(e, c)
             /\ Backed(d, c) => Backed(e, c)
  <2>1. Intact(d, e, "up") /\ Intact(d, e, Place[c])
    BY <1>1, <1>2
  <2> QED
    BY <2>1 DEF Intact, Found, Detailed, Filed, Backed
<1>6. /\ \A c \in S : Found(e, c) /\ Detailed(e, c)
      /\ \A c \in T : Found(e, c) /\ Filed(e, c)
      /\ \A c \in S \intersect T : Backed(e, c)
  BY <1>4, <1>5 DEF Keeps
<1> QED
  BY <1>3, <1>4, <1>6 DEF Keeps

LEMMA InsertKeeps ==
  ASSUME NEW d, NEW S, NEW T, Keeps(d, S, T), NEW x \in Charts \ S, NEW gone \in SUBSET Closed
  PROVE  LET e == AddLayerData(d, [NoLines EXCEPT ![x] = 2], gone)
         IN  /\ Keeps(e, S \union {x}, T \ {x})
             /\ \A c \in S \union {x} : (c \in S => FullIn(d, c)) => FullIn(e, c)
<1> DEFINE lines == [NoLines EXCEPT ![x] = 2]
           m == More(lines, Had(d, "up"))
           e == AddLayerData(d, lines, gone)
<1>0. /\ "up" \in Layers /\ Range(Below) \subseteq Layers /\ (\A b \in Range(Below) : b # "up")
      /\ (\A c \in Charts : Place[c] \in Range(Below)) /\ \A l \in Layers : l = "up" \/ l \in Range(Below)
  BY MapAssumption, LayersAre DEF MapAssumption
<1>1. lines \in Points /\ lines[x] = 2 /\ \A c \in Charts : c # x => lines[c] = 0
  BY DEF NoLines, Points
<1>2. DbOK(d) /\ d \in DbType
  BY DEF Keeps, DbOK, OKBut
<1> HIDE DEF lines
<1>3. /\ DbOK(e) /\ Bounded(e) /\ e.index["up"] = d.index["up"]
      /\ e.node["up"].hasLayer /\ e.node["up"].bupdate /\ (d.node["up"].bdownLink => e.node["up"].bdownLink)
      /\ e.file["up"] \in {d.file["up"], Held(d, "up"), m}
      /\ \A b \in Range(Below) : Grown(d, e, b)
  BY <1>1, <1>2, AddedIs
<1>4. \A c \in Charts :
        /\ m[c] > 0 /\ c \notin Closed => Held(e, "up")[c] > 0
        /\ Held(e, "up")[c] = 2 => m[c] = 2
        /\ m[c] = 2 /\ (lines[c] # 2 /\ Had(d, "up")[c] = 2 => Detailed(d, c)) =>
             /\ Held(e, "up")[c] = 2 \/ (e.node["up"].bdownLink /\ Whole(e, Place[c], c))
             /\ Detailed(e, c)
  BY <1>1, <1>2, AddedIs
<1> HIDE DEF e
<1>5. \A c \in Charts : /\ m[c] = IF Had(d, "up")[c] > lines[c] THEN Had(d, "up")[c] ELSE lines[c]
                        /\ Had(d, "up")[c] \in 0..2 /\ lines[c] \in 0..2
  <2>1. Had(d, "up") \in Points
    BY <1>0, <1>2, LayerIs, LayersAre DEF Had
  <2> QED
    BY <1>1, <2>1 DEF More, Points
<1> HIDE DEF m
<1>6. m[x] = 2
  BY <1>1, <1>5
<1>7. ASSUME NEW c \in S \union T, c # x
      PROVE  c \in Charts /\ m[c] = Had(d, "up")[c] /\ Had(d, "up")[c] = Held(d, "up")[c]
             /\ (c \in Closed \/ Held(d, "up")[c] > 0)
  <2>1. c \in Charts /\ Found(d, c)
    BY DEF Keeps
  <2>2. Had(d, "up")[c] = Held(d, "up")[c] /\ (c \in Closed \/ Held(d, "up")[c] > 0)
    BY <2>1 DEF Found, Had
  <2>3. m[c] = Had(d, "up")[c]
    <3>1. lines[c] = 0 /\ Had(d, "up")[c] \in 0..2
      BY <1>1, <1>5, <1>7, <2>1
    <3> QED
      BY <1>5, <2>1, <3>1
  <2> QED
    BY <2>1, <2>2, <2>3
<1>8. ASSUME NEW c \in S \union T \union {x} PROVE Found(e, c)
  <2>1. c \in Charts /\ (c \in Closed \/ m[c] > 0)
    BY <1>6, <1>7
  <2> QED
    BY <1>3, <1>4, <2>1 DEF Found
<1>9. ASSUME NEW c \in S \union {x} PROVE Detailed(e, c)
  <2>1. c \in Charts /\ (lines[c] # 2 /\ Had(d, "up")[c] = 2 => Detailed(d, c))
    <3>1. c \in S => Detailed(d, c)
      BY DEF Keeps
    <3> QED
      BY <1>1, <1>7, <3>1
  <2>2. CASE m[c] = 2
    BY <1>4, <2>1, <2>2
  <2>3. CASE m[c] # 2
    BY <1>4, <2>1, <2>3 DEF Detailed
  <2> QED
    BY <2>2, <2>3
<1>10. ASSUME NEW c \in T, c # x PROVE Filed(e, c) /\ (c \in S => Backed(e, c))
  <2>1. Filed(d, c) /\ (c \in S => Backed(d, c))
    BY DEF Keeps
  <2>2. c \in Charts /\ m[c] = Held(d, "up")[c] /\ (c \in Closed \/ Held(d, "up")[c] > 0)
    BY <1>7, <1>10
  <2>3. Filed(e, c)
    BY <1>3, <2>1, <2>2 DEF Filed
  <2>4. Held(e, "up")[c] = 2 \/ e.file["up"][c] = 2 => Held(d, "up")[c] = 2 \/ d.file["up"][c] = 2
    BY <1>3, <1>4, <2>2
  <2>5. Grown(d, e, Place[c])
    BY <1>0, <1>3, <2>2
  <2>6. Backed(d, c) => Backed(e, c)
    BY <1>3, <2>2, <2>4, <2>5 DEF Backed, Grown
  <2> QED
    BY <2>1, <2>3, <2>6
<1>11. ASSUME NEW c \in S \union {x}, c \in S => FullIn(d, c) PROVE FullIn(e, c)
  <2>0. ASSUME c \in Charts, m[c] = 2, lines[c] # 2 /\ Had(d, "up")[c] = 2 => Detailed(d, c) PROVE FullIn(e, c)
    <3>1. Held(e, "up")[c] = 2 \/ (e.node["up"].bdownLink /\ Whole(e, Place[c], c))
      BY <1>4, <2>0
    <3>2. Place[c] \in Layers
      BY <1>0, <2>0
    <3> QED
      BY <1>0, <1>3, <3>1, <3>2 DEF FullIn, Whole
  <2>1. CASE c = x
    BY <1>1, <1>6, <2>0, <2>1
  <2>2. CASE c \in S
    <3>1. PICK l \in Layers : d.node[l].hasLayer /\ (l # "up" => d.node["up"].bdownLink) /\ Held(d, l)[c] = 2
      BY <1>11, <2>2 DEF FullIn
    <3>2. CASE l = "up"
      <4>1. c # x /\ Detailed(d, c)
        BY <2>2 DEF Keeps
      <4> QED
        BY <1>7, <2>0, <2>2, <3>1, <3>2, <4>1
    <3>3. CASE l # "up"
      <4>1. l \in Range(Below) /\ Grown(d, e, l) /\ c \in Charts
        BY <1>0, <1>3, <2>2, <3>3 DEF Keeps
      <4> QED
        BY <1>3, <3>1, <3>3, <4>1 DEF Grown, FullIn
    <3> QED
      BY <3>2, <3>3
  <2> QED
    BY <2>1, <2>2
<1>12. Settled(e)
  BY <1>3 DEF Settled
<1>13. S \union {x} \subseteq Charts /\ T \ {x} \subseteq Charts
  BY DEF Keeps
<1>14. Keeps(e, S \union {x}, T \ {x})
  BY <1>3, <1>8, <1>10, <1>12, <1>13, <1>9 DEF Keeps
<1> QED
  BY <1>11, <1>14 DEF e, lines

LEMMA SaveKeeps ==
  ASSUME NEW d, NEW S, NEW T, Keeps(d, S, T)
  PROVE  LET e == IF d.node["up"].bupdate THEN Saved(NodeSave(d, "up"), d.node["up"].bdownLink) ELSE d
         IN  /\ Keeps(e, S, S \union T)
             /\ \A c \in S : FullIn(d, c) => FullIn(e, c)
<1> DEFINE n == NodeSave(d, "up")
           e == IF d.node["up"].bupdate THEN Saved(n, d.node["up"].bdownLink) ELSE d
<1>0. "up" \in Layers /\ Range(Below) \subseteq Layers /\ \A c \in Charts : Place[c] \in Range(Below)
  BY LayersAre
<1>1. DbOK(d) /\ Bounded(d) /\ Settled(d) /\ S \subseteq Charts /\ T \subseteq Charts
  BY DEF Keeps
<1>2. /\ DbOK(e) /\ e.list = d.list /\ e.total = d.total /\ \A k \in Layers : Written(d, e, k)
      /\ ~e.node["up"].bupdate /\ \A b \in Range(Below) : e.node[b].hasLayer => ~e.node[b].bupdate
  <2>1. CASE d.node["up"].bupdate
    <3>1. /\ DbOK(n) /\ n.list = d.list /\ n.total = d.total /\ \A k \in Layers : Written(d, n, k)
          /\ ~n.node["up"].bupdate
      BY <1>0, <1>1, NodeSaveIs
    <3>2. e = Saved(n, d.node["up"].bdownLink)
      BY <2>1
    <3> HIDE DEF n, e
    <3>3. d.node["up"].bdownLink = n.node["up"].bdownLink /\ d.node["up"].bdownLink \in BOOLEAN
      <4>1. d.node["up"] \in NodeType
        BY <1>0, <1>1, LayerIs DEF DbOK, OKBut
      <4> QED
        BY <1>0, <3>1, <4>1 DEF Written, Stays, NodeType
    <3>4. /\ DbOK(e) /\ e.list = n.list /\ e.total = n.total /\ \A k \in Layers : Written(n, e, k)
          /\ ~e.node["up"].bupdate /\ \A b \in Range(Below) : e.node[b].hasLayer => ~e.node[b].bupdate
      BY <3>1, <3>2, <3>3, SavedIs
    <3> QED
      BY <3>1, <3>4, WrittenIsTransitive
  <2>2. CASE ~d.node["up"].bupdate
    BY <1>1, <2>2 DEF Written, Stays, Settled
  <2> QED
    BY <2>1, <2>2
<1> HIDE DEF e
<1>3. Bounded(e)
  BY <1>1, <1>2, WrittenIsBounded
<1>4. \A k \in Layers : Stays(d, e, k)
  BY <1>2 DEF Written
<1>5. \A c \in S : FullIn(d, c) => FullIn(e, c)
  BY <1>4, FullStays
<1>6. e.file["up"] = Held(e, "up") /\ e.index["up"].hasLayer = e.node["up"].hasLayer
  BY <1>0, <1>2, FileIs
<1>7. ASSUME NEW c \in S \union T PROVE Found(e, c) /\ Filed(e, c)
  <2>1. Found(d, c) /\ Stays(d, e, "up")
    BY <1>0, <1>4 DEF Keeps
  <2>2. Found(e, c)
    BY <2>1 DEF Stays, Found
  <2> QED
    BY <1>6, <2>2 DEF Found, Filed
<1>8. ASSUME NEW c \in S PROVE Detailed(e, c) /\ Backed(e, c)
  <2>1. Detailed(d, c) /\ c \in Charts /\ Place[c] \in Range(Below) /\ Place[c] \in Layers
    BY <1>0, <1>1 DEF Keeps
  <2>2. Stays(d, e, "up") /\ Stays(d, e, Place[c])
    BY <1>0, <1>4, <2>1
  <2>3. Detailed(e, c)
    BY <2>1, <2>2 DEF Stays, Detailed
  <2>4. e.index["up"].bdownLink => e.node["up"].bdownLink
    BY <1>2 DEF DbOK, OKBut, NodesOK
  <2>5. e.node[Place[c]].hasLayer => e.file[Place[c]] = Held(e, Place[c]) /\ e.index[Place[c]].hasLayer = e.node[Place[c]].hasLayer
    BY <1>2, <2>1, FileIs
  <2> QED
    BY <1>6, <2>3, <2>4, <2>5 DEF Detailed, Backed
<1>9. Settled(e)
  BY <1>2 DEF Settled
<1>10. Keeps(e, S, S \union T)
  <2>1. \A c \in S \intersect (S \union T) : Backed(e, c)
    BY <1>8
  <2>2. \A c \in S : Found(e, c) /\ Detailed(e, c)
    BY <1>7, <1>8
  <2> QED
    BY <1>1, <1>2, <1>3, <1>7, <1>9, <2>1, <2>2 DEF Keeps
<1> QED
  BY <1>5, <1>10 DEF e

LEMMA RestructKeeps ==
  ASSUME NEW d, DbOK(d)
  PROVE  Reads(d, Restruct(d))
<1> DEFINE e == Restruct(d)
<1>1. OKBut(d, {}, {}) /\ Listed(d) \cap {} = {}
  BY DEF DbOK
<1>2. /\ OKBut(e, {}, {}) /\ \A k \in Layers : Same(d, e, k)
      /\ e.total < MaxTotalSizeLayerData \/ \A k \in Listed(e) : e.layer[k].refcount > 0
  BY <1>1, RestructIs
<1> HIDE DEF e
<1>3. \A k \in Layers : Intact(d, e, k)
  BY <1>2, SameIsIntact
<1>4. e \in DbType /\ e.list \in Seq(Layers) /\ e.total \in Int
  BY <1>2 DEF OKBut, DbType
<1>5. Bounded(e)
  <2>1. CASE e.list = <<>>
    BY <2>1 DEF Bounded
  <2>2. CASE e.list # <<>>
    <3>1. Len(e.list) \in 1..Len(e.list) /\ Len(e.list) \in Nat /\ \A i \in 1..Len(e.list) : e.list[i] \in Layers
          /\ e.list[i] \in Listed(e)
      BY <1>4, <2>2 DEF Listed, Range
    <3>2. e.layer[e.list[Len(e.list)]].size \in Nat /\ MaxTotalSizeLayerData \in Nat
      BY <1>4, <3>1, LayerIs, LayersAre
    <3>3. \A i \in 1..(Len(e.list) - 1) : i \in 1..Len(e.list)
      BY <3>1
    <3>4. e.total < MaxTotalSizeLayerData =>
            e.total - e.layer[e.list[Len(e.list)]].size < MaxTotalSizeLayerData
      BY <1>4, <3>2
    <3> QED
      BY <1>2, <3>1, <3>3, <3>4 DEF Bounded
  <2> QED
    BY <2>1, <2>2
<1> QED
  BY <1>2, <1>3, <1>5 DEF Reads, DbOK, e

\* The database of a process that starts.
Fresh(d) ==
  /\ d.list = <<>> /\ d.total = 0 /\ d.layer = [l \in Layers |-> Inactive] /\ d \in DbType
  /\ \A l \in Layers : /\ d.node[l].hasLayer = d.index[l].hasLayer /\ d.node[l].bdownLink = d.index[l].bdownLink
                       /\ d.node[l].bupdate = FALSE

LEMMA FreshIs ==
  ASSUME NEW d, Fresh(d), \A b \in Range(Below) : d.index[b].hasLayer => d.index["up"].bdownLink
  PROVE  DbOK(d) /\ Bounded(d) /\ Settled(d) /\ \A l \in Layers : Held(d, l) = d.file[l]
<1>1. "up" \in Layers /\ Range(Below) \subseteq Layers /\ IsFiniteSet(Layers)
  BY LayersAre
<1>2. \A l \in Layers : d.layer[l].active = FALSE /\ d.layer[l].bupdate = FALSE /\ d.layer[l].refcount = 0
  BY DEF Fresh, Inactive
<1>3. Listed(d) = {} /\ IsInjective(d.list)
  BY DEF Fresh, Listed, Range, IsInjective
<1>4. SumFunctionOnSet(Sizes(d), Layers) = 0
  <2>1. \A l \in Layers : Sizes(d)[l] = 0 /\ Sizes(d)[l] \in Nat
    BY <1>3 DEF Sizes
  <2> QED
    BY <1>1, <2>1, SumType
<1>5. \A l \in Layers : LayerOK(d, l) /\ Clean(d, l) /\ (l \in Listed(d) <=> d.layer[l].active)
  BY <1>2, <1>3 DEF LayerOK, Clean
<1>6. NodesOK(d) /\ Settled(d)
  BY <1>1 DEF NodesOK, Settled, Fresh
<1>7. DbOK(d)
  BY <1>3, <1>4, <1>5, <1>6 DEF DbOK, OKBut, Fresh
<1> QED
  BY <1>2, <1>6, <1>7 DEF Bounded, Held, Fresh

LEMMA CrashKeeps ==
  ASSUME NEW d, NEW S, NEW T, Keeps(d, S, T), NEW e, Fresh(e), e.file = d.file,
         e.index["up"] = d.index["up"],
         \A b \in Range(Below) : (d.index["up"].bdownLink => e.index[b] = d.index[b])
                                 /\ (e.index[b].hasLayer => e.index["up"].bdownLink)
  PROVE  Keeps(e, S \intersect T, T)
<1>1. DbOK(e) /\ Bounded(e) /\ Settled(e) /\ \A l \in Layers : Held(e, l) = e.file[l]
  BY FreshIs
<1>2. "up" \in Layers /\ Range(Below) \subseteq Layers /\ S \subseteq Charts /\ T \subseteq Charts
      /\ \A c \in Charts : Place[c] \in Range(Below)
  BY LayersAre DEF Keeps
<1>3. /\ Held(e, "up") = e.file["up"] /\ e.node["up"].hasLayer = d.index["up"].hasLayer
      /\ e.node["up"].bdownLink = d.index["up"].bdownLink
  BY <1>1, <1>2 DEF Fresh
<1>4. ASSUME NEW c \in T PROVE Found(e, c) /\ Filed(e, c)
  <2>1. Filed(d, c)
    BY DEF Keeps
  <2> QED
    BY <1>3, <2>1 DEF Found, Filed
<1>5. ASSUME NEW c \in S \intersect T PROVE Detailed(e, c) /\ Backed(e, c)
  <2>1. Backed(d, c) /\ Place[c] \in Range(Below) /\ Place[c] \in Layers
    BY <1>2 DEF Keeps
  <2>2. d.index["up"].bdownLink => e.index[Place[c]] = d.index[Place[c]]
    BY <2>1
  <2>3. Held(e, Place[c]) = e.file[Place[c]] /\ e.node[Place[c]].hasLayer = e.index[Place[c]].hasLayer
    BY <1>1, <2>1 DEF Fresh
  <2> QED
    BY <1>3, <2>1, <2>2, <2>3 DEF Detailed, Backed
<1> QED
  BY <1>1, <1>2, <1>4, <1>5 DEF Keeps

LEMMA CutKeeps ==
  ASSUME NEW e, Fresh(e), NEW T \in SUBSET Charts, \A c \in T : Filed(e, c),
         \A b \in Range(Below) : e.index[b].hasLayer => e.index["up"].bdownLink
  PROVE  Keeps(e, {}, T)
<1>1. DbOK(e) /\ Bounded(e) /\ Settled(e) /\ \A l \in Layers : Held(e, l) = e.file[l]
  BY FreshIs
<1>2. Held(e, "up") = e.file["up"] /\ e.node["up"].hasLayer = e.index["up"].hasLayer
  BY <1>1, LayersAre DEF Fresh
<1>3. \A c \in T : Found(e, c)
  BY <1>2 DEF Found, Filed
<1> QED
  BY <1>1, <1>3 DEF Keeps

\* After a call the disks it passed through are forgotten.
LEMMA BareIs ==
  ASSUME NEW d \in DbType, NEW e, e = [d EXCEPT !.cuts = {}]
  PROVE  /\ \A S, T : Keeps(d, S, T) => Keeps(e, S, T)
         /\ \A c : FullIn(e, c) <=> FullIn(d, c)
<1>1. /\ e \in DbType /\ e.list = d.list /\ e.total = d.total /\ e.layer = d.layer
      /\ e.file = d.file /\ e.node = d.node /\ e.index = d.index
  BY DEF DbType
<1>2. /\ Sizes(e) = Sizes(d) /\ Listed(e) = Listed(d)
      /\ \A l : Held(e, l) = Held(d, l) /\ LayerOK(e, l) = LayerOK(d, l) /\ Clean(e, l) = Clean(d, l)
  BY <1>1 DEF Sizes, Listed, Held, LayerOK, Clean
<1>3. DbOK(d) => DbOK(e)
  <2>1. NodesOK(d) => NodesOK(e)
    BY <1>1 DEF NodesOK
  <2> QED
    BY <1>1, <1>2, <2>1 DEF DbOK, OKBut
<1>4. (Bounded(d) => Bounded(e)) /\ (Settled(d) => Settled(e))
  BY <1>1 DEF Bounded, Settled
<1>5. \A c : /\ Found(d, c) => Found(e, c)
             /\ Filed(d, c) => Filed(e, c)
             /\ Detailed(d, c) => Detailed(e, c)
             /\ Backed(d, c) => Backed(e, c)
  BY <1>1, <1>2 DEF Found, Filed, Detailed, Backed
<1>6. \A c : FullIn(e, c) <=> FullIn(d, c)
  BY <1>1, <1>2 DEF FullIn
<1>7. ASSUME NEW S, NEW T, Keeps(d, S, T) PROVE Keeps(e, S, T)
  BY <1>3, <1>4, <1>5, <1>7 DEF Keeps
<1> QED
  BY <1>6, <1>7
-------------------------------------------------------------------------------
\* The actions.
LEMMA BecomesIs ==
  ASSUME NEW d \in DbType, Becomes(d)
  PROVE  db' = [d EXCEPT !.cuts = {}]
<1>1. d = [list |-> d.list, layer |-> d.layer, total |-> d.total, file |-> d.file,
           node |-> d.node, index |-> d.index, cuts |-> d.cuts]
  BY DEF DbType
<1>2. [d EXCEPT !.cuts = {}] = [list |-> d.list, layer |-> d.layer, total |-> d.total, file |-> d.file,
                                node |-> d.node, index |-> d.index, cuts |-> {}]
  BY <1>1
<1> QED
  BY <1>2 DEF Becomes, db

LEMMA BecomesKeeps ==
  ASSUME NEW d, NEW S, NEW T, Keeps(d, S, T), Becomes(d)
  PROVE  Keeps(db', S, T) /\ \A c : FullIn(db', c) <=> FullIn(d, c)
<1>1. d \in DbType
  BY DEF Keeps, DbOK, OKBut
<1>2. db' = [d EXCEPT !.cuts = {}]
  BY <1>1, BecomesIs
<1> QED
  BY <1>1, <1>2, BareIs

LEMMA DbFields ==
  /\ db.list = list /\ db.layer = layer /\ db.total = totalSize /\ db.file = file /\ db.node = node /\ db.index = mapIndex
BY DEF db

LEMMA RestartIs ==
  ASSUME NEW disk \in DiskType, Restart(disk)
  PROVE  /\ Fresh(db') /\ db'.file = disk.file /\ db'.index["up"] = disk.index["up"]
         /\ \A b \in Range(Below) : (disk.index["up"].bdownLink => db'.index[b] = disk.index[b])
                                    /\ (db'.index[b].hasLayer => db'.index["up"].bdownLink)
<1> DEFINE x == Linked(disk.index)
<1>0. "up" \in Layers /\ Range(Below) \subseteq Layers /\ NoLines \in Points
      /\ \A b \in Range(Below) : b # "up"
  BY MapAssumption, LayersAre DEF MapAssumption
<1>1. disk.file \in [Layers -> Points] /\ disk.index \in [Layers -> IndexType]
  BY DEF DiskType
<1>2. NewNode \in IndexType /\ NewNode.hasLayer = FALSE
  BY DEF NewNode, IndexType
<1>3. x \in [Layers -> IndexType] /\ x["up"] = disk.index["up"]
      /\ \A b \in Range(Below) : x[b] = IF disk.index["up"].bdownLink THEN disk.index[b] ELSE NewNode
  BY <1>0, <1>1, <1>2 DEF Linked
<1> HIDE DEF x
<1>4. \A i \in IndexType : /\ Updated(i, FALSE) \in NodeType /\ Updated(i, FALSE).hasLayer = i.hasLayer
                            /\ Updated(i, FALSE).bdownLink = i.bdownLink /\ Updated(i, FALSE).bupdate = FALSE
  BY DEF Updated, IndexType, NodeType
<1>5. /\ list' = <<>> /\ totalSize' = 0 /\ layer' = [l \in Layers |-> Inactive]
      /\ file' = disk.file /\ mapIndex' = x /\ node' = [l \in Layers |-> Updated(mapIndex'[l], FALSE)]
  BY DEF Restart, x
<1>6. /\ db'.list = list' /\ db'.layer = layer' /\ db'.total = totalSize' /\ db'.file = file'
      /\ db'.node = node' /\ db'.index = mapIndex'
  BY DEF db
<1>7. db' \in DbType
  <2>1. Inactive \in LayerType
    BY <1>0 DEF Inactive, LayerType
  <2>2. list' \in Seq(Layers) /\ totalSize' \in Int
    BY <1>5
  <2>3. layer' \in [Layers -> LayerType]
    BY <1>5, <2>1
  <2>4. node' \in [Layers -> NodeType]
    BY <1>3, <1>4, <1>5
  <2>5. file' \in [Layers -> Points] /\ mapIndex' \in [Layers -> IndexType]
    BY <1>1, <1>3, <1>5
  <2> QED
    BY <2>2, <2>3, <2>4, <2>5 DEF DbType, db
<1>8. \A l \in Layers : /\ db'.node[l].hasLayer = db'.index[l].hasLayer
                        /\ db'.node[l].bdownLink = db'.index[l].bdownLink /\ db'.node[l].bupdate = FALSE
  <2>1. ASSUME NEW l \in Layers PROVE db'.index[l] \in IndexType /\ db'.node[l] = Updated(db'.index[l], FALSE)
    BY <1>3, <1>5, <1>6
  <2> QED
    BY <1>4, <2>1
<1>9. Fresh(db')
  BY <1>5, <1>6, <1>7, <1>8 DEF Fresh
<1> QED
  BY <1>2, <1>3, <1>5, <1>6, <1>9

LEMMA ReadsIsType ==
  ASSUME NEW d, NEW e, Reads(d, e)
  PROVE  e \in DbType
BY DEF Reads, DbOK, OKBut

LEMMA RequestIs ==
  ASSUME MapInv, NEW fine \in BOOLEAN, NEW region \in SUBSET Range(Below), request(fine, region)
  PROVE  \E e : Reads(db, e) /\ Call(e)
<1> DEFINE down == node["up"].bdownLink
           here == IF fine /\ down THEN GetLayerData(db, "up") ELSE Handed(db, "up")
           met == {b \in region : down /\ node[b].hasLayer}
           r == Read(here, met)
           e == GivenUp(r, met, fine)
<1>1. DbOK(db) /\ "up" \in Layers /\ met \in SUBSET Range(Below) /\ Range(Below) \subseteq Layers
  BY LayersAre DEF MapInv, Keeps
<1>2. Call(e)
  BY DEF request
<1>3. Reads(db, here)
  BY <1>1, GetIs, HandedIs
<1>4. \A b \in met : b \in Layers /\ db.node[b].hasLayer
  BY <1>1, DbFields
<1> HIDE DEF here, met
<1>5. DbOK(here) /\ \A b \in met : here.node[b].hasLayer
  BY <1>3, <1>4 DEF Reads, Intact
<1>6. Reads(here, r) /\ \A b \in met : r.layer[b].refcount > 0
  BY <1>1, <1>5, ReadIs
<1> HIDE DEF r
<1>7. DbOK(r)
  BY <1>6 DEF Reads
<1>8. Reads(r, e)
  BY <1>1, <1>6, <1>7, GivenUpIs
<1> HIDE DEF e
<1>9. Reads(db, e)
  BY <1>3, <1>6, <1>8, ReadsIsTransitive
<1> QED
  BY <1>2, <1>9

LEMMA DropPtrIs ==
  ASSUME MapInv, NEW l \in Layers, DropPtr(l)
  PROVE  \E e : Reads(db, e) /\ Call(e)
<1> DEFINE e == Locked(Accessed(db, l), l, -1)
<1>1. DbOK(db) /\ db.layer[l].refcount > 0 /\ Call(e)
  BY DbFields DEF MapInv, Keeps, DropPtr
<1>2. -1 \in {0, -1}
  OBVIOUS
<1>3. Reads(db, e)
  BY <1>1, <1>2, YieldedIs
<1> QED
  BY <1>1, <1>3

\* The step of DetailKept.
DetailStep == Crash \/ \A c \in inserted' : (c \in inserted => InFull(c)) => InFull(c)'

LEMMA CrashWithinIs ==
  ASSUME MapInv, NEW d \in DbType, CrashWithin(d)
  PROVE  MapInv' /\ DetailStep
<1>1. PICK disk \in d.cuts :
        /\ Restart(disk) /\ inserted' = {}
        /\ saved' = IF disk.file["up"] = file["up"] /\ disk.index["up"] = mapIndex["up"] THEN saved ELSE {}
  BY DEF CrashWithin
<1>2. disk \in DiskType
  BY DEF DbType
<1>3. /\ Fresh(db') /\ db'.file = disk.file /\ db'.index["up"] = disk.index["up"]
      /\ \A b \in Range(Below) : db'.index[b].hasLayer => db'.index["up"].bdownLink
  BY <1>1, <1>2, RestartIs
<1>4. saved' \in SUBSET Charts /\ \A c \in saved' : Filed(db', c)
  <2>1. saved \subseteq Charts /\ \A c \in saved : Filed(db, c)
    BY DEF MapInv, Keeps
  <2>2. CASE disk.file["up"] = file["up"] /\ disk.index["up"] = mapIndex["up"]
    BY <1>1, <1>3, <2>1, <2>2, DbFields DEF Filed
  <2>3. CASE ~(disk.file["up"] = file["up"] /\ disk.index["up"] = mapIndex["up"])
    BY <1>1, <2>3
  <2> QED
    BY <2>2, <2>3
<1>5. Keeps(db', {}, saved')
  BY <1>3, <1>4, CutKeeps
<1>6. saves' \in Nat
  BY <1>1 DEF MapInv, Restart
<1> QED
  BY <1>1, <1>5, <1>6 DEF MapInv, DetailStep

LEMMA InFullIs ==
  \A c : (InFull(c) <=> FullIn(db, c)) /\ (InFull(c)' <=> FullIn(db', c))
BY DEF InFull, Lines, FullIn, Held, db

LEMMA MapStarts ==
  ASSUME MapInit
  PROVE  MapInv
<1>1. "up" \in Layers /\ Range(Below) \subseteq Layers /\ NoLines \in Points
  BY LayersAre
<1>2. Inactive \in LayerType
  BY <1>1 DEF Inactive, LayerType
<1>3. Updated(NewNode, FALSE) \in NodeType /\ NewNode \in IndexType
  BY DEF Updated, NewNode, NodeType, IndexType
<1>4. db \in DbType
  <2>1. /\ list \in Seq(Layers) /\ totalSize \in Int
        /\ layer \in [Layers -> LayerType] /\ file \in [Layers -> Points]
        /\ node \in [Layers -> NodeType] /\ mapIndex \in [Layers -> IndexType]
    <3>1. list \in Seq(Layers) /\ totalSize \in Int
      BY DEF MapInit
    <3>2. layer \in [Layers -> LayerType] /\ file \in [Layers -> Points]
      BY <1>1, <1>2 DEF MapInit
    <3>3. node \in [Layers -> NodeType]
      BY <1>3 DEF MapInit
    <3>4. mapIndex \in [Layers -> IndexType]
      BY <1>3 DEF MapInit
    <3> QED
      BY <3>1, <3>2, <3>3, <3>4
  <2> QED
    BY <2>1 DEF db, DbType
<1>5. Fresh(db) /\ \A b \in Range(Below) : ~db.index[b].hasLayer
  <2>1. /\ Updated(NewNode, FALSE).hasLayer = FALSE /\ Updated(NewNode, FALSE).bdownLink = FALSE
        /\ Updated(NewNode, FALSE).bupdate = FALSE /\ NewNode.hasLayer = FALSE /\ NewNode.bdownLink = FALSE
    BY DEF Updated, NewNode
  <2>2. /\ db.list = <<>> /\ db.total = 0 /\ db.layer = [l \in Layers |-> Inactive]
        /\ db.node = [l \in Layers |-> Updated(NewNode, FALSE)] /\ db.index = [l \in Layers |-> NewNode]
    BY DbFields DEF MapInit
  <2> QED
    BY <1>1, <1>4, <2>1, <2>2 DEF Fresh
<1>6. DbOK(db) /\ Bounded(db) /\ Settled(db)
  BY <1>5, FreshIs
<1> QED
  BY <1>6 DEF MapInit, MapInv, Keeps

LEMMA MapStep ==
  ASSUME MapInv, MapNext
  PROVE  MapInv' /\ DetailStep
<1> USE DEF MapInv
<1>0. Keeps(db, inserted, saved) /\ DbOK(db) /\ saves \in Nat
  BY DEF Keeps
<1>1. ASSUME NEW e, Reads(db, e), Call(e)
      PROVE  MapInv' /\ DetailStep
  <2>1. CASE CrashWithin(e)
    BY <1>1, <2>1, ReadsIsType, CrashWithinIs
  <2>2. CASE Becomes(e) /\ UNCHANGED <<inserted, saved, saves>>
    <3>1. Keeps(e, inserted, saved) /\ \A c \in inserted : FullIn(db, c) => FullIn(e, c)
      BY <1>0, <1>1, ReadsKeep
    <3>2. Keeps(db', inserted, saved) /\ \A c : FullIn(db', c) <=> FullIn(e, c)
      BY <2>2, <3>1, BecomesKeeps
    <3>3. MapInv'
      BY <1>0, <2>2, <3>2
    <3>4. DetailStep
      BY <2>2, <3>1, <3>2, InFullIs DEF DetailStep
    <3> QED
      BY <3>3, <3>4
  <2> QED
    BY <1>1, <2>1, <2>2 DEF Call
<1>2. ASSUME NEW c \in Charts \ inserted, NEW gone \in SUBSET Closed, insert(c, gone) PROVE MapInv' /\ DetailStep
  <2> DEFINE e == AddLayerData(db, [NoLines EXCEPT ![c] = 2], gone)
  <2>1. /\ Keeps(e, inserted \union {c}, saved \ {c})
        /\ \A x \in inserted \union {c} : (x \in inserted => FullIn(db, x)) => FullIn(e, x)
    BY <1>0, <1>2, InsertKeeps
  <2>2. \/ Becomes(e) /\ inserted' = inserted \union {c} /\ saved' = saved \ {c} /\ saves' = saves
        \/ CrashWithin(e)
    BY <1>2 DEF insert
  <2> HIDE DEF e
  <2>3. CASE CrashWithin(e)
    BY <2>1, <2>3, CrashWithinIs DEF Keeps, DbOK, OKBut
  <2>4. CASE Becomes(e) /\ inserted' = inserted \union {c} /\ saved' = saved \ {c} /\ saves' = saves
    <3>1. Keeps(db', inserted \union {c}, saved \ {c}) /\ \A x : FullIn(db', x) <=> FullIn(e, x)
      BY <2>1, <2>4, BecomesKeeps
    <3>2. MapInv'
      BY <1>0, <2>4, <3>1
    <3>3. DetailStep
      BY <2>1, <2>4, <3>1, InFullIs DEF DetailStep
    <3> QED
      BY <3>2, <3>3
  <2> QED
    BY <2>2, <2>3, <2>4
<1>3. ASSUME NEW fine \in BOOLEAN, NEW region \in SUBSET Range(Below), request(fine, region) PROVE MapInv' /\ DetailStep
  BY <1>1, <1>3, RequestIs
<1>4. ASSUME NEW l \in Layers, DropPtr(l) PROVE MapInv' /\ DetailStep
  BY <1>1, <1>4, DropPtrIs
<1>5. CASE restruct
  <2>1. Reads(db, Restruct(db)) /\ Call(Restruct(db))
    BY <1>0, <1>5, RestructKeeps DEF restruct
  <2> QED
    BY <1>1, <2>1
<1>6. CASE save
  <2> DEFINE e == IF db.node["up"].bupdate THEN Saved(NodeSave(db, "up"), db.node["up"].bdownLink) ELSE db
  <2>1. Keeps(e, inserted, inserted \union saved) /\ \A c \in inserted : FullIn(db, c) => FullIn(e, c)
    BY <1>0, SaveKeeps
  <2>2. \/ Becomes(e) /\ saved' = inserted \union saved /\ inserted' = inserted /\ saves' = saves + 1
        \/ CrashWithin(e)
    BY <1>6, DbFields DEF save
  <2> HIDE DEF e
  <2>3. CASE CrashWithin(e)
    BY <2>1, <2>3, CrashWithinIs DEF Keeps, DbOK, OKBut
  <2>4. CASE Becomes(e) /\ saved' = inserted \union saved /\ inserted' = inserted /\ saves' = saves + 1
    <3>1. Keeps(db', inserted, inserted \union saved) /\ \A x : FullIn(db', x) <=> FullIn(e, x)
      BY <2>1, <2>4, BecomesKeeps
    <3>2. MapInv'
      BY <1>0, <2>4, <3>1
    <3>3. DetailStep
      BY <2>1, <2>4, <3>1, InFullIs DEF DetailStep
    <3> QED
      BY <3>2, <3>3
  <2> QED
    BY <2>2, <2>3, <2>4
<1>7. CASE Crash
  <2> DEFINE disk == [file |-> file, index |-> mapIndex]
  <2>1. disk \in DiskType
    <3>1. db \in DbType
      BY <1>0 DEF DbOK, OKBut
    <3>2. file \in [Layers -> Points] /\ mapIndex \in [Layers -> IndexType]
      BY <3>1, DbFields DEF DbType
    <3> QED
      BY <3>2 DEF DiskType
  <2>2. Restart(disk) /\ inserted' = inserted \intersect saved /\ saved' = saved
    BY <1>7 DEF Crash
  <2>3. /\ Fresh(db') /\ db'.file = disk.file /\ db'.index["up"] = disk.index["up"]
        /\ \A b \in Range(Below) : (disk.index["up"].bdownLink => db'.index[b] = disk.index[b])
                                   /\ (db'.index[b].hasLayer => db'.index["up"].bdownLink)
    BY <2>1, <2>2, RestartIs
  <2>4. disk.file = db.file /\ disk.index = db.index
    BY DbFields
  <2> HIDE DEF disk
  <2>5. Keeps(db', inserted \intersect saved, saved)
    BY <1>0, <2>3, <2>4, CrashKeeps
  <2>6. saves' \in Nat
    BY <1>0, <2>2 DEF Restart
  <2>7. MapInv'
    BY <2>2, <2>5, <2>6
  <2> QED
    BY <1>7, <2>7 DEF DetailStep
<1> QED
  BY <1>2, <1>3, <1>4, <1>5, <1>6, <1>7 DEF MapNext

LEMMA MapGood ==
  ASSUME MapInv
  PROVE  TotalIsSum /\ ReadIsInMemory /\ CacheBounded /\ SavedIsFound
<1>1. DbOK(db) /\ Bounded(db) /\ \A c \in saved : Filed(db, c)
  BY DEF MapInv, Keeps
<1>2. db \in DbType /\ IsInjective(list) /\ totalSize = SumFunctionOnSet(Sizes(db), Layers)
  BY <1>1, DbFields DEF DbOK, OKBut
<1>3. \A l \in Layers : LayerOK(db, l) /\ (l \in Range(list) <=> layer[l].active)
  BY <1>1, DbFields DEF DbOK, OKBut, Listed
<1>4. Range(list) = {l \in Layers : layer[l].active}
  <2>1. Range(list) \subseteq Layers
    BY <1>2, ListedAre, DbFields DEF Listed
  <2> QED
    BY <1>3, <2>1
<1>5. totalSize = SumFunctionOnSet([l \in Layers |-> SizeOf(layer[l].lines)], Range(list))
  <2>1. IsFiniteSet(Layers) /\ Range(list) \subseteq Layers
    BY <1>4, LayersAre
  <2>2. IsFiniteSet(Range(list))
    BY <2>1, FS_Subset
  <2>3. \A l \in Layers : Sizes(db)[l] \in Int /\ (l \notin Range(list) => Sizes(db)[l] = 0)
    BY <1>2, LayerIs, DbFields DEF Sizes, Listed
  <2>4. \A l \in Range(list) : Sizes(db)[l] = [k \in Layers |-> SizeOf(layer[k].lines)][l]
    BY <1>3, <2>1, DbFields DEF Sizes, Listed, LayerOK
  <2>5. SumFunctionOnSet(Sizes(db), Layers) = SumFunctionOnSet(Sizes(db), Range(list))
    BY <2>1, <2>3, SumWithin
  <2>6. SumFunctionOnSet(Sizes(db), Range(list)) = SumFunctionOnSet([k \in Layers |-> SizeOf(layer[k].lines)], Range(list))
    BY <2>2, <2>4, SumSame
  <2> QED
    BY <1>2, <2>5, <2>6
<1>6. ReadIsInMemory
  BY <1>3, DbFields DEF ReadIsInMemory, LayerOK
<1>7. CacheBounded
  BY <1>1, DbFields DEF CacheBounded, Bounded
<1>8. SavedIsFound
  BY <1>1, DbFields DEF SavedIsFound, Filed
<1> QED
  BY <1>2, <1>4, <1>5, <1>6, <1>7, <1>8 DEF TotalIsSum

LEMMA MapStutter ==
  ASSUME MapInv, UNCHANGED mapVars
  PROVE  MapInv'
BY DEF MapInv, mapVars, db

\* For any lines, lower nodes and limits of the cache: a line that was inserted keeps
\* all its points in some layer until a crash, one that was saved is found again, and
\* the cache's list, total and bound hold, whatever insert(), the requests,
\* ~LayerDataPtr(), restruct() and save() release and read again (LinesAreKept).
THEOREM LinesStay == MapSpec => LinesAreKept
<1>1. MapInit => MapInv
  BY MapStarts
<1>2. MapInv /\ [MapNext]_mapVars => MapInv'
  BY MapStep, MapStutter
<1>3. MapInv => TotalIsSum /\ ReadIsInMemory /\ CacheBounded /\ SavedIsFound
  BY MapGood
<1>4. MapInv /\ [MapNext]_mapVars => [Crash \/ \A c \in inserted' : (c \in inserted => InFull(c)) => InFull(c)']_mapVars
  BY MapStep DEF DetailStep
<1> QED
  BY <1>1, <1>2, <1>3, <1>4, PTL DEF MapSpec, LinesAreKept, DetailKept
===============================================================================
