---------------------------- MODULE Cache_proofs ----------------------------
(***************************************************************************)
(* Theorems about the cache. Each function of cache.c that changes it is   *)
(* described by a lemma: what becomes of the entries, of rrset_l and of    *)
(* cache_size, in terms of Books (the size is the entries' and the list    *)
(* has what may be purged), Ordered, Keeps (local records) and Bounded.    *)
(* Within add_cache and purge_cache the books are owed the size of the     *)
(* entry being merged, so Books has that as a parameter. The loops are     *)
(* folds; an instance of FoldFacts gives each of them its induction.       *)
(***************************************************************************)
EXTENDS Cache, FiniteSetTheorems, SequenceTheorems, TLAPS

----------------------------------------------------------------------------
(* The list. *)

\* l is what list has at the places m, in their order, and these are the first k places but
\* for those of gone.
Picks(m, l, list, gone, k) ==
  /\ m \in [1..Len(l) -> 1..k]
  /\ \A a, b \in 1..Len(l) : a < b => m[a] < m[b]
  /\ \A a \in 1..Len(l) : l[a] = list[m[a]] /\ l[a] \notin gone
  /\ \A i \in 1..k : list[i] \notin gone => \E a \in 1..Len(l) : m[a] = i

Keep(gone, list, P, l, le) == IF le \in gone THEN l ELSE Append(l, le)
KeepGood(gone, list, P, base, k, l) == l \in Seq(P) /\ \E m : Picks(m, l, list, gone, k)
Unlist == INSTANCE FoldFacts WITH Op <- Keep, Good <- KeepGood

LEMMA KeepStep ==
  ASSUME NEW P, NEW list \in Seq(P), NEW gone, NEW k \in 1..Len(list), NEW l,
         KeepGood(gone, list, P, <<>>, k - 1, l)
  PROVE  KeepGood(gone, list, P, <<>>, k, Keep(gone, list, P, l, list[k]))
<1>. DEFINE e == list[k]
<1>1. PICK m : Picks(m, l, list, gone, k - 1)
  BY DEF KeepGood
<1>2. l \in Seq(P) /\ e \in P
  BY DEF KeepGood
<1>3. CASE e \in gone
  <2>1. Picks(m, l, list, gone, k)
    BY <1>1, <1>2, <1>3 DEF Picks
  <2>. QED BY <1>2, <1>3, <2>1 DEF KeepGood, Keep
<1>4. CASE e \notin gone
  <2>. DEFINE new == Append(l, e)
              mm == [a \in 1..Len(l) + 1 |-> IF a = Len(l) + 1 THEN k ELSE m[a]]
  <2>1. /\ new \in Seq(P) /\ Len(new) = Len(l) + 1 /\ new[Len(l) + 1] = e
        /\ \A a \in 1..Len(l) : new[a] = l[a]
    BY <1>2
  <2>2. \A a \in 1..Len(l) : mm[a] = m[a] /\ m[a] \in 1..k - 1
    BY <1>1, <1>2 DEF Picks
  <2>3. mm[Len(l) + 1] = k /\ DOMAIN mm = 1..Len(l) + 1 /\ Len(l) \in Nat
    BY <1>2
  <2>4. mm \in [1..Len(new) -> 1..k]
    <3>1. ASSUME NEW a \in 1..Len(l) + 1 PROVE mm[a] \in 1..k
      <4>. HIDE DEF mm
      <4>1. CASE a = Len(l) + 1
        BY <4>1, <2>3
      <4>2. CASE a # Len(l) + 1
        <5>1. a \in 1..Len(l)
          BY <4>2, <2>3
        <5>. QED BY <5>1, <2>2
      <4>. QED BY <4>1, <4>2
    <3>. HIDE DEF new
    <3>. QED BY <2>1, <3>1
  <2>. HIDE DEF new, mm, e
  <2>5. \A a, b \in 1..Len(new) : a < b => mm[a] < mm[b]
    <3>1. ASSUME NEW a \in 1..Len(new), NEW b \in 1..Len(new), a < b PROVE mm[a] < mm[b]
      <4>1. CASE b = Len(l) + 1
        <5>1. a \in 1..Len(l)
          BY <2>1, <2>3, <3>1, <4>1
        <5>. QED BY <5>1, <4>1, <2>2, <2>3
      <4>2. CASE b # Len(l) + 1
        <5>1. a \in 1..Len(l) /\ b \in 1..Len(l)
          BY <2>1, <2>3, <3>1, <4>2
        <5>. QED BY <5>1, <3>1, <2>2, <1>1 DEF Picks
      <4>. QED BY <4>1, <4>2
    <3>. QED BY <3>1
  <2>6. \A a \in 1..Len(new) : new[a] = list[mm[a]] /\ new[a] \notin gone
    <3>1. ASSUME NEW a \in 1..Len(new) PROVE new[a] = list[mm[a]] /\ new[a] \notin gone
      <4>1. CASE a = Len(l) + 1
        BY <4>1, <2>1, <2>3, <1>4 DEF e
      <4>2. CASE a # Len(l) + 1
        <5>1. a \in 1..Len(l)
          BY <2>1, <2>3, <4>2
        <5>. QED BY <5>1, <2>1, <2>2, <1>1 DEF Picks
      <4>. QED BY <4>1, <4>2
    <3>. QED BY <3>1
  <2>7. \A i \in 1..k : list[i] \notin gone => \E a \in 1..Len(new) : mm[a] = i
    <3>1. ASSUME NEW i \in 1..k, list[i] \notin gone PROVE \E a \in 1..Len(new) : mm[a] = i
      <4>1. CASE i = k
        BY <4>1, <2>1, <2>3
      <4>2. CASE i # k
        <5>1. i \in 1..k - 1
          BY <4>2
        <5>2. PICK a \in 1..Len(l) : m[a] = i
          BY <5>1, <3>1, <1>1 DEF Picks
        <5>. QED BY <5>2, <2>1, <2>2, <2>3
      <4>. QED BY <4>1, <4>2
    <3>. QED BY <3>1
  <2>8. Picks(mm, new, list, gone, k)
    BY <2>4, <2>5, <2>6, <2>7 DEF Picks
  <2>. QED BY <2>1, <2>8, <1>4 DEF KeepGood, Keep, new, e
<1>. QED BY <1>3, <1>4

Once(l) == \A j, k \in 1..Len(l) : l[j] = l[k] => j = k
Within(l, list) ==
  \A j, k \in 1..Len(l) :
    j < k => \E a, b \in 1..Len(list) : a < b /\ l[j] = list[a] /\ l[k] = list[b]

LEMMA UnlistedIs ==
  ASSUME NEW P, NEW list \in Seq(P), NEW gone
  PROVE  LET l == Unlisted(list, gone)
         IN  /\ l \in Seq(P)
             /\ \A x : x \in ToSet(l) <=> x \in ToSet(list) /\ x \notin gone
             /\ Once(list) => Once(l)
             /\ Within(l, list)
<1>. DEFINE l == Unlisted(list, gone)
<1>1. l = Unlist!Folded(gone, list, P, <<>>, list)
  BY DEF Unlisted, Unlist!Folded, Keep, FoldLeft, MapThenFoldSet, Unlist!FoldLeft,
         Unlist!MapThenFoldSet, Max, Unlist!Max
<1>2. KeepGood(gone, list, P, <<>>, Len(list), l)
  <2>1. DOMAIN list = 1..Len(list) /\ Len(list) \in Nat
    OBVIOUS
  <2>2. KeepGood(gone, list, P, <<>>, 0, <<>>)
    <3>. DEFINE mm == [a \in {} |-> 0]
    <3>1. Picks(mm, <<>>, list, gone, 0)
      BY DEF Picks
    <3>. QED BY <3>1 DEF KeepGood
  <2>3. \A k \in 1..Len(list) : \A a : KeepGood(gone, list, P, <<>>, k - 1, a)
          => KeepGood(gone, list, P, <<>>, k, Keep(gone, list, P, a, list[k]))
    BY KeepStep
  <2>. HIDE DEF KeepGood, Keep
  <2>. QED BY <1>1, <2>1, <2>2, <2>3, Unlist!FoldKeeps
<1>. HIDE DEF l
<1>3. PICK m : Picks(m, l, list, gone, Len(list))
  BY <1>2 DEF KeepGood
<1>4. l \in Seq(P)
  BY <1>2 DEF KeepGood
<1>5. DOMAIN l = 1..Len(l) /\ DOMAIN list = 1..Len(list)
  BY <1>4
<1>6. ASSUME NEW x PROVE x \in ToSet(l) <=> x \in ToSet(list) /\ x \notin gone
  <2>1. /\ x \in ToSet(l) <=> \E a \in 1..Len(l) : l[a] = x
        /\ x \in ToSet(list) <=> \E i \in 1..Len(list) : list[i] = x
    BY <1>5 DEF ToSet
  <2>2. /\ \A a \in 1..Len(l) : m[a] \in 1..Len(list) /\ l[a] = list[m[a]] /\ l[a] \notin gone
        /\ \A i \in 1..Len(list) : list[i] \notin gone => \E a \in 1..Len(l) : m[a] = i
    BY <1>3 DEF Picks
  <2>3. ASSUME NEW a \in 1..Len(l), l[a] = x PROVE x \in ToSet(list) /\ x \notin gone
    BY <2>1, <2>2, <2>3
  <2>4. ASSUME NEW i \in 1..Len(list), list[i] = x, x \notin gone PROVE x \in ToSet(l)
    BY <2>1, <2>2, <2>4
  <2>. QED BY <2>1, <2>3, <2>4
<1>7. ASSUME Once(list) PROVE Once(l)
  <2>1. ASSUME NEW j \in 1..Len(l), NEW k \in 1..Len(l), l[j] = l[k] PROVE j = k
    <3>1. m[j] \in 1..Len(list) /\ m[k] \in 1..Len(list) /\ list[m[j]] = list[m[k]]
      BY <2>1, <1>3 DEF Picks
    <3>2. m[j] = m[k]
      BY <3>1, <1>7 DEF Once
    <3>3. j < k \/ k < j \/ j = k
      OBVIOUS
    <3>. QED BY <3>1, <3>2, <3>3, <1>3 DEF Picks
  <2>. QED BY <2>1 DEF Once
<1>8. Within(l, list)
  BY <1>3 DEF Picks, Within
<1>. QED BY <1>4, <1>6, <1>7, <1>8 DEF l

\* l is s with e behind the first a elements.
Inserted(l, s, e, a, P) ==
  /\ l \in Seq(P) /\ Len(l) = Len(s) + 1
  /\ \A k \in 1..a : l[k] = s[k]
  /\ l[a + 1] = e
  /\ \A k \in a + 2..Len(s) + 1 : l[k] = s[k - 1]

LEMMA InsertAtIs ==
  ASSUME NEW P, NEW s \in Seq(P), NEW e \in P, NEW a \in 0..Len(s)
  PROVE  Inserted(InsertAt(s, a + 1, e), s, e, a, P)
<1>. DEFINE p == SubSeq(s, 1, a)  q == SubSeq(s, a + 1, Len(s))  l == (p \o <<e>>) \o q
<1>1. /\ p \in Seq(P) /\ Len(p) = a /\ \A k \in 1..a : p[k] = s[k]
  BY SubSeqProperties
<1>2. /\ q \in Seq(P) /\ Len(q) = Len(s) - a /\ \A k \in 1..Len(s) - a : q[k] = s[a + k]
  <2>1. a + 1 \in 1..Len(s) + 1 /\ Len(s) \in a..Len(s)
    OBVIOUS
  <2>. QED BY <2>1, SubSeqProperties
<1>. HIDE DEF p, q
<1>3. /\ p \o <<e>> \in Seq(P) /\ Len(p \o <<e>>) = a + 1
      /\ \A k \in 1..a : (p \o <<e>>)[k] = p[k]
      /\ (p \o <<e>>)[a + 1] = e
  BY <1>1
<1>. DEFINE r == p \o <<e>>
<1>4. r \in Seq(P) /\ Len(r) = a + 1 /\ (\A k \in 1..a : r[k] = p[k]) /\ r[a + 1] = e /\ l = r \o q
  BY <1>3
<1>. HIDE DEF r, l
<1>5. l \in Seq(P) /\ Len(l) = Len(s) + 1
  <2>1. r \o q \in Seq(P) /\ Len(r \o q) = Len(r) + Len(q)
    BY <1>2, <1>4, ConcatProperties
  <2>2. Len(r) + Len(q) = Len(s) + 1
    BY <1>2, <1>4
  <2>. QED BY <2>1, <2>2, <1>4
<1>6. \A k \in 1..a + 1 : l[k] = r[k]
  BY <1>2, <1>4
<1>7. \A k \in a + 2..Len(s) + 1 : l[k] = q[k - (a + 1)]
  BY <1>2, <1>4
<1>8. \A k \in a + 2..Len(s) + 1 : l[k] = s[k - 1]
  <2>1. ASSUME NEW k \in a + 2..Len(s) + 1 PROVE l[k] = s[k - 1]
    <3>1. k - (a + 1) \in 1..Len(s) - a /\ a + (k - (a + 1)) = k - 1
      OBVIOUS
    <3>. QED BY <3>1, <1>2, <1>7
  <2>. QED BY <2>1
<1>9. l = InsertAt(s, a + 1, e)
  <2>1. (a + 1) - 1 = a
    OBVIOUS
  <2>. QED BY <2>1 DEF InsertAt, l, p, q
<1>. QED BY <1>1, <1>4, <1>5, <1>6, <1>8, <1>9 DEF Inserted

----------------------------------------------------------------------------
(* Sums. *)

First(u) == CHOOSE x \in u : TRUE

\* The sum of f over u when it has the sums over less, and that it has them for the subsets
\* of t, or the small ones.
Value(it, f, u) == IF u = {} THEN 0 ELSE f[First(u)] + it[u \ {First(u)}]
Summing(it, f, t) == it = [u \in SUBSET t |-> Value(it, f, u)]
Small(t, n) == {u \in SUBSET t : Cardinality(u) <= n}
Started(it, f, t, n) == it = [u \in Small(t, n) |-> Value(it, f, u)]

LEMMA Smaller ==
  ASSUME NEW u, IsFiniteSet(u), NEW x \in u, NEW n \in Nat, Cardinality(u) <= n + 1
  PROVE  IsFiniteSet(u \ {x}) /\ Cardinality(u \ {x}) <= n
<1>1. IsFiniteSet(u \ {x}) /\ Cardinality(u \ {x}) = Cardinality(u) - 1
  BY FS_RemoveElement
<1>. QED BY <1>1, FS_CardinalityType

LEMMA FirstIn == ASSUME NEW u, u # {} PROVE First(u) \in u
BY DEF First

LEMMA SummingExists ==
  ASSUME NEW f, NEW t, IsFiniteSet(t)
  PROVE  \E it : Summing(it, f, t)
<1>. DEFINE S == {n \in Nat : \E it : Started(it, f, t, n)}
<1>1. 0 \in S
  <2>. DEFINE it == [u \in Small(t, 0) |-> 0]
  <2>1. ASSUME NEW u \in Small(t, 0) PROVE u = {}
    <3>1. IsFiniteSet(u) /\ Cardinality(u) \in Nat
      BY FS_Subset, FS_CardinalityType DEF Small
    <3>. QED BY <3>1, FS_EmptySet DEF Small
  <2>2. \A u \in Small(t, 0) : Value(it, f, u) = 0
    BY <2>1 DEF Value
  <2>3. it = [u \in Small(t, 0) |-> Value(it, f, u)]
    BY <2>2
  <2>. QED BY <2>3 DEF Started
<1>2. ASSUME NEW n \in Nat, n \in S PROVE n + 1 \in S
  <2>1. PICK old : Started(old, f, t, n)
    BY <1>2
  <2>. DEFINE it == [u \in Small(t, n + 1) |-> Value(old, f, u)]
  <2>2. ASSUME NEW u \in Small(t, n + 1), u # {} PROVE u \ {First(u)} \in Small(t, n)
    BY <2>2, FirstIn, Smaller, FS_Subset DEF Small
  <2>3. ASSUME NEW u \in Small(t, n) PROVE it[u] = old[u]
    <3>1. u \in Small(t, n + 1)
      BY FS_Subset, FS_CardinalityType DEF Small
    <3>2. it[u] = Value(old, f, u)
      BY <3>1
    <3>3. old[u] = Value(old, f, u)
      BY <2>1 DEF Started
    <3>. QED BY <3>2, <3>3
  <2>4. ASSUME NEW u \in Small(t, n + 1) PROVE Value(it, f, u) = Value(old, f, u)
    <3>. HIDE DEF it
    <3>. QED BY <2>2, <2>3 DEF Value
  <2>5. it = [u \in Small(t, n + 1) |-> Value(it, f, u)]
    BY <2>4
  <2>. HIDE DEF it
  <2>. QED BY <2>5 DEF Started
<1>. HIDE DEF S
<1>3. Cardinality(t) \in S
  BY <1>1, <1>2, Unlist!Induction, FS_CardinalityType
<1>4. Small(t, Cardinality(t)) = SUBSET t
  BY FS_Subset DEF Small
<1>. QED BY <1>3, <1>4 DEF S, Started, Summing

LEMMA SummingSame ==
  ASSUME NEW f, NEW g, NEW t, NEW u, IsFiniteSet(u), u \subseteq t, \A x \in u : f[x] = g[x],
         NEW it, NEW jt, Summing(it, f, t), Summing(jt, g, u)
  PROVE  it[u] = jt[u]
<1>. DEFINE S == {n \in Nat : \A v \in SUBSET u : Cardinality(v) <= n => it[v] = jt[v]}
<1>0. \A v \in SUBSET u : v \in SUBSET t
  OBVIOUS
<1>1. 0 \in S
  <2>1. ASSUME NEW v \in SUBSET u, Cardinality(v) <= 0 PROVE v = {}
    <3>1. IsFiniteSet(v) /\ Cardinality(v) \in Nat
      BY FS_Subset, FS_CardinalityType
    <3>. QED BY <2>1, <3>1, FS_EmptySet
  <2>2. it[{}] = 0 /\ jt[{}] = 0
    BY DEF Summing, Value
  <2>. QED BY <2>1, <2>2
<1>2. ASSUME NEW n \in Nat, n \in S PROVE n + 1 \in S
  <2>1. ASSUME NEW v \in SUBSET u, Cardinality(v) <= n + 1, v # {} PROVE it[v] = jt[v]
    <3>. DEFINE w == v \ {First(v)}
    <3>1. First(v) \in v /\ w \in SUBSET u /\ IsFiniteSet(v)
      BY <2>1, FirstIn, FS_Subset
    <3>2. Cardinality(w) <= n
      BY <2>1, <3>1, Smaller
    <3>3. it[w] = jt[w]
      BY <3>1, <3>2, <1>2
    <3>4. it[v] = f[First(v)] + it[w]
      BY <2>1, <1>0 DEF Summing, Value
    <3>5. jt[v] = g[First(v)] + jt[w]
      BY <2>1 DEF Summing, Value
    <3>. HIDE DEF w
    <3>. QED BY <3>1, <3>3, <3>4, <3>5
  <2>2. it[{}] = jt[{}]
    BY DEF Summing, Value
  <2>. QED BY <2>1, <2>2
<1>. HIDE DEF S
<1>3. Cardinality(u) \in S
  BY <1>1, <1>2, Unlist!Induction, FS_CardinalityType
<1>. QED BY <1>3, FS_CardinalityType DEF S

LEMMA SumIs ==
  ASSUME NEW f, IsFiniteSet(DOMAIN f), NEW it, Summing(it, f, DOMAIN f)
  PROVE  SumFunction(f) = it[DOMAIN f]
<1>1. PICK jt : Summing(jt, f, DOMAIN f) /\ SumFunction(f) = jt[DOMAIN f]
  BY DEF SumFunction, SumFunctionOnSet, FoldFunctionOnSet, MapThenFoldSet, Summing, Value, First
<1>. QED BY <1>1, SummingSame

LEMMA SumRemove ==
  ASSUME NEW f, IsFiniteSet(DOMAIN f), \A x \in DOMAIN f : f[x] \in Nat
  PROVE  /\ SumFunction(f) \in Nat
         /\ DOMAIN f = {} => SumFunction(f) = 0
         /\ \A x \in DOMAIN f : SumFunction(f) = f[x] + SumFunction(Drop(f, x))
<1>. DEFINE t == DOMAIN f
<1>1. PICK it : Summing(it, f, t)
  BY SummingExists
<1>. DEFINE S == {n \in Nat : \A v \in SUBSET t : Cardinality(v) <= n =>
                     it[v] \in Nat /\ \A x \in v : it[v] = f[x] + it[v \ {x}]}
<1>2. it[{}] = 0
  BY <1>1 DEF Summing, Value
<1>3. 0 \in S
  <2>1. ASSUME NEW v \in SUBSET t, Cardinality(v) <= 0 PROVE v = {}
    <3>1. IsFiniteSet(v) /\ Cardinality(v) \in Nat
      BY FS_Subset, FS_CardinalityType
    <3>. QED BY <2>1, <3>1, FS_EmptySet
  <2>. QED BY <2>1, <1>2
<1>4. ASSUME NEW n \in Nat, n \in S PROVE n + 1 \in S
  <2>1. ASSUME NEW v \in SUBSET t, Cardinality(v) <= n + 1, v # {}
        PROVE  it[v] \in Nat /\ \A x \in v : it[v] = f[x] + it[v \ {x}]
    <3>. DEFINE c == First(v)
    <3>1. c \in v /\ IsFiniteSet(v) /\ f[c] \in Nat
      BY <2>1, FirstIn, FS_Subset
    <3>2. it[v] = f[c] + it[v \ {c}]
      BY <2>1, <1>1 DEF Summing, Value
    <3>. HIDE DEF c
    <3>3. \A x \in v : Cardinality(v \ {x}) <= n /\ v \ {x} \in SUBSET t
      BY <2>1, <3>1, Smaller
    <3>4. \A x \in v : it[v \ {x}] \in Nat
      BY <3>3, <1>4
    <3>5. ASSUME NEW x \in v, x # c PROVE it[v] = f[x] + it[v \ {x}]
      <4>1. it[v \ {c}] = f[x] + it[(v \ {c}) \ {x}]
        BY <3>1, <3>3, <3>5, <1>4
      <4>2. it[v \ {x}] = f[c] + it[(v \ {x}) \ {c}]
        BY <3>1, <3>3, <3>5, <1>4
      <4>3. (v \ {c}) \ {x} = (v \ {x}) \ {c}
        OBVIOUS
      <4>4. (v \ {c}) \ {x} \in SUBSET t /\ Cardinality((v \ {c}) \ {x}) <= n
        <5>1. IsFiniteSet(v \ {c}) /\ x \in v \ {c} /\ Cardinality(v \ {c}) <= n + 1
          BY <3>1, <3>3, <3>5, FS_Subset, FS_CardinalityType
        <5>. QED BY <5>1, Smaller
      <4>5. it[(v \ {c}) \ {x}] \in Nat
        BY <4>4, <1>4
      <4>6. f[x] \in Nat
        OBVIOUS
      <4>7. \A a, b, r \in Nat : a + (b + r) = b + (a + r)
        OBVIOUS
      <4>8. it[v] = f[c] + (f[x] + it[(v \ {c}) \ {x}])
        BY <3>2, <4>1
      <4>9. it[v \ {x}] = f[c] + it[(v \ {c}) \ {x}]
        BY <4>2, <4>3
      <4>. QED BY <4>5, <4>6, <4>7, <4>8, <4>9, <3>1
    <3>6. it[v] \in Nat
      BY <3>1, <3>2, <3>4
    <3>7. \A x \in v : it[v] = f[x] + it[v \ {x}]
      BY <3>2, <3>5
    <3>. QED BY <3>6, <3>7
  <2>. QED BY <2>1, <1>2
<1>. HIDE DEF S
<1>5. Cardinality(t) \in S
  BY <1>3, <1>4, Unlist!Induction, FS_CardinalityType
<1>6. it[t] \in Nat /\ \A x \in t : it[t] = f[x] + it[t \ {x}]
  <2>1. t \in SUBSET t /\ Cardinality(t) <= Cardinality(t)
    BY FS_CardinalityType
  <2>2. \A v \in SUBSET t : Cardinality(v) <= Cardinality(t) =>
                     it[v] \in Nat /\ \A x \in v : it[v] = f[x] + it[v \ {x}]
    BY <1>5 DEF S
  <2>. HIDE DEF t
  <2>. QED BY <2>1, <2>2
<1>7. SumFunction(f) = it[t]
  BY <1>1, SumIs
<1>8. ASSUME NEW x \in t PROVE SumFunction(Drop(f, x)) = it[t \ {x}]
  <2>. DEFINE g == Drop(f, x)
  <2>1. DOMAIN g = t \ {x} /\ \A y \in t \ {x} : g[y] = f[y]
    BY DEF Drop
  <2>2. IsFiniteSet(DOMAIN g)
    BY <2>1, FS_Subset
  <2>. HIDE DEF g
  <2>3. PICK jt : Summing(jt, g, DOMAIN g)
    BY <2>2, SummingExists
  <2>4. SumFunction(g) = jt[DOMAIN g]
    BY <2>2, <2>3, SumIs
  <2>5. it[DOMAIN g] = jt[DOMAIN g]
    BY <1>1, <2>1, <2>2, <2>3, SummingSame
  <2>. QED BY <2>1, <2>4, <2>5 DEF g
<1>. QED BY <1>2, <1>6, <1>7, <1>8

At(f, x) == IF x \in DOMAIN f THEN f[x] ELSE 0

LEMMA SumSwap ==
  ASSUME NEW D, IsFiniteSet(D), NEW E, IsFiniteSet(E), NEW f \in [D -> Nat], NEW g \in [E -> Nat],
         NEW x, D \ {x} = E \ {x}, \A y \in D \ {x} : f[y] = g[y]
  PROVE  /\ SumFunction(f) \in Nat /\ SumFunction(g) \in Nat
         /\ SumFunction(f) + At(g, x) = SumFunction(g) + At(f, x)
<1>1. Drop(f, x) = Drop(g, x)
  BY DEF Drop
<1>. DEFINE r == SumFunction(Drop(f, x))
<1>2. /\ SumFunction(f) \in Nat /\ SumFunction(g) \in Nat
  BY SumRemove
<1>3. r \in Nat
  <2>1. IsFiniteSet(DOMAIN Drop(f, x)) /\ \A y \in DOMAIN Drop(f, x) : Drop(f, x)[y] \in Nat
    BY FS_Subset DEF Drop
  <2>. QED BY <2>1, SumRemove
<1>4. SumFunction(f) = At(f, x) + r
  <2>1. CASE x \in D
    <3>1. SumFunction(f) = f[x] + r
      BY <2>1, SumRemove
    <3>. QED BY <3>1, <2>1 DEF At
  <2>2. CASE x \notin D
    <3>1. Drop(f, x) = f
      BY <2>2 DEF Drop
    <3>2. SumFunction(f) = r /\ At(f, x) = 0
      BY <3>1, <2>2 DEF At
    <3>. QED BY <3>2, <1>3
  <2>. QED BY <2>1, <2>2
<1>5. SumFunction(g) = At(g, x) + r
  <2>1. CASE x \in E
    <3>1. SumFunction(g) = g[x] + SumFunction(Drop(g, x))
      BY <2>1, SumRemove
    <3>. QED BY <3>1, <2>1, <1>1 DEF At
  <2>2. CASE x \notin E
    <3>1. Drop(g, x) = g
      BY <2>2 DEF Drop
    <3>2. SumFunction(g) = r /\ At(g, x) = 0
      BY <3>1, <2>2, <1>1 DEF At
    <3>. QED BY <3>2, <1>3
  <2>. QED BY <2>1, <2>2
<1>6. At(f, x) \in Nat /\ At(g, x) \in Nat
  BY DEF At
<1>. HIDE DEF r
<1>. QED BY <1>2, <1>3, <1>4, <1>5, <1>6

LEMMA RRFinite == IsFiniteSet(RR) /\ RR \subseteq Nat /\ Whole \notin RR
BY IndexAssumption DEF Whole

SizeAt(sets, i) == IF i \in DOMAIN sets THEN SetSize(sets[i]) ELSE 0

LEMMA SetsSwap ==
  ASSUME NEW sets, DOMAIN sets \subseteq RR, NEW tets, DOMAIN tets \subseteq RR, NEW i,
         DOMAIN sets \ {i} = DOMAIN tets \ {i}, \A j \in DOMAIN sets \ {i} : sets[j] = tets[j]
  PROVE  /\ SetsSize(sets) \in Nat /\ SetsSize(tets) \in Nat
         /\ SetsSize(sets) + SizeAt(tets, i) = SetsSize(tets) + SizeAt(sets, i)
<1>. DEFINE f == [j \in DOMAIN sets |-> SetSize(sets[j])]
            g == [j \in DOMAIN tets |-> SetSize(tets[j])]
<1>1. \A s : SetSize(s) \in Nat
  BY DEF SetSize
<1>2. f \in [DOMAIN sets -> Nat] /\ g \in [DOMAIN tets -> Nat]
  BY <1>1
<1>3. IsFiniteSet(DOMAIN sets) /\ IsFiniteSet(DOMAIN tets)
  BY RRFinite, FS_Subset
<1>4. \A j \in DOMAIN sets \ {i} : f[j] = g[j]
  OBVIOUS
<1>5. At(f, i) = SizeAt(sets, i) /\ At(g, i) = SizeAt(tets, i)
  BY DEF At, SizeAt
<1>6. SetsSize(sets) = SumFunction(f) /\ SetsSize(tets) = SumFunction(g)
  BY DEF SetsSize
<1>. HIDE DEF f, g
<1>7. /\ SumFunction(f) \in Nat /\ SumFunction(g) \in Nat
      /\ SumFunction(f) + At(g, i) = SumFunction(g) + At(f, i)
  BY <1>2, <1>3, <1>4, SumSwap
<1>. QED BY <1>5, <1>6, <1>7

LEMMA SetsNat == ASSUME NEW sets, DOMAIN sets \subseteq RR PROVE SetsSize(sets) \in Nat
BY SetsSwap

LEMMA NoSets == ASSUME NEW sets, DOMAIN sets = {} PROVE SetsSize(sets) = 0
<1>. DEFINE f == [j \in DOMAIN sets |-> SetSize(sets[j])]
<1>1. DOMAIN f = {} /\ IsFiniteSet(DOMAIN f) /\ \A x \in DOMAIN f : f[x] \in Nat
  BY FS_EmptySet
<1>2. SetsSize(sets) = SumFunction(f)
  BY DEF SetsSize
<1>. HIDE DEF f
<1>. QED BY <1>1, <1>2, SumRemove

CsSum(ent) == SumFunction([n \in DOMAIN ent |-> ent[n].cs])
CsAt(ent, n) == IF n \in DOMAIN ent THEN ent[n].cs ELSE 0

LEMMA CsSwap ==
  ASSUME NEW ent, IsFiniteSet(DOMAIN ent), NEW fnt, IsFiniteSet(DOMAIN fnt), NEW n,
         \A m \in DOMAIN ent : ent[m].cs \in Nat, \A m \in DOMAIN fnt : fnt[m].cs \in Nat,
         DOMAIN ent \ {n} = DOMAIN fnt \ {n}, \A m \in DOMAIN ent \ {n} : ent[m] = fnt[m]
  PROVE  /\ CsSum(ent) \in Nat /\ CsSum(fnt) \in Nat
         /\ CsSum(ent) + CsAt(fnt, n) = CsSum(fnt) + CsAt(ent, n)
<1>. DEFINE f == [m \in DOMAIN ent |-> ent[m].cs]
            g == [m \in DOMAIN fnt |-> fnt[m].cs]
<1>2. f \in [DOMAIN ent -> Nat] /\ g \in [DOMAIN fnt -> Nat]
  OBVIOUS
<1>4. ASSUME NEW m \in DOMAIN ent \ {n} PROVE f[m] = g[m]
  <2>1. m \in DOMAIN ent /\ m \in DOMAIN fnt /\ ent[m] = fnt[m]
    OBVIOUS
  <2>. QED BY <2>1
<1>5. At(f, n) = CsAt(ent, n) /\ At(g, n) = CsAt(fnt, n)
  BY DEF At, CsAt
<1>6. CsSum(ent) = SumFunction(f) /\ CsSum(fnt) = SumFunction(g)
  BY DEF CsSum
<1>. HIDE DEF f, g
<1>7. /\ SumFunction(f) \in Nat /\ SumFunction(g) \in Nat
      /\ SumFunction(f) + At(g, n) = SumFunction(g) + At(f, n)
  BY <1>2, <1>4, SumSwap
<1>. QED BY <1>5, <1>6, <1>7

LEMMA NoCs == ASSUME NEW ent, DOMAIN ent = {} PROVE CsSum(ent) = 0
<1>. DEFINE f == [m \in DOMAIN ent |-> ent[m].cs]
<1>1. DOMAIN f = {} /\ IsFiniteSet(DOMAIN f) /\ \A x \in DOMAIN f : f[x] \in Nat
  BY FS_EmptySet
<1>2. CsSum(ent) = SumFunction(f)
  BY DEF CsSum
<1>. HIDE DEF f
<1>. QED BY <1>1, <1>2, SumRemove

----------------------------------------------------------------------------
(* What the books are. *)

CacheFields == {"ent", "rrl", "size", "insert_sort"}
EntFields == {"neg", "local", "ext", "cs", "ttl", "ts", "sets"}
SetFields == {"ttl", "local", "negative", "additional", "rootserv", "nopurge", "nocache", "ts"}

SetOK(s) == DOMAIN s = SetFields /\ s.ts \in Int

EntOK(e) ==
  /\ DOMAIN e = EntFields /\ e.ts \in Int /\ e.ext \in BOOLEAN
  /\ DOMAIN e.sets \subseteq RR
  /\ \A i \in DOMAIN e.sets : SetOK(e.sets[i])
  /\ e.cs = CentSize + SetsSize(e.sets) + (IF e.ext THEN RrextSize ELSE 0)
  /\ DOMAIN e.sets \intersect EXT # {} => e.ext
  /\ e.neg => DOMAIN e.sets = {}

Pairs == Names \X ({Whole} \union RR)

IsListed(c, n, i) ==
  /\ n \in DOMAIN c.ent /\ ~c.ent[n].local
  /\ IF i = Whole THEN c.ent[n].neg ELSE i \in DOMAIN c.ent[n].sets /\ ~c.ent[n].sets[i].local

\* The cache's fields, the entries each for itself, the elements of the list.
Shape(c) ==
  /\ DOMAIN c = CacheFields
  /\ DOMAIN c.ent \subseteq Names /\ IsFiniteSet(DOMAIN c.ent)
  /\ \A n \in DOMAIN c.ent : EntOK(c.ent[n])
  /\ c.rrl \in Seq(Pairs) /\ c.size \in Int

ListOK(c) ==
  /\ Once(c.rrl)
  /\ \A le \in Pairs : le \in ToSet(c.rrl) <=> IsListed(c, le[1], le[2])

\* The books, while cache_size is short of what the entries take.
Books(c, owed) == Shape(c) /\ c.size + owed = CsSum(c.ent) /\ ListOK(c)

Ordered(c) ==
  c.insert_sort => \A j, k \in 1..Len(c.rrl) : j < k => TsOf(c, c.rrl[j]) <= TsOf(c, c.rrl[k])

LEMMA CsNat == ASSUME NEW e, EntOK(e) PROVE e.cs \in Nat /\ e.cs >= CentSize
BY SetsNat DEF EntOK, CentSize, RrextSize

\* Only the entry n has changed, was added or deleted, and the list and cache_size follow.
Recorded(c, d, n, owed, owing) ==
  /\ DOMAIN d = CacheFields /\ DOMAIN d.ent \ {n} = DOMAIN c.ent \ {n}
  /\ \A m \in DOMAIN c.ent \ {n} : d.ent[m] = c.ent[m]
  /\ n \in DOMAIN d.ent => EntOK(d.ent[n])
  /\ d.rrl \in Seq(Pairs) /\ d.size \in Int /\ Once(d.rrl)
  /\ \A le \in Pairs : le[1] = n => (le \in ToSet(d.rrl) <=> IsListed(d, n, le[2]))
  /\ \A le \in Pairs : le[1] # n => (le \in ToSet(d.rrl) <=> le \in ToSet(c.rrl))
  /\ d.size + owing + CsAt(c.ent, n) = c.size + owed + CsAt(d.ent, n)

LEMMA Rebook ==
  ASSUME NEW c, NEW owed \in Int, Books(c, owed), NEW d, NEW owing \in Int, NEW n \in Names,
         Recorded(c, d, n, owed, owing)
  PROVE  Books(d, owing)
<1>. USE DEF Recorded
<1>1. Shape(c)
  BY DEF Books
<1>2. DOMAIN d.ent \subseteq Names /\ IsFiniteSet(DOMAIN d.ent)
  <2>1. IsFiniteSet(DOMAIN c.ent \union {n})
    BY <1>1, FS_AddElement DEF Shape
  <2>2. DOMAIN d.ent \subseteq DOMAIN c.ent \union {n}
    OBVIOUS
  <2>. QED BY <2>1, <2>2, <1>1, FS_Subset DEF Shape
<1>3. \A m \in DOMAIN d.ent : EntOK(d.ent[m])
  BY <1>1 DEF Shape
<1>4. Shape(d)
  BY <1>2, <1>3 DEF Shape
<1>5. d.size + owing = CsSum(d.ent)
  <2>1. \A m \in DOMAIN c.ent : c.ent[m].cs \in Nat
    BY <1>1, CsNat DEF Shape
  <2>2. \A m \in DOMAIN d.ent : d.ent[m].cs \in Nat
    BY <1>3, CsNat
  <2>3. IsFiniteSet(DOMAIN c.ent)
    BY <1>1 DEF Shape
  <2>4. \A m \in DOMAIN c.ent \ {n} : c.ent[m] = d.ent[m]
    OBVIOUS
  <2>5. /\ CsSum(c.ent) \in Nat /\ CsSum(d.ent) \in Nat
        /\ CsSum(c.ent) + CsAt(d.ent, n) = CsSum(d.ent) + CsAt(c.ent, n)
    <3>1. DOMAIN c.ent \ {n} = DOMAIN d.ent \ {n}
      OBVIOUS
    <3>. QED BY <3>1, <2>1, <2>2, <2>3, <2>4, <1>2, CsSwap
  <2>6. CsAt(c.ent, n) \in Nat /\ CsAt(d.ent, n) \in Nat
    BY <2>1, <2>2 DEF CsAt
  <2>7. c.size \in Int /\ c.size + owed = CsSum(c.ent)
    BY DEF Books, Shape
  <2>. QED BY <2>5, <2>6, <2>7
<1>6. ASSUME NEW le \in Pairs PROVE le \in ToSet(d.rrl) <=> IsListed(d, le[1], le[2])
  <2>1. CASE le[1] = n
    BY <2>1
  <2>2. CASE le[1] # n
    <3>1. le \in ToSet(d.rrl) <=> IsListed(c, le[1], le[2])
      BY <2>2 DEF Books, ListOK
    <3>2. le[1] \in DOMAIN c.ent <=> le[1] \in DOMAIN d.ent
      BY <2>2
    <3>3. le[1] \in DOMAIN c.ent => d.ent[le[1]] = c.ent[le[1]]
      BY <2>2
    <3>. QED BY <3>1, <3>2, <3>3 DEF IsListed
  <2>. QED BY <2>1, <2>2
<1>. QED BY <1>4, <1>5, <1>6 DEF Books, ListOK

LEMMA Reorder ==
  ASSUME NEW c, NEW d, Ordered(c), c.rrl \in Seq(Pairs), d.rrl \in Seq(Pairs),
         Within(d.rrl, c.rrl), d.insert_sort = c.insert_sort,
         \A le \in ToSet(d.rrl) : TsOf(d, le) = TsOf(c, le)
  PROVE  Ordered(d)
<1>1. SUFFICES ASSUME d.insert_sort, NEW j \in 1..Len(d.rrl), NEW k \in 1..Len(d.rrl), j < k
               PROVE  TsOf(d, d.rrl[j]) <= TsOf(d, d.rrl[k])
  BY DEF Ordered
<1>2. PICK a \in 1..Len(c.rrl), b \in 1..Len(c.rrl) :
         a < b /\ d.rrl[j] = c.rrl[a] /\ d.rrl[k] = c.rrl[b]
  BY <1>1 DEF Within
<1>3. TsOf(c, c.rrl[a]) <= TsOf(c, c.rrl[b])
  BY <1>1, <1>2 DEF Ordered
<1>4. d.rrl[j] \in ToSet(d.rrl) /\ d.rrl[k] \in ToSet(d.rrl)
  BY DEF ToSet
<1>. QED BY <1>2, <1>3, <1>4

----------------------------------------------------------------------------
(* Listing. *)

\* insert_rrl goes behind what is as old.
LEMMA AfterIs ==
  ASSUME NEW c, c.rrl \in Seq(Pairs), NEW le, c.insert_sort
  PROVE  LET a == After(c, le)
         IN  /\ a \in 0..Len(c.rrl)
             /\ a > 0 => TsOf(c, c.rrl[a]) <= TsOf(c, le)
             /\ \A k \in 1..Len(c.rrl) : k > a => ~(TsOf(c, c.rrl[k]) <= TsOf(c, le))
<1>. DEFINE older == {k \in 1..Len(c.rrl) : TsOf(c, c.rrl[k]) <= TsOf(c, le)}
            t == {0} \union older
<1>1. Len(c.rrl) \in Nat
  OBVIOUS
<1>2. \E x \in t : \A y \in t : x >= y
  <2>1. CASE older = {}
    BY <2>1
  <2>2. CASE older # {}
    <3>1. older \subseteq 1..Len(c.rrl)
      OBVIOUS
    <3>2. Unlist!Max(older) \in older /\ \A y \in older : y <= Unlist!Max(older)
      <4>. HIDE DEF older
      <4>. QED BY <2>2, <3>1, <1>1, Unlist!MaxExists
    <3>3. \A y \in older : y \in 1..Len(c.rrl)
      OBVIOUS
    <3>. HIDE DEF older
    <3>. DEFINE x == Unlist!Max(older)
    <3>4. x \in older /\ x \in 1..Len(c.rrl) /\ \A y \in older : x >= y
      BY <3>2, <3>3
    <3>. HIDE DEF x
    <3>. QED BY <3>4, <3>3
  <2>. QED BY <2>1, <2>2
<1>. DEFINE m == CHOOSE x \in t : \A y \in t : x >= y
<1>3. m \in t /\ \A y \in t : m >= y
  BY <1>2
<1>4. After(c, le) = m
  BY DEF After, Max
<1>. HIDE DEF m
<1>5. m \in 0..Len(c.rrl) /\ (m > 0 => m \in older) /\ \A y \in older : m >= y
  BY <1>1, <1>3
<1>. QED BY <1>4, <1>5

LEMMA AfterIn ==
  ASSUME NEW c, c.rrl \in Seq(Pairs), NEW le
  PROVE  After(c, le) \in 0..Len(c.rrl)
<1>1. CASE c.insert_sort
  BY <1>1, AfterIs
<1>2. CASE ~c.insert_sort
  BY <1>2 DEF After
<1>. QED BY <1>1, <1>2

Blocked(c, n, i) == c.ent[n].local \/ (i # Whole /\ c.ent[n].sets[i].local)

LEMMA InsertRrlIs ==
  ASSUME NEW c, DOMAIN c = CacheFields, c.rrl \in Seq(Pairs), NEW n, NEW i, <<n, i>> \in Pairs,
         <<n, i>> \notin ToSet(c.rrl), TsOf(c, <<n, i>>) \in Int,
         \A le \in ToSet(c.rrl) : TsOf(c, le) \in Int
  PROVE  LET d == InsertRrl(c, n, i)
         IN  /\ DOMAIN d = CacheFields /\ d.ent = c.ent /\ d.size = c.size
             /\ d.insert_sort = c.insert_sort /\ d.rrl \in Seq(Pairs)
             /\ Blocked(c, n, i) => d.rrl = c.rrl
             /\ ~Blocked(c, n, i) =>
                  \A le : le \in ToSet(d.rrl) <=> le \in ToSet(c.rrl) \/ le = <<n, i>>
             /\ Once(c.rrl) => Once(d.rrl)
             /\ Ordered(c) => Ordered(d)
<1>. DEFINE e == <<n, i>>  a == After(c, e)  s == c.rrl  l == InsertAt(s, a + 1, e)
            d == InsertRrl(c, n, i)
<1>1. CASE Blocked(c, n, i)
  BY <1>1 DEF InsertRrl, Blocked
<1>2. CASE ~Blocked(c, n, i)
  <2>1. a \in 0..Len(s)
    BY AfterIn
  <2>2. /\ DOMAIN d = CacheFields /\ d.ent = c.ent /\ d.size = c.size
        /\ d.insert_sort = c.insert_sort /\ d.rrl = l
    BY <1>2 DEF InsertRrl, Blocked, CacheFields
  <2>3. /\ l \in Seq(Pairs) /\ Len(l) = Len(s) + 1
        /\ \A k \in 1..a : l[k] = s[k]
        /\ l[a + 1] = e
        /\ \A k \in a + 2..Len(s) + 1 : l[k] = s[k - 1]
    <3>1. e \in Pairs /\ s \in Seq(Pairs)
      OBVIOUS
    <3>. HIDE DEF a, e, s
    <3>2. Inserted(InsertAt(s, a + 1, e), s, e, a, Pairs)
      BY <2>1, <3>1, InsertAtIs
    <3>. HIDE DEF l
    <3>3. Inserted(l, s, e, a, Pairs)
      BY <3>2 DEF l
    <3>. QED BY <3>3 DEF Inserted
  <2>4. ASSUME Ordered(c), c.insert_sort PROVE Ordered(d)
    <3>1. /\ a > 0 => TsOf(c, s[a]) <= TsOf(c, e)
          /\ \A k \in 1..Len(s) : k > a => ~(TsOf(c, s[k]) <= TsOf(c, e))
      BY <2>4, AfterIs
    <3>. DEFINE old(k) == TsOf(c, s[k])  new(k) == TsOf(d, l[k])  x == TsOf(c, e)
    <3>2. \A k \in 1..Len(s) : old(k) \in Int
      BY DEF ToSet
    <3>3. \A j, k \in 1..Len(s) : j < k => old(j) <= old(k)
      BY <2>4 DEF Ordered
    <3>4. \A le : TsOf(d, le) = TsOf(c, le)
      BY <2>2 DEF TsOf
    <3>. HIDE DEF e, a, d, l
    <3>5. /\ \A k \in 1..a : new(k) = old(k)
          /\ new(a + 1) = x
          /\ \A k \in a + 2..Len(s) + 1 : new(k) = old(k - 1)
      BY <2>3, <3>4
    <3>6. x \in Int /\ Len(s) \in Nat
      BY DEF e
    <3>7. (a > 0 => old(a) <= x) /\ \A k \in 1..Len(s) : k > a => x <= old(k)
      BY <3>1, <3>2, <3>6
    <3>. HIDE DEF old, new, x, s
    <3>8. \A k \in 1..a : old(k) <= x
      <4>1. ASSUME NEW k \in 1..a PROVE old(k) <= x
        <5>1. k = a \/ k < a
          BY <2>1
        <5>2. a \in 1..Len(s) /\ k \in 1..Len(s) /\ old(a) <= x
          BY <2>1, <3>6, <3>7
        <5>. QED BY <5>1, <5>2, <3>2, <3>3, <3>6
      <4>. QED BY <4>1
    <3>9. ASSUME NEW j \in 1..Len(s) + 1, NEW k \in 1..Len(s) + 1, j < k PROVE new(j) <= new(k)
      <4>1. CASE k <= a
        <5>1. j \in 1..a /\ k \in 1..a /\ j \in 1..Len(s) /\ k \in 1..Len(s)
          BY <4>1, <3>6, <3>9, <2>1
        <5>. QED BY <5>1, <3>3, <3>5, <3>9
      <4>2. CASE k = a + 1
        <5>1. j \in 1..a
          BY <4>2, <3>6, <3>9, <2>1
        <5>. QED BY <5>1, <4>2, <3>5, <3>8
      <4>3. CASE k > a + 1 /\ j > a + 1
        <5>1. /\ j \in a + 2..Len(s) + 1 /\ k \in a + 2..Len(s) + 1
              /\ j - 1 \in 1..Len(s) /\ k - 1 \in 1..Len(s) /\ j - 1 < k - 1
          BY <4>3, <3>6, <3>9, <2>1
        <5>. QED BY <5>1, <3>3, <3>5
      <4>4. CASE k > a + 1 /\ j = a + 1
        <5>1. k \in a + 2..Len(s) + 1 /\ k - 1 \in 1..Len(s) /\ k - 1 > a
          BY <4>4, <3>6, <3>9, <2>1
        <5>. QED BY <5>1, <4>4, <3>5, <3>7
      <4>5. CASE k > a + 1 /\ j <= a
        <5>1. /\ k \in a + 2..Len(s) + 1 /\ k - 1 \in 1..Len(s) /\ k - 1 > a
              /\ j \in 1..a /\ j \in 1..Len(s)
          BY <4>5, <3>6, <3>9, <2>1
        <5>2. old(j) <= x /\ x <= old(k - 1) /\ old(j) \in Int /\ old(k - 1) \in Int
          BY <5>1, <3>2, <3>7, <3>8
        <5>3. new(j) = old(j) /\ new(k) = old(k - 1)
          BY <5>1, <3>5
        <5>. QED BY <5>2, <5>3, <3>6
      <4>. QED BY <4>1, <4>2, <4>3, <4>4, <4>5, <3>6, <2>1
    <3>10. Ordered(d)
      BY <3>9, <2>2, <2>3 DEF Ordered, new, s
    <3>. QED BY <3>10
  <2>5. Ordered(c) => Ordered(d)
    <3>1. CASE ~c.insert_sort
      BY <3>1, <2>2 DEF Ordered
    <3>. QED BY <3>1, <2>4
  <2>. HIDE DEF d, l, a
  <2>6. DOMAIN s = 1..Len(s) /\ DOMAIN l = 1..Len(l) /\ Len(s) \in Nat
    BY <2>3
  <2>7. ASSUME NEW le PROVE le \in ToSet(l) <=> le \in ToSet(s) \/ le = e
    <3>1. ASSUME le \in ToSet(l) PROVE le \in ToSet(s) \/ le = e
      <4>1. PICK k \in 1..Len(l) : le = l[k]
        BY <3>1, <2>6 DEF ToSet
      <4>2. k \in 1..a \/ k = a + 1 \/ k \in a + 2..Len(s) + 1
        BY <2>1, <2>3, <2>6
      <4>3. CASE k \in 1..a
        <5>1. le = s[k] /\ k \in 1..Len(s)
          BY <4>1, <4>3, <2>1, <2>3, <2>6
        <5>. QED BY <5>1, <2>6 DEF ToSet
      <4>4. CASE k \in a + 2..Len(s) + 1
        <5>1. le = s[k - 1] /\ k - 1 \in 1..Len(s)
          BY <4>1, <4>4, <2>1, <2>3, <2>6
        <5>. QED BY <5>1, <2>6 DEF ToSet
      <4>. QED BY <4>1, <4>2, <4>3, <4>4, <2>3
    <3>2. ASSUME le \in ToSet(s) PROVE le \in ToSet(l)
      <4>1. PICK k \in 1..Len(s) : le = s[k]
        BY <3>2, <2>6 DEF ToSet
      <4>2. CASE k <= a
        <5>1. k \in 1..a /\ k \in 1..Len(l)
          BY <4>2, <2>1, <2>3, <2>6
        <5>. QED BY <5>1, <4>1, <2>3, <2>6 DEF ToSet
      <4>3. CASE k > a
        <5>1. k + 1 \in a + 2..Len(s) + 1 /\ k + 1 \in 1..Len(l) /\ (k + 1) - 1 = k
          BY <4>3, <2>1, <2>3, <2>6
        <5>2. l[k + 1] = s[k]
          BY <5>1, <2>3
        <5>. QED BY <5>1, <5>2, <4>1, <2>6 DEF ToSet
      <4>. QED BY <4>2, <4>3, <2>1, <2>6
    <3>3. e \in ToSet(l)
      <4>1. a + 1 \in 1..Len(l)
        BY <2>1, <2>3, <2>6
      <4>. QED BY <4>1, <2>3, <2>6 DEF ToSet
    <3>. QED BY <3>1, <3>2, <3>3
  <2>8. ASSUME Once(s) PROVE Once(l)
    <3>. DEFINE P(k) == IF k <= a THEN k ELSE k - 1
    <3>1. ASSUME NEW k \in 1..Len(l), k # a + 1 PROVE P(k) \in 1..Len(s) /\ l[k] = s[P(k)] /\ l[k] # e
      <4>1. CASE k <= a
        <5>1. k \in 1..a /\ k \in 1..Len(s) /\ P(k) = k
          BY <4>1, <2>1, <2>3, <2>6
        <5>. QED BY <5>1, <2>3, <2>6 DEF ToSet
      <4>2. CASE k > a
        <5>1. k \in a + 2..Len(s) + 1 /\ k - 1 \in 1..Len(s) /\ P(k) = k - 1
          BY <4>2, <3>1, <2>1, <2>3, <2>6
        <5>. QED BY <5>1, <2>3, <2>6 DEF ToSet
      <4>. QED BY <4>1, <4>2, <2>1, <2>6
    <3>2. ASSUME NEW j \in 1..Len(l), NEW k \in 1..Len(l), l[j] = l[k] PROVE j = k
      <4>1. CASE j = a + 1 \/ k = a + 1
        BY <4>1, <3>1, <3>2, <2>3
      <4>2. CASE j # a + 1 /\ k # a + 1
        <5>1. P(j) = P(k)
          BY <4>2, <3>1, <3>2, <2>8 DEF Once
        <5>. QED BY <5>1, <4>2, <2>1, <2>6
      <4>. QED BY <4>1, <4>2
    <3>. QED BY <3>2 DEF Once
  <2>. HIDE DEF e, s
  <2>9. d.rrl \in Seq(Pairs) /\ (Once(c.rrl) => Once(d.rrl))
        /\ \A le : le \in ToSet(d.rrl) <=> le \in ToSet(c.rrl) \/ le = e
    BY <2>2, <2>3, <2>7, <2>8 DEF s
  <2>. QED BY <1>2, <2>2, <2>5, <2>9 DEF d, e
<1>. QED BY <1>1, <1>2

----------------------------------------------------------------------------
(* Deleting. *)

LEMMA ListedEntry ==
  ASSUME NEW c, NEW owed, Books(c, owed), NEW le \in ToSet(c.rrl)
  PROVE  /\ le \in Pairs /\ le = <<le[1], le[2]>>
         /\ IsListed(c, le[1], le[2]) /\ le[1] \in DOMAIN c.ent /\ EntOK(c.ent[le[1]])
<1>1. c.rrl \in Seq(Pairs)
  BY DEF Books, Shape
<1>2. le \in Pairs
  BY <1>1 DEF ToSet
<1>3. IsListed(c, le[1], le[2])
  BY <1>2 DEF Books, ListOK
<1>4. le = <<le[1], le[2]>>
  BY <1>2 DEF Pairs
<1>. QED BY <1>2, <1>3, <1>4 DEF IsListed, Books, Shape

LEMMA ListedTs ==
  ASSUME NEW c, NEW owed, Books(c, owed)
  PROVE  \A le \in ToSet(c.rrl) : TsOf(c, le) \in Int
<1>1. ASSUME NEW le \in ToSet(c.rrl) PROVE TsOf(c, le) \in Int
  <2>1. IsListed(c, le[1], le[2]) /\ EntOK(c.ent[le[1]])
    BY ListedEntry
  <2>. QED BY <2>1 DEF IsListed, EntOK, SetOK, TsOf
<1>. QED BY <1>1

\* All but the entry n, the list and the size are the same.
Apart(c, d, n) ==
  /\ DOMAIN d = CacheFields /\ d.insert_sort = c.insert_sort
  /\ DOMAIN d.ent = DOMAIN c.ent /\ \A m \in DOMAIN c.ent \ {n} : d.ent[m] = c.ent[m]

\* n has lost the set i, which is not on the list any more.
SetGone(c, d, n, i) ==
  /\ Apart(c, d, n)
  /\ d.ent[n].local = c.ent[n].local /\ d.ent[n].neg = c.ent[n].neg
  /\ DOMAIN d.ent[n].sets = DOMAIN c.ent[n].sets \ {i}
  /\ \A j \in DOMAIN d.ent[n].sets : d.ent[n].sets[j] = c.ent[n].sets[j]
  /\ \A le : le \in ToSet(d.rrl) <=> le \in ToSet(c.rrl) /\ le # <<n, i>>

LEMMA DelSetIs ==
  ASSUME NEW c, NEW owed \in Int, Books(c, owed), NEW n \in DOMAIN c.ent,
         NEW i \in DOMAIN c.ent[n].sets
  PROVE  LET d == DelSet(c, n, i)
         IN  /\ SetGone(c, d, n, i) /\ d.size = c.size
             /\ Books(d, owed - SetSize(c.ent[n].sets[i]))
             /\ Ordered(c) => Ordered(d)
<1>. DEFINE e == c.ent[n]  z == SetSize(e.sets[i])  d == DelSet(c, n, i)
            f == [e EXCEPT !.sets = Drop(@, i), !.cs = @ - z]
<1>1. /\ DOMAIN c = CacheFields /\ DOMAIN c.ent \subseteq Names /\ c.rrl \in Seq(Pairs)
      /\ EntOK(e) /\ c.size \in Int
  BY DEF Books, Shape
<1>2. d = [RemoveRrl(c, <<n, i>>) EXCEPT !.ent[n] = f]
  BY <1>1 DEF DelSet, RemoveRrl, CacheFields
<1>3. f.sets = Drop(e.sets, i) /\ f.cs = e.cs - z /\ DOMAIN f = EntFields /\ f.local = e.local
      /\ f.neg = e.neg /\ f.ext = e.ext /\ f.ts = e.ts
  BY <1>1 DEF EntOK, EntFields
<1>4. DOMAIN f.sets = DOMAIN e.sets \ {i} /\ \A j \in DOMAIN f.sets : f.sets[j] = e.sets[j]
  BY <1>3 DEF Drop
<1>5. z \in Nat
  BY DEF SetSize
<1>. HIDE DEF f, z
<1>6. /\ DOMAIN d = CacheFields /\ d.insert_sort = c.insert_sort /\ d.size = c.size
      /\ d.rrl = Unlisted(c.rrl, {<<n, i>>}) /\ d.ent = [c.ent EXCEPT ![n] = f]
  BY <1>1, <1>2 DEF RemoveRrl, CacheFields
<1>7. /\ DOMAIN d.ent = DOMAIN c.ent /\ d.ent[n] = f
      /\ \A m \in DOMAIN c.ent \ {n} : d.ent[m] = c.ent[m]
  BY <1>6
<1>. HIDE DEF d, e
<1>8. /\ d.rrl \in Seq(Pairs) /\ (Once(c.rrl) => Once(d.rrl)) /\ Within(d.rrl, c.rrl)
      /\ \A le : le \in ToSet(d.rrl) <=> le \in ToSet(c.rrl) /\ le # <<n, i>>
  BY <1>1, <1>6, UnlistedIs
<1>9. SetGone(c, d, n, i)
  BY <1>3, <1>4, <1>6, <1>7, <1>8 DEF SetGone, Apart, e
<1>10. i \in RR /\ i # Whole
  BY <1>1, RRFinite DEF EntOK, e
<1>11. EntOK(f)
  <2>1. SetsSize(e.sets) \in Nat /\ SetsSize(f.sets) \in Nat /\ SetsSize(f.sets) = SetsSize(e.sets) - z
    <3>1. /\ DOMAIN e.sets \subseteq RR /\ DOMAIN f.sets \subseteq RR
          /\ DOMAIN e.sets \ {i} = DOMAIN f.sets \ {i}
          /\ \A j \in DOMAIN e.sets \ {i} : e.sets[j] = f.sets[j]
      BY <1>1, <1>4 DEF EntOK
    <3>2. SizeAt(f.sets, i) = 0 /\ SizeAt(e.sets, i) = z
      BY <1>4 DEF SizeAt, z, e
    <3>. QED BY <3>1, <3>2, <1>5, SetsSwap
  <2>2. f.cs = CentSize + SetsSize(f.sets) + (IF f.ext THEN RrextSize ELSE 0)
    BY <2>1, <1>1, <1>3, <1>5 DEF EntOK, CentSize, RrextSize
  <2>3. \A j \in DOMAIN f.sets : SetOK(f.sets[j])
    BY <1>1, <1>4 DEF EntOK
  <2>4. /\ DOMAIN f.sets \subseteq RR /\ f.ts \in Int /\ f.ext \in BOOLEAN
        /\ (DOMAIN f.sets \intersect EXT # {} => f.ext) /\ (f.neg => DOMAIN f.sets = {})
    BY <1>1, <1>3, <1>4 DEF EntOK
  <2>. QED BY <2>2, <2>3, <2>4, <1>3 DEF EntOK
<1>12. ASSUME NEW le \in Pairs, le[1] = n
       PROVE  le \in ToSet(d.rrl) <=> IsListed(d, n, le[2])
  <2>1. le = <<n, le[2]>>
    BY <1>12 DEF Pairs
  <2>2. le \in ToSet(c.rrl) <=> IsListed(c, n, le[2])
    BY <1>12 DEF Books, ListOK
  <2>3. le # <<n, i>> <=> le[2] # i
    BY <2>1
  <2>4. IsListed(d, n, le[2]) <=> IsListed(c, n, le[2]) /\ le[2] # i
    BY <1>3, <1>4, <1>7, <1>10, <1>1 DEF IsListed, e, EntOK
  <2>. QED BY <2>2, <2>3, <2>4, <1>8
<1>13. ASSUME NEW le \in Pairs, le[1] # n PROVE le \in ToSet(d.rrl) <=> le \in ToSet(c.rrl)
  BY <1>8, <1>13
<1>14. Books(d, owed - z)
  <2>1. n \in Names /\ owed - z \in Int
    BY <1>1, <1>5
  <2>2. d.size + (owed - z) + CsAt(c.ent, n) = c.size + owed + CsAt(d.ent, n)
    <3>1. CsAt(c.ent, n) = e.cs /\ CsAt(d.ent, n) = f.cs /\ e.cs \in Nat
      BY <1>1, <1>7, CsNat DEF CsAt, e
    <3>. QED BY <3>1, <1>1, <1>3, <1>5, <1>6
  <2>3. Once(d.rrl) /\ d.size \in Int
    BY <1>1, <1>6, <1>8 DEF Books, ListOK
  <2>4. Recorded(c, d, n, owed, owed - z)
    BY <2>2, <2>3, <1>6, <1>7, <1>8, <1>11, <1>12, <1>13 DEF Recorded
  <2>. QED BY <2>1, <2>4, Rebook
<1>15. ASSUME Ordered(c) PROVE Ordered(d)
  <2>1. ASSUME NEW le \in ToSet(d.rrl) PROVE TsOf(d, le) = TsOf(c, le)
    <3>1. le \in ToSet(c.rrl) /\ le # <<n, i>>
      BY <1>8
    <3>2. le = <<le[1], le[2]>> /\ IsListed(c, le[1], le[2])
      BY <3>1, ListedEntry
    <3>3. CASE le[1] = n
      <4>1. le[2] # i
        BY <3>1, <3>2, <3>3
      <4>2. CASE le[2] = Whole
        BY <4>2, <3>3, <1>3, <1>7 DEF TsOf, e
      <4>3. CASE le[2] # Whole
        <5>1. le[2] \in DOMAIN f.sets
          BY <4>1, <4>3, <3>2, <3>3, <1>4 DEF IsListed, e
        <5>. QED BY <5>1, <4>3, <3>3, <1>4, <1>7 DEF TsOf, e
      <4>. QED BY <4>2, <4>3
    <3>4. CASE le[1] # n
      <4>1. d.ent[le[1]] = c.ent[le[1]]
        BY <3>2, <3>4, <1>7 DEF IsListed
      <4>. QED BY <4>1 DEF TsOf
    <3>. QED BY <3>3, <3>4
  <2>. QED BY <2>1, <1>1, <1>6, <1>8, <1>15, Reorder
<1>. QED BY <1>6, <1>9, <1>14, <1>15 DEF d, z, e

LEMMA Resized ==
  ASSUME NEW c, NEW owed \in Int, Books(c, owed), NEW x \in Int, NEW owing \in Int,
         x + owing = c.size + owed
  PROVE  LET d == [c EXCEPT !.size = x]
         IN  /\ Books(d, owing) /\ DOMAIN d = CacheFields /\ d.ent = c.ent /\ d.rrl = c.rrl
             /\ d.insert_sort = c.insert_sort /\ d.size = x
             /\ Ordered(c) => Ordered(d)
<1>. DEFINE d == [c EXCEPT !.size = x]
<1>1. /\ DOMAIN d = CacheFields /\ d.ent = c.ent /\ d.rrl = c.rrl
      /\ d.insert_sort = c.insert_sort /\ d.size = x
  BY DEF Books, Shape, CacheFields
<1>. HIDE DEF d
<1>2. \A le : TsOf(d, le) = TsOf(c, le)
  BY <1>1 DEF TsOf
<1>3. Ordered(c) => Ordered(d)
  BY <1>1, <1>2 DEF Ordered
<1>4. \A n, i : IsListed(d, n, i) <=> IsListed(c, n, i)
  BY <1>1 DEF IsListed
<1>5. Books(d, owing)
  BY <1>1, <1>4 DEF Books, Shape, ListOK
<1>. QED BY <1>1, <1>3, <1>5 DEF d

LEMMA DelSetChargedIs ==
  ASSUME NEW c, NEW owed \in Int, Books(c, owed), NEW n \in DOMAIN c.ent,
         NEW i \in DOMAIN c.ent[n].sets
  PROVE  LET d == DelSetCharged(c, n, i)
         IN  /\ SetGone(c, d, n, i) /\ d.size <= c.size
             /\ Books(d, owed)
             /\ Ordered(c) => Ordered(d)
<1>. DEFINE b == DelSet(c, n, i)  z == SetSize(c.ent[n].sets[i])  d == DelSetCharged(c, n, i)
<1>1. /\ SetGone(c, b, n, i) /\ b.size = c.size /\ Books(b, owed - z)
      /\ Ordered(c) => Ordered(b)
  BY DelSetIs
<1>2. z \in Nat /\ owed - z \in Int /\ b.size - z \in Int /\ c.size \in Int
  <2>1. z \in Nat
    BY DEF SetSize
  <2>. QED BY <2>1, <1>1 DEF Books, Shape
<1>3. d = [b EXCEPT !.size = b.size - z]
  BY DEF DelSetCharged
<1>. HIDE DEF b, z, d
<1>4. b.size - z + owed = b.size + (owed - z)
  BY <1>1, <1>2
<1>5. /\ Books(d, owed) /\ DOMAIN d = CacheFields /\ d.ent = b.ent /\ d.rrl = b.rrl
      /\ d.insert_sort = b.insert_sort /\ d.size = b.size - z
      /\ Ordered(b) => Ordered(d)
  BY <1>1, <1>2, <1>3, <1>4, Resized
<1>6. SetGone(c, d, n, i)
  BY <1>1, <1>5 DEF SetGone, Apart
<1>7. d.size <= c.size
  BY <1>1, <1>2, <1>5
<1>. QED BY <1>1, <1>5, <1>6, <1>7 DEF d

\* n is gone, from the list too.
EntGone(c, d, n) ==
  /\ DOMAIN d = CacheFields /\ d.insert_sort = c.insert_sort
  /\ DOMAIN d.ent = DOMAIN c.ent \ {n} /\ \A m \in DOMAIN d.ent : d.ent[m] = c.ent[m]
  /\ \A le \in Pairs : le \in ToSet(d.rrl) <=> le \in ToSet(c.rrl) /\ le[1] # n

LEMMA DelCacheEntIs ==
  ASSUME NEW c, NEW owed \in Int, Books(c, owed), NEW n \in DOMAIN c.ent
  PROVE  LET d == DelCacheEnt(c, n)
         IN  /\ EntGone(c, d, n) /\ d.size <= c.size
             /\ Books(d, owed)
             /\ Ordered(c) => Ordered(d)
<1>. DEFINE d == DelCacheEnt(c, n)  gone == {n} \X ({Whole} \union RR)
<1>1. /\ DOMAIN c = CacheFields /\ DOMAIN c.ent \subseteq Names /\ c.rrl \in Seq(Pairs)
      /\ EntOK(c.ent[n]) /\ c.size \in Int
  BY DEF Books, Shape
<1>2. /\ DOMAIN d = CacheFields /\ d.insert_sort = c.insert_sort
      /\ d.size = c.size - c.ent[n].cs /\ d.rrl = Unlisted(c.rrl, gone)
      /\ d.ent = Drop(c.ent, n)
  BY <1>1 DEF DelCacheEnt, CacheFields
<1>3. DOMAIN d.ent = DOMAIN c.ent \ {n} /\ \A m \in DOMAIN d.ent : d.ent[m] = c.ent[m]
  BY <1>2 DEF Drop
<1>4. \A le \in Pairs : le \in gone <=> le[1] = n
  BY DEF Pairs
<1>. HIDE DEF d, gone
<1>5. /\ d.rrl \in Seq(Pairs) /\ (Once(c.rrl) => Once(d.rrl)) /\ Within(d.rrl, c.rrl)
      /\ \A le : le \in ToSet(d.rrl) <=> le \in ToSet(c.rrl) /\ le \notin gone
  BY <1>1, <1>2, UnlistedIs
<1>6. EntGone(c, d, n)
  BY <1>2, <1>3, <1>4, <1>5 DEF EntGone
<1>7. c.ent[n].cs \in Nat
  BY <1>1, CsNat
<1>8. Recorded(c, d, n, owed, owed)
  <2>1. \A m \in DOMAIN c.ent \ {n} : d.ent[m] = c.ent[m]
    BY <1>3
  <2>2. Once(d.rrl) /\ d.size \in Int
    BY <1>1, <1>2, <1>5, <1>7 DEF Books, ListOK
  <2>3. \A le \in Pairs : le[1] = n => (le \in ToSet(d.rrl) <=> IsListed(d, n, le[2]))
    BY <1>3, <1>4, <1>5 DEF IsListed
  <2>4. \A le \in Pairs : le[1] # n => (le \in ToSet(d.rrl) <=> le \in ToSet(c.rrl))
    BY <1>4, <1>5
  <2>5. CsAt(c.ent, n) = c.ent[n].cs /\ CsAt(d.ent, n) = 0
    BY <1>3 DEF CsAt
  <2>6. d.size + owed + CsAt(c.ent, n) = c.size + owed + CsAt(d.ent, n)
    BY <2>5, <1>1, <1>2, <1>7
  <2>7. DOMAIN d.ent \ {n} = DOMAIN c.ent \ {n} /\ n \notin DOMAIN d.ent
    BY <1>3
  <2>. QED BY <2>1, <2>2, <2>3, <2>4, <2>6, <2>7, <1>2, <1>5 DEF Recorded
<1>9. Books(d, owed)
  BY <1>1, <1>8, Rebook
<1>10. ASSUME Ordered(c) PROVE Ordered(d)
  <2>1. ASSUME NEW le \in ToSet(d.rrl) PROVE TsOf(d, le) = TsOf(c, le)
    <3>1. le[1] \in DOMAIN d.ent
      BY <1>9, ListedEntry
    <3>. QED BY <3>1, <1>3 DEF TsOf
  <2>. QED BY <2>1, <1>1, <1>2, <1>5, <1>10, Reorder
<1>11. d.size <= c.size
  BY <1>1, <1>2, <1>7
<1>. QED BY <1>6, <1>9, <1>10, <1>11 DEF d

\* The entry n has the same sets, and is listed by the same elements.
SetsSame(c, d, n) ==
  /\ Apart(c, d, n)
  /\ d.ent[n].local = c.ent[n].local /\ d.ent[n].sets = c.ent[n].sets

LEMMA FreeRrextIs ==
  ASSUME NEW c, NEW owed \in Int, Books(c, owed), NEW n \in DOMAIN c.ent
  PROVE  LET d == FreeRrext(c, n)
         IN  /\ SetsSame(c, d, n) /\ d.rrl = c.rrl /\ d.size <= c.size
             /\ d.ent[n].neg = c.ent[n].neg
             /\ Books(d, owed)
             /\ Ordered(c) => Ordered(d)
<1>. DEFINE d == FreeRrext(c, n)  e == c.ent[n]  f == d.ent[n]
<1>1. /\ DOMAIN c = CacheFields /\ DOMAIN c.ent \subseteq Names /\ c.rrl \in Seq(Pairs)
      /\ EntOK(e) /\ c.size \in Int
  BY DEF Books, Shape
<1>2. CASE e.ext /\ DOMAIN e.sets \intersect EXT = {}
  <2>1. /\ DOMAIN d = CacheFields /\ d.insert_sort = c.insert_sort /\ d.rrl = c.rrl
        /\ d.size = c.size - RrextSize
        /\ DOMAIN d.ent = DOMAIN c.ent /\ \A m \in DOMAIN c.ent \ {n} : d.ent[m] = c.ent[m]
    BY <1>1, <1>2 DEF FreeRrext, CacheFields
  <2>2. /\ DOMAIN f = EntFields /\ f.ext = FALSE /\ f.cs = e.cs - RrextSize
        /\ f.sets = e.sets /\ f.local = e.local /\ f.neg = e.neg /\ f.ts = e.ts
    BY <1>1, <1>2 DEF FreeRrext, CacheFields, EntOK, EntFields
  <2>. HIDE DEF d, e, f
  <2>3. EntOK(f)
    <3>1. SetsSize(e.sets) \in Nat /\ e.cs = CentSize + SetsSize(e.sets) + RrextSize
      BY <1>1, <1>2, SetsNat DEF EntOK
    <3>2. f.cs = CentSize + SetsSize(f.sets) + (IF f.ext THEN RrextSize ELSE 0)
      BY <3>1, <2>2 DEF CentSize, RrextSize
    <3>. QED BY <3>2, <2>2, <1>1, <1>2 DEF EntOK
  <2>4. SetsSame(c, d, n)
    BY <2>1, <2>2 DEF SetsSame, Apart, e, f
  <2>5. \A i : IsListed(d, n, i) <=> IsListed(c, n, i)
    BY <2>1, <2>2 DEF IsListed, e, f
  <2>6. Recorded(c, d, n, owed, owed)
    <3>1. n \in DOMAIN d.ent => EntOK(d.ent[n])
      BY <2>3 DEF f
    <3>2. \A le \in Pairs : le[1] = n => (le \in ToSet(d.rrl) <=> IsListed(d, n, le[2]))
      BY <2>1, <2>5 DEF Books, ListOK
    <3>3. d.size + owed + CsAt(c.ent, n) = c.size + owed + CsAt(d.ent, n)
      <4>1. CsAt(c.ent, n) = e.cs /\ CsAt(d.ent, n) = f.cs /\ e.cs \in Nat
        BY <1>1, <2>1, CsNat DEF CsAt, e, f
      <4>. QED BY <4>1, <1>1, <2>1, <2>2 DEF RrextSize
    <3>4. d.size \in Int /\ Once(d.rrl)
      BY <1>1, <2>1 DEF RrextSize, Books, ListOK
    <3>. QED BY <3>1, <3>2, <3>3, <3>4, <1>1, <2>1 DEF Recorded
  <2>7. Books(d, owed)
    BY <1>1, <2>6, Rebook
  <2>8. ASSUME Ordered(c) PROVE Ordered(d)
    <3>1. ASSUME NEW le PROVE le \in ToSet(d.rrl) => TsOf(d, le) = TsOf(c, le)
      <4>1. SUFFICES ASSUME le \in ToSet(d.rrl) PROVE TsOf(d, le) = TsOf(c, le)
        OBVIOUS
      <4>2. le[1] \in DOMAIN d.ent
        BY <4>1, <2>7, ListedEntry
      <4>3. le[1] = n \/ d.ent[le[1]] = c.ent[le[1]]
        BY <4>2, <2>1
      <4>. QED BY <4>3, <2>2 DEF TsOf, e, f
    <3>2. Within(d.rrl, c.rrl)
      BY <2>1, <1>1 DEF Within
    <3>. QED BY <3>1, <3>2, <1>1, <2>1, <2>8, Reorder
  <2>9. d.size <= c.size
    BY <1>1, <2>1 DEF RrextSize
  <2>. QED BY <2>1, <2>2, <2>4, <2>7, <2>8, <2>9 DEF d, e, f
<1>3. CASE ~(e.ext /\ DOMAIN e.sets \intersect EXT = {})
  <2>1. d = c
    BY <1>3 DEF FreeRrext
  <2>. QED BY <2>1, <1>1 DEF SetsSame, Apart
<1>. QED BY <1>2, <1>3

LEMMA NotNegativeIs ==
  ASSUME NEW c, NEW owed \in Int, Books(c, owed), NEW n \in DOMAIN c.ent
  PROVE  LET d == NotNegative(c, n)
         IN  /\ SetsSame(c, d, n) /\ ~d.ent[n].neg /\ d.size = c.size
             /\ \A le : le \in ToSet(d.rrl) => le \in ToSet(c.rrl)
             /\ Books(d, owed)
             /\ Ordered(c) => Ordered(d)
<1>. DEFINE d == NotNegative(c, n)  e == c.ent[n]  f == d.ent[n]
<1>1. /\ DOMAIN c = CacheFields /\ DOMAIN c.ent \subseteq Names /\ c.rrl \in Seq(Pairs)
      /\ EntOK(e) /\ c.size \in Int
  BY DEF Books, Shape
<1>2. CASE e.neg
  <2>1. /\ DOMAIN d = CacheFields /\ d.insert_sort = c.insert_sort
        /\ d.rrl = Unlisted(c.rrl, {<<n, Whole>>}) /\ d.size = c.size
        /\ DOMAIN d.ent = DOMAIN c.ent /\ \A m \in DOMAIN c.ent \ {n} : d.ent[m] = c.ent[m]
    BY <1>1, <1>2 DEF NotNegative, RemoveRrl, CacheFields
  <2>2. /\ DOMAIN f = EntFields /\ f.neg = FALSE /\ f.cs = e.cs
        /\ f.sets = e.sets /\ f.local = e.local /\ f.ext = e.ext /\ f.ts = 0
    BY <1>1, <1>2 DEF NotNegative, RemoveRrl, CacheFields, EntOK, EntFields
  <2>. HIDE DEF d, e, f
  <2>3. EntOK(f)
    BY <2>2, <1>1 DEF EntOK
  <2>4. SetsSame(c, d, n)
    BY <2>1, <2>2 DEF SetsSame, Apart, e, f
  <2>5. /\ d.rrl \in Seq(Pairs) /\ (Once(c.rrl) => Once(d.rrl)) /\ Within(d.rrl, c.rrl)
        /\ \A le : le \in ToSet(d.rrl) <=> le \in ToSet(c.rrl) /\ le # <<n, Whole>>
    BY <1>1, <2>1, UnlistedIs
  <2>6. Recorded(c, d, n, owed, owed)
    <3>1. n \in DOMAIN d.ent => EntOK(d.ent[n])
      BY <2>3 DEF f
    <3>2. ASSUME NEW le \in Pairs, le[1] = n PROVE le \in ToSet(d.rrl) <=> IsListed(d, n, le[2])
      <4>1. le = <<n, le[2]>>
        BY <3>2 DEF Pairs
      <4>2. le \in ToSet(c.rrl) <=> IsListed(c, n, le[2])
        BY <3>2 DEF Books, ListOK
      <4>3. IsListed(d, n, le[2]) <=> IsListed(c, n, le[2]) /\ le[2] # Whole
        BY <2>1, <2>2, <1>1, <1>2 DEF IsListed, e, f, EntOK
      <4>4. le # <<n, Whole>> <=> le[2] # Whole
        BY <4>1
      <4>. QED BY <4>2, <4>3, <4>4, <2>5
    <3>3. d.size + owed + CsAt(c.ent, n) = c.size + owed + CsAt(d.ent, n)
      <4>1. CsAt(c.ent, n) = e.cs /\ CsAt(d.ent, n) = f.cs /\ e.cs \in Nat
        BY <1>1, <2>1, CsNat DEF CsAt, e, f
      <4>. QED BY <4>1, <1>1, <2>1, <2>2
    <3>4. d.size \in Int /\ Once(d.rrl)
      BY <1>1, <2>1, <2>5 DEF Books, ListOK
    <3>5. \A le \in Pairs : le[1] # n => (le \in ToSet(d.rrl) <=> le \in ToSet(c.rrl))
      BY <2>5
    <3>. QED BY <3>1, <3>2, <3>3, <3>4, <3>5, <1>1, <2>1, <2>5 DEF Recorded
  <2>7. Books(d, owed)
    BY <1>1, <2>6, Rebook
  <2>8. ASSUME Ordered(c) PROVE Ordered(d)
    <3>1. ASSUME NEW le PROVE le \in ToSet(d.rrl) => TsOf(d, le) = TsOf(c, le)
      <4>1. SUFFICES ASSUME le \in ToSet(d.rrl) PROVE TsOf(d, le) = TsOf(c, le)
        OBVIOUS
      <4>2. IsListed(d, le[1], le[2])
        BY <4>1, <2>7, ListedEntry
      <4>3. CASE le[1] = n
        <5>1. le[2] # Whole
          BY <4>2, <4>3, <2>2 DEF IsListed, f
        <5>. QED BY <5>1, <4>3, <2>2 DEF TsOf, e, f
      <4>4. CASE le[1] # n
        <5>1. d.ent[le[1]] = c.ent[le[1]]
          BY <4>2, <4>4, <2>1 DEF IsListed
        <5>. QED BY <5>1 DEF TsOf
      <4>. QED BY <4>3, <4>4
    <3>. QED BY <3>1, <1>1, <2>1, <2>5, <2>8, Reorder
  <2>. QED BY <2>1, <2>2, <2>4, <2>5, <2>7, <2>8 DEF d, e, f
<1>3. CASE ~e.neg
  <2>1. d = c
    BY <1>3 DEF NotNegative
  <2>. QED BY <2>1, <1>1, <1>3 DEF SetsSame, Apart
<1>. QED BY <1>2, <1>3

LEMMA AdjustedIs ==
  ASSUME NEW s, SetOK(s)
  PROVE  SetOK(Adjusted(s)) /\ SetSize(Adjusted(s)) = SetSize(s) /\ Adjusted(s).local = s.local
<1>1. DOMAIN s = SetFields
  BY DEF SetOK
<1>2. /\ DOMAIN Adjusted(s) = DOMAIN s /\ Adjusted(s).local = s.local
      /\ Adjusted(s).ts = s.ts /\ Adjusted(s).negative = s.negative
  BY <1>1 DEF Adjusted, SetFields
<1>. QED BY <1>2 DEF SetOK, SetSize

LEMMA AddSetIs ==
  ASSUME NEW c, NEW owed \in Int, Books(c, owed), NEW n \in DOMAIN c.ent, NEW i \in RR,
         i \notin DOMAIN c.ent[n].sets, ~c.ent[n].neg, NEW new, SetOK(new)
  PROVE  LET d == AddSet(c, n, i, new)
         IN  /\ Apart(c, d, n) /\ d.size = c.size
             /\ d.ent[n].local = c.ent[n].local
             /\ DOMAIN d.ent[n].sets = DOMAIN c.ent[n].sets \union {i}
             /\ \A j \in DOMAIN c.ent[n].sets : d.ent[n].sets[j] = c.ent[n].sets[j]
             /\ Books(d, owed + d.ent[n].cs - c.ent[n].cs) /\ d.ent[n].cs \in Nat
             /\ Ordered(c) => Ordered(d)
<1>. DEFINE grow == IF i \in EXT /\ ~c.ent[n].ext THEN RrextSize ELSE 0
            b == [c EXCEPT !.ent[n].ext = @ \/ i \in EXT, !.ent[n].cs = @ + grow + SetSize(new),
                           !.ent[n].sets = With(@, i, Adjusted(new))]
            d == AddSet(c, n, i, new)  e == c.ent[n]  f == b.ent[n]
<1>1. /\ DOMAIN c = CacheFields /\ DOMAIN c.ent \subseteq Names /\ c.rrl \in Seq(Pairs)
      /\ EntOK(e) /\ c.size \in Int
  BY DEF Books, Shape
<1>2. /\ DOMAIN b = CacheFields /\ b.insert_sort = c.insert_sort /\ b.rrl = c.rrl
      /\ b.size = c.size
      /\ DOMAIN b.ent = DOMAIN c.ent /\ \A m \in DOMAIN c.ent \ {n} : b.ent[m] = c.ent[m]
  BY <1>1 DEF CacheFields
<1>3. /\ DOMAIN f = EntFields /\ f.neg = e.neg /\ f.cs = e.cs + grow + SetSize(new)
      /\ f.sets = With(e.sets, i, Adjusted(new)) /\ f.local = e.local
      /\ f.ext = (e.ext \/ i \in EXT) /\ f.ts = e.ts
  BY <1>1 DEF CacheFields, EntOK, EntFields
<1>5. d = InsertRrl(b, n, i)
  BY DEF AddSet
<1>6. grow \in Nat /\ SetSize(new) \in Nat /\ i # Whole /\ n \in Names
  BY <1>1, RRFinite DEF SetSize, RrextSize
<1>. HIDE DEF b, d, f
<1>4. /\ DOMAIN f.sets = DOMAIN e.sets \union {i} /\ f.sets[i] = Adjusted(new)
      /\ \A j \in DOMAIN e.sets : f.sets[j] = e.sets[j]
  <2>1. i \notin DOMAIN e.sets
    OBVIOUS
  <2>. HIDE DEF e
  <2>. QED BY <1>3, <2>1 DEF With
<1>7. e.ext \in BOOLEAN /\ grow = (IF f.ext THEN RrextSize ELSE 0) - (IF e.ext THEN RrextSize ELSE 0)
  <2>1. e.ext \in BOOLEAN
    BY <1>1 DEF EntOK
  <2>2. f.ext <=> e.ext \/ i \in EXT
    BY <1>3
  <2>. HIDE DEF f
  <2>. QED BY <2>1, <2>2 DEF RrextSize
<1>. HIDE DEF e, grow
<1>8. EntOK(f)
  <2>1. /\ SetsSize(e.sets) \in Nat /\ SetsSize(f.sets) \in Nat
        /\ SetsSize(f.sets) = SetsSize(e.sets) + SetSize(new)
    <3>1. /\ DOMAIN e.sets \subseteq RR /\ DOMAIN f.sets \subseteq RR
          /\ DOMAIN e.sets \ {i} = DOMAIN f.sets \ {i}
          /\ \A j \in DOMAIN e.sets \ {i} : e.sets[j] = f.sets[j]
      BY <1>1, <1>4 DEF EntOK
    <3>2. SizeAt(f.sets, i) = SetSize(new) /\ SizeAt(e.sets, i) = 0
      BY <1>4, AdjustedIs DEF SizeAt, e
    <3>. QED BY <3>1, <3>2, <1>6, SetsSwap
  <2>2. f.cs = CentSize + SetsSize(f.sets) + (IF f.ext THEN RrextSize ELSE 0)
    <3>1. e.cs = CentSize + SetsSize(e.sets) + (IF e.ext THEN RrextSize ELSE 0)
      BY <1>1 DEF EntOK
    <3>. QED BY <3>1, <2>1, <1>3, <1>6, <1>7 DEF CentSize, RrextSize
  <2>3. \A j \in DOMAIN f.sets : SetOK(f.sets[j])
    BY <1>1, <1>4, AdjustedIs DEF EntOK
  <2>4. DOMAIN f.sets \subseteq RR /\ f.ts \in Int /\ f.ext \in BOOLEAN /\ ~f.neg
    BY <1>1, <1>3, <1>4 DEF EntOK, e
  <2>5. DOMAIN f.sets \intersect EXT # {} => f.ext
    BY <1>1, <1>3, <1>4 DEF EntOK
  <2>. QED BY <2>2, <2>3, <2>4, <2>5, <1>3 DEF EntOK
<1>9. <<n, i>> \in Pairs /\ <<n, i>> \notin ToSet(c.rrl)
  <2>1. <<n, i>> \in Pairs
    BY <1>6 DEF Pairs
  <2>2. ~IsListed(c, n, i)
    BY <1>6 DEF IsListed
  <2>3. <<n, i>>[1] = n /\ <<n, i>>[2] = i
    OBVIOUS
  <2>. QED BY <2>1, <2>2, <2>3 DEF Books, ListOK
<1>10. ASSUME NEW le \in ToSet(c.rrl) PROVE TsOf(b, le) = TsOf(c, le)
  <2>1. IsListed(c, le[1], le[2])
    BY ListedEntry
  <2>2. CASE le[1] = n
    <3>1. le[2] # Whole => f.sets[le[2]] = e.sets[le[2]]
      BY <2>1, <2>2, <1>4 DEF IsListed, e
    <3>. QED BY <3>1, <2>2, <1>3 DEF TsOf, e, f
  <2>3. CASE le[1] # n
    <3>1. b.ent[le[1]] = c.ent[le[1]]
      BY <2>1, <2>3, <1>2 DEF IsListed
    <3>. QED BY <3>1 DEF TsOf
  <2>. QED BY <2>2, <2>3
<1>11. TsOf(b, <<n, i>>) \in Int
  BY <1>4, <1>6, AdjustedIs DEF TsOf, f, SetOK
<1>12. \A le \in ToSet(b.rrl) : TsOf(b, le) \in Int
  BY <1>2, <1>10, ListedTs
<1>13. ASSUME Ordered(c) PROVE Ordered(b)
  <2>1. Within(b.rrl, c.rrl)
    BY <1>1, <1>2 DEF Within
  <2>. QED BY <2>1, <1>1, <1>2, <1>10, <1>13, Reorder
<1>14. /\ DOMAIN d = CacheFields /\ d.ent = b.ent /\ d.size = b.size
       /\ d.insert_sort = b.insert_sort /\ d.rrl \in Seq(Pairs)
       /\ Blocked(b, n, i) => d.rrl = b.rrl
       /\ ~Blocked(b, n, i) =>
             \A le : le \in ToSet(d.rrl) <=> le \in ToSet(b.rrl) \/ le = <<n, i>>
       /\ Once(b.rrl) => Once(d.rrl)
       /\ Ordered(b) => Ordered(d)
  BY <1>1, <1>2, <1>5, <1>9, <1>11, <1>12, InsertRrlIs
<1>15. Recorded(c, d, n, owed, owed + f.cs - e.cs)
  <2>1. f.cs \in Nat /\ e.cs \in Nat
    BY <1>1, <1>8, CsNat
  <2>2. d.size + (owed + f.cs - e.cs) + CsAt(c.ent, n) = c.size + owed + CsAt(d.ent, n)
    <3>1. CsAt(c.ent, n) = e.cs /\ CsAt(d.ent, n) = f.cs
      BY <1>2, <1>14 DEF CsAt, e, f
    <3>. QED BY <3>1, <2>1, <1>1, <1>2, <1>14
  <2>3. ASSUME NEW le \in Pairs, le[1] = n PROVE le \in ToSet(d.rrl) <=> IsListed(d, n, le[2])
    <3>1. le = <<n, le[2]>>
      BY <2>3 DEF Pairs
    <3>2. le \in ToSet(c.rrl) <=> IsListed(c, n, le[2])
      BY <2>3 DEF Books, ListOK
    <3>3. le = <<n, i>> <=> le[2] = i
      BY <3>1
    <3>4. Blocked(b, n, i) <=> f.local \/ f.sets[i].local
      BY <1>6 DEF Blocked, f
    <3>5. IsListed(d, n, le[2]) <=> IsListed(c, n, le[2]) \/ (le[2] = i /\ ~f.local /\ ~f.sets[i].local)
      <4>1. d.ent[n] = f /\ n \in DOMAIN d.ent /\ c.ent[n] = e
        BY <1>2, <1>14 DEF e, f
      <4>2. CASE le[2] = i
        BY <4>1, <4>2, <1>3, <1>4, <1>6 DEF IsListed, e
      <4>3. CASE le[2] # i
        BY <4>1, <4>3, <1>3, <1>4, <1>6 DEF IsListed
      <4>. QED BY <4>2, <4>3
    <3>. QED BY <3>2, <3>3, <3>4, <3>5, <1>2, <1>14
  <2>4. ASSUME NEW le \in Pairs, le[1] # n PROVE le \in ToSet(d.rrl) <=> le \in ToSet(c.rrl)
    <3>1. le # <<n, i>>
      BY <2>4
    <3>. QED BY <3>1, <1>2, <1>14
  <2>5. /\ DOMAIN d.ent \ {n} = DOMAIN c.ent \ {n}
        /\ \A m \in DOMAIN c.ent \ {n} : d.ent[m] = c.ent[m]
        /\ n \in DOMAIN d.ent => EntOK(d.ent[n])
        /\ d.size \in Int /\ Once(d.rrl)
    BY <1>1, <1>2, <1>8, <1>14 DEF f, Books, ListOK
  <2>. QED BY <2>2, <2>3, <2>4, <2>5, <1>14 DEF Recorded
<1>16. Books(d, owed + f.cs - e.cs) /\ f.cs \in Nat
  <2>1. f.cs \in Nat /\ e.cs \in Nat
    BY <1>1, <1>8, CsNat
  <2>2. owed + f.cs - e.cs \in Int
    BY <2>1
  <2>. QED BY <2>1, <2>2, <1>6, <1>15, Rebook
<1>17. d.ent[n] = f
  BY <1>14 DEF f
<1>18. Apart(c, d, n)
  BY <1>2, <1>14 DEF Apart
<1>. QED BY <1>2, <1>3, <1>4, <1>13, <1>14, <1>16, <1>17, <1>18 DEF d, e

----------------------------------------------------------------------------
(* Purging. *)

\* A local RR set.
Local(c, n, i) == n \in DOMAIN c.ent /\ i \in DOMAIN c.ent[n].sets /\ c.ent[n].sets[i].local
Keeps(c, d) == \A n, i : Local(c, n, i) => Local(d, n, i)

\* d is what purging may make of c: the books are kept, and local records, and nothing is
\* added.
Purging(c, d) ==
  /\ Books(d, 0) /\ (Ordered(c) => Ordered(d)) /\ d.insert_sort = c.insert_sort
  /\ Keeps(c, d) /\ d.size <= c.size /\ ToSet(d.rrl) \subseteq ToSet(c.rrl)

\* It spared the entry n.
Spared(c, d, n) ==
  /\ Purging(c, d) /\ DOMAIN d.ent = DOMAIN c.ent /\ d.ent[n].neg = c.ent[n].neg

LEMMA PurgingSelf == ASSUME NEW c, Books(c, 0) PROVE Purging(c, c)
<1>1. c.size \in Int
  BY DEF Books, Shape
<1>. QED BY <1>1 DEF Purging, Keeps

LEMMA PurgingTwice ==
  ASSUME NEW b, NEW c, NEW d, Books(b, 0), Purging(b, c), Purging(c, d)
  PROVE  Purging(b, d)
<1>1. b.size \in Int /\ c.size \in Int /\ d.size \in Int
  BY DEF Purging, Books, Shape
<1>2. d.size <= b.size
  BY <1>1 DEF Purging
<1>. QED BY <1>2 DEF Purging, Keeps

LEMMA ChargedPurges ==
  ASSUME NEW c, Books(c, 0), NEW n \in DOMAIN c.ent, NEW i \in DOMAIN c.ent[n].sets,
         ~c.ent[n].sets[i].local
  PROVE  LET d == DelSetCharged(c, n, i)
         IN  /\ Spared(c, d, n) /\ DOMAIN d.ent[n].sets = DOMAIN c.ent[n].sets \ {i}
             /\ \A le : le \in ToSet(d.rrl) <=> le \in ToSet(c.rrl) /\ le # <<n, i>>
<1>. DEFINE d == DelSetCharged(c, n, i)
<1>1. /\ SetGone(c, d, n, i) /\ d.size <= c.size /\ Books(d, 0)
      /\ Ordered(c) => Ordered(d)
  BY DelSetChargedIs
<1>. HIDE DEF d
<1>2. Keeps(c, d)
  BY <1>1 DEF Keeps, Local, SetGone, Apart
<1>3. ToSet(d.rrl) \subseteq ToSet(c.rrl)
  BY <1>1 DEF SetGone
<1>4. Spared(c, d, n)
  BY <1>1, <1>2, <1>3 DEF Spared, Purging, SetGone, Apart
<1>. QED BY <1>1, <1>4 DEF SetGone, d

LEMMA EntPurges ==
  ASSUME NEW c, Books(c, 0), NEW n \in DOMAIN c.ent, DOMAIN c.ent[n].sets = {}
  PROVE  LET d == DelCacheEnt(c, n)
         IN  /\ Purging(c, d)
             /\ \A le \in ToSet(c.rrl) : le # <<n, Whole>> => le \in ToSet(d.rrl)
             /\ \A le \in ToSet(d.rrl) : le[1] # n
<1>. DEFINE d == DelCacheEnt(c, n)
<1>1. /\ EntGone(c, d, n) /\ d.size <= c.size /\ Books(d, 0)
      /\ Ordered(c) => Ordered(d)
  BY DelCacheEntIs
<1>. HIDE DEF d
<1>2. Keeps(c, d)
  BY <1>1 DEF Keeps, Local, EntGone
<1>3. \A le \in ToSet(d.rrl) : le \in ToSet(c.rrl) /\ le[1] # n
  BY <1>1, ListedEntry DEF EntGone
<1>4. ASSUME NEW le \in ToSet(c.rrl), le # <<n, Whole>> PROVE le \in ToSet(d.rrl)
  <2>1. /\ le \in Pairs /\ le = <<le[1], le[2]>> /\ IsListed(c, le[1], le[2])
    BY ListedEntry
  <2>2. le[1] # n
    BY <2>1, <1>4 DEF IsListed
  <2>. QED BY <2>1, <2>2, <1>1 DEF EntGone
<1>5. Purging(c, d)
  BY <1>1, <1>2, <1>3 DEF Purging, EntGone
<1>. QED BY <1>3, <1>4, <1>5 DEF d

LEMMA PurgeRrsetIs ==
  ASSUME NEW c, Books(c, 0), NEW n \in DOMAIN c.ent, NEW i
  PROVE  LET d == PurgeRrset(c, n, i)
         IN  /\ Spared(c, d, n) /\ DOMAIN d.ent[n].sets \subseteq DOMAIN c.ent[n].sets
             /\ \A le \in ToSet(c.rrl) : le # <<n, i>> => le \in ToSet(d.rrl)
<1>. DEFINE s == c.ent[n].sets[i]  d == PurgeRrset(c, n, i)
<1>1. CASE i \in DOMAIN c.ent[n].sets /\ ~(s.nopurge \/ s.local \/ ~Timedout(s.ts, s.ttl))
  <2>1. d = DelSetCharged(c, n, i)
    BY <1>1 DEF PurgeRrset
  <2>. HIDE DEF d
  <2>. QED BY <1>1, <2>1, ChargedPurges DEF d
<1>2. CASE ~(i \in DOMAIN c.ent[n].sets /\ ~(s.nopurge \/ s.local \/ ~Timedout(s.ts, s.ttl)))
  <2>1. d = c
    BY <1>2 DEF PurgeRrset
  <2>. QED BY <2>1, PurgingSelf DEF Spared
<1>. QED BY <1>1, <1>2

LEMMA PurgeTimedoutIs ==
  ASSUME NEW c, Books(c, 0), NEW le \in ToSet(c.rrl)
  PROVE  LET d == PurgeTimedout(c, le)
         IN  Purging(c, d) /\ ToSet(c.rrl) \ {le} \subseteq ToSet(d.rrl)
<1>. DEFINE n == le[1]  b == IF le[2] = Whole THEN c ELSE PurgeRrset(c, n, le[2])
            d == PurgeTimedout(c, le)
<1>1. /\ le \in Pairs /\ le = <<n, le[2]>> /\ IsListed(c, n, le[2])
      /\ n \in DOMAIN c.ent /\ EntOK(c.ent[n])
  BY ListedEntry
<1>2. Purgeable(c, le)
  BY <1>1 DEF Purgeable, IsListed
<1>3. d = (IF Vacant(b, n) THEN DelCacheEnt(b, n) ELSE b)
  BY <1>2 DEF PurgeTimedout
<1>4. Spared(c, b, n) /\ ToSet(c.rrl) \ {le} \subseteq ToSet(b.rrl)
  <2>1. CASE le[2] = Whole
    BY <2>1, PurgingSelf DEF Spared
  <2>2. CASE le[2] # Whole
    BY <2>2, <1>1, PurgeRrsetIs
  <2>. QED BY <2>1, <2>2
<1>. HIDE DEF b, d, n
<1>5. CASE Vacant(b, n)
  <2>1. Books(b, 0) /\ n \in DOMAIN b.ent /\ DOMAIN b.ent[n].sets = {}
    BY <1>1, <1>4, <1>5 DEF Spared, Purging, Vacant
  <2>2. /\ Purging(b, d) /\ \A me \in ToSet(b.rrl) : me # <<n, Whole>> => me \in ToSet(d.rrl)
    BY <2>1, <1>3, <1>5, EntPurges
  <2>3. ASSUME NEW me \in ToSet(b.rrl), me # le PROVE me # <<n, Whole>>
    <3>1. SUFFICES ASSUME me = <<n, Whole>> PROVE FALSE
      OBVIOUS
    <3>2. IsListed(b, me[1], me[2])
      BY <2>1, ListedEntry
    <3>3. c.ent[n].neg
      BY <3>1, <3>2, <1>4 DEF IsListed, Spared
    <3>4. le[2] # Whole
      BY <3>1, <2>3, <1>1
    <3>. QED BY <3>3, <3>4, <1>1 DEF IsListed, EntOK
  <2>. QED BY <2>2, <2>3, <1>4, PurgingTwice DEF Spared, d
<1>6. CASE ~Vacant(b, n)
  BY <1>3, <1>4, <1>6 DEF Spared, d
<1>. QED BY <1>5, <1>6

LEMMA PurgeOldestIs ==
  ASSUME NEW c, Books(c, 0), NEW le \in ToSet(c.rrl)
  PROVE  LET d == PurgeOldest(c, le)
         IN  Purging(c, d) /\ ToSet(d.rrl) = ToSet(c.rrl) \ {le}
<1>. DEFINE n == le[1]  b == IF le[2] = Whole THEN c ELSE DelSetCharged(c, n, le[2])
            d == PurgeOldest(c, le)
<1>1. /\ le \in Pairs /\ le = <<n, le[2]>> /\ IsListed(c, n, le[2])
      /\ n \in DOMAIN c.ent /\ EntOK(c.ent[n])
  BY ListedEntry
<1>2. Purgeable(c, le)
  BY <1>1 DEF Purgeable, IsListed
<1>3. d = (IF DOMAIN b.ent[n].sets = {} THEN DelCacheEnt(b, n) ELSE b)
  BY <1>2 DEF PurgeOldest
<1>4. Spared(c, b, n) /\ ToSet(c.rrl) \ {le} \subseteq ToSet(b.rrl)
  <2>1. CASE le[2] = Whole
    BY <2>1, PurgingSelf DEF Spared
  <2>2. CASE le[2] # Whole
    <3>1. le[2] \in DOMAIN c.ent[n].sets /\ ~c.ent[n].sets[le[2]].local
      BY <2>2, <1>1 DEF IsListed
    <3>. QED BY <2>2, <3>1, <1>1, ChargedPurges
  <2>. QED BY <2>1, <2>2
<1>5. /\ le[2] # Whole => le \notin ToSet(b.rrl)
      /\ le[2] = Whole => DOMAIN b.ent[n].sets = {}
  <2>1. CASE le[2] = Whole
    BY <2>1, <1>1 DEF IsListed, EntOK
  <2>2. CASE le[2] # Whole
    <3>1. le[2] \in DOMAIN c.ent[n].sets /\ ~c.ent[n].sets[le[2]].local
      BY <2>2, <1>1 DEF IsListed
    <3>. QED BY <2>2, <3>1, <1>1, ChargedPurges
  <2>. QED BY <2>1, <2>2
<1>. HIDE DEF b, d, n
<1>6. CASE DOMAIN b.ent[n].sets = {}
  <2>1. Books(b, 0) /\ n \in DOMAIN b.ent
    BY <1>1, <1>4 DEF Spared, Purging
  <2>2. /\ Purging(b, d) /\ \A me \in ToSet(b.rrl) : me # <<n, Whole>> => me \in ToSet(d.rrl)
        /\ \A me \in ToSet(d.rrl) : me[1] # n
    BY <2>1, <1>3, <1>6, EntPurges
  <2>3. ASSUME NEW me \in ToSet(b.rrl), me # le PROVE me # <<n, Whole>>
    <3>1. SUFFICES ASSUME me = <<n, Whole>> PROVE FALSE
      OBVIOUS
    <3>2. IsListed(b, me[1], me[2])
      BY <2>1, ListedEntry
    <3>3. c.ent[n].neg
      BY <3>1, <3>2, <1>4 DEF IsListed, Spared
    <3>4. le[2] # Whole
      BY <3>1, <2>3, <1>1
    <3>. QED BY <3>3, <3>4, <1>1 DEF IsListed, EntOK
  <2>4. le \notin ToSet(d.rrl)
    BY <2>2, <1>1
  <2>5. ToSet(d.rrl) = ToSet(c.rrl) \ {le}
    BY <2>2, <2>3, <2>4, <1>4 DEF Spared, Purging
  <2>. QED BY <2>2, <2>5, <1>4, PurgingTwice DEF Spared, d
<1>7. CASE DOMAIN b.ent[n].sets # {}
  <2>1. d = b /\ le \notin ToSet(b.rrl)
    BY <1>3, <1>5, <1>7
  <2>. QED BY <2>1, <1>4 DEF Spared, Purging, d
<1>. QED BY <1>6, <1>7

\* The indices in their order are a list.
LEMMA IndicesIs == DOMAIN Indices = 1..Cardinality(RR) /\ Cardinality(RR) \in Nat
BY RRFinite, FS_CardinalityType DEF Indices

PurgeOp(n, y, z, d, i) == PurgeRrset(d, n, i)
PurgeGood(n, y, z, base, k, d) == Spared(base, d, n)
Purge == INSTANCE FoldFacts WITH Op <- PurgeOp, Good <- PurgeGood

LEMMA PurgeAllRrsetsIs ==
  ASSUME NEW c, Books(c, 0), NEW n \in DOMAIN c.ent
  PROVE  Spared(c, PurgeAllRrsets(c, n), n)
<1>. DEFINE b == FoldLeft(LAMBDA d, i : PurgeRrset(d, n, i), c, Indices)
            d == PurgeAllRrsets(c, n)
<1>1. b = Purge!Folded(n, 0, 0, c, Indices)
  BY DEF Purge!Folded, PurgeOp, FoldLeft, MapThenFoldSet, Purge!FoldLeft, Purge!MapThenFoldSet,
         Max, Purge!Max
<1>2. PurgeGood(n, 0, 0, c, 0, c)
  BY PurgingSelf DEF PurgeGood, Spared
<1>3. ASSUME NEW k \in 1..Cardinality(RR), NEW a, PurgeGood(n, 0, 0, c, k - 1, a)
      PROVE  PurgeGood(n, 0, 0, c, k, PurgeOp(n, 0, 0, a, Indices[k]))
  <2>. DEFINE f == PurgeRrset(a, n, Indices[k])
  <2>1. Books(a, 0) /\ n \in DOMAIN a.ent /\ Purging(c, a) /\ DOMAIN a.ent = DOMAIN c.ent
    BY <1>3 DEF PurgeGood, Spared, Purging
  <2>2. Spared(a, f, n)
    BY <2>1, PurgeRrsetIs
  <2>. HIDE DEF f
  <2>3. Spared(c, f, n)
    BY <1>3, <2>1, <2>2, PurgingTwice DEF PurgeGood, Spared
  <2>. QED BY <2>3 DEF PurgeGood, PurgeOp, f
<1>4. Spared(c, b, n)
  <2>1. PurgeGood(n, 0, 0, c, Cardinality(RR), b)
    <3>. HIDE DEF PurgeGood, PurgeOp, b
    <3>. QED BY <1>1, <1>2, <1>3, IndicesIs, Purge!FoldKeeps
  <2>. QED BY <2>1 DEF PurgeGood
<1>. HIDE DEF b
<1>5. d = FreeRrext(b, n)
  BY DEF PurgeAllRrsets, b
<1>. HIDE DEF d
<1>6. Books(b, 0) /\ n \in DOMAIN b.ent
  BY <1>4 DEF Spared, Purging
<1>7. /\ SetsSame(b, d, n) /\ d.rrl = b.rrl /\ d.size <= b.size
      /\ d.ent[n].neg = b.ent[n].neg /\ Books(d, 0) /\ (Ordered(b) => Ordered(d))
  BY <1>5, <1>6, FreeRrextIs
<1>8. Keeps(b, d)
  BY <1>7 DEF Keeps, Local, SetsSame, Apart
<1>9. Spared(b, d, n)
  BY <1>7, <1>8 DEF Spared, Purging, SetsSame, Apart
<1>. QED BY <1>4, <1>6, <1>9, PurgingTwice DEF Spared, d

LEMMA PurgeCentIs ==
  ASSUME NEW c, Books(c, 0), NEW n \in DOMAIN c.ent
  PROVE  Purging(c, PurgeCent(c, n))
<1>. DEFINE d == PurgeAllRrsets(c, n)
<1>1. Spared(c, d, n)
  BY PurgeAllRrsetsIs
<1>2. PurgeCent(c, n) = (IF Vacant(d, n) THEN DelCacheEnt(d, n) ELSE d)
  BY DEF PurgeCent
<1>3. Books(d, 0) /\ n \in DOMAIN d.ent
  BY <1>1 DEF Spared, Purging
<1>4. CASE Vacant(d, n)
  <2>1. Purging(d, DelCacheEnt(d, n))
    BY <1>3, <1>4, EntPurges DEF Vacant
  <2>. HIDE DEF d
  <2>. QED BY <2>1, <1>1, <1>2, <1>4, PurgingTwice DEF Spared
<1>5. CASE ~Vacant(d, n)
  BY <1>1, <1>2, <1>5 DEF Spared
<1>. QED BY <1>4, <1>5

----------------------------------------------------------------------------
(* Sorting. *)

SortOp(x, y, z, d, le) == InsertRrl(d, le[1], le[2])
SortGood(list, y, z, base, k, d) ==
  /\ DOMAIN d = CacheFields /\ d.ent = base.ent /\ d.size = base.size
  /\ d.insert_sort = base.insert_sort /\ d.rrl \in Seq(Pairs) /\ Once(d.rrl) /\ Ordered(d)
  /\ \A le : le \in ToSet(d.rrl) <=> \E j \in 1..k : le = list[j]
Sort == INSTANCE FoldFacts WITH Op <- SortOp, Good <- SortGood

LEMMA SortRrlIs ==
  ASSUME NEW c, Books(c, 0)
  PROVE  LET d == SortRrl(c)
         IN  /\ Books(d, 0) /\ d.ent = c.ent /\ d.size = c.size /\ d.insert_sort /\ Ordered(d)
             /\ ToSet(d.rrl) = ToSet(c.rrl)
<1>. DEFINE s == c.rrl  b == [c EXCEPT !.rrl = <<>>, !.insert_sort = TRUE]  d == SortRrl(c)
<1>1. d = Sort!Folded(s, 0, 0, b, s)
  BY DEF SortRrl, Sort!Folded, SortOp, FoldLeft, MapThenFoldSet, Sort!FoldLeft,
         Sort!MapThenFoldSet, Max, Sort!Max
<1>2. /\ s \in Seq(Pairs) /\ DOMAIN s = 1..Len(s) /\ Len(s) \in Nat /\ Once(s)
      /\ DOMAIN c = CacheFields
  BY DEF Books, Shape, ListOK
<1>3. /\ DOMAIN b = CacheFields /\ b.ent = c.ent /\ b.size = c.size /\ b.insert_sort = TRUE
      /\ b.rrl = <<>>
  BY <1>2 DEF CacheFields
<1>. HIDE DEF b, d
<1>4. SortGood(s, 0, 0, b, 0, b)
  <2>1. Once(b.rrl) /\ b.rrl \in Seq(Pairs) /\ Ordered(b) /\ ToSet(b.rrl) = {}
    BY <1>3 DEF Once, Ordered, ToSet
  <2>2. 1..0 = {}
    OBVIOUS
  <2>. QED BY <1>3, <2>1, <2>2 DEF SortGood
<1>5. \A a, le : a.ent = c.ent => TsOf(a, le) = TsOf(c, le)
  BY DEF TsOf
<1>6. ASSUME NEW k \in 1..Len(s), NEW a, SortGood(s, 0, 0, b, k - 1, a)
      PROVE  SortGood(s, 0, 0, b, k, SortOp(s, 0, 0, a, s[k]))
  <2>. DEFINE le == s[k]  n == le[1]  i == le[2]  f == InsertRrl(a, n, i)
  <2>1. /\ DOMAIN a = CacheFields /\ a.ent = c.ent /\ a.size = b.size /\ a.insert_sort = b.insert_sort
        /\ a.rrl \in Seq(Pairs) /\ Once(a.rrl) /\ Ordered(a)
        /\ \A me : me \in ToSet(a.rrl) <=> \E j \in 1..k - 1 : me = s[j]
    BY <1>3, <1>6 DEF SortGood
  <2>2. \A j \in 1..Len(s) : s[j] \in ToSet(c.rrl)
    BY <1>2 DEF ToSet
  <2>3. le \in ToSet(c.rrl)
    BY <2>2
  <2>. HIDE DEF le
  <2>4. le \in Pairs /\ le = <<n, i>> /\ IsListed(c, n, i)
    BY <2>3, ListedEntry
  <2>5. le \notin ToSet(a.rrl)
    <3>1. SUFFICES ASSUME NEW j \in 1..k - 1, s[k] = s[j] PROVE FALSE
      BY <2>1 DEF le
    <3>2. j \in 1..Len(s) /\ j # k
      OBVIOUS
    <3>. QED BY <3>1, <3>2, <1>2 DEF Once
  <2>6. \A me \in ToSet(c.rrl) : TsOf(c, me) \in Int
    BY ListedTs
  <2>7. \A me \in ToSet(a.rrl) : TsOf(a, me) \in Int
    <3>1. ASSUME NEW me \in ToSet(a.rrl) PROVE me \in ToSet(c.rrl)
      <4>1. PICK j \in 1..k - 1 : me = s[j]
        BY <2>1
      <4>2. j \in 1..Len(s)
        OBVIOUS
      <4>. QED BY <4>1, <4>2, <2>2
    <3>. QED BY <3>1, <2>1, <2>6, <1>5
  <2>8. TsOf(a, le) \in Int
    BY <2>1, <2>3, <2>6, <1>5
  <2>13. <<n, i>> \in Pairs /\ <<n, i>> \notin ToSet(a.rrl) /\ TsOf(a, <<n, i>>) \in Int
    BY <2>4, <2>5, <2>8
  <2>. HIDE DEF f
  <2>9. /\ DOMAIN f = CacheFields /\ f.ent = a.ent /\ f.size = a.size
        /\ f.insert_sort = a.insert_sort /\ f.rrl \in Seq(Pairs)
        /\ ~Blocked(a, n, i) =>
              \A me : me \in ToSet(f.rrl) <=> me \in ToSet(a.rrl) \/ me = le
        /\ Once(a.rrl) => Once(f.rrl)
        /\ Ordered(a) => Ordered(f)
    <3>. HIDE DEF n, i
    <3>. QED BY <2>1, <2>4, <2>7, <2>13, InsertRrlIs DEF f
  <2>10. ~Blocked(a, n, i)
    BY <2>1, <2>4 DEF Blocked, IsListed
  <2>11. ASSUME NEW me PROVE me \in ToSet(f.rrl) <=> \E j \in 1..k : me = s[j]
    <3>1. me \in ToSet(f.rrl) <=> (\E j \in 1..k - 1 : me = s[j]) \/ me = s[k]
      BY <2>1, <2>9, <2>10 DEF le
    <3>2. \A j : j \in 1..k <=> j \in 1..k - 1 \/ j = k
      OBVIOUS
    <3>. QED BY <3>1, <3>2
  <2>12. SortGood(s, 0, 0, b, k, f)
    BY <1>3, <2>1, <2>9, <2>11 DEF SortGood
  <2>. QED BY <2>12 DEF SortOp, f, le
<1>7. SortGood(s, 0, 0, b, Len(s), d)
  <2>. HIDE DEF SortGood, SortOp
  <2>. QED BY <1>1, <1>2, <1>4, <1>6, Sort!FoldKeeps
<1>8. ToSet(d.rrl) = ToSet(c.rrl)
  BY <1>2, <1>7 DEF SortGood, ToSet
<1>9. \A n, i : IsListed(d, n, i) <=> IsListed(c, n, i)
  BY <1>3, <1>7 DEF SortGood, IsListed
<1>10. Books(d, 0)
  BY <1>3, <1>7, <1>8, <1>9 DEF SortGood, Books, Shape, ListOK
<1>. QED BY <1>3, <1>7, <1>8, <1>10 DEF SortGood, d

----------------------------------------------------------------------------
(* Purging the cache. *)

LEMMA NothingIn == ASSUME NEW s \in Seq(Pairs), ToSet(s) = {} PROVE s = <<>>
<1>. DEFINE l == Len(s)
<1>1. DOMAIN s = 1..l /\ l \in Nat /\ DOMAIN s = {}
  BY DEF ToSet
<1>. HIDE DEF l
<1>2. 1 \notin 1..l
  BY <1>1
<1>3. l = 0
  BY <1>1, <1>2
<1>. QED BY <1>3, EmptySeq DEF l

\* Elements of a list that come later are other ones.
LEMMA Later ==
  ASSUME NEW s, Once(s), NEW k \in 1..Len(s), NEW j \in k + 1..Len(s)
  PROVE  j \in 1..Len(s) /\ s[j] # s[k]
BY DEF Once

\* What is due later is still listed.
TimedoutOp(sz, lazy, z, d, le) == IF lazy /\ d.size <= sz THEN d ELSE PurgeTimedout(d, le)
TimedoutGood(sz, lazy, z, base, k, d) ==
  /\ Purging(base, d)
  /\ \A j \in k + 1..Len(base.rrl) : base.rrl[j] \in ToSet(d.rrl)
Old == INSTANCE FoldFacts WITH Op <- TimedoutOp, Good <- TimedoutGood

FirstPurge(c, sz, lazy) ==
  FoldLeft(LAMBDA d, le : IF lazy /\ d.size <= sz THEN d ELSE PurgeTimedout(d, le), c, c.rrl)

LEMMA FirstPurgeIs ==
  ASSUME NEW c, Books(c, 0), NEW sz, NEW lazy
  PROVE  Purging(c, FirstPurge(c, sz, lazy))
<1>. DEFINE s == c.rrl  b == FirstPurge(c, sz, lazy)
<1>1. b = Old!Folded(sz, lazy, 0, c, s)
  BY DEF FirstPurge, Old!Folded, TimedoutOp, FoldLeft, MapThenFoldSet, Old!FoldLeft,
         Old!MapThenFoldSet, Max, Old!Max
<1>2. s \in Seq(Pairs) /\ DOMAIN s = 1..Len(s) /\ Len(s) \in Nat /\ Once(s)
  BY DEF Books, Shape, ListOK
<1>3. TimedoutGood(sz, lazy, 0, c, 0, c)
  BY <1>2, PurgingSelf DEF TimedoutGood, ToSet
<1>. HIDE DEF b
<1>4. ASSUME NEW k \in 1..Len(s), NEW a, TimedoutGood(sz, lazy, 0, c, k - 1, a)
      PROVE  TimedoutGood(sz, lazy, 0, c, k, TimedoutOp(sz, lazy, 0, a, s[k]))
  <2>. DEFINE f == PurgeTimedout(a, s[k])
  <2>1. Purging(c, a) /\ Books(a, 0) /\ \A j \in k..Len(s) : s[j] \in ToSet(a.rrl)
    BY <1>4 DEF TimedoutGood, Purging
  <2>2. s[k] \in ToSet(a.rrl) /\ \A j \in k + 1..Len(s) : s[j] \in ToSet(a.rrl)
    BY <1>2, <2>1
  <2>3. Purging(a, f) /\ ToSet(a.rrl) \ {s[k]} \subseteq ToSet(f.rrl)
    BY <2>1, <2>2, PurgeTimedoutIs
  <2>. HIDE DEF f
  <2>4. Purging(c, f)
    BY <2>1, <2>3, PurgingTwice
  <2>5. \A j \in k + 1..Len(s) : s[j] \in ToSet(f.rrl)
    BY <1>2, <2>2, <2>3, Later
  <2>6. CASE lazy /\ a.size <= sz
    BY <2>1, <2>2, <2>6 DEF TimedoutGood, TimedoutOp
  <2>7. CASE ~(lazy /\ a.size <= sz)
    BY <2>4, <2>5, <2>7 DEF TimedoutGood, TimedoutOp, f
  <2>. QED BY <2>6, <2>7
<1>5. TimedoutGood(sz, lazy, 0, c, Len(s), b)
  <2>. HIDE DEF TimedoutGood, TimedoutOp
  <2>. QED BY <1>1, <1>2, <1>3, <1>4, Old!FoldKeeps
<1>. QED BY <1>5 DEF TimedoutGood, b

\* While the cache is too large, what was due is not listed any more.
OldestOp(sz, y, z, d, le) == IF d.size <= sz THEN d ELSE PurgeOldest(d, le)
OldestGood(sz, y, z, base, k, d) ==
  /\ Purging(base, d)
  /\ d.size > sz =>
       /\ \A j \in k + 1..Len(base.rrl) : base.rrl[j] \in ToSet(d.rrl)
       /\ \A j \in 1..k : base.rrl[j] \notin ToSet(d.rrl)
Oldest == INSTANCE FoldFacts WITH Op <- OldestOp, Good <- OldestGood

SecondPurge(c, sz) ==
  FoldLeft(LAMBDA d, le : IF d.size <= sz THEN d ELSE PurgeOldest(d, le), c, c.rrl)

LEMMA SecondPurgeIs ==
  ASSUME NEW c, Books(c, 0), NEW sz \in Int
  PROVE  LET d == SecondPurge(c, sz) IN Purging(c, d) /\ (d.size > sz => d.rrl = <<>>)
<1>. DEFINE s == c.rrl  b == SecondPurge(c, sz)
<1>1. b = Oldest!Folded(sz, 0, 0, c, s)
  BY DEF SecondPurge, Oldest!Folded, OldestOp, FoldLeft, MapThenFoldSet, Oldest!FoldLeft,
         Oldest!MapThenFoldSet, Max, Oldest!Max
<1>2. s \in Seq(Pairs) /\ DOMAIN s = 1..Len(s) /\ Len(s) \in Nat /\ Once(s)
  BY DEF Books, Shape, ListOK
<1>3. OldestGood(sz, 0, 0, c, 0, c)
  BY <1>2, PurgingSelf DEF OldestGood, ToSet
<1>. HIDE DEF b
<1>4. ASSUME NEW k \in 1..Len(s), NEW a, OldestGood(sz, 0, 0, c, k - 1, a)
      PROVE  OldestGood(sz, 0, 0, c, k, OldestOp(sz, 0, 0, a, s[k]))
  <2>. DEFINE f == PurgeOldest(a, s[k])
  <2>1. Purging(c, a) /\ Books(a, 0) /\ a.size \in Int
    BY <1>4 DEF OldestGood, Purging, Books, Shape
  <2>2. CASE a.size <= sz
    <3>1. ~(a.size > sz)
      BY <2>1, <2>2
    <3>. QED BY <2>1, <2>2, <3>1 DEF OldestGood, OldestOp
  <2>3. CASE a.size > sz
    <3>1. /\ \A j \in k..Len(s) : s[j] \in ToSet(a.rrl)
          /\ \A j \in 1..k - 1 : s[j] \notin ToSet(a.rrl)
      BY <1>4, <2>3 DEF OldestGood
    <3>2. s[k] \in ToSet(a.rrl) /\ \A j \in k + 1..Len(s) : s[j] \in ToSet(a.rrl)
      BY <1>2, <3>1
    <3>3. Purging(a, f) /\ ToSet(f.rrl) = ToSet(a.rrl) \ {s[k]}
      BY <2>1, <3>2, PurgeOldestIs
    <3>4. OldestOp(sz, 0, 0, a, s[k]) = f
      BY <2>1, <2>3 DEF OldestOp
    <3>. HIDE DEF f
    <3>5. Purging(c, f)
      BY <2>1, <3>3, PurgingTwice
    <3>6. \A j \in k + 1..Len(s) : s[j] \in ToSet(f.rrl)
      BY <1>2, <3>2, <3>3, Later
    <3>7. \A j \in 1..k : s[j] \notin ToSet(f.rrl)
      <4>1. \A j \in 1..k : j = k \/ j \in 1..k - 1
        OBVIOUS
      <4>. QED BY <4>1, <3>1, <3>3
    <3>. QED BY <3>4, <3>5, <3>6, <3>7 DEF OldestGood
  <2>. QED BY <2>1, <2>2, <2>3
<1>5. OldestGood(sz, 0, 0, c, Len(s), b)
  <2>. HIDE DEF OldestGood, OldestOp
  <2>. QED BY <1>1, <1>2, <1>3, <1>4, Oldest!FoldKeeps
<1>6. ASSUME b.size > sz PROVE b.rrl = <<>>
  <2>1. ToSet(b.rrl) \subseteq ToSet(s) /\ \A j \in 1..Len(s) : s[j] \notin ToSet(b.rrl)
    BY <1>5, <1>6 DEF OldestGood, Purging
  <2>2. ToSet(b.rrl) = {}
    BY <1>2, <2>1 DEF ToSet
  <2>3. b.rrl \in Seq(Pairs)
    BY <1>5 DEF OldestGood, Purging, Books, Shape
  <2>. QED BY <2>2, <2>3, NothingIn
<1>. QED BY <1>5, <1>6 DEF OldestGood, b

\* d is what c may be afterwards: the list may have been sorted.
Cleared(c, d) ==
  /\ Books(d, 0) /\ (Ordered(c) => Ordered(d)) /\ (c.insert_sort => d.insert_sort)
  /\ Keeps(c, d)

LEMMA PurgeCacheIs ==
  ASSUME NEW c, Books(c, 0), NEW sz \in Int, NEW lazy
  PROVE  LET d == PurgeCache(c, sz, lazy)
         IN  Cleared(c, d) /\ (d.size > sz => d.rrl = <<>>)
<1>. DEFINE a == FirstPurge(c, sz, lazy)
            b == IF a.insert_sort THEN a ELSE SortRrl(a)
            f == SecondPurge(b, sz)
            d == PurgeCache(c, sz, lazy)
<1>1. d = (IF a.size <= sz THEN a ELSE f)
  BY DEF PurgeCache, FirstPurge, SecondPurge
<1>2. Purging(c, a)
  BY FirstPurgeIs
<1>. HIDE DEF a
<1>3. Books(a, 0) /\ a.size \in Int
  BY <1>2 DEF Purging, Books, Shape
<1>4. /\ Books(b, 0) /\ (Ordered(a) => Ordered(b)) /\ (a.insert_sort => b.insert_sort)
      /\ Keeps(a, b)
  <2>1. CASE a.insert_sort
    BY <2>1, <1>3 DEF Keeps
  <2>2. CASE ~a.insert_sort
    BY <2>2, <1>3, SortRrlIs DEF Keeps, Local
  <2>. QED BY <2>1, <2>2
<1>. HIDE DEF b
<1>5. Purging(b, f) /\ (f.size > sz => f.rrl = <<>>)
  BY <1>4, SecondPurgeIs
<1>. HIDE DEF f, d
<1>6. CASE a.size <= sz
  <2>1. d = a /\ ~(a.size > sz)
    BY <1>1, <1>3, <1>6
  <2>. QED BY <2>1, <1>2 DEF Purging, Cleared, d
<1>7. CASE ~(a.size <= sz)
  <2>1. d = f
    BY <1>1, <1>7
  <2>2. Cleared(c, f)
    BY <1>2, <1>4, <1>5 DEF Purging, Cleared, Keeps
  <2>. QED BY <2>1, <2>2, <1>5 DEF d
<1>. QED BY <1>6, <1>7

\* The cache exceeds its limit only by what may not be purged.
Bounded(c) == c.size > PermCache + MCSZ => c.rrl = <<>>

LEMMA PurgedIs == ASSUME NEW c, Books(c, 0) PROVE Cleared(c, Purged(c)) /\ Bounded(Purged(c))
<1>1. PermCache + MCSZ \in Int
  BY SizeAssumption
<1>. DEFINE sz == PermCache + MCSZ
<1>2. Purged(c) = PurgeCache(c, sz, TRUE)
  BY DEF Purged
<1>. HIDE DEF sz
<1>3. sz \in Int
  BY <1>1 DEF sz
<1>. QED BY <1>2, <1>3, PurgeCacheIs DEF Bounded, sz

----------------------------------------------------------------------------
(* The indices in their order. *)

Rank(i) == Cardinality({j \in RR : j <= i})

LEMMA RankIs ==
  /\ \A i \in RR : Rank(i) \in 1..Cardinality(RR)
  /\ \A i, j \in RR : Rank(i) = Rank(j) => i = j
<1>. DEFINE UpTo(i) == {j \in RR : j <= i}
<1>1. \A i \in RR : UpTo(i) \in SUBSET RR /\ i \in UpTo(i)
  BY RRFinite
<1>2. ASSUME NEW i \in RR PROVE Rank(i) \in 1..Cardinality(RR)
  <2>. DEFINE V == UpTo(i)
  <2>1. V \in SUBSET RR /\ V # {}
    BY <1>1
  <2>. HIDE DEF V
  <2>2. /\ IsFiniteSet(V) /\ Cardinality(V) <= Cardinality(RR)
        /\ Cardinality(V) \in Nat /\ Cardinality(RR) \in Nat /\ Cardinality(V) # 0
    BY <2>1, RRFinite, FS_Subset, FS_CardinalityType, FS_EmptySet
  <2>3. Cardinality(V) \in 1..Cardinality(RR)
    BY <2>2
  <2>. QED BY <2>3 DEF V, Rank
<1>3. ASSUME NEW i \in RR, NEW j \in RR, i < j, Rank(i) = Rank(j) PROVE FALSE
  <2>. DEFINE V == UpTo(i)  W == UpTo(j)
  <2>1. V \in SUBSET W /\ W \in SUBSET RR /\ j \in W /\ j \notin V
    <3>1. \A k \in RR : k \in Int
      BY RRFinite
    <3>2. \A k \in RR : k <= i => k <= j
      BY <1>3, <3>1
    <3>3. ~(j <= i) /\ j <= j
      BY <1>3, <3>1
    <3>. QED BY <3>2, <3>3
  <2>2. Cardinality(V) = Cardinality(W)
    BY <1>3 DEF Rank
  <2>. HIDE DEF V, W
  <2>3. IsFiniteSet(W)
    BY <2>1, RRFinite, FS_Subset
  <2>4. W = V
    BY <2>1, <2>2, <2>3, FS_Subset
  <2>. QED BY <2>1, <2>4
<1>4. ASSUME NEW i \in RR, NEW j \in RR, Rank(i) = Rank(j) PROVE i = j
  <2>1. i < j \/ j < i \/ i = j
    BY RRFinite
  <2>. QED BY <2>1, <1>3, <1>4
<1>. QED BY <1>2, <1>4

\* Each index comes once.
LEMMA IndicesOnce ==
  /\ \A k \in 1..Cardinality(RR) : Indices[k] \in RR /\ Rank(Indices[k]) = k
  /\ \A i \in RR : Indices[Rank(i)] = i
<1>. DEFINE f == [i \in RR |-> Rank(i)]  N == Cardinality(RR)
<1>1. N \in Nat /\ IsFiniteSet(1..N) /\ Cardinality(1..N) = N
  BY RRFinite, FS_CardinalityType, FS_Interval
<1>2. f \in Injection(RR, 1..N)
  BY RankIs DEF Injection, IsInjective
<1>3. f \in Surjection(RR, 1..N)
  <2>. HIDE DEF f
  <2>. QED BY <1>1, <1>2, FS_Injection
<1>4. \A k \in 1..N : \E i \in RR : Rank(i) = k
  BY <1>3 DEF Surjection
<1>5. \A k \in 1..N : Indices[k] = CHOOSE i \in RR : Rank(i) = k
  BY DEF Indices, Rank
<1>6. \A k \in 1..N : Indices[k] \in RR /\ Rank(Indices[k]) = k
  BY <1>4, <1>5
<1>7. ASSUME NEW i \in RR PROVE Indices[Rank(i)] = i
  <2>1. Rank(i) \in 1..N
    BY RankIs
  <2>2. Indices[Rank(i)] \in RR /\ Rank(Indices[Rank(i)]) = Rank(i)
    BY <2>1, <1>6
  <2>. QED BY <2>2, RankIs
<1>. QED BY <1>6, <1>7

----------------------------------------------------------------------------
(* Adding an entry. *)

CentOK(cent) ==
  /\ DOMAIN cent.sets \subseteq RR /\ cent.ts \in Int
  /\ \A i \in DOMAIN cent.sets : SetOK(cent.sets[i])
  /\ cent.neg => DOMAIN cent.sets = {}

LEMMA CopiedIs ==
  ASSUME NEW cent, CentOK(cent)
  PROVE  LET e == Copied(cent)
         IN  /\ EntOK(e) /\ e.neg = cent.neg /\ e.local = cent.local
             /\ DOMAIN e.sets = DOMAIN cent.sets
             /\ \A i \in DOMAIN cent.sets : e.sets[i].local = cent.sets[i].local
<1>. DEFINE e == Copied(cent)  ext == DOMAIN cent.sets \intersect EXT # {}
<1>1. /\ DOMAIN e = EntFields /\ e.neg = cent.neg /\ e.local = cent.local
      /\ e.ext = ext /\ e.cs = CentSize + SetsSize(cent.sets) + (IF ext THEN RrextSize ELSE 0)
      /\ e.ts = (IF cent.neg THEN cent.ts ELSE 0)
      /\ DOMAIN e.sets = DOMAIN cent.sets
      /\ \A i \in DOMAIN cent.sets : e.sets[i] = Adjusted(cent.sets[i])
  BY DEF Copied, EntFields
<1>. HIDE DEF e
<1>2. /\ e.ts \in Int /\ e.ext \in BOOLEAN /\ DOMAIN e.sets \subseteq RR
      /\ (DOMAIN e.sets \intersect EXT # {} => e.ext)
      /\ (e.neg => DOMAIN e.sets = {})
  <2>1. e.ts \in Int
    BY <1>1 DEF CentOK
  <2>2. ext \in BOOLEAN
    OBVIOUS
  <2>3. DOMAIN e.sets \intersect EXT # {} => ext
    BY <1>1
  <2>4. DOMAIN e.sets \subseteq RR /\ (e.neg => DOMAIN e.sets = {})
    BY <1>1 DEF CentOK
  <2>. HIDE DEF ext
  <2>. QED BY <1>1, <2>1, <2>2, <2>3, <2>4
<1>. HIDE DEF ext
<1>3. \A i \in DOMAIN cent.sets :
         SetOK(e.sets[i]) /\ SetSize(e.sets[i]) = SetSize(cent.sets[i])
           /\ e.sets[i].local = cent.sets[i].local
  BY <1>1, AdjustedIs DEF CentOK
<1>4. SetsSize(e.sets) = SetsSize(cent.sets)
  <2>1. [i \in DOMAIN e.sets |-> SetSize(e.sets[i])]
          = [i \in DOMAIN cent.sets |-> SetSize(cent.sets[i])]
    BY <1>1, <1>3
  <2>. QED BY <2>1 DEF SetsSize
<1>5. e.cs = CentSize + SetsSize(e.sets) + (IF e.ext THEN RrextSize ELSE 0)
  BY <1>1, <1>4
<1>6. EntOK(e)
  BY <1>1, <1>2, <1>3, <1>5 DEF EntOK
<1>. QED BY <1>1, <1>3, <1>6 DEF e

\* le is one of the first k sets of the entry e of n that are listed.
Among(le, n, e, k) ==
  /\ le[1] = n /\ ~e.local
  /\ \E j \in 1..k : le[2] = Indices[j]
  /\ le[2] \in DOMAIN e.sets /\ ~e.sets[le[2]].local

ListOp(n, e, z, d, i) == IF i \in DOMAIN e.sets THEN InsertRrl(d, n, i) ELSE d
ListGood(n, e, z, base, k, d) ==
  /\ DOMAIN d = CacheFields /\ d.ent = base.ent /\ d.size = base.size
  /\ d.insert_sort = base.insert_sort /\ d.rrl \in Seq(Pairs) /\ Once(d.rrl)
  /\ Ordered(base) => Ordered(d)
  /\ \A le \in Pairs : le \in ToSet(d.rrl) <=> le \in ToSet(base.rrl) \/ Among(le, n, e, k)
Listing == INSTANCE FoldFacts WITH Op <- ListOp, Good <- ListGood

\* The entry n of c is e, none of whose sets is listed.
Unlisting(c, n, e) ==
  /\ DOMAIN c = CacheFields /\ n \in DOMAIN c.ent /\ c.ent[n] = e /\ EntOK(e)
  /\ c.rrl \in Seq(Pairs) /\ Once(c.rrl)
  /\ \A le \in ToSet(c.rrl) : le[1] # n /\ TsOf(c, le) \in Int

LEMMA ListingStep ==
  ASSUME NEW c, NEW n \in Names, NEW e, Unlisting(c, n, e),
         NEW k \in 1..Cardinality(RR), NEW a, ListGood(n, e, 0, c, k - 1, a)
  PROVE  ListGood(n, e, 0, c, k, ListOp(n, e, 0, a, Indices[k]))
<1>. DEFINE i == Indices[k]  le == <<n, i>>  f == InsertRrl(a, n, i)
<1>1. i \in RR /\ i # Whole /\ le \in Pairs
  BY IndicesOnce, RRFinite DEF Pairs
<1>2. \A j \in 1..Cardinality(RR) : Indices[j] = i => j = k
  BY IndicesOnce
<1>. HIDE DEF i
<1>3. \A j : j \in 1..k <=> j \in 1..k - 1 \/ j = k
  OBVIOUS
<1>4. \A j \in 1..k - 1 : j \in 1..Cardinality(RR) /\ j # k
  BY IndicesIs
<1>5. \A me \in Pairs : Among(me, n, e, k)
        <=> Among(me, n, e, k - 1) \/ (me = le /\ ~e.local /\ i \in DOMAIN e.sets /\ ~e.sets[i].local)
  <2>1. ASSUME NEW me \in Pairs
        PROVE  /\ me = le <=> me[1] = n /\ me[2] = i
               /\ (\E j \in 1..k : me[2] = Indices[j])
                    <=> (\E j \in 1..k - 1 : me[2] = Indices[j]) \/ me[2] = i
    BY <1>3 DEF Pairs, i
  <2>. QED BY <2>1 DEF Among
<1>6. /\ DOMAIN a = CacheFields /\ a.ent = c.ent /\ a.size = c.size
      /\ a.insert_sort = c.insert_sort /\ a.rrl \in Seq(Pairs) /\ Once(a.rrl)
      /\ Ordered(c) => Ordered(a)
      /\ \A me \in Pairs : me \in ToSet(a.rrl) <=> me \in ToSet(c.rrl) \/ Among(me, n, e, k - 1)
  BY DEF ListGood
<1>7. CASE i \in DOMAIN e.sets
  <2>1. le \notin ToSet(a.rrl)
    <3>1. le \notin ToSet(c.rrl)
      BY DEF Unlisting
    <3>2. ~Among(le, n, e, k - 1)
      <4>1. \A j \in 1..k - 1 : Indices[j] # i
        BY <1>2, <1>4
      <4>. QED BY <4>1 DEF Among
    <3>. QED BY <3>1, <3>2, <1>1, <1>6
  <2>2. \A me : TsOf(a, me) = TsOf(c, me)
    BY <1>6 DEF TsOf
  <2>3. TsOf(c, le) \in Int
    BY <1>1, <1>7 DEF Unlisting, EntOK, SetOK, TsOf
  <2>4. ASSUME NEW me \in ToSet(a.rrl) PROVE TsOf(c, me) \in Int
    <3>1. me \in Pairs
      BY <1>6, <2>4 DEF ToSet
    <3>2. CASE me \in ToSet(c.rrl)
      BY <3>2 DEF Unlisting
    <3>3. CASE Among(me, n, e, k - 1)
      <4>1. me[2] \in RR
        BY <3>3 DEF Among, Unlisting, EntOK
      <4>. QED BY <3>3, <4>1, RRFinite DEF Among, Unlisting, EntOK, SetOK, TsOf
    <3>. QED BY <3>1, <3>2, <3>3, <1>6
  <2>. HIDE DEF f
  <2>5. /\ DOMAIN f = CacheFields /\ f.ent = a.ent /\ f.size = a.size
        /\ f.insert_sort = a.insert_sort /\ f.rrl \in Seq(Pairs)
        /\ Blocked(a, n, i) => f.rrl = a.rrl
        /\ ~Blocked(a, n, i) => \A me : me \in ToSet(f.rrl) <=> me \in ToSet(a.rrl) \/ me = le
        /\ Once(a.rrl) => Once(f.rrl)
        /\ Ordered(a) => Ordered(f)
    BY <1>1, <1>6, <2>1, <2>2, <2>3, <2>4, InsertRrlIs DEF f
  <2>6. Blocked(a, n, i) <=> e.local \/ e.sets[i].local
    BY <1>1, <1>6 DEF Blocked, Unlisting
  <2>7. \A me \in Pairs : me \in ToSet(f.rrl) <=> me \in ToSet(c.rrl) \/ Among(me, n, e, k)
    BY <1>5, <1>6, <1>7, <2>5, <2>6
  <2>8. ListGood(n, e, 0, c, k, f)
    BY <1>6, <2>5, <2>7 DEF ListGood
  <2>. QED BY <2>8, <1>7 DEF ListOp, f, i
<1>8. CASE i \notin DOMAIN e.sets
  <2>1. \A me \in Pairs : Among(me, n, e, k) <=> Among(me, n, e, k - 1)
    BY <1>5, <1>8
  <2>2. ListGood(n, e, 0, c, k, a)
    BY <1>6, <2>1 DEF ListGood
  <2>. QED BY <2>2, <1>8 DEF ListOp, i
<1>. QED BY <1>7, <1>8

LEMMA AddNewIs ==
  ASSUME NEW c, Books(c, 0), NEW n \in Names, n \notin DOMAIN c.ent, NEW cent, CentOK(cent)
  PROVE  LET d == AddNew(c, n, cent)
         IN  /\ Books(d, 0) /\ (Ordered(c) => Ordered(d)) /\ d.insert_sort = c.insert_sort
             /\ Keeps(c, d)
<1>. DEFINE e == Copied(cent)  b == [c EXCEPT !.ent = With(@, n, e), !.size = @ + e.cs]
            f == FoldLeft(LAMBDA g, i : IF i \in DOMAIN e.sets THEN InsertRrl(g, n, i) ELSE g,
                          b, Indices)
            d == AddNew(c, n, cent)
<1>1. /\ EntOK(e) /\ e.neg = cent.neg /\ e.local = cent.local
  BY CopiedIs
<1>. HIDE DEF e
<1>2. /\ DOMAIN c = CacheFields /\ DOMAIN c.ent \subseteq Names /\ c.rrl \in Seq(Pairs)
      /\ Once(c.rrl) /\ c.size \in Int /\ e.cs \in Nat
  BY <1>1, CsNat DEF Books, Shape, ListOK
<1>3. /\ DOMAIN b = CacheFields /\ b.rrl = c.rrl /\ b.insert_sort = c.insert_sort
      /\ b.size = c.size + e.cs /\ b.ent = With(c.ent, n, e)
  BY <1>2 DEF CacheFields
<1>4. /\ DOMAIN b.ent = DOMAIN c.ent \union {n} /\ b.ent[n] = e
      /\ \A m \in DOMAIN c.ent : b.ent[m] = c.ent[m]
  BY <1>3 DEF With
<1>5. d = IF cent.neg THEN InsertRrl(b, n, Whole) ELSE f
  BY DEF AddNew, e
<1>6. f = Listing!Folded(n, e, 0, b, Indices)
  BY DEF Listing!Folded, ListOp, FoldLeft, MapThenFoldSet, Listing!FoldLeft,
         Listing!MapThenFoldSet, Max, Listing!Max
<1>. HIDE DEF b, f, d
<1>7. \A le \in ToSet(c.rrl) : le[1] \in DOMAIN c.ent /\ le[1] # n /\ le \in Pairs
  BY ListedEntry
<1>8. \A le \in ToSet(c.rrl) : TsOf(b, le) = TsOf(c, le)
  BY <1>4, <1>7 DEF TsOf
<1>9. Unlisting(b, n, e)
  BY <1>1, <1>2, <1>3, <1>4, <1>7, <1>8, ListedTs DEF Unlisting
<1>10. Ordered(c) => Ordered(b)
  BY <1>3, <1>8 DEF Ordered, ToSet
<1>11. /\ DOMAIN d = CacheFields /\ d.ent = b.ent /\ d.size = b.size
       /\ d.insert_sort = b.insert_sort /\ d.rrl \in Seq(Pairs) /\ Once(d.rrl)
       /\ Ordered(b) => Ordered(d)
       /\ \A le \in Pairs : le \in ToSet(d.rrl) <=>
             le \in ToSet(c.rrl) \/ (le[1] = n /\ IsListed(d, n, le[2]))
  <2>1. CASE cent.neg
    <3>1. /\ <<n, Whole>> \in Pairs /\ <<n, Whole>> \notin ToSet(b.rrl)
          /\ TsOf(b, <<n, Whole>>) \in Int
      BY <1>3, <1>4, <1>7, <1>1 DEF Pairs, TsOf, EntOK
    <3>2. \A le \in ToSet(b.rrl) : TsOf(b, le) \in Int
      BY <1>3, <1>8, ListedTs
    <3>3. /\ DOMAIN d = CacheFields /\ d.ent = b.ent /\ d.size = b.size
          /\ d.insert_sort = b.insert_sort /\ d.rrl \in Seq(Pairs)
          /\ Blocked(b, n, Whole) => d.rrl = b.rrl
          /\ ~Blocked(b, n, Whole) =>
               \A le : le \in ToSet(d.rrl) <=> le \in ToSet(b.rrl) \/ le = <<n, Whole>>
          /\ Once(b.rrl) => Once(d.rrl)
          /\ Ordered(b) => Ordered(d)
      BY <1>2, <1>3, <1>5, <2>1, <3>1, <3>2, InsertRrlIs
    <3>4. Blocked(b, n, Whole) <=> e.local
      BY <1>4 DEF Blocked
    <3>5. ASSUME NEW le \in Pairs
          PROVE  le \in ToSet(d.rrl) <=> le \in ToSet(c.rrl) \/ (le[1] = n /\ IsListed(d, n, le[2]))
      <4>1. le = <<n, Whole>> <=> le[1] = n /\ le[2] = Whole
        BY DEF Pairs
      <4>2. IsListed(d, n, le[2]) <=> le[2] = Whole /\ ~e.local
        BY <1>1, <1>4, <2>1, <3>3 DEF IsListed, EntOK
      <4>. QED BY <4>1, <4>2, <3>3, <3>4, <1>3
    <3>. QED BY <3>3, <3>5, <1>2, <1>3
  <2>2. CASE ~cent.neg
    <3>1. ListGood(n, e, 0, b, 0, b)
      <4>1. \A le : ~Among(le, n, e, 0)
        BY DEF Among
      <4>. QED BY <4>1, <1>2, <1>3 DEF ListGood
    <3>2. \A k \in 1..Cardinality(RR) : \A a : ListGood(n, e, 0, b, k - 1, a)
            => ListGood(n, e, 0, b, k, ListOp(n, e, 0, a, Indices[k]))
      BY <1>9, ListingStep
    <3>3. ListGood(n, e, 0, b, Cardinality(RR), f)
      <4>. HIDE DEF ListGood, ListOp
      <4>. QED BY <1>6, <3>1, <3>2, IndicesIs, Listing!FoldKeeps
    <3>4. d = f
      BY <1>5, <2>2
    <3>5. ASSUME NEW le \in Pairs
          PROVE  Among(le, n, e, Cardinality(RR)) <=> le[1] = n /\ IsListed(d, n, le[2])
      <4>1. le[2] \in DOMAIN e.sets => \E j \in 1..Cardinality(RR) : le[2] = Indices[j]
        BY <1>1, IndicesOnce, RankIs DEF EntOK
      <4>2. n \in DOMAIN d.ent /\ d.ent[n] = e
        BY <1>4, <3>3, <3>4 DEF ListGood
      <4>3. le[2] # Whole \/ le[2] \notin DOMAIN e.sets
        BY <1>1, RRFinite DEF EntOK
      <4>4. ~e.neg
        BY <1>1, <2>2
      <4>. QED BY <4>1, <4>2, <4>3, <4>4 DEF Among, IsListed
    <3>. QED BY <1>3, <3>3, <3>4, <3>5 DEF ListGood
  <2>. QED BY <2>1, <2>2
<1>12. Recorded(c, d, n, 0, 0)
  <2>1. CsAt(c.ent, n) = 0 /\ CsAt(d.ent, n) = e.cs
    BY <1>4, <1>11 DEF CsAt
  <2>2. d.size + 0 + CsAt(c.ent, n) = c.size + 0 + CsAt(d.ent, n) /\ d.size \in Int
    BY <2>1, <1>2, <1>3, <1>11
  <2>3. \A le \in Pairs : le[1] = n => (le \in ToSet(d.rrl) <=> IsListed(d, n, le[2]))
    BY <1>7, <1>11
  <2>4. \A le \in Pairs : le[1] # n => (le \in ToSet(d.rrl) <=> le \in ToSet(c.rrl))
    BY <1>11
  <2>5. /\ DOMAIN d.ent \ {n} = DOMAIN c.ent \ {n}
        /\ \A m \in DOMAIN c.ent \ {n} : d.ent[m] = c.ent[m]
        /\ EntOK(d.ent[n])
    BY <1>1, <1>4, <1>11
  <2>. QED BY <2>2, <2>3, <2>4, <2>5, <1>11 DEF Recorded
<1>13. Books(d, 0)
  BY <1>12, Rebook
<1>14. Keeps(c, d)
  BY <1>4, <1>11 DEF Keeps, Local
<1>. QED BY <1>3, <1>10, <1>11, <1>13, <1>14 DEF d

----------------------------------------------------------------------------
(* Merging into an entry: cache_size is short of what the entry takes. *)

Owing(c, n) == n \in DOMAIN c.ent /\ c.ent[n].cs \in Int /\ Books(c, c.ent[n].cs)

\* d is what merging into the entry n may make of c.
Merging(c, d, n) ==
  /\ Owing(d, n) /\ DOMAIN d.ent = DOMAIN c.ent
  /\ \A m \in DOMAIN c.ent \ {n} : d.ent[m] = c.ent[m]
  /\ (Ordered(c) => Ordered(d)) /\ d.insert_sort = c.insert_sort

\* The entry n is short of some sets of gone, and of no other one.
Short(c, d, n, gone) ==
  /\ d.ent[n].local = c.ent[n].local
  /\ DOMAIN d.ent[n].sets \subseteq DOMAIN c.ent[n].sets
  /\ DOMAIN c.ent[n].sets \ gone \subseteq DOMAIN d.ent[n].sets
  /\ \A j \in DOMAIN d.ent[n].sets : d.ent[n].sets[j] = c.ent[n].sets[j]

LEMMA MergingTwice ==
  ASSUME NEW b, NEW c, NEW d, NEW n, Merging(b, c, n), Merging(c, d, n)
  PROVE  Merging(b, d, n)
BY DEF Merging

LEMMA ShortTwice ==
  ASSUME NEW b, NEW c, NEW d, NEW n, NEW gone, Short(b, c, n, gone), Short(c, d, n, gone)
  PROVE  Short(b, d, n, gone)
BY DEF Short

\* What an entry owes follows what it takes.
LEMMA StillOwing ==
  ASSUME NEW c, NEW n, Owing(c, n), NEW d, Apart(c, d, n), d.size = c.size,
         NEW owing \in Int, Books(d, owing), Ordered(c) => Ordered(d)
  PROVE  Merging(c, d, n)
<1>1. /\ IsFiniteSet(DOMAIN c.ent) /\ IsFiniteSet(DOMAIN d.ent)
      /\ \A m \in DOMAIN c.ent : c.ent[m].cs \in Nat
      /\ \A m \in DOMAIN d.ent : d.ent[m].cs \in Nat
  BY CsNat DEF Owing, Books, Shape
<1>2. /\ DOMAIN d.ent = DOMAIN c.ent /\ \A m \in DOMAIN c.ent \ {n} : c.ent[m] = d.ent[m]
      /\ n \in DOMAIN c.ent /\ d.insert_sort = c.insert_sort
  BY DEF Apart, Owing
<1>3. /\ CsSum(c.ent) \in Nat /\ CsSum(d.ent) \in Nat
      /\ CsSum(c.ent) + CsAt(d.ent, n) = CsSum(d.ent) + CsAt(c.ent, n)
  BY <1>1, <1>2, CsSwap
<1>4. CsAt(c.ent, n) = c.ent[n].cs /\ CsAt(d.ent, n) = d.ent[n].cs
  BY <1>2 DEF CsAt
<1>5. c.size + c.ent[n].cs = CsSum(c.ent) /\ d.size + owing = CsSum(d.ent) /\ c.size \in Int
  BY DEF Owing, Books, Shape
<1>6. owing = d.ent[n].cs
  <2>1. c.ent[n].cs \in Int /\ d.ent[n].cs \in Int
    BY <1>1, <1>2
  <2>. QED BY <2>1, <1>3, <1>4, <1>5
<1>. QED BY <1>2, <1>6 DEF Merging, Owing

LEMMA OwingMerges == ASSUME NEW c, NEW n, Owing(c, n) PROVE Merging(c, c, n)
BY DEF Merging

LEMMA DelSetMerges ==
  ASSUME NEW c, NEW n, Owing(c, n), NEW i
  PROVE  LET d == DelSet(c, n, i)
         IN  /\ Merging(c, d, n) /\ Short(c, d, n, {i}) /\ i \notin DOMAIN d.ent[n].sets
<1>. DEFINE d == DelSet(c, n, i)  z == SetSize(c.ent[n].sets[i])
<1>1. n \in DOMAIN c.ent /\ c.ent[n].cs \in Int /\ Books(c, c.ent[n].cs)
  BY DEF Owing
<1>2. CASE i \in DOMAIN c.ent[n].sets
  <2>1. /\ SetGone(c, d, n, i) /\ d.size = c.size /\ Books(d, c.ent[n].cs - z)
        /\ Ordered(c) => Ordered(d)
    BY <1>1, <1>2, DelSetIs
  <2>2. c.ent[n].cs - z \in Int
    BY <1>1 DEF SetSize
  <2>. HIDE DEF d, z
  <2>3. Merging(c, d, n)
    BY <2>1, <2>2, StillOwing DEF SetGone
  <2>4. Short(c, d, n, {i})
    BY <2>1 DEF SetGone, Short
  <2>5. i \notin DOMAIN d.ent[n].sets
    BY <2>1 DEF SetGone
  <2>. QED BY <2>3, <2>4, <2>5 DEF d
<1>3. CASE i \notin DOMAIN c.ent[n].sets
  <2>1. d = c
    BY <1>3 DEF DelSet
  <2>. QED BY <2>1, <1>3, OwingMerges DEF Short
<1>. QED BY <1>2, <1>3

ConflictOp(n, gone, z, d, j) == IF j \in gone THEN DelSet(d, n, j) ELSE d
ConflictGood(n, gone, z, base, k, d) == Merging(base, d, n) /\ Short(base, d, n, gone)
Conflict == INSTANCE FoldFacts WITH Op <- ConflictOp, Good <- ConflictGood

LEMMA DelConflictsMerges ==
  ASSUME NEW c, NEW n, Owing(c, n), NEW i, NEW new
  PROVE  LET d == DelConflicts(c, n, i, new)
         IN  /\ Merging(c, d, n)
             /\ Short(c, d, n, IF new.negative THEN {} ELSE Conflicts(c, n, i))
<1>. DEFINE gone == Conflicts(c, n, i)  d == DelConflicts(c, n, i, new)
<1>1. CASE new.negative
  BY <1>1, OwingMerges DEF DelConflicts, Short
<1>2. CASE ~new.negative
  <2>1. d = Conflict!Folded(n, gone, 0, c, Indices)
    BY <1>2 DEF DelConflicts, Conflict!Folded, ConflictOp, FoldLeft, MapThenFoldSet,
                Conflict!FoldLeft, Conflict!MapThenFoldSet, Max, Conflict!Max
  <2>. HIDE DEF gone, d
  <2>2. ConflictGood(n, gone, 0, c, 0, c)
    BY OwingMerges DEF ConflictGood, Short
  <2>3. ASSUME NEW k \in 1..Cardinality(RR), NEW a, ConflictGood(n, gone, 0, c, k - 1, a)
        PROVE  ConflictGood(n, gone, 0, c, k, ConflictOp(n, gone, 0, a, Indices[k]))
    <3>. DEFINE j == Indices[k]  f == DelSet(a, n, j)
    <3>1. Merging(c, a, n) /\ Short(c, a, n, gone) /\ Owing(a, n)
      BY <2>3 DEF ConflictGood, Merging
    <3>2. Merging(a, f, n) /\ Short(a, f, n, {j})
      BY <3>1, DelSetMerges
    <3>. HIDE DEF f, j
    <3>3. CASE j \in gone
      <4>1. Short(a, f, n, gone)
        BY <3>2, <3>3 DEF Short
      <4>2. ConflictGood(n, gone, 0, c, k, f)
        BY <4>1, <3>1, <3>2, MergingTwice, ShortTwice DEF ConflictGood
      <4>. QED BY <4>2, <3>3 DEF ConflictOp, f, j
    <3>4. CASE j \notin gone
      BY <3>1, <3>4 DEF ConflictGood, ConflictOp, j
    <3>. QED BY <3>3, <3>4
  <2>4. ConflictGood(n, gone, 0, c, Cardinality(RR), d)
    <3>. HIDE DEF ConflictGood, ConflictOp
    <3>. QED BY <2>1, <2>2, <2>3, IndicesIs, Conflict!FoldKeeps
  <2>. QED BY <2>4, <1>2 DEF ConflictGood, gone, d
<1>. QED BY <1>1, <1>2

LEMMA ShortKeeps ==
  ASSUME NEW c, NEW d, NEW n, Merging(c, d, n), NEW gone, Short(c, d, n, gone),
         \A j \in gone \intersect DOMAIN c.ent[n].sets : ~c.ent[n].sets[j].local
  PROVE  Keeps(c, d)
<1>1. ASSUME NEW m, NEW j, Local(c, m, j) PROVE Local(d, m, j)
  <2>1. m \in DOMAIN d.ent /\ (m # n => d.ent[m] = c.ent[m])
    BY <1>1 DEF Merging, Local
  <2>2. CASE m # n
    BY <1>1, <2>1, <2>2 DEF Local
  <2>3. CASE m = n
    <3>1. j \in DOMAIN c.ent[n].sets \ gone
      BY <1>1, <2>3 DEF Local
    <3>2. j \in DOMAIN d.ent[n].sets /\ d.ent[n].sets[j] = c.ent[n].sets[j]
      BY <3>1 DEF Short
    <3>. QED BY <1>1, <2>1, <2>3, <3>2 DEF Local
  <2>. QED BY <2>2, <2>3
<1>. QED BY <1>1 DEF Keeps

LEMMA NotNegativeMerges ==
  ASSUME NEW c, NEW n, Owing(c, n)
  PROVE  LET d == NotNegative(c, n)
         IN  /\ Merging(c, d, n) /\ Keeps(c, d) /\ ~d.ent[n].neg
             /\ d.ent[n].sets = c.ent[n].sets
<1>. DEFINE d == NotNegative(c, n)
<1>1. n \in DOMAIN c.ent /\ c.ent[n].cs \in Int /\ Books(c, c.ent[n].cs)
  BY DEF Owing
<1>2. /\ SetsSame(c, d, n) /\ ~d.ent[n].neg /\ d.size = c.size
      /\ Books(d, c.ent[n].cs) /\ (Ordered(c) => Ordered(d))
  BY <1>1, NotNegativeIs
<1>. HIDE DEF d
<1>3. Merging(c, d, n)
  BY <1>1, <1>2, StillOwing DEF SetsSame
<1>4. Keeps(c, d)
  BY <1>2 DEF Keeps, Local, SetsSame, Apart
<1>. QED BY <1>2, <1>3, <1>4 DEF SetsSame, d

LEMMA AddSetMerges ==
  ASSUME NEW c, NEW n, Owing(c, n), NEW i \in RR, i \notin DOMAIN c.ent[n].sets, ~c.ent[n].neg,
         NEW new, SetOK(new)
  PROVE  Merging(c, AddSet(c, n, i, new), n) /\ Keeps(c, AddSet(c, n, i, new))
<1>. DEFINE d == AddSet(c, n, i, new)
<1>1. n \in DOMAIN c.ent /\ c.ent[n].cs \in Int /\ Books(c, c.ent[n].cs)
  BY DEF Owing
<1>2. /\ Apart(c, d, n) /\ d.size = c.size
      /\ DOMAIN d.ent[n].sets = DOMAIN c.ent[n].sets \union {i}
      /\ \A j \in DOMAIN c.ent[n].sets : d.ent[n].sets[j] = c.ent[n].sets[j]
      /\ Books(d, c.ent[n].cs + d.ent[n].cs - c.ent[n].cs) /\ d.ent[n].cs \in Nat
      /\ Ordered(c) => Ordered(d)
  BY <1>1, AddSetIs
<1>. HIDE DEF d
<1>3. c.ent[n].cs + d.ent[n].cs - c.ent[n].cs \in Int
  BY <1>1, <1>2
<1>4. Merging(c, d, n)
  BY <1>2, <1>3, StillOwing
<1>5. Keeps(c, d)
  BY <1>2 DEF Keeps, Local, Apart
<1>. QED BY <1>4, <1>5 DEF d

LEMMA KeepsTwice == ASSUME NEW b, NEW c, NEW d, Keeps(b, c), Keeps(c, d) PROVE Keeps(b, d)
BY DEF Keeps

NoLocals(cent) == \A i \in DOMAIN cent.sets : ~cent.sets[i].local

\* Local records go only for other ones, and memory runs out only where it fails.
MergesTo(a, b, n, i, cent, fail) ==
  /\ DOMAIN b = {"c", "full"} /\ Merging(a.c, b.c, n) /\ (b.full => a.full \/ fail = i)
  /\ NoLocals(cent) => Keeps(a.c, b.c)

LEMMA MergeSetIs ==
  ASSUME NEW a, DOMAIN a = {"c", "full"}, NEW n, Owing(a.c, n), NEW i \in RR,
         NEW cent, CentOK(cent), NEW fail
  PROVE  MergesTo(a, MergeSet(a, n, i, cent, fail), n, i, cent, fail)
<1>. DEFINE new == cent.sets[i]
            c == a.c
            d == DelSet(c, n, i)
            e == DelConflicts(d, n, i, new)
            b == NotNegative(e, n)
            f == AddSet(b, n, i, new)
            g == MergeSet(a, n, i, cent, fail)
<1>1. MergesTo(a, a, n, i, cent, fail)
  BY OwingMerges DEF MergesTo, Keeps
<1>2. CASE a.full \/ i \notin DOMAIN cent.sets
  BY <1>1, <1>2 DEF MergeSet
<1>3. CASE ~a.full /\ i \in DOMAIN cent.sets
  <2>1. g = (IF i \in DOMAIN c.ent[n].sets /\ Precedes(c.ent[n].sets[i], new) THEN a
             ELSE IF ~CrCheckAdd(d, n, i, new) THEN [a EXCEPT !.c = d]
             ELSE IF fail = i THEN [c |-> b, full |-> TRUE] ELSE [a EXCEPT !.c = f])
    BY <1>3 DEF MergeSet
  <2>2. SetOK(new) /\ (NoLocals(cent) => ~new.local)
    BY <1>3 DEF CentOK, NoLocals
  <2>. HIDE DEF new
  <2>3. Merging(c, d, n) /\ Short(c, d, n, {i}) /\ i \notin DOMAIN d.ent[n].sets /\ Owing(d, n)
    <3>1. Merging(c, d, n) /\ Short(c, d, n, {i}) /\ i \notin DOMAIN d.ent[n].sets
      BY DelSetMerges
    <3>. QED BY <3>1 DEF Merging
  <2>. HIDE DEF d
  <2>4. /\ Merging(d, e, n) /\ Owing(e, n)
        /\ Short(d, e, n, IF new.negative THEN {} ELSE Conflicts(d, n, i))
    BY <2>3, DelConflictsMerges DEF Merging
  <2>. HIDE DEF e
  <2>5. /\ Merging(e, b, n) /\ Keeps(e, b) /\ ~b.ent[n].neg /\ b.ent[n].sets = e.ent[n].sets
        /\ Owing(b, n)
    BY <2>4, NotNegativeMerges DEF Merging
  <2>6. i \notin DOMAIN b.ent[n].sets
    BY <2>3, <2>4, <2>5 DEF Short
  <2>. HIDE DEF b
  <2>7. Merging(b, f, n) /\ Keeps(b, f)
    BY <2>2, <2>5, <2>6, AddSetMerges
  <2>. HIDE DEF f
  <2>8. Merging(c, b, n) /\ Merging(c, f, n)
    BY <2>3, <2>4, <2>5, <2>7, MergingTwice
  <2>9. CASE i \in DOMAIN c.ent[n].sets /\ Precedes(c.ent[n].sets[i], new)
    BY <1>1, <2>1, <2>9
  <2>10. CASE ~(i \in DOMAIN c.ent[n].sets /\ Precedes(c.ent[n].sets[i], new))
    <3>1. ASSUME NoLocals(cent) PROVE Keeps(c, d)
      <4>1. i \in DOMAIN c.ent[n].sets => ~c.ent[n].sets[i].local
        BY <2>2, <2>10, <3>1 DEF Precedes
      <4>. QED BY <4>1, <2>3, ShortKeeps
    <3>2. CASE ~CrCheckAdd(d, n, i, new)
      <4>1. g = [a EXCEPT !.c = d]
        BY <2>1, <2>10, <3>2
      <4>2. g.c = d /\ g.full = a.full /\ DOMAIN g = {"c", "full"}
        BY <4>1
      <4>. QED BY <2>3, <3>1, <4>2 DEF MergesTo
    <3>3. CASE CrCheckAdd(d, n, i, new)
      <4>1. ASSUME NoLocals(cent) PROVE Keeps(d, e)
        <5>1. ~new.negative => \A j \in Conflicts(d, n, i) : ~d.ent[n].sets[j].local
          BY <2>2, <3>3, <4>1 DEF CrCheckAdd
        <5>. QED BY <5>1, <2>4, ShortKeeps
      <4>2. NoLocals(cent) => Keeps(c, b) /\ Keeps(c, f)
        BY <3>1, <4>1, <2>5, <2>7, KeepsTwice
      <4>3. CASE fail = i
        <5>1. g = [c |-> b, full |-> TRUE]
          BY <2>1, <2>10, <3>3, <4>3
        <5>2. g.c = b /\ DOMAIN g = {"c", "full"}
          BY <5>1
        <5>. QED BY <2>8, <4>2, <4>3, <5>2 DEF MergesTo
      <4>4. CASE fail # i
        <5>1. g = [a EXCEPT !.c = f]
          BY <2>1, <2>10, <3>3, <4>4
        <5>2. g.c = f /\ g.full = a.full /\ DOMAIN g = {"c", "full"}
          BY <5>1
        <5>. QED BY <2>8, <4>2, <5>2 DEF MergesTo
      <4>. QED BY <4>3, <4>4
    <3>. QED BY <3>2, <3>3
  <2>. QED BY <2>9, <2>10
<1>. QED BY <1>2, <1>3

MergeOp(n, cent, fail, a, i) == MergeSet(a, n, i, cent, fail)
MergeGood(n, cent, fail, base, k, a) ==
  /\ DOMAIN a = {"c", "full"} /\ Merging(base.c, a.c, n) /\ (fail = 0 => ~a.full)
  /\ NoLocals(cent) => Keeps(base.c, a.c)
Merge == INSTANCE FoldFacts WITH Op <- MergeOp, Good <- MergeGood

\* d is what adding cent may make of c.
Added(c, d, cent) ==
  /\ Books(d, 0) /\ (Ordered(c) => Ordered(d)) /\ (c.insert_sort => d.insert_sort)
  /\ NoLocals(cent) => Keeps(c, d)

LEMMA MergedIs ==
  ASSUME NEW c, Books(c, 0), NEW n \in DOMAIN c.ent, NEW cent, CentOK(cent), NEW fail
  PROVE  LET a == Merged(c, n, cent, fail)
             d == [a.c EXCEPT !.size = @ + a.c.ent[n].cs]
         IN  Added(c, d, cent) /\ (fail = 0 => ~a.full)
<1>. DEFINE p == PurgeAllRrsets(c, n)  q == [p EXCEPT !.size = @ - p.ent[n].cs]
            base == [c |-> q, full |-> FALSE]
            a == Merged(c, n, cent, fail)  d == [a.c EXCEPT !.size = @ + a.c.ent[n].cs]
<1>1. a = Merge!Folded(n, cent, fail, base, Indices)
  BY DEF Merged, Merge!Folded, MergeOp, FoldLeft, MapThenFoldSet, Merge!FoldLeft,
         Merge!MapThenFoldSet, Max, Merge!Max
<1>2. Spared(c, p, n)
  BY PurgeAllRrsetsIs
<1>. HIDE DEF p
<1>3. Books(p, 0) /\ n \in DOMAIN p.ent /\ Keeps(c, p) /\ (Ordered(c) => Ordered(p))
      /\ p.insert_sort = c.insert_sort
  BY <1>2 DEF Spared, Purging
<1>4. p.size \in Int /\ p.ent[n].cs \in Nat
  BY <1>3, CsNat DEF Books, Shape
<1>5. /\ Owing(q, n) /\ (Ordered(p) => Ordered(q)) /\ q.insert_sort = p.insert_sort
      /\ q.ent = p.ent
  <2>. DEFINE x == p.size - p.ent[n].cs  cs == p.ent[n].cs
  <2>1. x \in Int /\ x + cs = p.size + 0 /\ cs \in Int
    BY <1>4
  <2>2. q = [p EXCEPT !.size = x]
    OBVIOUS
  <2>. HIDE DEF x, q, cs
  <2>3. /\ Books(q, cs) /\ q.ent = p.ent /\ q.insert_sort = p.insert_sort
        /\ Ordered(p) => Ordered(q)
    BY <1>3, <2>1, <2>2, Resized
  <2>. QED BY <1>3, <2>1, <2>3 DEF Owing, cs
<1>6. Keeps(p, q)
  BY <1>5 DEF Keeps, Local
<1>. HIDE DEF q, a
<1>7. MergeGood(n, cent, fail, base, 0, base)
  <2>1. base.c = q /\ base.full = FALSE /\ DOMAIN base = {"c", "full"}
    OBVIOUS
  <2>. HIDE DEF base
  <2>. QED BY <2>1, <1>5, OwingMerges DEF MergeGood, Keeps
<1>8. ASSUME NEW k \in 1..Cardinality(RR), NEW b, MergeGood(n, cent, fail, base, k - 1, b)
      PROVE  MergeGood(n, cent, fail, base, k, MergeOp(n, cent, fail, b, Indices[k]))
  <2>. DEFINE i == Indices[k]  f == MergeSet(b, n, i, cent, fail)
  <2>1. i \in RR
    BY IndicesOnce
  <2>2. i # 0
    BY <2>1, IndexAssumption
  <2>. HIDE DEF i, base
  <2>3. DOMAIN b = {"c", "full"} /\ Merging(base.c, b.c, n) /\ Owing(b.c, n)
    BY <1>8 DEF MergeGood, Merging
  <2>4. MergesTo(b, f, n, i, cent, fail)
    BY <2>1, <2>3, MergeSetIs
  <2>. HIDE DEF f
  <2>5. MergeGood(n, cent, fail, base, k, f)
    BY <1>8, <2>2, <2>3, <2>4, MergingTwice, KeepsTwice DEF MergeGood, MergesTo
  <2>. QED BY <2>5 DEF MergeOp, f, i
<1>9. MergeGood(n, cent, fail, base, Cardinality(RR), a)
  <2>. HIDE DEF MergeGood, MergeOp, base
  <2>. QED BY <1>1, <1>7, <1>8, IndicesIs, Merge!FoldKeeps
<1>10. Merging(q, a.c, n) /\ (NoLocals(cent) => Keeps(q, a.c)) /\ (fail = 0 => ~a.full)
  BY <1>9 DEF MergeGood
<1>. DEFINE g == a.c  cs == g.ent[n].cs  x == g.size + cs
<1>11. Books(g, cs) /\ cs \in Int /\ x \in Int /\ x + 0 = g.size + cs
  BY <1>10 DEF Merging, Owing, Books, Shape
<1>12. d = [g EXCEPT !.size = x]
  OBVIOUS
<1>13. (NoLocals(cent) => Keeps(q, g)) /\ Merging(q, g, n)
  BY <1>10
<1>. HIDE DEF d, g, cs, x
<1>14. /\ Books(d, 0) /\ d.ent = g.ent /\ d.insert_sort = g.insert_sort
       /\ Ordered(g) => Ordered(d)
  BY <1>11, <1>12, Resized
<1>15. Keeps(g, d)
  BY <1>14 DEF Keeps, Local
<1>16. Added(c, d, cent)
  BY <1>3, <1>5, <1>6, <1>13, <1>14, <1>15, KeepsTwice DEF Added, Merging
<1>. QED BY <1>10, <1>16 DEF d, g, cs, x, a

LEMMA AddCacheIs ==
  ASSUME NEW c, Books(c, 0), NEW n \in Names, NEW cent, CentOK(cent), NEW fail
  PROVE  LET d == AddCache(c, n, cent, fail)
         IN  Added(c, d, cent) /\ (Bounded(c) /\ fail = 0 => Bounded(d))
<1>. DEFINE d == AddCache(c, n, cent, fail)
<1>1. CASE n \in DOMAIN c.ent /\ ~cent.neg
  <2>. DEFINE a == Merged(c, n, cent, fail)  b == [a.c EXCEPT !.size = @ + a.c.ent[n].cs]
  <2>1. Added(c, b, cent) /\ (fail = 0 => ~a.full)
    BY <1>1, MergedIs
  <2>2. d = (IF a.full THEN b ELSE Purged(b))
    BY <1>1 DEF AddCache
  <2>. HIDE DEF a, b, d
  <2>3. Cleared(b, Purged(b)) /\ Bounded(Purged(b))
    BY <2>1, PurgedIs DEF Added
  <2>4. Added(c, Purged(b), cent)
    BY <2>1, <2>3, KeepsTwice DEF Added, Cleared
  <2>. QED BY <2>1, <2>2, <2>3, <2>4 DEF d
<1>2. CASE /\ ~(n \in DOMAIN c.ent /\ ~cent.neg)
           /\ n \in DOMAIN c.ent /\ \E i \in DOMAIN c.ent[n].sets : c.ent[n].sets[i].local
  <2>1. d = c
    BY <1>2 DEF AddCache
  <2>. QED BY <2>1 DEF Added, Keeps
<1>3. CASE /\ ~(n \in DOMAIN c.ent /\ ~cent.neg)
           /\ ~(n \in DOMAIN c.ent /\ \E i \in DOMAIN c.ent[n].sets : c.ent[n].sets[i].local)
  <2>. DEFINE b == IF n \in DOMAIN c.ent THEN DelCacheEnt(c, n) ELSE c
              f == AddNew(b, n, cent)
  <2>1. d = (IF Blank(cent) THEN Purged(b) ELSE IF fail # 0 THEN b ELSE Purged(f))
    BY <1>3 DEF AddCache
  <2>2. Added(c, b, cent) /\ n \notin DOMAIN b.ent
    <3>1. CASE n \in DOMAIN c.ent
      <4>. DEFINE e == DelCacheEnt(c, n)
      <4>1. EntGone(c, e, n) /\ Books(e, 0) /\ (Ordered(c) => Ordered(e))
        BY <3>1, DelCacheEntIs
      <4>2. b = e
        BY <3>1
      <4>. HIDE DEF b, e
      <4>3. Keeps(c, b)
        BY <1>3, <3>1, <4>1, <4>2 DEF Keeps, Local, EntGone
      <4>. QED BY <4>1, <4>2, <4>3 DEF Added, EntGone
    <3>2. CASE n \notin DOMAIN c.ent
      BY <3>2 DEF Added, Keeps
    <3>. QED BY <3>1, <3>2
  <2>. HIDE DEF b, d
  <2>3. Cleared(b, Purged(b)) /\ Bounded(Purged(b))
    BY <2>2, PurgedIs DEF Added
  <2>4. Added(c, Purged(b), cent)
    BY <2>2, <2>3, KeepsTwice DEF Added, Cleared
  <2>5. /\ Books(f, 0) /\ (Ordered(b) => Ordered(f)) /\ f.insert_sort = b.insert_sort
        /\ Keeps(b, f)
    BY <2>2, AddNewIs DEF Added
  <2>. HIDE DEF f
  <2>6. Cleared(f, Purged(f)) /\ Bounded(Purged(f))
    BY <2>5, PurgedIs
  <2>7. Added(c, Purged(f), cent)
    BY <2>2, <2>5, <2>6, KeepsTwice DEF Added, Cleared
  <2>. QED BY <2>1, <2>2, <2>3, <2>4, <2>6, <2>7 DEF d
<1>. QED BY <1>1, <1>2, <1>3

----------------------------------------------------------------------------
(* The disk file. *)

LEMMA OnDiskIs == ASSUME NEW e, EntOK(e) PROVE CentOK(OnDisk(e))
<1>. DEFINE kept == {i \in DOMAIN e.sets : ~e.sets[i].local}  d == OnDisk(e)
<1>1. d.neg = e.neg /\ d.ts = e.ts /\ d.sets = Restrict(e.sets, kept)
  BY DEF OnDisk
<1>2. DOMAIN d.sets = kept /\ \A i \in kept : d.sets[i] = e.sets[i]
  BY <1>1 DEF Restrict
<1>3. kept \subseteq DOMAIN e.sets
  OBVIOUS
<1>. HIDE DEF d, kept
<1>. QED BY <1>1, <1>2, <1>3 DEF CentOK, EntOK, d

ReadOp(c, y, z, b, n) == AddCache(b, n, OnDisk(c.ent[n]), 0)
ReadGood(c, y, z, base, k, b) == Books(b, 0) /\ Ordered(b) /\ Bounded(b)
Read == INSTANCE FoldFacts WITH Op <- ReadOp, Good <- ReadGood

LEMMA FreshIs ==
  ASSUME NEW d, DOMAIN d = CacheFields, d.ent = NoEntries, d.rrl = <<>>, d.size = 0
  PROVE  Books(d, 0) /\ Ordered(d) /\ Bounded(d)
<1>1. DOMAIN d.ent = DOMAIN NoEntries
  OBVIOUS
<1>2. DOMAIN d.ent = {} /\ ToSet(d.rrl) = {} /\ d.rrl \in Seq(Pairs)
  BY <1>1 DEF NoEntries, ToSet
<1>3. CsSum(d.ent) = 0
  BY <1>2, NoCs
<1>4. Books(d, 0)
  BY <1>1, <1>2, <1>3, FS_EmptySet DEF Books, Shape, ListOK, Once, IsListed
<1>. QED BY <1>4 DEF Ordered, Bounded

LEMMA ReadDiskCacheIs ==
  ASSUME NEW c, Books(c, 0), NEW read \in SUBSET Written(c), NEW file \in SetToSeqs(read)
  PROVE  LET d == ReadDiskCache(c, file)
         IN  Books(d, 0) /\ Ordered(d) /\ Bounded(d) /\ d.insert_sort
<1>. DEFINE base == [Fresh EXCEPT !.insert_sort = FALSE]
            b == FoldLeft(LAMBDA g, n : AddCache(g, n, OnDisk(c.ent[n]), 0), base, file)
            d == ReadDiskCache(c, file)
<1>1. b = Read!Folded(c, 0, 0, base, file)
  BY DEF Read!Folded, ReadOp, FoldLeft, MapThenFoldSet, Read!FoldLeft,
         Read!MapThenFoldSet, Max, Read!Max
<1>2. d = (IF b.insert_sort THEN b ELSE SortRrl(b))
  BY DEF ReadDiskCache
<1>. HIDE DEF b, d
<1>3. read \subseteq DOMAIN c.ent /\ DOMAIN c.ent \subseteq Names /\ IsFiniteSet(DOMAIN c.ent)
  BY DEF Written, Books, Shape
<1>4. Cardinality(read) \in Nat
  BY <1>3, FS_Subset, FS_CardinalityType
<1>5. DOMAIN file = 1..Cardinality(read) /\ \A k \in 1..Cardinality(read) : file[k] \in read
  BY DEF SetToSeqs
<1>6. ReadGood(c, 0, 0, base, 0, base)
  <2>1. DOMAIN base = CacheFields /\ base.ent = NoEntries /\ base.rrl = <<>> /\ base.size = 0
    BY DEF Fresh, CacheFields
  <2>. HIDE DEF base
  <2>. QED BY <2>1, FreshIs DEF ReadGood
<1>. HIDE DEF base
<1>7. ASSUME NEW k \in 1..Cardinality(read), NEW a, ReadGood(c, 0, 0, base, k - 1, a)
      PROVE  ReadGood(c, 0, 0, base, k, ReadOp(c, 0, 0, a, file[k]))
  <2>. DEFINE n == file[k]  cent == OnDisk(c.ent[n])  f == AddCache(a, n, cent, 0)
  <2>1. n \in DOMAIN c.ent /\ n \in Names
    BY <1>3, <1>5
  <2>. HIDE DEF n
  <2>2. CentOK(cent)
    BY <2>1, OnDiskIs DEF Books, Shape
  <2>. HIDE DEF cent
  <2>3. Added(a, f, cent) /\ (Bounded(a) => Bounded(f))
    BY <1>7, <2>1, <2>2, AddCacheIs DEF ReadGood
  <2>. HIDE DEF f
  <2>4. ReadGood(c, 0, 0, base, k, f)
    BY <1>7, <2>3 DEF ReadGood, Added
  <2>. QED BY <2>4 DEF ReadOp, f, cent, n
<1>8. ReadGood(c, 0, 0, base, Cardinality(read), b)
  <2>. HIDE DEF ReadGood, ReadOp
  <2>. QED BY <1>1, <1>4, <1>5, <1>6, <1>7, Read!FoldKeeps
<1>9. Books(b, 0) /\ Ordered(b) /\ Bounded(b)
  BY <1>8 DEF ReadGood
<1>10. CASE b.insert_sort
  BY <1>2, <1>9, <1>10 DEF d
<1>11. CASE ~b.insert_sort
  <2>1. d = SortRrl(b)
    BY <1>2, <1>11
  <2>2. /\ Books(d, 0) /\ d.size = b.size /\ d.insert_sort /\ Ordered(d)
        /\ ToSet(d.rrl) = ToSet(b.rrl)
    BY <1>9, <2>1, SortRrlIs
  <2>3. b.rrl = <<>> => d.rrl = <<>>
    <3>1. SUFFICES ASSUME b.rrl = <<>> PROVE d.rrl = <<>>
      OBVIOUS
    <3>2. ToSet(b.rrl) = {}
      BY <3>1 DEF ToSet
    <3>3. d.rrl \in Seq(Pairs)
      BY <2>2 DEF Books, Shape
    <3>. QED BY <2>2, <3>2, <3>3, NothingIn
  <2>. QED BY <2>2, <2>3, <1>9 DEF Bounded, d
<1>. QED BY <1>10, <1>11

----------------------------------------------------------------------------
(* The invariant. *)

Good(c, o) ==
  /\ Books(c, 0) /\ c.insert_sort
  /\ "invalidated" \notin o => Ordered(c)
  /\ "oom" \notin o => Bounded(c)

\* What a query holds: a name, and an answer without local records.
Held(p) ==
  /\ p # Idle => p.name \in Names
  /\ p.at = "received" => CentOK(p.cent) /\ NoLocals(p.cent)

CacheInv ==
  /\ Good(cache, odd) /\ now \in Nat /\ commands \in Nat
  /\ DOMAIN pc = Queries /\ \A q \in Queries : Held(pc[q])

LEMMA StampIs ==
  ASSUME NEW cent, IsCent(cent), NEW ts \in Int
  PROVE  /\ CentOK(Stamp(cent, ts))
         /\ (\A i \in DOMAIN cent.sets : ~cent.sets[i].local) => NoLocals(Stamp(cent, ts))
<1>. DEFINE d == Stamp(cent, ts)
<1>1. /\ d.neg = cent.neg /\ d.ts = ts /\ DOMAIN d.sets = DOMAIN cent.sets
      /\ \A i \in DOMAIN cent.sets : d.sets[i] = With(cent.sets[i], "ts", ts)
  BY DEF Stamp
<1>. HIDE DEF d
<1>2. \A i \in DOMAIN cent.sets : cent.sets[i] \in RrSet
  BY DEF IsCent
<1>3. ASSUME NEW i \in DOMAIN cent.sets
      PROVE  SetOK(d.sets[i]) /\ d.sets[i].local = cent.sets[i].local
  <2>1. DOMAIN cent.sets[i] = SetFields \ {"ts"}
    BY <1>2 DEF RrSet, SetFields
  <2>2. DOMAIN d.sets[i] = SetFields /\ d.sets[i].ts = ts /\ d.sets[i].local = cent.sets[i].local
    BY <1>1, <2>1 DEF With, SetFields
  <2>. QED BY <2>2 DEF SetOK
<1>. QED BY <1>1, <1>3 DEF IsCent, CentOK, NoLocals, d

LEMMA PurgingGood ==
  ASSUME NEW c, NEW o, Good(c, o), NEW d, Purging(c, d)
  PROVE  Good(d, o)
<1>1. c.size \in Int /\ d.size \in Int /\ PermCache + MCSZ \in Int /\ d.size <= c.size
  BY SizeAssumption DEF Good, Purging, Books, Shape
<1>2. d.size > PermCache + MCSZ => c.size > PermCache + MCSZ
  BY <1>1
<1>3. c.rrl = <<>> => d.rrl = <<>>
  <2>1. SUFFICES ASSUME c.rrl = <<>> PROVE d.rrl = <<>>
    OBVIOUS
  <2>2. ToSet(c.rrl) = {}
    BY <2>1 DEF ToSet
  <2>3. ToSet(d.rrl) = {}
    BY <2>2 DEF Purging
  <2>4. d.rrl \in Seq(Pairs)
    BY DEF Purging, Books, Shape
  <2>. QED BY <2>3, <2>4, NothingIn
<1>4. Bounded(c) => Bounded(d)
  BY <1>2, <1>3 DEF Bounded
<1>. QED BY <1>4 DEF Good, Purging

LEMMA AddsToGood ==
  ASSUME Good(cache, odd), NEW n \in Names, NEW cent, CentOK(cent), NEW fail,
         AddsTo(n, cent, fail)
  PROVE  Good(cache', odd') /\ (NoLocals(cent) => Keeps(cache, cache'))
<1>1. /\ Added(cache, cache', cent)
      /\ Bounded(cache) /\ fail = 0 => Bounded(cache')
  BY AddCacheIs DEF Good, AddsTo
<1>2. CASE fail = 0
  <2>1. odd' = odd
    BY <1>2 DEF AddsTo
  <2>. QED BY <1>1, <1>2, <2>1 DEF Good, Added
<1>3. CASE fail # 0
  <2>1. odd' = odd \union {"oom"}
    BY <1>3 DEF AddsTo
  <2>. QED BY <1>1, <2>1 DEF Good, Added
<1>. QED BY <1>2, <1>3

LEMMA InvalidatedIs ==
  ASSUME NEW c, Books(c, 0), NEW n \in DOMAIN c.ent
  PROVE  LET d == [c EXCEPT !.ent[n] = Invalidated(@)]
         IN  Books(d, 0) /\ d.insert_sort = c.insert_sort /\ d.size = c.size /\ d.rrl = c.rrl
<1>. DEFINE e == c.ent[n]  f == Invalidated(e)  d == [c EXCEPT !.ent[n] = Invalidated(@)]
<1>1. /\ DOMAIN c = CacheFields /\ DOMAIN c.ent \subseteq Names /\ EntOK(e) /\ c.size \in Int
      /\ c.rrl \in Seq(Pairs) /\ Once(c.rrl)
  BY DEF Books, Shape, ListOK
<1>2. /\ DOMAIN d = CacheFields /\ d.insert_sort = c.insert_sort /\ d.size = c.size
      /\ d.rrl = c.rrl /\ DOMAIN d.ent = DOMAIN c.ent /\ d.ent[n] = f
      /\ \A m \in DOMAIN c.ent \ {n} : d.ent[m] = c.ent[m]
  BY <1>1 DEF CacheFields
<1>. HIDE DEF d, e
<1>3. /\ DOMAIN f = EntFields /\ f.neg = e.neg /\ f.local = e.local /\ f.ext = e.ext
      /\ f.cs = e.cs /\ DOMAIN f.sets = DOMAIN e.sets /\ f.ts \in Int
      /\ e.neg => f.sets = e.sets
      /\ ~e.neg => \A i \in DOMAIN e.sets : f.sets[i] = [e.sets[i] EXCEPT !.ts = 0]
  BY <1>1 DEF Invalidated, EntOK, EntFields
<1>. HIDE DEF f
<1>4. ASSUME NEW i \in DOMAIN e.sets
      PROVE  /\ SetOK(f.sets[i]) /\ f.sets[i].local = e.sets[i].local
             /\ SetSize(f.sets[i]) = SetSize(e.sets[i])
  <2>1. SetOK(e.sets[i])
    BY <1>1 DEF EntOK
  <2>2. CASE e.neg
    BY <1>3, <2>1, <2>2
  <2>3. CASE ~e.neg
    <3>1. /\ DOMAIN f.sets[i] = DOMAIN e.sets[i] /\ f.sets[i].ts = 0
          /\ f.sets[i].local = e.sets[i].local /\ f.sets[i].negative = e.sets[i].negative
      BY <1>3, <2>1, <2>3 DEF SetOK, SetFields
    <3>. QED BY <2>1, <3>1 DEF SetOK, SetSize
  <2>. QED BY <2>2, <2>3
<1>5. SetsSize(f.sets) = SetsSize(e.sets)
  <2>1. [i \in DOMAIN f.sets |-> SetSize(f.sets[i])] = [i \in DOMAIN e.sets |-> SetSize(e.sets[i])]
    BY <1>3, <1>4
  <2>. QED BY <2>1 DEF SetsSize
<1>6. EntOK(f)
  BY <1>1, <1>3, <1>4, <1>5 DEF EntOK
<1>7. \A i : IsListed(d, n, i) <=> IsListed(c, n, i)
  BY <1>2, <1>3, <1>4 DEF IsListed, e
<1>8. Recorded(c, d, n, 0, 0)
  <2>1. \A le \in Pairs : le[1] = n => (le \in ToSet(d.rrl) <=> IsListed(d, n, le[2]))
    BY <1>2, <1>7 DEF Books, ListOK
  <2>2. CsAt(d.ent, n) = CsAt(c.ent, n) /\ e.cs \in Nat
    BY <1>1, <1>2, <1>3, CsNat DEF CsAt, e
  <2>3. d.size + 0 + CsAt(c.ent, n) = c.size + 0 + CsAt(d.ent, n)
    BY <1>2, <2>2
  <2>. QED BY <1>1, <1>2, <1>6, <2>1, <2>3 DEF Recorded
<1>9. Books(d, 0)
  BY <1>1, <1>8, Rebook
<1>. QED BY <1>2, <1>9 DEF d

LEMMA InitInv == Init => CacheInv
<1>. SUFFICES ASSUME Init PROVE CacheInv
  OBVIOUS
<1>1. /\ DOMAIN cache = CacheFields /\ cache.ent = NoEntries /\ cache.rrl = <<>>
      /\ cache.size = 0 /\ cache.insert_sort
  BY DEF Init, Fresh, CacheFields
<1>2. Good(cache, odd)
  BY <1>1, FreshIs DEF Good
<1>3. \A q \in Queries : Held(pc[q])
  BY DEF Init, Held, Idle
<1>. QED BY <1>2, <1>3, TimeAssumption DEF Init, CacheInv

\* What a step does to the cache: local records stay, but for commands.
CacheStep ==
  /\ Good(cache', odd')
  /\ Keeps(cache, cache') \/ commands' # commands

LEMMA PcStep ==
  ASSUME CacheInv, NEW q \in Queries, NEW p, Held(p), pc' = [pc EXCEPT ![q] = p]
  PROVE  DOMAIN pc' = Queries /\ \A r \in Queries : Held(pc'[r])
BY DEF CacheInv

LEMMA IdleHeld ==
  Held(Idle) /\ \A n \in Names : \A at : at # "received" => Held([at |-> at, name |-> n])
BY DEF Held, Idle

LEMMA SameCache == ASSUME CacheInv, cache' = cache, odd' = odd PROVE CacheStep
BY DEF CacheInv, CacheStep, Keeps

LEMMA QueryStep ==
  ASSUME CacheInv, NEW q \in Queries,
         \/ \E n \in Names : LookupTests(q, n)
         \/ LookupPurges(q)
         \/ \E cent \in Answers : Receive(q, cent)
         \/ \E n \in Names, cent \in Extras : \E fail \in Fails(cent) : StoreExtra(q, n, cent, fail)
         \/ \E fail \in {0, Whole} \union RR : Store(q, fail)
         \/ LookupMerged(q)
  PROVE  CacheStep /\ CacheInv'
<1>1. /\ Good(cache, odd) /\ now \in Nat /\ commands \in Nat
      /\ DOMAIN pc = Queries /\ Held(pc[q])
  BY DEF CacheInv
<1>2. ASSUME CacheStep, now' = now, commands' = commands,
             DOMAIN pc' = Queries, \A r \in Queries : Held(pc'[r])
      PROVE  CacheStep /\ CacheInv'
  BY <1>1, <1>2 DEF CacheStep, CacheInv
<1>3. ASSUME NEW n \in Names, LookupTests(q, n) PROVE CacheStep /\ CacheInv'
  <2>1. CacheStep
    BY <1>3, SameCache DEF LookupTests
  <2>2. \/ pc' = [pc EXCEPT ![q] = [at |-> "purging", name |-> n]]
        \/ pc' = [pc EXCEPT ![q] = [at |-> "asking", name |-> n]]
    BY <1>3 DEF LookupTests
  <2>3. /\ Held([at |-> "purging", name |-> n]) /\ Held([at |-> "asking", name |-> n])
    BY IdleHeld
  <2>. QED BY <2>1, <2>2, <2>3, <1>2, <1>3, PcStep DEF LookupTests
<1>4. ASSUME LookupPurges(q) PROVE CacheStep /\ CacheInv'
  <2>. DEFINE n == pc[q].name
  <2>1. n \in Names
    BY <1>1, <1>4 DEF LookupPurges, Held, Idle
  <2>2. CacheStep
    <3>1. CASE Cached(n)
      <4>1. cache' = PurgeCent(cache, n) /\ odd' = odd
        BY <1>4, <3>1 DEF LookupPurges
      <4>2. Purging(cache, cache')
        BY <1>1, <3>1, <4>1, PurgeCentIs DEF Good, Cached
      <4>. QED BY <1>1, <4>1, <4>2, PurgingGood DEF CacheStep, Purging
    <3>2. CASE ~Cached(n)
      BY <1>4, <3>2, SameCache DEF LookupPurges
    <3>. QED BY <3>1, <3>2
  <2>3. pc' = [pc EXCEPT ![q] = Idle] \/ pc' = [pc EXCEPT ![q] = [at |-> "asking", name |-> n]]
    BY <1>4 DEF LookupPurges
  <2>4. Held(Idle) /\ Held([at |-> "asking", name |-> n])
    BY <2>1, IdleHeld
  <2>. HIDE DEF n
  <2>. QED BY <2>2, <2>3, <2>4, <1>2, <1>4, PcStep DEF LookupPurges
<1>5. ASSUME NEW cent \in Answers, Receive(q, cent) PROVE CacheStep /\ CacheInv'
  <2>. DEFINE p == [at |-> "received", name |-> pc[q].name, cent |-> Stamp(cent, now)]
  <2>1. CacheStep
    BY <1>5, SameCache DEF Receive
  <2>2. pc[q].name \in Names
    BY <1>1, <1>5 DEF Receive, Held, Idle
  <2>3. CentOK(Stamp(cent, now)) /\ NoLocals(Stamp(cent, now))
    BY <1>1, CentAssumption, StampIs
  <2>4. Held(p)
    BY <2>2, <2>3 DEF Held
  <2>5. pc' = [pc EXCEPT ![q] = p]
    BY <1>5 DEF Receive
  <2>. HIDE DEF p
  <2>. QED BY <2>1, <2>4, <2>5, <1>2, <1>5, PcStep DEF Receive
<1>6. ASSUME NEW n \in Names, NEW cent \in Extras, NEW fail, StoreExtra(q, n, cent, fail)
      PROVE  CacheStep /\ CacheInv'
  <2>. DEFINE stamped == Stamp(cent, pc[q].cent.ts)
  <2>1. pc[q].cent.ts \in Int
    BY <1>1, <1>6 DEF StoreExtra, Held, CentOK
  <2>2. CentOK(stamped) /\ NoLocals(stamped)
    BY <2>1, CentAssumption, StampIs
  <2>3. AddsTo(n, stamped, fail)
    BY <1>6 DEF StoreExtra
  <2>. HIDE DEF stamped
  <2>4. CacheStep
    BY <1>1, <2>2, <2>3, AddsToGood DEF CacheStep
  <2>. QED BY <2>4, <1>2, <1>6 DEF StoreExtra, CacheInv
<1>7. ASSUME NEW fail, Store(q, fail) PROVE CacheStep /\ CacheInv'
  <2>. DEFINE n == pc[q].name  cent == pc[q].cent
  <2>1. n \in Names /\ CentOK(cent) /\ NoLocals(cent)
    BY <1>1, <1>7 DEF Store, Held, Idle
  <2>2. AddsTo(n, cent, fail)
    BY <1>7 DEF Store
  <2>. HIDE DEF cent
  <2>3. CacheStep
    BY <1>1, <2>1, <2>2, AddsToGood DEF CacheStep
  <2>4. pc' = [pc EXCEPT ![q] = [at |-> "merging", name |-> n]]
    BY <1>7 DEF Store
  <2>5. Held([at |-> "merging", name |-> n])
    BY <2>1, IdleHeld
  <2>. HIDE DEF n
  <2>. QED BY <2>3, <2>4, <2>5, <1>2, <1>7, PcStep DEF Store
<1>8. ASSUME LookupMerged(q) PROVE CacheStep /\ CacheInv'
  <2>. DEFINE n == pc[q].name
  <2>1. CacheStep
    BY <1>8, SameCache DEF LookupMerged
  <2>2. n \in Names
    BY <1>1, <1>8 DEF LookupMerged, Held, Idle
  <2>3. pc' = [pc EXCEPT ![q] = [at |-> "mergepurging", name |-> n]] \/ pc' = [pc EXCEPT ![q] = Idle]
    BY <1>8 DEF LookupMerged
  <2>4. Held([at |-> "mergepurging", name |-> n]) /\ Held(Idle)
    BY <2>2, IdleHeld
  <2>. HIDE DEF n
  <2>. QED BY <2>1, <2>3, <2>4, <1>2, <1>8, PcStep DEF LookupMerged
<1>. QED BY <1>3, <1>4, <1>5, <1>6, <1>7, <1>8

LEMMA CommandStep ==
  ASSUME CacheInv,
         \/ \E n \in Names :
              \/ \E cent \in Locals : \E fail \in Fails(cent) : Define(n, cent, fail)
              \/ Delete(n)
              \/ InvalidateRecord(n)
         \/ Restart
  PROVE  CacheStep /\ CacheInv'
<1>1. /\ Good(cache, odd) /\ now \in Nat /\ commands \in Nat
      /\ DOMAIN pc = Queries /\ \A r \in Queries : Held(pc[r])
  BY DEF CacheInv
<1>2. ASSUME Good(cache', odd'), now' = now, commands' = commands + 1,
             DOMAIN pc' = Queries, \A r \in Queries : Held(pc'[r])
      PROVE  CacheStep /\ CacheInv'
  BY <1>1, <1>2 DEF CacheStep, CacheInv
<1>3. ASSUME NEW n \in Names, NEW cent \in Locals, NEW fail, Define(n, cent, fail)
      PROVE  CacheStep /\ CacheInv'
  <2>1. CentOK(Stamp(cent, 0)) /\ AddsTo(n, Stamp(cent, 0), fail)
    BY <1>3, CentAssumption, StampIs DEF Define
  <2>2. Good(cache', odd')
    BY <1>1, <2>1, AddsToGood
  <2>. QED BY <1>1, <1>2, <1>3, <2>2 DEF Define, Command
<1>4. ASSUME NEW n \in Names, Delete(n) PROVE CacheStep /\ CacheInv'
  <2>1. cache' = DelCacheEnt(cache, n) /\ n \in DOMAIN cache.ent /\ odd' = odd
    BY <1>4 DEF Delete, Cached
  <2>2. /\ EntGone(cache, cache', n) /\ Books(cache', 0) /\ cache'.size <= cache.size
        /\ (Ordered(cache) => Ordered(cache')) /\ cache.size \in Int /\ cache'.size \in Int
    BY <1>1, <2>1, DelCacheEntIs DEF Good, Books, Shape
  <2>3. Bounded(cache) => Bounded(cache')
    <3>1. cache'.size > PermCache + MCSZ => cache.size > PermCache + MCSZ
      BY <2>2, SizeAssumption
    <3>2. ASSUME cache.rrl = <<>> PROVE cache'.rrl = <<>>
      <4>1. cache'.rrl \in Seq(Pairs) /\ \A le \in ToSet(cache'.rrl) : le \in Pairs
        BY <2>2, ListedEntry DEF Books, Shape
      <4>2. ToSet(cache.rrl) = {}
        BY <3>2 DEF ToSet
      <4>3. ToSet(cache'.rrl) = {}
        BY <2>2, <4>1, <4>2 DEF EntGone
      <4>. QED BY <4>1, <4>3, NothingIn
    <3>. QED BY <3>1, <3>2 DEF Bounded
  <2>4. Good(cache', odd')
    BY <1>1, <2>1, <2>2, <2>3 DEF Good, EntGone
  <2>. QED BY <1>1, <1>2, <1>4, <2>4 DEF Delete, Command
<1>5. ASSUME NEW n \in Names, InvalidateRecord(n) PROVE CacheStep /\ CacheInv'
  <2>1. /\ Books(cache', 0) /\ cache'.insert_sort = cache.insert_sort
        /\ cache'.size = cache.size /\ cache'.rrl = cache.rrl
    BY <1>1, <1>5, InvalidatedIs DEF InvalidateRecord, Good, Cached
  <2>2. Good(cache', odd')
    BY <1>1, <1>5, <2>1 DEF InvalidateRecord, Good, Bounded
  <2>. QED BY <1>1, <1>2, <1>5, <2>2 DEF InvalidateRecord, Command
<1>6. ASSUME Restart PROVE CacheStep /\ CacheInv'
  <2>. DEFINE c == PurgeCache(cache, PermCache, FALSE)
  <2>1. Books(c, 0)
    <3>1. Books(cache, 0) /\ PermCache \in Int
      BY <1>1, SizeAssumption DEF Good
    <3>2. Cleared(cache, c)
      BY <3>1, PurgeCacheIs
    <3>. QED BY <3>2 DEF Cleared
  <2>8. \E read \in SUBSET Written(c) :
          \E file \in SetToSeqs(read) : cache' = ReadDiskCache(c, file)
    BY <1>6, Zenon DEF Restart
  <2>2. PICK read \in SUBSET Written(c) :
               \E file \in SetToSeqs(read) : cache' = ReadDiskCache(c, file)
    BY <2>8
  <2>7. PICK file \in SetToSeqs(read) : cache' = ReadDiskCache(c, file)
    BY <2>2
  <2>3. pc' = [q \in Queries |-> Idle] /\ now' = now /\ commands' = commands + 1 /\ odd' = {}
    BY <1>6 DEF Restart
  <2>. HIDE DEF c
  <2>4. Books(cache', 0) /\ Ordered(cache') /\ Bounded(cache') /\ cache'.insert_sort
    BY <2>1, <2>7, ReadDiskCacheIs
  <2>5. Good(cache', odd')
    BY <2>4 DEF Good
  <2>6. DOMAIN pc' = Queries /\ \A r \in Queries : Held(pc'[r])
    BY <2>3, IdleHeld
  <2>. QED BY <1>2, <2>3, <2>5, <2>6
<1>. QED BY <1>3, <1>4, <1>5, <1>6

LEMMA NextInv == ASSUME CacheInv, [Next]_vars PROVE CacheStep /\ CacheInv'
<1>1. CASE Tick
  <2>1. CacheStep
    BY <1>1, SameCache DEF Tick
  <2>. QED BY <2>1, <1>1 DEF Tick, CacheStep, CacheInv
<1>2. CASE UNCHANGED vars
  <2>1. CacheStep
    BY <1>2, SameCache DEF vars
  <2>. QED BY <2>1, <1>2 DEF vars, CacheStep, CacheInv
<1>. QED BY <1>1, <1>2, QueryStep, CommandStep DEF Next

----------------------------------------------------------------------------
(* Theorems. *)

\* The books are kept, what may be purged is listed in its order, and the limit is kept, in
\* every state of the cache (add_cache, purge_cache, del_cent, read_disk_cache).
THEOREM CacheInvariant == Spec => []CacheInv
<1>1. CacheInv /\ [Next]_vars => CacheInv'
  BY NextInv
<1>. QED BY InitInv, <1>1, PTL DEF Spec

LEMMA OnceCounts ==
  ASSUME NEW l \in Seq(Pairs), Once(l)
  PROVE  Cardinality(ToSet(l)) = Len(l)
<1>. DEFINE T == ToSet(l)  S == 1..Len(l)
<1>1. l \in [S -> T] /\ (\A x \in T : \E k \in S : l[k] = x) /\ Len(l) \in Nat
  BY DEF ToSet
<1>2. \A j, k \in S : l[j] = l[k] => j = k
  BY DEF Once
<1>3. IsFiniteSet(S) /\ Cardinality(S) = Len(l)
  <2>. DEFINE m == Len(l)
  <2>1. m \in Nat /\ 1 \in Int
    BY <1>1
  <2>. HIDE DEF m
  <2>2. IsFiniteSet(1..m) /\ Cardinality(1..m) = m
    BY <2>1, FS_Interval
  <2>. QED BY <2>2 DEF m
<1>. HIDE DEF T, S
<1>4. l \in Surjection(S, T) /\ l \in Injection(S, T)
  BY <1>1, <1>2 DEF Surjection, Injection, IsInjective
<1>. QED BY <1>3, <1>4, FS_Surjection DEF T

LEMMA BooksAreExact == CacheInv => BooksExact
<1>. SUFFICES ASSUME CacheInv PROVE BooksExact
  OBVIOUS
<1>1. Shape(cache) /\ cache.size + 0 = CsSum(cache.ent) /\ ListOK(cache)
  BY DEF CacheInv, Good, Books
<1>2. SizeExact
  <2>1. cache.size = CsSum(cache.ent)
    BY <1>1 DEF Shape
  <2>. QED BY <1>1, <2>1 DEF SizeExact, CsSum, Shape, EntOK
<1>3. Cardinality(ToSet(cache.rrl)) = Len(cache.rrl)
  BY <1>1, OnceCounts DEF Shape, ListOK
<1>4. ASSUME NEW le PROVE le \in ToSet(cache.rrl) <=> le \in Listable(cache)
  <2>1. le \in ToSet(cache.rrl) => le \in Pairs
    BY <1>1 DEF Shape, ToSet
  <2>2. le \in Listable(cache) => le \in Pairs
    BY <1>1 DEF Listable, Shape, Pairs
  <2>3. le \in Pairs => (le \in Listable(cache) <=> IsListed(cache, le[1], le[2]))
    BY DEF Listable, IsListed, Pairs
  <2>. QED BY <1>1, <2>1, <2>2, <2>3 DEF ListOK
<1>. QED BY <1>2, <1>3, <1>4 DEF BooksExact, ListExact

\* Neither cache_size nor rrset_l drifts from the entries, whatever is added, merged, refused,
\* purged, invalidated and deleted, in whatever order, and where memory runs out.
THEOREM BooksStayExact == Spec => []BooksExact
BY CacheInvariant, BooksAreExact, PTL

\* The list is in the order of the time stamps unless records were invalidated, and the cache
\* exceeds its limit only by what may not be purged unless memory ran out.
THEOREM PurgingIsInOrder == Spec => []PurgesOldest
<1>1. CacheInv => PurgesOldest
  BY DEF CacheInv, Good, Ordered, Bounded, PurgesOldest, OldestFirst, SizeBounded
<1>. QED BY <1>1, CacheInvariant, PTL

\* No answer, no purge and no lookup deletes or replaces a local RR set: only a command does.
THEOREM LocalRecordsAreKept == Spec => LocalRecordsStay
<1>1. CacheInv /\ [Next]_vars =>
        [\A n \in DOMAIN cache.ent : \A i \in DOMAIN cache.ent[n].sets :
           cache.ent[n].sets[i].local /\ commands' = commands =>
             /\ n \in DOMAIN cache'.ent /\ i \in DOMAIN cache'.ent[n].sets
             /\ cache'.ent[n].sets[i].local]_vars
  <2>. SUFFICES ASSUME CacheInv, [Next]_vars, NEW n \in DOMAIN cache.ent,
                       NEW i \in DOMAIN cache.ent[n].sets, cache.ent[n].sets[i].local,
                       commands' = commands
                PROVE  Local(cache', n, i)
    BY DEF Local
  <2>1. Keeps(cache, cache')
    BY NextInv DEF CacheStep
  <2>. QED BY <2>1 DEF Keeps, Local
<1>. QED BY <1>1, CacheInvariant, PTL DEF Spec, LocalRecordsStay
=============================================================================
