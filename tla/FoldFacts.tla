------------------------------ MODULE FoldFacts ------------------------------
(***************************************************************************)
(* Induction over a fold. The models write a loop of the code as FoldLeft; *)
(* here Op is the loop's body, with three values x, y and z of its context,*)
(* and Good(x, y, z, base, k, a) says of the value a after k passes what is*)
(* to be shown of the last. A module of proofs instantiates this one for   *)
(* each of its loops, which gives the provers the induction without an     *)
(* operator as a parameter of a theorem.                                   *)
(***************************************************************************)
EXTENDS Integers, FiniteSets, Sequences, SequencesExt, FiniteSetsExt, WellFoundedInduction, TLAPS

CONSTANTS Op(_, _, _, _, _), Good(_, _, _, _, _, _)

----------------------------------------------------------------------------
\* Induction on the natural numbers, for a set in place of a predicate.
LEMMA Induction ==
  ASSUME NEW S, 0 \in S, \A n \in Nat : n \in S => n + 1 \in S
  PROVE  \A n \in Nat : n \in S
<1>. DEFINE T == Nat \ S  R == {ss \in Nat \X Nat : ss[1] < ss[2]}
<1>1. SUFFICES ASSUME T # {} PROVE FALSE
  OBVIOUS
<1>2. IsWellFoundedOn(R, Nat)
  BY NatLessThanWellFounded DEF OpToRel
<1>3. \E x \in T : \A y \in T : ~ (<<y, x>> \in R)
  <2>. HIDE DEF R
  <2>1. T \subseteq Nat
    OBVIOUS
  <2>. HIDE DEF T
  <2>. QED BY <1>1, <1>2, <2>1, WFMin
<1>4. PICK x \in T : \A y \in T : ~(y < x)
  BY <1>3
<1>5. x # 0 /\ x \in Nat
  OBVIOUS
<1>6. x - 1 \in Nat /\ x - 1 < x /\ x - 1 + 1 = x
  BY <1>5
<1>. QED BY <1>4, <1>6, <1>5

\* A set of places of a list has a greatest one.
LEMMA MaxExists ==
  ASSUME NEW n \in Nat, NEW t, t \subseteq 1..n, t # {}
  PROVE  Max(t) \in t /\ \A y \in t : y <= Max(t)
<1>. DEFINE S == {k \in Nat : \A u \in SUBSET (1..k) : u # {} => \E x \in u : \A y \in u : x >= y}
<1>1. 0 \in S
  <2>1. 1..0 = {}
    OBVIOUS
  <2>. QED BY <2>1
<1>2. ASSUME NEW k \in Nat, k \in S PROVE k + 1 \in S
  <2>1. ASSUME NEW u \in SUBSET (1..k + 1), u # {} PROVE \E x \in u : \A y \in u : x >= y
    <3>1. CASE k + 1 \in u
      <4>1. \A y \in u : k + 1 >= y
        BY <2>1
      <4>. QED BY <3>1, <4>1
    <3>2. CASE k + 1 \notin u
      <4>1. u \in SUBSET (1..k)
        BY <3>2, <2>1
      <4>. QED BY <4>1, <1>2, <2>1
    <3>. QED BY <3>1, <3>2
  <2>. QED BY <2>1
<1>. HIDE DEF S
<1>3. n \in S
  BY <1>1, <1>2, Induction
<1>4. \E x \in t : \A y \in t : x >= y
  BY <1>3 DEF S
<1>. DEFINE m == CHOOSE x \in t : \A y \in t : x >= y
<1>5. m \in t /\ \A y \in t : m >= y
  BY <1>4
<1>6. \A y \in t : y \in Int
  OBVIOUS
<1>. QED BY <1>5, <1>6 DEF Max

\* The fold of the community modules, with Op for its operator.
Folded(x, y, z, base, s) == FoldLeft(LAMBDA a, e : Op(x, y, z, a, e), base, s)

\* it is the function by which FoldLeft is defined, for the first k places of s.
Steps(it, s, k, x, y, z, base) ==
  it = [t \in SUBSET (1..k) |-> IF t = {} THEN base ELSE Op(x, y, z, it[t \ {Max(t)}], s[Max(t)])]

\* There is one: FoldLeft chooses it.
LEMMA StepsExist ==
  ASSUME NEW s, NEW x, NEW y, NEW z, NEW base
  PROVE  \A n \in Nat : \E it : Steps(it, s, n, x, y, z, base)
<1>. DEFINE S == {n \in Nat : \E it : Steps(it, s, n, x, y, z, base)}
<1>1. 0 \in S
  <2>. DEFINE it == [t \in SUBSET (1..0) |-> base]
  <2>1. \A t \in SUBSET (1..0) : t = {}
    OBVIOUS
  <2>2. it = [t \in SUBSET (1..0) |-> IF t = {} THEN base ELSE Op(x, y, z, it[t \ {Max(t)}], s[Max(t)])]
    BY <2>1
  <2>. HIDE DEF it
  <2>3. Steps(it, s, 0, x, y, z, base)
    BY <2>2 DEF Steps
  <2>. QED BY <2>3
<1>2. ASSUME NEW n \in Nat, n \in S PROVE n + 1 \in S
  <2>1. PICK old : Steps(old, s, n, x, y, z, base)
    BY <1>2
  <2>. DEFINE it == [t \in SUBSET (1..n + 1) |-> IF t = {} THEN base ELSE Op(x, y, z, old[t \ {Max(t)}], s[Max(t)])]
  <2>2. ASSUME NEW t \in SUBSET (1..n + 1), t # {} PROVE t \ {Max(t)} \in SUBSET (1..n)
    <3>1. n + 1 \in Nat /\ t \subseteq 1..n + 1
      OBVIOUS
    <3>2. Max(t) \in t /\ \A k \in t : k <= Max(t)
      BY <2>2, <3>1, MaxExists
    <3>. DEFINE m == Max(t)
    <3>3. m \in 1..n + 1 /\ \A k \in t : k <= m /\ k \in 1..n + 1
      BY <3>2
    <3>. HIDE DEF m
    <3>4. \A k \in t \ {m} : k \in 1..n
      BY <3>3
    <3>5. t \ {m} \in SUBSET (1..n)
      BY <3>4
    <3>. QED BY <3>5 DEF m
  <2>3. \A u \in SUBSET (1..n) : it[u] = old[u]
    <3>1. ASSUME NEW u \in SUBSET (1..n) PROVE it[u] = old[u]
      <4>1. u \in SUBSET (1..n + 1)
        OBVIOUS
      <4>2. it[u] = IF u = {} THEN base ELSE Op(x, y, z, old[u \ {Max(u)}], s[Max(u)])
        BY <4>1
      <4>. HIDE DEF it
      <4>3. old[u] = IF u = {} THEN base ELSE Op(x, y, z, old[u \ {Max(u)}], s[Max(u)])
        BY <2>1 DEF Steps
      <4>. QED BY <4>2, <4>3
    <3>. QED BY <3>1
  <2>4. it = [t \in SUBSET (1..n + 1) |-> IF t = {} THEN base ELSE Op(x, y, z, it[t \ {Max(t)}], s[Max(t)])]
    <3>1. ASSUME NEW t \in SUBSET (1..n + 1), t # {} PROVE it[t \ {Max(t)}] = old[t \ {Max(t)}]
      <4>. HIDE DEF it
      <4>. QED BY <2>2, <2>3, <3>1
    <3>. QED BY <3>1
  <2>. HIDE DEF it
  <2>5. Steps(it, s, n + 1, x, y, z, base)
    BY <2>4 DEF Steps
  <2>. QED BY <2>5
<1>. HIDE DEF S
<1>3. \A n \in Nat : n \in S
  BY <1>1, <1>2, Induction
<1>. QED BY <1>3 DEF S

\* h[k] is the loop's value after k passes.
Run(h, x, y, z, base, s, n) ==
  /\ h[0] = base
  /\ \A k \in 1..n : h[k] = Op(x, y, z, h[k - 1], s[k])
  /\ h[n] = Folded(x, y, z, base, s)

\* A loop over a list goes through it from the first element to the last (FoldLeft takes
\* them in the order of their places).
THEOREM FoldRun ==
  ASSUME NEW x, NEW y, NEW z, NEW base, NEW s, NEW n \in Nat, DOMAIN s = 1..n
  PROVE  \E h : Run(h, x, y, z, base, s, n)
<1>. DEFINE it == CHOOSE it : Steps(it, s, n, x, y, z, base)
<1>1. Steps(it, s, n, x, y, z, base)
  BY StepsExist
<1>2. it[1..n] = Folded(x, y, z, base, s)
  BY DEF Folded, FoldLeft, MapThenFoldSet, Steps
<1>. HIDE DEF it
<1>. DEFINE h == [k \in 0..n |-> it[1..k]]
<1>3. h[0] = base
  <2>1. 1..0 = {} /\ h[0] = it[1..0]
    OBVIOUS
  <2>. HIDE DEF h
  <2>2. it[{}] = base
    BY <1>1 DEF Steps
  <2>. QED BY <2>1, <2>2
<1>4. ASSUME NEW k \in 1..n PROVE h[k] = Op(x, y, z, h[k - 1], s[k])
  <2>1. h[k] = it[1..k] /\ h[k - 1] = it[1..k - 1]
    OBVIOUS
  <2>. HIDE DEF h
  <2>2a. k \in 1..k /\ k \in Nat /\ \A i \in 1..k : i \in 1..n
    OBVIOUS
  <2>2. 1..k \subseteq 1..n /\ 1..k # {} /\ k \in 1..k
    BY <2>2a
  <2>3. Max(1..k) = k
    <3>1. Max(1..k) \in 1..k /\ \A i \in 1..k : i <= Max(1..k)
      BY <2>2, <2>2a, MaxExists
    <3>. QED BY <3>1, <2>2
  <2>4. (1..k) \ {k} = 1..k - 1
    OBVIOUS
  <2>5. it[1..k] = Op(x, y, z, it[(1..k) \ {Max(1..k)}], s[Max(1..k)])
    BY <1>1, <2>2 DEF Steps
  <2>. QED BY <2>1, <2>3, <2>4, <2>5
<1>5. h[n] = it[1..n]
  OBVIOUS
<1>. HIDE DEF h
<1>6. Run(h, x, y, z, base, s, n)
  BY <1>2, <1>3, <1>4, <1>5 DEF Run
<1>. QED BY <1>6

\* What holds before a loop and is kept by each pass holds after it.
THEOREM FoldKeeps ==
  ASSUME NEW x, NEW y, NEW z, NEW base, NEW s, NEW n \in Nat, DOMAIN s = 1..n,
         Good(x, y, z, base, 0, base),
         \A k \in 1..n : \A a : Good(x, y, z, base, k - 1, a) => Good(x, y, z, base, k, Op(x, y, z, a, s[k]))
  PROVE  Good(x, y, z, base, n, Folded(x, y, z, base, s))
<1>0. PICK h : Run(h, x, y, z, base, s, n)
  BY FoldRun
<1>1. /\ h[0] = base
      /\ \A k \in 1..n : h[k] = Op(x, y, z, h[k - 1], s[k])
      /\ h[n] = Folded(x, y, z, base, s)
  BY <1>0 DEF Run
<1>. DEFINE S == {k \in Nat : k <= n => Good(x, y, z, base, k, h[k])}
<1>2. 0 \in S
  BY <1>1
<1>3. ASSUME NEW k \in Nat, k \in S PROVE k + 1 \in S
  <2>1. SUFFICES ASSUME k + 1 <= n PROVE Good(x, y, z, base, k + 1, h[k + 1])
    OBVIOUS
  <2>2. k + 1 \in 1..n /\ (k + 1) - 1 = k /\ k <= n
    BY <2>1
  <2>3. Good(x, y, z, base, k, h[k])
    BY <1>3, <2>2
  <2>4. h[k + 1] = Op(x, y, z, h[k], s[k + 1])
    BY <1>1, <2>2
  <2>. QED BY <2>2, <2>3, <2>4
<1>. HIDE DEF S
<1>4. n \in S
  BY <1>2, <1>3, Induction
<1>. QED BY <1>1, <1>4 DEF S
=============================================================================
