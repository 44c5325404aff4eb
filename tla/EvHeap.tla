------------------------------- MODULE EvHeap -------------------------------
(***************************************************************************)
(* The heaps of libev's timers (ev.c): an array from index HEAP0 on, in    *)
(* which an element has DHEAP children. An entry is a watcher with a copy  *)
(* of its time; a watcher knows its own index. A heap, h, is the array and *)
(* the indices of the watchers together.                                   *)
(***************************************************************************)
EXTENDS Integers, FiniteSets, SequencesExt

DHEAP == 4
HEAP0 == DHEAP - 1

HPARENT(k) == IF k = HEAP0 THEN k ELSE (k - HEAP0 - 1) \div DHEAP + HEAP0

Size(h) == Cardinality(DOMAIN h.array)
LastIndex(h) == Size(h) + HEAP0 - 1

\* An entry goes to an index, and its watcher is told.
Put(h, k, he) == [array |-> [h.array EXCEPT ![k] = he], active |-> [h.active EXCEPT ![he.w] = k]]

\* A loop that ends after as many passes as there are entries, if not before: passes that come after
\* its end change nothing.
Passes(array) == [i \in 1..Cardinality(DOMAIN array) |-> i]

\* Towards the root: he looks for its place; s is the heap with a hole at s.k.
UpPass(s, he) ==
  LET p == HPARENT(s.k)
  IN IF p = s.k \/ s.h.array[p].at <= he.at THEN s
     ELSE [h |-> Put(s.h, s.k, s.h.array[p]), k |-> p]

upheap(h, k) ==
  LET he == h.array[k]
      s == FoldLeft(LAMBDA t, i : UpPass(t, he), [h |-> h, k |-> k], Passes(h.array))
  IN Put(s.h, s.k, he)

Children(h, k) == {c \in DOMAIN h.array : c # k /\ HPARENT(c) = k}

\* The first of the earliest children.
Earliest(h, K) == CHOOSE c \in K : \A d \in K : \/ h.array[c].at < h.array[d].at
                                                \/ h.array[c].at = h.array[d].at /\ c <= d

\* Away from the root.
DownPass(s, he) ==
  LET K == Children(s.h, s.k)
      c == Earliest(s.h, K)
  IN IF K = {} \/ he.at <= s.h.array[c].at THEN s
     ELSE [h |-> Put(s.h, s.k, s.h.array[c]), k |-> c]

downheap(h, k) ==
  LET he == h.array[k]
      s == FoldLeft(LAMBDA t, i : DownPass(t, he), [h |-> h, k |-> k], Passes(h.array))
  IN Put(s.h, s.k, he)

\* Variant: the last element of the heap is taken for one of the latest.
adjustheapDown(h, k) == downheap(h, k)

adjustheap(h, k) ==
  IF k > HEAP0 /\ h.array[k].at <= h.array[HPARENT(k)].at THEN upheap(h, k) ELSE downheap(h, k)

reheap(h) == FoldLeft(LAMBDA g, i : upheap(g, HEAP0 + i - 1), h, Passes(h.array))

\* A watcher's entry behind the last, then to its place; an entry replaced by the last one.
Insert(h, w, at) ==
  LET k == LastIndex(h) + 1
  IN upheap([array |-> [i \in HEAP0..k |-> IF i = k THEN [w |-> w, at |-> at] ELSE h.array[i]],
             active |-> [h.active EXCEPT ![w] = k]], k)

Delete(h, k) ==
  LET last == LastIndex(h)
      rest == [h EXCEPT !.array = [i \in HEAP0..last - 1 |-> IF i = k THEN @[last] ELSE @[i]]]
  IN IF k < last THEN adjustheap(rest, k) ELSE rest

\* What verify_heap() asserts of an array, given the watchers' indices and times.
HeapExact(array, active, at) ==
  \A k \in DOMAIN array :
    /\ active[array[k].w] = k
    /\ array[HPARENT(k)].at <= array[k].at
    /\ array[k].at = at[array[k].w]
=============================================================================
