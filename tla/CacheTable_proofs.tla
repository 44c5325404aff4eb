-------------------------- MODULE CacheTable_proofs --------------------------
(***************************************************************************)
(* What pdnsd's cache is built on: the lock excludes writers from          *)
(* everybody, for every number of threads, and loses no wake-up; a search  *)
(* in the hash table finds exactly what is in it, whatever the names,      *)
(* their hashes and the number of buckets. The two share no variable.      *)
(***************************************************************************)
EXTENDS CacheLock, Hash, FiniteSetTheorems, SequenceTheorems, WellFoundedInduction, TLAPS

-----------------------------------------------------------------------------
(* The lock. *)

\* Threads whose place, in p, is one of S.
AmongIn(p, S) == {t \in Threads : p[t] \in S}

\* Counting: when one thread moves, and the others stay on their side of S, the
\* count changes by what that thread did.
LEMMA CountMove ==
  ASSUME NEW p \in [Threads -> Pc], NEW q \in [Threads -> Pc],
         NEW t \in Threads, NEW S,
         \A u \in Threads \ {t} : q[u] \in S <=> p[u] \in S
  PROVE  /\ Cardinality(AmongIn(p, S)) \in Nat
         /\ (q[t] \in S <=> p[t] \in S) =>
              Cardinality(AmongIn(q, S)) = Cardinality(AmongIn(p, S))
         /\ q[t] \in S /\ p[t] \notin S =>
              Cardinality(AmongIn(q, S)) = Cardinality(AmongIn(p, S)) + 1
         /\ q[t] \notin S /\ p[t] \in S =>
              Cardinality(AmongIn(q, S)) = Cardinality(AmongIn(p, S)) - 1
<1>1. IsFiniteSet(AmongIn(p, S)) /\ IsFiniteSet(AmongIn(q, S))
  BY ThreadAssumption, FS_Subset DEF AmongIn
<1>2. Cardinality(AmongIn(p, S)) \in Nat
  BY <1>1, FS_CardinalityType
<1>3. ASSUME q[t] \in S <=> p[t] \in S
      PROVE  Cardinality(AmongIn(q, S)) = Cardinality(AmongIn(p, S))
  <2>1. AmongIn(q, S) = AmongIn(p, S)
    BY <1>3 DEF AmongIn
  <2>. QED BY <2>1
<1>4. ASSUME q[t] \in S, p[t] \notin S
      PROVE  Cardinality(AmongIn(q, S)) = Cardinality(AmongIn(p, S)) + 1
  <2>1. AmongIn(q, S) = AmongIn(p, S) \union {t} /\ t \notin AmongIn(p, S)
    BY <1>4 DEF AmongIn
  <2>. QED BY <2>1, <1>1, FS_AddElement
<1>5. ASSUME q[t] \notin S, p[t] \in S
      PROVE  Cardinality(AmongIn(q, S)) = Cardinality(AmongIn(p, S)) - 1
  <2>1. AmongIn(q, S) = AmongIn(p, S) \ {t} /\ t \in AmongIn(p, S)
    BY <1>5 DEF AmongIn
  <2>. QED BY <2>1, <1>1, FS_RemoveElement
<1>. QED BY <1>2, <1>3, <1>4, <1>5

\* A thread is among some states just when they are counted.
LEMMA CountPositive ==
  ASSUME NEW p \in [Threads -> Pc], NEW S
  PROVE  /\ Cardinality(AmongIn(p, S)) \in Nat
         /\ Cardinality(AmongIn(p, S)) = 0 <=> \A t \in Threads : p[t] \notin S
<1>1. IsFiniteSet(AmongIn(p, S))
  BY ThreadAssumption, FS_Subset DEF AmongIn
<1>2. Cardinality(AmongIn(p, S)) \in Nat
  BY <1>1, FS_CardinalityType
<1>3. Cardinality(AmongIn(p, S)) = 0 <=> AmongIn(p, S) = {}
  BY <1>1, FS_EmptySet
<1>4. AmongIn(p, S) = {} <=> \A t \in Threads : p[t] \notin S
  BY DEF AmongIn
<1>. QED BY <1>2, <1>3, <1>4

\* Signals and broadcasts wake sleepers and change nothing else.
LEMMA Wakes ==
  ASSUME NEW at \in [Threads -> Pc],
         NEW q \in SignalRw(at) \union BroadcastR(at)
  PROVE  /\ q \in [Threads -> Pc]
         /\ \A u \in Threads :
              \/ q[u] = at[u]
              \/ at[u] \in OnRCond \union OnRwCond /\ q[u] = Woken[at[u]]
<1>1. CASE q \in SignalRw(at)
  BY <1>1 DEF SignalRw, OnRCond, OnRwCond, Woken, Pc
<1>2. CASE q \in BroadcastR(at)
  BY <1>2 DEF BroadcastR, OnRCond, OnRwCond, Woken, Pc
<1>. QED BY <1>1, <1>2

-----------------------------------------------------------------------------
\* Everybody but t stays where it is or is woken up.
OthersWoken(t) ==
  /\ pc' \in [Threads -> Pc]
  /\ \A u \in Threads \ {t} :
       \/ pc'[u] = pc[u]
       \/ pc[u] \in OnRCond \union OnRwCond /\ pc'[u] = Woken[pc[u]]

\* By how much t's step changes the number of threads in S.
Change(t, S) ==
  (IF pc'[t] \in S THEN 1 ELSE 0) - (IF pc[t] \in S THEN 1 ELSE 0)

\* The three counts after a step of t.
LEMMA Counts ==
  ASSUME TypeOK, NEW t \in Threads, OthersWoken(t)
  PROVE  /\ Cardinality(Among(Reading)') = cache_r_lock + Change(t, Reading)
         /\ Cardinality(Among(WaitingR)') = r_pend + Change(t, WaitingR)
         /\ Cardinality(Among(WaitingRW)') = rw_pend + Change(t, WaitingRW)
         /\ cache_r_lock \in Nat /\ r_pend \in Nat /\ rw_pend \in Nat
<1>1. pc \in [Threads -> Pc] /\ pc' \in [Threads -> Pc]
  BY DEF TypeOK, OthersWoken
<1>2. \A u \in Threads \ {t} :
         /\ pc'[u] \in Reading <=> pc[u] \in Reading
         /\ pc'[u] \in WaitingR <=> pc[u] \in WaitingR
         /\ pc'[u] \in WaitingRW <=> pc[u] \in WaitingRW
  BY DEF OthersWoken, OnRCond, OnRwCond, Woken, Reading, WaitingR, WaitingRW
<1>3. \A S : Among(S) = AmongIn(pc, S) /\ Among(S)' = AmongIn(pc', S)
  BY DEF Among, AmongIn
<1>4. /\ cache_r_lock = Cardinality(AmongIn(pc, Reading))
      /\ r_pend = Cardinality(AmongIn(pc, WaitingR))
      /\ rw_pend = Cardinality(AmongIn(pc, WaitingRW))
  BY <1>3 DEF TypeOK
<1>5. /\ Cardinality(AmongIn(pc', Reading)) = cache_r_lock + Change(t, Reading)
      /\ cache_r_lock \in Nat
  <2>. HIDE DEF Reading
  <2>. QED BY <1>1, <1>2, <1>4, CountMove DEF Change
<1>6. /\ Cardinality(AmongIn(pc', WaitingR)) = r_pend + Change(t, WaitingR)
      /\ r_pend \in Nat
  BY <1>1, <1>2, <1>4, CountMove DEF Change
<1>7. /\ Cardinality(AmongIn(pc', WaitingRW)) = rw_pend + Change(t, WaitingRW)
      /\ rw_pend \in Nat
  BY <1>1, <1>2, <1>4, CountMove DEF Change
<1>. QED BY <1>3, <1>5, <1>6, <1>7

\* What the counters say of the threads.
LEMMA CountersMean ==
  ASSUME TypeOK
  PROVE  /\ cache_r_lock \in Nat /\ r_pend \in Nat /\ rw_pend \in Nat
         /\ cache_r_lock = 0 <=> \A t \in Threads : pc[t] \notin Reading
         /\ r_pend = 0 <=> \A t \in Threads : pc[t] \notin WaitingR
         /\ rw_pend = 0 <=> \A t \in Threads : pc[t] \notin WaitingRW
<1>1. \A S : Among(S) = AmongIn(pc, S)
  BY DEF Among, AmongIn
<1>. QED BY <1>1, CountPositive DEF TypeOK

\* Every step of t leaves the others asleep, or wakes them.
LEMMA StepWakes ==
  ASSUME TypeOK, NEW t \in Threads, Step(t)
  PROVE  OthersWoken(t)
<1>. USE DEF TypeOK, OthersWoken, Goes, Pc, OnRCond, OnRwCond
<1>1. \A to \in Pc : Goes(t, to) \in [Threads -> Pc]
  OBVIOUS
<1>2. ASSUME NEW to \in Pc,
             pc' \in SignalRw(Goes(t, to)) \union BroadcastR(Goes(t, to))
      PROVE  OthersWoken(t)
  <2>1. Goes(t, to) \in [Threads -> Pc] /\ \A u \in Threads \ {t} : Goes(t, to)[u] = pc[u]
    OBVIOUS
  <2>. HIDE DEF Goes, Pc, OnRCond, OnRwCond
  <2>. QED BY <2>1, <1>2, Wakes
<1>3. ASSUME NEW to \in Pc, ReleaseRW(t, to)
      PROVE  OthersWoken(t)
  BY <1>2, <1>3 DEF ReleaseRW
<1>4. ASSUME NEW pend, TryR(t, pend)
      PROVE  OthersWoken(t)
  BY <1>4 DEF TryR
<1>5. ASSUME NEW pend, NEW to \in Pc, TryRW(t, pend, to)
      PROVE  OthersWoken(t)
  BY <1>5 DEF TryRW
<1>6. CASE LockR(t) \/ RetryR(t)
  BY <1>4, <1>6 DEF LockR, RetryR
<1>7. CASE LockRW(t) \/ RetryRW(t) \/ LockTimed(t) \/ RetryTimed(t) \/ Retake(t)
  BY <1>5, <1>7 DEF LockRW, RetryRW, LockTimed, RetryTimed, Retake
<1>8. CASE UnlockRW(t) \/ Yield(t)
  BY <1>3, <1>8 DEF UnlockRW, Yield
<1>9. CASE UnlockR(t)
  <2>1. CASE pc' = Goes(t, "idle")
    BY <2>1
  <2>2. CASE pc' \in SignalRw(Goes(t, "idle"))
    BY <2>2, <1>2
  <2>. QED BY <1>9, <2>1, <2>2 DEF UnlockR
<1>10. CASE TimeOut(t) \/ SpuriousWakeup(t) \/ Soft(t)
  BY <1>10 DEF TimeOut, SpuriousWakeup, Woken, Soft,
     SoftLockR, SoftUnlockR, SoftLockRW, SoftUnlockRW, SoftGiveUp
<1>. QED
  BY <1>6, <1>7, <1>8, <1>9, <1>10 DEF Step, Retry, Unlock

-----------------------------------------------------------------------------
\* The effect of one step of t on the three counters follows t.
LEMMA StepCounts ==
  ASSUME TypeOK, NEW t \in Threads, Step(t)
  PROVE  /\ cache_r_lock' = cache_r_lock + Change(t, Reading)
         /\ r_pend' = r_pend + Change(t, WaitingR)
         /\ rw_pend' = rw_pend + Change(t, WaitingRW)
         /\ cache_w_lock' \in BOOLEAN /\ r_susp' \in BOOLEAN
<1>1. /\ cache_r_lock \in Nat /\ r_pend \in Nat /\ rw_pend \in Nat
      /\ pc[t] \in Reading => cache_r_lock > 0
  BY CountersMean
<1>2. pc \in [Threads -> Pc] /\ cache_w_lock \in BOOLEAN /\ r_susp \in BOOLEAN
  BY DEF TypeOK
<1>3. \A to : Goes(t, to)[t] = to
  BY <1>2 DEF Goes
<1>. USE <1>1, <1>2 DEF Reading, WaitingR, WaitingRW, Change, locks, pends
<1>4. CASE LockR(t) \/ RetryR(t)
  <2>1. pc[t] \in {"idle", "rwoken"} /\ pc'[t] \in {"reading", "rsleep"}
    BY <1>3, <1>4 DEF LockR, RetryR, TryR
  <2>2. CASE pc[t] = "idle"
    BY <1>3, <1>4, <2>1, <2>2 DEF LockR, RetryR, TryR
  <2>3. CASE pc[t] = "rwoken"
    BY <1>3, <1>4, <2>1, <2>3 DEF LockR, RetryR, TryR
  <2>. QED BY <2>1, <2>2, <2>3
<1>5. ASSUME NEW pend \in Int, NEW asleep \in {"wsleep", "tsleep"}, TryRW(t, pend, asleep)
      PROVE  /\ pc'[t] \in {"writing", asleep}
             /\ rw_pend' = pend - (IF pc'[t] = "writing" THEN 1 ELSE 0)
             /\ UNCHANGED <<cache_r_lock, r_pend, r_susp>>
             /\ cache_w_lock' \in BOOLEAN
  <2>1. CASE cache_w_lock \/ cache_r_lock > 0
    BY <1>3, <1>5, <2>1 DEF TryRW
  <2>2. CASE ~(cache_w_lock \/ cache_r_lock > 0)
    BY <1>3, <1>5, <2>2 DEF TryRW
  <2>. QED BY <2>1, <2>2
<1>6. CASE LockRW(t) \/ LockTimed(t) \/ RetryRW(t) \/ RetryTimed(t) \/ Retake(t)
  <2>1. CASE LockRW(t) \/ LockTimed(t) \/ Retake(t)
    <3>1. /\ pc[t] \in {"idle", "away"}
          /\ \E asleep \in {"wsleep", "tsleep"} : TryRW(t, rw_pend + 1, asleep)
      BY <2>1 DEF LockRW, LockTimed, Retake
    <3>2. PICK asleep \in {"wsleep", "tsleep"} : TryRW(t, rw_pend + 1, asleep)
      BY <3>1
    <3>. QED BY <3>1, <3>2, <1>5
  <2>2. CASE RetryRW(t) \/ RetryTimed(t)
    <3>1. /\ pc[t] \in {"wwoken", "twoken"}
          /\ \E asleep \in {"wsleep", "tsleep"} : TryRW(t, rw_pend, asleep)
      BY <2>2 DEF RetryRW, RetryTimed
    <3>2. PICK asleep \in {"wsleep", "tsleep"} : TryRW(t, rw_pend, asleep)
      BY <3>1
    <3>. QED BY <3>1, <3>2, <1>5
  <2>. QED BY <1>6, <2>1, <2>2
<1>7. ASSUME NEW to \in {"idle", "away"}, pc[t] \in {"reading", "writing"},
             \/ pc' = Goes(t, to)
             \/ pc' \in SignalRw(Goes(t, to)) \union BroadcastR(Goes(t, to))
      PROVE  pc'[t] = to
  <2>1. Goes(t, to) \in [Threads -> Pc] /\ Goes(t, to)[t] = to /\ to \notin OnRCond \union OnRwCond
    BY DEF Goes, Pc, OnRCond, OnRwCond
  <2>. QED BY <2>1, <1>7, Wakes
<1>8. CASE UnlockRW(t) \/ Yield(t)
  <2>1. pc'[t] \in {"idle", "away"} /\ pc[t] = "writing"
    BY <1>7, <1>8 DEF UnlockRW, Yield, ReleaseRW
  <2>2. /\ UNCHANGED <<cache_r_lock, r_pend, rw_pend>>
        /\ cache_w_lock' \in BOOLEAN /\ r_susp' \in BOOLEAN
    BY <1>8, Zenon DEF UnlockRW, Yield, ReleaseRW
  <2>. QED BY <2>1, <2>2
<1>9. CASE UnlockR(t)
  <2>1. pc'[t] = "idle"
    BY <1>7, <1>9 DEF UnlockR
  <2>. QED BY <2>1, <1>9 DEF UnlockR
<1>10. CASE TimeOut(t) \/ SpuriousWakeup(t)
  BY <1>3, <1>10 DEF TimeOut, SpuriousWakeup, Woken, OnRCond, OnRwCond
<1>11. CASE Soft(t)
  <2>1. CASE SoftLockR(t) \/ SoftUnlockR(t) \/ SoftGiveUp(t)
    BY <1>3, <2>1 DEF SoftLockR, SoftUnlockR, SoftGiveUp
  <2>2. CASE SoftLockRW(t)
    <3>1. pc[t] \in {"idle", "saved"} /\ pc'[t] \in {"writing", "destroying"}
      BY <1>3, <2>2 DEF SoftLockRW
    <3>. QED BY <3>1, <2>2 DEF SoftLockRW
  <2>3. CASE SoftUnlockRW(t)
    <3>1. pc[t] = "writing" /\ pc'[t] = "purged"
      BY <1>3, <2>3 DEF SoftUnlockRW
    <3>2. cache_w_lock' \in BOOLEAN /\ UNCHANGED <<cache_r_lock, r_pend, rw_pend, r_susp>>
      BY <2>3, Zenon DEF SoftUnlockRW
    <3>. QED BY <3>1, <3>2
  <2>. QED BY <1>11, <2>1, <2>2, <2>3 DEF Soft
<1>. QED
  BY <1>4, <1>6, <1>8, <1>9, <1>10, <1>11 DEF Step, Retry, Unlock

\* Where a step takes the thread that takes it.
LEMMA StepMoves ==
  ASSUME TypeOK, NEW t \in Threads, Step(t)
  PROVE  \/ /\ pc[t] \in {"idle", "rwoken", "purged"} /\ UNCHANGED cache_w_lock
            /\ \/ pc'[t] = "rsleep"
               \/ pc'[t] = "reading" /\ ~cache_w_lock
         \/ /\ pc[t] \in {"idle", "wwoken", "away"}
            /\ pc'[t] = "wsleep" /\ UNCHANGED cache_w_lock
         \/ /\ pc[t] = "twoken" \/ (pc[t] = "idle" /\ t \in Emptiers)
            /\ pc'[t] = "tsleep" /\ UNCHANGED cache_w_lock
         \/ /\ pc[t] \in {"idle", "wwoken", "twoken", "away", "saved"}
            /\ pc'[t] \in Writing /\ cache_w_lock' = TRUE
            /\ ~cache_w_lock /\ cache_r_lock = 0
         \/ /\ pc[t] = "writing" /\ pc'[t] \in {"idle", "away", "purged"}
            /\ cache_w_lock' = FALSE
         \/ /\ pc[t] \in {"reading", "tsleep"} /\ pc'[t] \in {"idle", "saved"}
            /\ UNCHANGED cache_w_lock
         \/ /\ pc[t] \in {"idle", "purged"} /\ pc'[t] = "saved"
            /\ UNCHANGED cache_w_lock
         \/ /\ pc[t] \in OnRCond \union OnRwCond /\ pc'[t] = Woken[pc[t]]
            /\ UNCHANGED cache_w_lock
<1>1. pc \in [Threads -> Pc] /\ cache_r_lock \in Nat
  BY CountersMean DEF TypeOK
<1>2. \A to : Goes(t, to)[t] = to
  BY <1>1 DEF Goes
<1>3. ASSUME NEW to \in {"idle", "away"}, pc[t] \in {"reading", "writing"},
             \/ pc' = Goes(t, to)
             \/ pc' \in SignalRw(Goes(t, to)) \union BroadcastR(Goes(t, to))
      PROVE  pc'[t] = to
  <2>1. Goes(t, to) \in [Threads -> Pc] /\ Goes(t, to)[t] = to /\ to \notin OnRCond \union OnRwCond
    BY <1>1 DEF Goes, Pc, OnRCond, OnRwCond
  <2>. QED BY <2>1, <1>3, Wakes
<1>. USE DEF locks, pends, Writing
<1>4. CASE LockR(t) \/ RetryR(t)
  BY <1>2, <1>4 DEF LockR, RetryR, TryR
<1>5. CASE LockRW(t) \/ RetryRW(t) \/ Retake(t)
  BY <1>1, <1>2, <1>5 DEF LockRW, RetryRW, Retake, TryRW
<1>6. CASE LockTimed(t) \/ RetryTimed(t)
  BY <1>1, <1>2, <1>6 DEF LockTimed, RetryTimed, TryRW
<1>7. CASE UnlockRW(t) \/ Yield(t)
  BY <1>3, <1>7 DEF UnlockRW, Yield, ReleaseRW
<1>8. CASE UnlockR(t)
  BY <1>3, <1>8 DEF UnlockR
<1>9. CASE TimeOut(t) \/ SpuriousWakeup(t)
  BY <1>2, <1>9 DEF TimeOut, SpuriousWakeup
<1>10. CASE Soft(t)
  BY <1>1, <1>2, <1>10 DEF Soft, SoftLockR, SoftUnlockR, SoftLockRW, SoftUnlockRW,
     SoftGiveUp
<1>. QED
  BY <1>4, <1>5, <1>6, <1>7, <1>8, <1>9, <1>10 DEF Step, Retry, Unlock

LEMMA LockStep ==
  ASSUME LockInv, NEW t \in Threads, Step(t)
  PROVE  LockInv'
<1>1. TypeOK
  BY DEF LockInv
<1>2. OthersWoken(t)
  BY <1>1, StepWakes
<1>3. TypeOK'
  <2>1. /\ Cardinality(Among(Reading)') = cache_r_lock'
        /\ Cardinality(Among(WaitingR)') = r_pend'
        /\ Cardinality(Among(WaitingRW)') = rw_pend'
    BY <1>1, <1>2, Counts, StepCounts
  <2>2. cache_w_lock' \in BOOLEAN /\ r_susp' \in BOOLEAN
    BY <1>1, StepCounts
  <2>. QED BY <1>2, <2>1, <2>2 DEF TypeOK, OthersWoken, Reading, WaitingR, WaitingRW
<1>4. \A u \in Threads \ {t} :
        /\ pc'[u] \in Writing <=> pc[u] \in Writing
        /\ pc'[u] = "reading" <=> pc[u] = "reading"
        /\ pc'[u] \in {"tsleep", "twoken"} <=> pc[u] \in {"tsleep", "twoken"}
  BY <1>2 DEF OthersWoken, OnRCond, OnRwCond, Woken, Writing
<1>5. cache_r_lock = 0 <=> \A u \in Threads : pc[u] # "reading"
  BY <1>1, CountersMean DEF Reading
<1>6. /\ cache_w_lock <=> \E u \in Threads : pc[u] \in Writing
      /\ \A u \in Threads : pc[u] \in {"tsleep", "twoken"} => u \in Emptiers
      /\ \A u, v \in Threads : pc[u] \in Writing /\ v # u =>
           pc[v] # "reading" /\ pc[v] \notin Writing
  BY DEF LockInv, Reading, WriterFlag, Exclusive
<1>7. WriterFlag' /\ Exclusive'
  <2>1. CASE /\ pc[t] \notin Writing /\ pc'[t] \notin Writing /\ UNCHANGED cache_w_lock
             /\ pc'[t] = "reading" => ~cache_w_lock
             /\ pc'[t] \in {"tsleep", "twoken"} => t \in Emptiers
    BY <1>4, <1>6, <2>1 DEF WriterFlag, Exclusive, Reading
  <2>2. CASE /\ pc'[t] \in Writing /\ cache_w_lock' = TRUE
             /\ ~cache_w_lock /\ cache_r_lock = 0
    <3>1. pc'[t] \notin {"reading", "tsleep", "twoken"}
      BY <2>2 DEF Writing
    <3>. QED BY <1>4, <1>5, <1>6, <2>2, <3>1 DEF WriterFlag, Exclusive, Reading
  <2>3. CASE /\ pc[t] = "writing" /\ pc'[t] \in {"idle", "away", "purged"}
             /\ cache_w_lock' = FALSE
    <3>1. pc[t] \in Writing /\ pc'[t] \notin Writing \union {"reading", "tsleep", "twoken"}
      BY <2>3 DEF Writing
    <3>. QED BY <1>4, <1>6, <2>3, <3>1 DEF WriterFlag, Exclusive, Reading
  <2>4. CASE /\ pc[t] \in OnRCond \union OnRwCond /\ pc'[t] = Woken[pc[t]]
             /\ UNCHANGED cache_w_lock
    BY <1>6, <2>1, <2>4 DEF OnRCond, OnRwCond, Woken, Writing
  <2>5. CASE /\ pc[t] = "twoken" \/ (pc[t] = "idle" /\ t \in Emptiers)
             /\ pc'[t] = "tsleep" /\ UNCHANGED cache_w_lock
    BY <1>6, <2>1, <2>5 DEF Writing
  <2>6. CASE /\ pc[t] \in {"idle", "rwoken", "wwoken", "away", "reading", "tsleep", "purged"}
             /\ pc'[t] \in {"rsleep", "wsleep", "idle", "saved"} /\ UNCHANGED cache_w_lock
    BY <2>1, <2>6 DEF Writing
  <2>7. CASE /\ pc[t] \in {"idle", "rwoken", "purged"} /\ UNCHANGED cache_w_lock
             /\ pc'[t] = "reading" /\ ~cache_w_lock
    BY <2>1, <2>7 DEF Writing
  <2>. QED BY <1>1, <2>2, <2>3, <2>4, <2>5, <2>6, <2>7, StepMoves
<1>. QED BY <1>3, <1>7 DEF LockInv

LEMMA LockInit == Init => LockInv
<1>. SUFFICES ASSUME Init PROVE LockInv
  OBVIOUS
<1>1. pc \in [Threads -> Pc] /\ \A t \in Threads : pc[t] = "idle"
  BY DEF Init, Pc
<1>2. \A S : "idle" \notin S => Cardinality(Among(S)) = 0
  <2>1. \A S : Among(S) = AmongIn(pc, S)
    BY DEF Among, AmongIn
  <2>. QED BY <1>1, <2>1, CountPositive
<1>3. TypeOK
  <2>1. /\ Cardinality(Among(Reading)) = 0 /\ Cardinality(Among(WaitingR)) = 0
        /\ Cardinality(Among(WaitingRW)) = 0
    BY <1>2 DEF Reading, WaitingR, WaitingRW
  <2>2. cache_w_lock \in BOOLEAN /\ r_susp \in BOOLEAN
    BY Zenon DEF Init
  <2>. QED BY <1>1, <2>1, <2>2 DEF Init, TypeOK
<1>4. WriterFlag /\ Exclusive
  BY <1>1 DEF Init, WriterFlag, Exclusive, Writing
<1>. QED BY <1>3, <1>4 DEF LockInv

\* The counters count, the flag is up while a thread writes, and writers are
\* alone, for every number of readers, writers and soft lockers.
THEOREM LockInvariant == Spec => []LockInv
<1>1. LockInv /\ [Next]_vars => LockInv'
  <2>1. ASSUME LockInv, UNCHANGED vars PROVE LockInv'
    BY <2>1 DEF LockInv, TypeOK, WriterFlag, Exclusive, Among, vars, locks, pends
  <2>. QED BY <2>1, LockStep DEF Next
<1>. QED BY <1>1, LockInit, PTL DEF Spec

\* No thread reads or writes the cache while another one writes it.
THEOREM WritersAlone == Spec => []Exclusive
<1>1. LockInv => Exclusive
  BY DEF LockInv
<1>. QED BY <1>1, LockInvariant, PTL

-----------------------------------------------------------------------------
(* Wake-ups.                                                               *)

LEMMA Threshold ==
  ASSUME NEW n \in Nat
  PROVE  /\ SUSP_THRESH(n) \in Nat /\ SUSP_THRESH(n) >= 2
         /\ SUSP_THRESH(n + 1) >= SUSP_THRESH(n)
BY DEF SUSP_THRESH

\* Of two threads that wait to write, one cannot time out.
LEMMA PlainWriterWaits ==
  ASSUME LockInv, rw_pend > 1
  PROVE  \E u \in Threads : pc[u] \in {"wsleep", "wwoken"}
<1>. SUFFICES ASSUME \A u \in Threads : pc[u] \notin {"wsleep", "wwoken"} PROVE FALSE
  OBVIOUS
<1>1. Among(WaitingRW) \subseteq Emptiers
  BY DEF Among, WaitingRW, LockInv, WriterFlag
<1>2. IsFiniteSet(Emptiers) /\ Cardinality(Emptiers) <= 1
  <2>1. Emptiers \subseteq Threads
    BY DEF Threads
  <2>. QED BY <2>1, ThreadAssumption, FS_Subset
<1>3. /\ Cardinality(Among(WaitingRW)) <= Cardinality(Emptiers)
      /\ Cardinality(Emptiers) \in Nat
  BY <1>1, <1>2, FS_Subset, FS_CardinalityType
<1>4. rw_pend = Cardinality(Among(WaitingRW)) /\ rw_pend \in Nat
  BY CountersMean DEF LockInv, TypeOK
<1>. QED BY <1>2, <1>3, <1>4

\* A signal wakes a waiting writer if there is one to wake.
LEMMA SignalWakesWriter ==
  ASSUME NEW at \in [Threads -> Pc], NEW q \in SignalRw(at)
  PROVE  \/ \E u \in Threads : q[u] \in {"wwoken", "twoken"}
         \/ \A u \in Threads : q[u] \notin OnRwCond
BY DEF SignalRw, OnRwCond, Woken

\* A broadcast leaves no reader asleep.
LEMMA BroadcastWakesReaders ==
  ASSUME NEW at \in [Threads -> Pc], NEW q \in BroadcastR(at)
  PROVE  /\ \A u \in Threads : q[u] \notin OnRCond
         /\ \A u \in Threads : at[u] \in WaitingR => q[u] = "rwoken"
BY DEF BroadcastR, OnRCond, Woken, WaitingR

\* Giving up the lock hands it to a waiting writer or to all waiting readers.
LEMMA ReleaseHandsOver ==
  ASSUME LockInv, NEW t \in Threads, NEW to \in {"idle", "away"},
         pc[t] = "writing", ReleaseRW(t, to)
  PROVE  KeptOutForWriter' /\ HandedToReaders'
<1>1. TypeOK /\ OthersWoken(t)
  <2>1. Goes(t, to) \in [Threads -> Pc] /\ \A u \in Threads \ {t} : Goes(t, to)[u] = pc[u]
    BY DEF LockInv, TypeOK, Goes, Pc
  <2>2. pc' \in SignalRw(Goes(t, to)) \union BroadcastR(Goes(t, to))
    BY DEF ReleaseRW
  <2>. QED BY <2>1, <2>2, Wakes DEF LockInv, OthersWoken
<1>2. Goes(t, to) \in [Threads -> Pc] /\ Goes(t, to)[t] = to
      /\ \A u \in Threads \ {t} : Goes(t, to)[u] = pc[u]
  BY <1>1 DEF TypeOK, Goes, Pc
<1>3. /\ r_pend \in Nat /\ rw_pend \in Nat
      /\ r_pend = 0 <=> \A u \in Threads : pc[u] \notin WaitingR
      /\ r_pend' = r_pend /\ rw_pend' = rw_pend /\ ~r_susp'
  BY <1>1, CountersMean, Zenon DEF ReleaseRW, pends
<1>4. CASE r_pend = 0 \/ rw_pend > SUSP_THRESH(r_pend)
  <2>1. pc' \in SignalRw(Goes(t, to))
    BY <1>4 DEF ReleaseRW
  <2>2. Among(OnRwCond)' = {} \/ Among({"wwoken", "twoken"})' # {}
    BY <1>2, <2>1, SignalWakesWriter DEF Among
  <2>3. pc'[t] \notin OnRCond
    <3>1. pc'[t] = to
      BY <1>2, <2>1, Wakes DEF OnRCond, OnRwCond
    <3>. QED BY <3>1 DEF OnRCond
  <2>4. \A u \in Threads : pc'[u] \in OnRCond => pc[u] \in WaitingR
    BY <1>1, <2>3 DEF OthersWoken, OnRCond, OnRwCond, Woken, WaitingR
  <2>5. CASE r_pend = 0
    BY <1>3, <2>2, <2>4, <2>5 DEF KeptOutForWriter, HandedToReaders, Among
  <2>6. CASE rw_pend > SUSP_THRESH(r_pend)
    <3>1. PICK u \in Threads : pc[u] \in {"wsleep", "wwoken"}
      BY <1>3, <2>6, Threshold, PlainWriterWaits
    <3>2. pc'[u] \in {"wsleep", "wwoken"}
      BY <1>1, <3>1 DEF OthersWoken, OnRCond, OnRwCond, Woken
    <3>. QED BY <2>2, <3>2 DEF KeptOutForWriter, HandedToReaders, Among
  <2>. QED BY <1>4, <2>5, <2>6
<1>5. CASE ~(r_pend = 0 \/ rw_pend > SUSP_THRESH(r_pend))
  <2>1. pc' \in BroadcastR(Goes(t, to))
    BY <1>5 DEF ReleaseRW
  <2>2. Among(OnRCond)' = {}
    BY <1>2, <2>1, BroadcastWakesReaders DEF Among
  <2>3. PICK u \in Threads : pc[u] \in WaitingR
    BY <1>3, <1>5
  <2>4. pc'[u] = "rwoken"
    BY <1>2, <2>1, <2>3, BroadcastWakesReaders DEF WaitingR
  <2>5. rw_pend' <= SUSP_THRESH(r_pend')
    BY <1>3, <1>5, Threshold
  <2>. QED BY <1>3, <2>2, <2>4, <2>5 DEF KeptOutForWriter, HandedToReaders, Among
<1>. QED BY <1>4, <1>5

\* While the program runs on, the exiting thread takes no step.
LEMMA ExitersStay ==
  ASSUME LockInv, NEW t \in Threads, Step(t), Running'
  PROVE  Running /\ t \notin Exiters
<1>1. TypeOK /\ OthersWoken(t)
  BY StepWakes DEF LockInv
<1>2. \A to : Goes(t, to)[t] = to
  BY <1>1 DEF TypeOK, Goes
<1>3. t \notin Exiters
  <2>. SUFFICES ASSUME t \in Exiters PROVE pc'[t] # "idle"
    BY DEF Running
  <2>1. t \notin Readers \union Writers \union Emptiers
    BY ThreadAssumption
  <2>2. CASE RetryR(t)
    BY <1>2, <2>2 DEF RetryR, TryR
  <2>3. CASE RetryRW(t) \/ RetryTimed(t) \/ Retake(t)
    BY <1>2, <2>3 DEF RetryRW, RetryTimed, Retake, TryRW
  <2>4. CASE SpuriousWakeup(t)
    BY <1>2, <2>4 DEF SpuriousWakeup, Woken, OnRCond, OnRwCond
  <2>5. CASE Soft(t)
    BY <1>2, <2>5 DEF Soft, SoftLockR, SoftUnlockR, SoftLockRW, SoftUnlockRW, SoftGiveUp
  <2>6. ~TimeOut(t)
    BY <2>1 DEF TimeOut, LockInv, WriterFlag
  <2>7. ~(LockR(t) \/ LockRW(t) \/ LockTimed(t) \/ Unlock(t) \/ Yield(t))
    BY <2>1 DEF LockR, LockRW, LockTimed, Unlock, UnlockR, UnlockRW, Yield
  <2>. QED BY <2>2, <2>3, <2>4, <2>5, <2>6, <2>7 DEF Step, Retry
<1>4. Running
  BY <1>1, <1>3 DEF Running, OthersWoken, OnRCond, OnRwCond, Woken, Threads
<1>. QED BY <1>3, <1>4

\* Every step of a running program hands the lock on.
LEMMA WakeStep ==
  ASSUME WakeInv, NEW t \in Threads, Step(t), Running'
  PROVE  KeptOutForWriter' /\ HandedToReaders'
<1>1. LockInv /\ LockInv' /\ TypeOK
  BY LockStep DEF WakeInv, LockInv
<1>0. Running /\ t \notin Exiters /\ KeptOutForWriter /\ HandedToReaders
  BY <1>1, ExitersStay DEF WakeInv
<1>2. OthersWoken(t) /\ pc \in [Threads -> Pc] /\ pc' \in [Threads -> Pc]
  BY <1>1, StepWakes DEF TypeOK, OthersWoken
<1>3. cache_r_lock \in Nat /\ r_pend \in Nat /\ rw_pend \in Nat
  BY <1>1, CountersMean
<1>4. \A to : Goes(t, to)[t] = to /\ \A u \in Threads \ {t} : Goes(t, to)[u] = pc[u]
  BY <1>2 DEF Goes
<1>5. \A u \in Threads \ {t} :
        /\ pc[u] \in {"wsleep", "wwoken"} => pc'[u] \in {"wsleep", "wwoken"}
        /\ pc'[u] \in OnRCond => pc[u] \in OnRCond
  BY <1>2 DEF OthersWoken, OnRCond, OnRwCond, Woken
<1>6. CASE LockR(t) \/ RetryR(t)
  <2>1. PICK pend \in {r_pend, r_pend + 1} : TryR(t, pend)
    BY <1>6 DEF LockR, RetryR
  <2>2. pc[t] \in {"idle", "rwoken"}
    BY <1>6 DEF LockR, RetryR
  <2>3. /\ r_susp' <=> (r_susp \/ rw_pend > SUSP_THRESH(pend))
        /\ UNCHANGED <<cache_w_lock, rw_pend>>
        /\ \A u \in Threads \ {t} : pc'[u] = pc[u]
        /\ \/ /\ r_susp' \/ cache_w_lock
              /\ pc'[t] = "rsleep" /\ r_pend' = pend /\ UNCHANGED cache_r_lock
           \/ ~r_susp' /\ ~cache_w_lock /\ pc'[t] = "reading"
    BY <1>4, <2>1 DEF TryR
  <2>4. KeptOutForWriter'
    <3>. SUFFICES ASSUME r_susp' \/ Among(OnRCond)' # {}, ~cache_w_lock'
                  PROVE  \E u \in Threads : pc'[u] \in {"wsleep", "wwoken"}
      BY DEF KeptOutForWriter, Among
    <3>1. \/ r_susp \/ Among(OnRCond) # {}
          \/ rw_pend > SUSP_THRESH(pend)
      BY <2>3, <1>5 DEF Among, OnRCond
    <3>2. \E u \in Threads : pc[u] \in {"wsleep", "wwoken"}
      <4>1. CASE r_susp \/ Among(OnRCond) # {}
        BY <1>0, <4>1, <2>3 DEF KeptOutForWriter, Among
      <4>2. CASE rw_pend > SUSP_THRESH(pend)
        BY <4>2, <1>1, <1>3, Threshold, PlainWriterWaits
      <4>. QED BY <3>1, <4>1, <4>2
    <3>. QED BY <3>2, <2>2, <2>3
  <2>5. HandedToReaders'
    <3>. SUFFICES ASSUME ~cache_w_lock', cache_r_lock' = 0,
                         Among(OnRwCond)' # {}, Among({"wwoken", "twoken"})' = {}
                  PROVE  FALSE
      BY DEF HandedToReaders
    <3>1. pc'[t] = "rsleep"
      <4>1. cache_r_lock' = 0 <=> \A u \in Threads : pc'[u] \notin Reading
        <5>1. TypeOK'
          BY <1>1 DEF LockInv
        <5>2. Among(Reading)' = AmongIn(pc', Reading)
          BY DEF Among, AmongIn
        <5>. QED BY <1>2, <5>1, <5>2, CountPositive DEF TypeOK
      <4>. QED BY <4>1, <2>3 DEF Reading
    <3>2. ~cache_w_lock /\ cache_r_lock = 0 /\ r_susp'
      BY <2>3, <3>1
    <3>3. Among(OnRwCond) # {} /\ Among({"wwoken", "twoken"}) = {}
      BY <2>2, <2>3, <3>1 DEF Among, OnRwCond
    <3>4. ~r_susp /\ rw_pend <= SUSP_THRESH(r_pend)
      BY <1>0, <3>2, <3>3 DEF HandedToReaders
    <3>5. rw_pend <= SUSP_THRESH(pend) /\ SUSP_THRESH(pend) \in Nat
      BY <1>3, <2>1, <3>4, Threshold
    <3>. QED BY <1>3, <2>3, <3>2, <3>4, <3>5
  <2>. QED BY <2>4, <2>5
<1>7. CASE LockRW(t) \/ LockTimed(t) \/ RetryRW(t) \/ RetryTimed(t) \/ Retake(t)
  <2>1. PICK pend \in {rw_pend, rw_pend + 1}, asleep \in {"wsleep", "tsleep"} :
          /\ TryRW(t, pend, asleep)
          /\ pc[t] \in {"idle", "twoken"} \/ asleep = "wsleep"
    BY <1>7 DEF LockRW, LockTimed, RetryRW, RetryTimed, Retake
  <2>2. /\ UNCHANGED <<cache_r_lock, r_pend, r_susp>>
        /\ \A u \in Threads \ {t} : pc'[u] = pc[u]
        /\ \/ pc'[t] = asleep /\ UNCHANGED cache_w_lock /\ (cache_w_lock \/ cache_r_lock > 0)
           \/ pc'[t] = "writing" /\ cache_w_lock' = TRUE
    BY <1>4, <2>1 DEF TryRW
  <2>3. KeptOutForWriter'
    <3>. SUFFICES ASSUME r_susp' \/ Among(OnRCond)' # {}, ~cache_w_lock'
                  PROVE  \E u \in Threads : pc'[u] \in {"wsleep", "wwoken"}
      BY DEF KeptOutForWriter, Among
    <3>1. pc'[t] = asleep /\ ~cache_w_lock
      BY <2>2
    <3>2. r_susp \/ Among(OnRCond) # {}
      BY <2>2, <3>1 DEF Among, OnRCond
    <3>3. PICK u \in Threads : pc[u] \in {"wsleep", "wwoken"}
      BY <1>0, <3>1, <3>2 DEF KeptOutForWriter, Among
    <3>. QED BY <2>1, <2>2, <3>1, <3>3
  <2>4. HandedToReaders'
    BY <1>0, <1>3, <2>2 DEF HandedToReaders
  <2>. QED BY <2>3, <2>4
<1>8. CASE UnlockRW(t) \/ Yield(t)
  BY <1>1, <1>8, ReleaseHandsOver DEF UnlockRW, Yield
<1>9. CASE UnlockR(t)
  <2>1. /\ pc[t] = "reading" /\ pc'[t] = "idle"
        /\ UNCHANGED <<cache_w_lock, r_pend, rw_pend, r_susp>>
    <3>1. pc[t] = "reading" /\ UNCHANGED <<cache_w_lock, r_pend, rw_pend, r_susp>>
      BY <1>9 DEF UnlockR, pends
    <3>2. pc' = Goes(t, "idle") \/ pc' \in SignalRw(Goes(t, "idle"))
      BY <1>9 DEF UnlockR
    <3>3. Goes(t, "idle") \in [Threads -> Pc] /\ Goes(t, "idle")[t] = "idle"
      BY <1>2 DEF Goes, Pc
    <3>. QED BY <3>1, <3>2, <3>3, Wakes DEF OnRCond, OnRwCond
  <2>2. KeptOutForWriter'
    <3>. SUFFICES ASSUME r_susp' \/ Among(OnRCond)' # {}, ~cache_w_lock'
                  PROVE  \E u \in Threads : pc'[u] \in {"wsleep", "wwoken"}
      BY DEF KeptOutForWriter, Among
    <3>1. r_susp \/ Among(OnRCond) # {}
      BY <1>5, <2>1 DEF Among, OnRCond
    <3>2. PICK u \in Threads : pc[u] \in {"wsleep", "wwoken"}
      BY <1>0, <2>1, <3>1 DEF KeptOutForWriter, Among
    <3>. QED BY <1>5, <2>1, <3>2
  <2>3. HandedToReaders'
    <3>. SUFFICES ASSUME cache_r_lock' = 0
                  PROVE  Among(OnRwCond)' = {} \/ Among({"wwoken", "twoken"})' # {}
      BY DEF HandedToReaders
    <3>1. pc' \in SignalRw(Goes(t, "idle"))
      BY <1>9 DEF UnlockR
    <3>2. Goes(t, "idle") \in [Threads -> Pc]
      BY <1>2 DEF Goes, Pc
    <3>. QED BY <3>1, <3>2, SignalWakesWriter DEF Among
  <2>. QED BY <2>2, <2>3
<1>10. CASE TimeOut(t)
  <2>1. /\ pc[t] = "tsleep" /\ pc'[t] = "idle" /\ rw_pend' = rw_pend - 1
        /\ \A u \in Threads \ {t} : pc'[u] = pc[u]
        /\ UNCHANGED <<cache_w_lock, cache_r_lock, r_pend, r_susp>>
    BY <1>4, <1>10 DEF TimeOut, locks
  <2>2. KeptOutForWriter'
    BY <1>0, <2>1 DEF KeptOutForWriter, Among, OnRCond
  <2>3. HandedToReaders'
    <3>. SUFFICES ASSUME ~cache_w_lock', cache_r_lock' = 0,
                         Among(OnRwCond)' # {}, Among({"wwoken", "twoken"})' = {}
                  PROVE  /\ Among({"rwoken"})' # {}
                         /\ ~r_susp' /\ rw_pend' <= SUSP_THRESH(r_pend')
      BY DEF HandedToReaders
    <3>1. Among(OnRwCond) # {} /\ Among({"wwoken", "twoken"}) = {}
      BY <2>1 DEF Among, OnRwCond
    <3>2. Among({"rwoken"}) # {} /\ ~r_susp /\ rw_pend <= SUSP_THRESH(r_pend)
      BY <1>0, <2>1, <3>1 DEF HandedToReaders
    <3>3. Among({"rwoken"})' # {}
      BY <2>1, <3>2 DEF Among
    <3>4. rw_pend - 1 <= SUSP_THRESH(r_pend)
      BY <1>3, <3>2, Threshold
    <3>. QED BY <2>1, <3>2, <3>3, <3>4
  <2>. QED BY <2>2, <2>3
<1>11. CASE SpuriousWakeup(t)
  <2>1. /\ pc[t] \in OnRCond \union OnRwCond /\ pc'[t] = Woken[pc[t]]
        /\ \A u \in Threads \ {t} : pc'[u] = pc[u]
        /\ UNCHANGED <<cache_w_lock, cache_r_lock, r_pend, rw_pend, r_susp>>
    BY <1>4, <1>11 DEF SpuriousWakeup, locks, pends
  <2>2. KeptOutForWriter'
    BY <1>0, <2>1 DEF KeptOutForWriter, Among, OnRCond, OnRwCond, Woken
  <2>3. HandedToReaders'
    <3>. SUFFICES ASSUME ~cache_w_lock', cache_r_lock' = 0,
                         Among(OnRwCond)' # {}, Among({"wwoken", "twoken"})' = {}
                  PROVE  /\ Among({"rwoken"})' # {}
                         /\ ~r_susp' /\ rw_pend' <= SUSP_THRESH(r_pend')
      BY DEF HandedToReaders
    <3>1. pc[t] = "rsleep" /\ pc'[t] = "rwoken"
      BY <2>1 DEF Among, OnRCond, OnRwCond, Woken
    <3>2. Among(OnRwCond) # {} /\ Among({"wwoken", "twoken"}) = {}
      BY <2>1, <3>1 DEF Among, OnRwCond
    <3>3. ~r_susp /\ rw_pend <= SUSP_THRESH(r_pend)
      BY <1>0, <2>1, <3>2 DEF HandedToReaders
    <3>4. Among({"rwoken"})' # {}
      BY <3>1 DEF Among
    <3>. QED BY <2>1, <3>3, <3>4
  <2>. QED BY <2>2, <2>3
<1>12. ~Soft(t)
  BY <1>0 DEF Soft, SoftLockR, SoftUnlockR, SoftLockRW, SoftUnlockRW, SoftGiveUp
<1>. QED
  BY <1>6, <1>7, <1>8, <1>9, <1>10, <1>11, <1>12 DEF Step, Retry, Unlock

\* Until the program exits somebody is awake whenever somebody sleeps.
THEOREM NoLostWakeUp == Spec => []SomeoneAwake
<1>1. Init => WakeInv
  <2>. SUFFICES ASSUME Init PROVE KeptOutForWriter /\ HandedToReaders
    BY LockInit DEF WakeInv
  <2>. QED BY Zenon DEF Init, KeptOutForWriter, HandedToReaders, Among, OnRCond, OnRwCond
<1>2. WakeInv /\ [Next]_vars => WakeInv'
  <2>1. ASSUME WakeInv, UNCHANGED vars PROVE WakeInv'
    BY <2>1 DEF WakeInv, LockInv, TypeOK, WriterFlag, Exclusive, KeptOutForWriter,
       HandedToReaders, Running, Among, vars, locks, pends
  <2>2. ASSUME WakeInv, NEW t \in Threads, Step(t) PROVE WakeInv'
    <3>1. LockInv'
      BY <2>2, LockStep DEF WakeInv
    <3>. QED BY <2>2, <3>1, WakeStep DEF WakeInv
  <2>. QED BY <2>1, <2>2 DEF Next
<1>3. WakeInv => SomeoneAwake
  <2>. SUFFICES ASSUME WakeInv, Running, NEW u \in Threads, pc[u] \in OnRCond \union OnRwCond
                PROVE  \E t \in Threads :
                         pc[t] \in Reading \union Writing \union {"rwoken", "wwoken", "twoken"}
    BY DEF SomeoneAwake
  <2>1. CASE cache_w_lock
    BY <2>1 DEF WakeInv, LockInv, WriterFlag
  <2>2. CASE cache_r_lock # 0
    BY <2>2, CountersMean DEF WakeInv, LockInv, Reading
  <2>3. CASE ~cache_w_lock /\ cache_r_lock = 0
    <3>1. CASE Among(OnRwCond) # {}
      BY <2>3, <3>1 DEF WakeInv, HandedToReaders, Among
    <3>2. CASE Among(OnRwCond) = {}
      <4>1. Among(OnRCond) # {}
        BY <3>2 DEF Among
      <4>. QED BY <2>3, <3>2, <4>1 DEF WakeInv, KeptOutForWriter, Among, OnRwCond
    <3>. QED BY <3>1, <3>2
  <2>. QED BY <2>1, <2>2, <2>3
<1>. QED BY <1>1, <1>2, <1>3, PTL DEF Spec

-----------------------------------------------------------------------------
(* The hash table. *)

\* A chain holds names of its bucket, each once, in the order of the longer hash.
Ordered(b, chain) ==
  /\ chain \in Seq(Names)
  /\ \A k \in 1..Len(chain) : Idx[chain[k]] = b
  /\ \A k \in 1..Len(chain) : \A j \in 1..k - 1 :
       RHash[chain[j]] <= RHash[chain[k]] /\ chain[j] # chain[k]

ChainsOrdered ==
  /\ DOMAIN hash_buckets = Buckets
  /\ \A b \in Buckets : Ordered(b, hash_buckets[b])

\* empty_cache() stands somewhere in a bucket, and elsewhere nobody minds where.
EmptyingPlaced ==
  /\ hep \in Nat \ {0}
  /\ emptying # NULL => emptying \in [sla : Lists, i : Buckets]
  /\ holder = "empty" => emptying # NULL

IInv == ChainsOrdered /\ EmptyingPlaced

-----------------------------------------------------------------------------
(* Sequences. *)

LEMMA InsertIntoSeq ==
  ASSUME NEW S, NEW s \in Seq(S), NEW k \in 1..Len(s) + 1, NEW e \in S
  PROVE  /\ InsertAt(s, k, e) \in Seq(S)
         /\ Len(InsertAt(s, k, e)) = Len(s) + 1
         /\ \A i \in 1..Len(s) + 1 :
              InsertAt(s, k, e)[i] = IF i < k THEN s[i] ELSE IF i = k THEN e ELSE s[i - 1]
<1>. DEFINE front == SubSeq(s, 1, k - 1)  back == SubSeq(s, k, Len(s))  mid == front \o <<e>>
<1>1. front \in Seq(S) /\ Len(front) = k - 1 /\ \A i \in 1..k - 1 : front[i] = s[i]
  BY SubSeqProperties
<1>2. back \in Seq(S) /\ Len(back) = Len(s) - k + 1 /\ \A i \in 1..Len(s) - k + 1 : back[i] = s[k + i - 1]
  BY SubSeqProperties
<1>3. mid \in Seq(S) /\ Len(mid) = k /\ \A i \in 1..k : mid[i] = IF i < k THEN s[i] ELSE e
  BY <1>1
<1>. HIDE DEF front, back, mid
<1>4. mid \o back \in Seq(S) /\ Len(mid \o back) = Len(s) + 1
  BY <1>2, <1>3
<1>5. \A i \in 1..Len(s) + 1 : (mid \o back)[i] = IF i <= k THEN mid[i] ELSE back[i - k]
  BY <1>2, <1>3
<1>6. InsertAt(s, k, e) = mid \o back
  BY DEF InsertAt, front, back, mid
<1>. QED BY <1>2, <1>3, <1>4, <1>5, <1>6

\* What is in the sequence now and is not what was inserted was there before.
LEMMA ElementsInserted ==
  ASSUME NEW S, NEW s \in Seq(S), NEW k \in 1..Len(s) + 1, NEW e \in S,
         NEW i \in 1..Len(InsertAt(s, k, e)), InsertAt(s, k, e)[i] # e
  PROVE  \E j \in 1..Len(s) : s[j] = InsertAt(s, k, e)[i]
<1>. DEFINE new == InsertAt(s, k, e)
<1>1. Len(new) = Len(s) + 1 /\ \A j \in 1..Len(s) + 1 : new[j] = IF j < k THEN s[j] ELSE IF j = k THEN e ELSE s[j - 1]
  <2>. HIDE DEF new
  <2>1. new = InsertAt(s, k, e)
    BY DEF new
  <2>2. Len(InsertAt(s, k, e)) = Len(s) + 1
    BY InsertIntoSeq
  <2>3. \A j \in 1..Len(s) + 1 :
          InsertAt(s, k, e)[j] = IF j < k THEN s[j] ELSE IF j = k THEN e ELSE s[j - 1]
    BY InsertIntoSeq
  <2>. QED BY <2>1, <2>2, <2>3
<1>. HIDE DEF new
<1>2. i \in 1..Len(s) + 1 /\ new[i] # e
  BY <1>1 DEF new
<1>3. CASE i < k
  <2>1. i \in 1..Len(s) /\ new[i] = s[i]
    BY <1>1, <1>2, <1>3
  <2>. QED BY <2>1 DEF new
<1>4. CASE i > k
  <2>1. i - 1 \in 1..Len(s) /\ new[i] = s[i - 1]
    BY <1>1, <1>2, <1>4
  <2>. QED BY <2>1 DEF new
<1>5. i # k
  BY <1>1, <1>2
<1>. QED BY <1>2, <1>3, <1>4, <1>5

LEMMA RemoveFromSeq ==
  ASSUME NEW S, NEW s \in Seq(S), NEW k \in 1..Len(s)
  PROVE  /\ RemoveAt(s, k) \in Seq(S)
         /\ Len(RemoveAt(s, k)) = Len(s) - 1
         /\ \A i \in 1..Len(s) - 1 : RemoveAt(s, k)[i] = IF i < k THEN s[i] ELSE s[i + 1]
<1>. DEFINE front == SubSeq(s, 1, k - 1)  back == SubSeq(s, k + 1, Len(s))
<1>1. front \in Seq(S) /\ Len(front) = k - 1 /\ \A i \in 1..k - 1 : front[i] = s[i]
  BY SubSeqProperties
<1>2. back \in Seq(S) /\ Len(back) = Len(s) - k /\ \A i \in 1..Len(s) - k : back[i] = s[k + i]
  BY SubSeqProperties
<1>. HIDE DEF front, back
<1>3. front \o back \in Seq(S) /\ Len(front \o back) = Len(s) - 1
  BY <1>1, <1>2
<1>4. \A i \in 1..Len(s) - 1 : (front \o back)[i] = IF i < k THEN front[i] ELSE back[i - k + 1]
  BY <1>1, <1>2
<1>5. RemoveAt(s, k) = front \o back
  BY DEF RemoveAt, front, back
<1>6. ASSUME NEW i \in 1..Len(s) - 1, i >= k PROVE back[i - k + 1] = s[i + 1]
  <2>1. i - k + 1 \in 1..Len(s) - k /\ k + (i - k + 1) = i + 1
    BY <1>6
  <2>. QED BY <1>2, <2>1
<1>7. ASSUME NEW i \in 1..Len(s) - 1 PROVE RemoveAt(s, k)[i] = IF i < k THEN s[i] ELSE s[i + 1]
  <2>1. RemoveAt(s, k)[i] = IF i < k THEN front[i] ELSE back[i - k + 1]
    BY <1>4, <1>5
  <2>2. CASE i < k
    <3>1. i \in 1..k - 1
      BY <2>2
    <3>. QED BY <1>1, <2>1, <2>2, <3>1
  <2>3. CASE i >= k
    <3>1. RemoveAt(s, k)[i] = back[i - k + 1] /\ ~(i < k)
      BY <2>1, <2>3
    <3>2. back[i - k + 1] = s[i + 1]
      BY <1>6, <2>3
    <3>. QED BY <3>1, <3>2
  <2>. QED BY <2>2, <2>3
<1>. QED BY <1>3, <1>5, <1>7

-----------------------------------------------------------------------------
(* The search. *)

\* There is a first place where a search stops.
LEMMA PlaceIsFirst ==
  ASSUME NEW chain \in Seq(Names), NEW n \in Names
  PROVE  /\ Place(chain, n) \in 1..Len(chain) + 1
         /\ Stops(chain, n, Place(chain, n))
         /\ \A j \in 1..Place(chain, n) - 1 : ~Stops(chain, n, j)
<1>. DEFINE Stop == {k \in 1..Len(chain) + 1 : Stops(chain, n, k)}
<1>1. Len(chain) + 1 \in Stop
  BY DEF Stops
<1>2. Stop \subseteq Nat /\ Stop # {}
  BY <1>1
<1>. HIDE DEF Stop
<1>3. PICK k \in Stop : \A j \in Stop : <<j, k>> \notin OpToRel(<, Nat)
  BY <1>2, WFMin, NatLessThanWellFounded, Zenon
<1>4. \A j \in Stop : ~(j < k)
  BY <1>2, <1>3, Zenon DEF OpToRel
<1>5. k \in 1..Len(chain) + 1 /\ Stops(chain, n, k) /\ \A j \in 1..k - 1 : ~Stops(chain, n, j)
  <2>1. Len(chain) \in Nat
    BY LenProperties
  <2>2. k \in 1..Len(chain) + 1 /\ Stops(chain, n, k)
    BY <1>3 DEF Stop
  <2>3. ASSUME NEW j \in 1..k - 1 PROVE ~Stops(chain, n, j)
    <3>1. j \in 1..Len(chain) + 1 /\ j < k
      BY <2>1, <2>2
    <3>. QED BY <1>4, <3>1 DEF Stop
  <2>. QED BY <2>2, <2>3
<1>. QED BY <1>5 DEF Place

\* In an ordered chain the search finds a name wherever it is.
LEMMA SearchFinds ==
  ASSUME NEW b \in Buckets, NEW chain, Ordered(b, chain), NEW n \in Names
  PROVE  (Place(chain, n) <= Len(chain) /\ chain[Place(chain, n)] = n) <=> \E i \in 1..Len(chain) : chain[i] = n
<1>. DEFINE k == Place(chain, n)
<1>1. chain \in Seq(Names)
  BY DEF Ordered
<1>2. k \in 1..Len(chain) + 1 /\ Stops(chain, n, k) /\ \A j \in 1..k - 1 : ~Stops(chain, n, j)
  BY <1>1, PlaceIsFirst
<1>. HIDE DEF k
<1>3. ASSUME NEW i \in 1..Len(chain), chain[i] = n PROVE k = i
  <2>1. k <= i
    BY <1>1, <1>2, <1>3 DEF Stops
  <2>2. CASE k < i
    <3>1. RHash[chain[k]] <= RHash[chain[i]] /\ chain[k] # chain[i]
      BY <1>1, <1>2, <2>2 DEF Ordered
    <3>2. chain[k] \in Names
      BY <1>1, <1>2, <2>2
    <3>. QED BY <1>1, <1>2, <1>3, <2>2, <3>1, <3>2, HashesNat DEF Stops
  <2>. QED BY <1>1, <1>2, <2>1, <2>2
<1>. QED BY <1>1, <1>2, <1>3 DEF k

\* A name put where its search stopped keeps the order.
LEMMA InsertKeepsOrder ==
  ASSUME NEW b \in Buckets, NEW chain, Ordered(b, chain), NEW n \in Names, Idx[n] = b,
         \A i \in 1..Len(chain) : chain[i] # n
  PROVE  Ordered(b, InsertAt(chain, Place(chain, n), n))
<1>. DEFINE k == Place(chain, n)  new == InsertAt(chain, k, n)
<1>1. chain \in Seq(Names)
  BY DEF Ordered
<1>2. k \in 1..Len(chain) + 1 /\ Stops(chain, n, k) /\ \A j \in 1..k - 1 : ~Stops(chain, n, j)
  BY <1>1, PlaceIsFirst
<1>. HIDE DEF k
<1>3. /\ new \in Seq(Names) /\ Len(new) = Len(chain) + 1
      /\ \A i \in 1..Len(chain) + 1 : new[i] = IF i < k THEN chain[i] ELSE IF i = k THEN n ELSE chain[i - 1]
  BY <1>1, <1>2, InsertIntoSeq
<1>. HIDE DEF new
<1>4. \A i \in 1..Len(chain) : chain[i] \in Names /\ RHash[chain[i]] \in Nat
  BY <1>1, HashesNat
<1>5. \A i \in 1..k - 1 : RHash[chain[i]] <= RHash[n]
  BY <1>1, <1>2, <1>4, HashesNat DEF Stops
<1>6. \A i \in k..Len(chain) : RHash[n] <= RHash[chain[i]]
  <2>1. k <= Len(chain) => RHash[n] < RHash[chain[k]]
    BY <1>1, <1>2, <1>4, HashesNat DEF Stops
  <2>2. ASSUME NEW i \in k..Len(chain), k < i PROVE RHash[chain[k]] <= RHash[chain[i]]
    BY <1>1, <1>2, <2>2 DEF Ordered
  <2>3. RHash[n] \in Nat
    BY HashesNat
  <2>4. Len(chain) \in Nat
    BY <1>1
  <2>5. ASSUME NEW i \in k..Len(chain) PROVE RHash[n] <= RHash[chain[i]]
    <3>1. k \in 1..Len(chain) /\ i \in 1..Len(chain)
      BY <1>2, <2>4
    <3>2. RHash[chain[k]] \in Nat /\ RHash[chain[i]] \in Nat
      BY <1>4, <3>1
    <3>3. CASE k < i
      BY <2>1, <2>2, <2>3, <3>1, <3>2, <3>3
    <3>4. CASE k = i
      BY <2>1, <2>3, <3>1, <3>2, <3>4
    <3>. QED BY <3>1, <3>3, <3>4
  <2>. QED BY <2>5
<1>7. ASSUME NEW i \in 1..Len(new) PROVE Idx[new[i]] = b
  <2>1. CASE i < k
    <3>1. i \in 1..Len(chain) /\ new[i] = chain[i]
      BY <1>1, <1>2, <1>3, <2>1
    <3>. QED BY <3>1 DEF Ordered
  <2>2. CASE i = k
    BY <1>3, <2>2
  <2>3. CASE i > k
    <3>1. i - 1 \in 1..Len(chain) /\ new[i] = chain[i - 1]
      BY <1>1, <1>2, <1>3, <2>3
    <3>. QED BY <3>1 DEF Ordered
  <2>. QED BY <1>1, <1>2, <1>3, <2>1, <2>2, <2>3
<1>8. ASSUME NEW i \in 1..Len(new), NEW j \in 1..i - 1 PROVE RHash[new[j]] <= RHash[new[i]] /\ new[j] # new[i]
  <2>1. CASE i < k
    BY <1>1, <1>2, <1>3, <2>1 DEF Ordered
  <2>2. CASE i = k
    BY <1>1, <1>2, <1>3, <1>5, <2>2
  <2>3. CASE i > k /\ j < k
    <3>1. /\ i - 1 \in 1..Len(chain) /\ new[i] = chain[i - 1]
          /\ j \in 1..(i - 1) - 1 /\ new[j] = chain[j]
      BY <1>1, <1>2, <1>3, <2>3
    <3>. QED BY <3>1 DEF Ordered
  <2>4. CASE i > k /\ j = k
    <3>1. i - 1 \in k..Len(chain) /\ i - 1 \in 1..Len(chain) /\ new[i] = chain[i - 1] /\ new[j] = n
      BY <1>1, <1>2, <1>3, <2>4
    <3>. QED BY <1>6, <3>1
  <2>5. CASE i > k /\ j > k
    <3>1. /\ i - 1 \in 1..Len(chain) /\ new[i] = chain[i - 1]
          /\ j - 1 \in 1..(i - 1) - 1 /\ new[j] = chain[j - 1]
      BY <1>1, <1>2, <1>3, <2>5
    <3>. QED BY <3>1 DEF Ordered
  <2>6. i \in Nat /\ j \in Nat /\ k \in Nat
    BY <1>1, <1>2, <1>3
  <2>. QED BY <2>1, <2>2, <2>3, <2>4, <2>5, <2>6
<1>9. Ordered(b, new)
  BY <1>3, <1>7, <1>8 DEF Ordered
<1>. QED BY <1>9 DEF new, k

LEMMA RemoveKeepsOrder ==
  ASSUME NEW b \in Buckets, NEW chain, Ordered(b, chain), NEW k \in 1..Len(chain)
  PROVE  Ordered(b, RemoveAt(chain, k))
<1>. DEFINE new == RemoveAt(chain, k)
<1>1. chain \in Seq(Names)
  BY DEF Ordered
<1>2. /\ new \in Seq(Names) /\ Len(new) = Len(chain) - 1
      /\ \A i \in 1..Len(chain) - 1 : new[i] = IF i < k THEN chain[i] ELSE chain[i + 1]
  BY <1>1, RemoveFromSeq
<1>. HIDE DEF new
<1>3. ASSUME NEW i \in 1..Len(new)
      PROVE  \E l \in 1..Len(chain) : new[i] = chain[l] /\ (IF i < k THEN l = i ELSE l = i + 1)
  <2>1. CASE i < k
    BY <1>1, <1>2, <2>1
  <2>2. CASE i >= k
    <3>1. i + 1 \in 1..Len(chain) /\ new[i] = chain[i + 1]
      BY <1>1, <1>2, <2>2
    <3>. QED BY <2>2, <3>1
  <2>. QED BY <2>1, <2>2
<1>4. ASSUME NEW i \in 1..Len(new) PROVE Idx[new[i]] = b
  BY <1>3 DEF Ordered
<1>5. ASSUME NEW i \in 1..Len(new), NEW j \in 1..i - 1 PROVE RHash[new[j]] <= RHash[new[i]] /\ new[j] # new[i]
  <2>1. j \in 1..Len(new)
    BY <1>2
  <2>2. PICK l \in 1..Len(chain) : new[i] = chain[l] /\ (IF i < k THEN l = i ELSE l = i + 1)
    BY <1>3
  <2>3. PICK m \in 1..Len(chain) : new[j] = chain[m] /\ (IF j < k THEN m = j ELSE m = j + 1)
    BY <1>3, <2>1
  <2>4. m \in 1..l - 1
    BY <2>2, <2>3
  <2>. QED BY <2>2, <2>3, <2>4 DEF Ordered
<1>6. Ordered(b, new)
  BY <1>2, <1>4, <1>5 DEF Ordered
<1>. QED BY <1>6 DEF new

-----------------------------------------------------------------------------
(* The steps. *)

\* Whoever changes a chain and keeps its order keeps that of all.
LEMMA ChainChanged ==
  ASSUME ChainsOrdered, NEW b \in Buckets, NEW chain, Ordered(b, chain), WithChain(b, chain)
  PROVE  ChainsOrdered'
<1>1. DOMAIN hash_buckets' = Buckets
  BY DEF ChainsOrdered, WithChain
<1>2. ASSUME NEW c \in Buckets PROVE Ordered(c, hash_buckets'[c])
  BY <1>2 DEF ChainsOrdered, WithChain
<1>. QED BY <1>1, <1>2 DEF ChainsOrdered, Ordered

LEMMA NamesHaveBuckets == ASSUME NEW n \in Names PROVE Idx[n] \in Buckets
<1>. QED BY HashesNat DEF Buckets

LEMMA EmptyIsOrdered == ASSUME NEW b PROVE Ordered(b, <<>>)
<1>. QED BY DEF Ordered

LEMMA LookupFinds ==
  ASSUME ChainsOrdered, NEW n \in Names
  PROVE  /\ Idx[n] \in Buckets /\ Ordered(Idx[n], hash_buckets[Idx[n]])
         /\ dns_lookup(n).pos = Place(hash_buckets[Idx[n]], n)
         /\ dns_lookup(n).pos \in 1..Len(hash_buckets[Idx[n]]) + 1
         /\ dns_lookup(n).found => dns_lookup(n).pos \in 1..Len(hash_buckets[Idx[n]]) /\ hash_buckets[Idx[n]][dns_lookup(n).pos] = n
         /\ dns_lookup(n).found <=> \E i \in 1..Len(hash_buckets[Idx[n]]) : hash_buckets[Idx[n]][i] = n
<1>. DEFINE chain == hash_buckets[Idx[n]]
<1>1. Idx[n] \in Buckets /\ Ordered(Idx[n], chain)
  BY NamesHaveBuckets DEF ChainsOrdered
<1>2. chain \in Seq(Names)
  BY <1>1 DEF Ordered
<1>3. dns_lookup(n).pos = Place(chain, n) /\ dns_lookup(n).found = (Place(chain, n) <= Len(chain) /\ chain[Place(chain, n)] = n)
  BY DEF dns_lookup
<1>4. Place(chain, n) \in 1..Len(chain) + 1
  BY <1>2, PlaceIsFirst
<1>5. (Place(chain, n) <= Len(chain) /\ chain[Place(chain, n)] = n) <=> \E i \in 1..Len(chain) : chain[i] = n
  BY <1>1, SearchFinds
<1>6. Len(chain) \in Nat
  BY <1>2, LenProperties
<1>. HIDE DEF chain
<1>7. ASSUME dns_lookup(n).found PROVE dns_lookup(n).pos \in 1..Len(chain) /\ chain[dns_lookup(n).pos] = n
  <2>1. Place(chain, n) <= Len(chain) /\ chain[Place(chain, n)] = n
    BY <1>3, <1>7, Zenon
  <2>. QED BY <1>3, <1>4, <1>6, <2>1
<1>. QED BY <1>1, <1>3, <1>4, <1>5, <1>7 DEF chain

LEMMA AddKeeps == ASSUME ChainsOrdered, NEW n \in Names, Add(n) PROVE ChainsOrdered'
<1>1. Ordered(Idx[n], InsertAt(hash_buckets[Idx[n]], Place(hash_buckets[Idx[n]], n), n))
  BY LookupFinds, InsertKeepsOrder DEF Add
<1>2. WithChain(Idx[n], InsertAt(hash_buckets[Idx[n]], Place(hash_buckets[Idx[n]], n), n))
  BY LookupFinds DEF Add
<1>. QED BY <1>1, <1>2, NamesHaveBuckets, ChainChanged

LEMMA DeleteKeeps == ASSUME ChainsOrdered, NEW n \in Names, del_dns_hash(n) PROVE ChainsOrdered'
<1>1. Ordered(Idx[n], RemoveAt(hash_buckets[Idx[n]], dns_lookup(n).pos))
  BY LookupFinds, RemoveKeepsOrder DEF del_dns_hash
<1>. QED BY <1>1, NamesHaveBuckets, ChainChanged DEF del_dns_hash

LEMMA ReplaceKeeps == ASSUME ChainsOrdered, NEW n \in Names, Replace(n) PROVE ChainsOrdered'
<1>. DEFINE chain == hash_buckets[Idx[n]]  k == dns_lookup(n).pos  rest == RemoveAt(chain, k)
<1>1. k \in 1..Len(chain) /\ chain[k] = n /\ Idx[n] \in Buckets /\ Ordered(Idx[n], chain)
  BY LookupFinds DEF Replace
<1>2. Ordered(Idx[n], rest)
  BY <1>1, RemoveKeepsOrder
<1>3. WithChain(Idx[n], InsertAt(rest, Place(rest, n), n))
  BY DEF Replace
<1>4. chain \in Seq(Names)
  BY <1>1 DEF Ordered
<1>. HIDE DEF chain, k
<1>5. Len(rest) = Len(chain) - 1 /\ \A i \in 1..Len(chain) - 1 : rest[i] = IF i < k THEN chain[i] ELSE chain[i + 1]
  BY <1>1, <1>4, RemoveFromSeq
<1>6. ASSUME NEW i \in 1..Len(rest) PROVE rest[i] # n
  <2>1. CASE i < k
    BY <1>1, <1>4, <1>5, <2>1 DEF Ordered
  <2>2. CASE i >= k
    <3>1. i + 1 \in 1..Len(chain) /\ k \in 1..(i + 1) - 1 /\ rest[i] = chain[i + 1]
      BY <1>1, <1>4, <1>5, <2>2
    <3>. QED BY <1>1, <3>1 DEF Ordered
  <2>3. i \in Nat /\ k \in Nat
    BY <1>1, <1>4
  <2>. QED BY <2>1, <2>2, <2>3
<1>. HIDE DEF rest
<1>7. Ordered(Idx[n], InsertAt(rest, Place(rest, n), n))
  BY <1>1, <1>2, <1>6, InsertKeepsOrder
<1>. QED BY <1>1, <1>3, <1>7, ChainChanged

LEMMA SelectedKeeps == ASSUME IInv, free_dns_hash_selected PROVE ChainsOrdered'
<1>1. emptying.i \in Buckets /\ hep \in Nat \ {0} /\ hep <= Len(Chain)
  BY DEF IInv, EmptyingPlaced, free_dns_hash_selected
<1>2. Ordered(emptying.i, Chain)
  BY <1>1 DEF IInv, ChainsOrdered, Chain
<1>3. CASE WithChain(emptying.i, RemoveAt(Chain, hep))
  <2>1. hep \in 1..Len(Chain)
    BY <1>1, <1>2, LenProperties DEF Ordered
  <2>. QED BY <1>1, <1>2, <1>3, <2>1, RemoveKeepsOrder, ChainChanged DEF IInv
<1>4. CASE UNCHANGED hash_buckets
  BY <1>4 DEF IInv, ChainsOrdered, Ordered
<1>. QED BY <1>3, <1>4 DEF free_dns_hash_selected

LEMMA InitOrders == ASSUME TableInit PROVE IInv
<1>1. ASSUME NEW b \in Buckets PROVE hash_buckets[b] = <<>>
  BY <1>1 DEF TableInit
<1>2. ChainsOrdered
  BY <1>1, EmptyIsOrdered DEF TableInit, ChainsOrdered
<1>. QED BY <1>2 DEF TableInit, IInv, EmptyingPlaced

LEMMA ChainsKept == ASSUME IInv, [TableNext]_tableVars PROVE ChainsOrdered'
<1>0. ASSUME UNCHANGED hash_buckets PROVE ChainsOrdered'
  BY <1>0 DEF IInv, ChainsOrdered, Ordered
<1>1. CASE \E n \in Names : Add(n) \/ del_dns_hash(n) \/ Replace(n)
  BY <1>1, AddKeeps, DeleteKeeps, ReplaceKeeps DEF IInv
<1>2. CASE \E sla \in Lists : EmptyCache(sla)
  BY <1>0, <1>2 DEF EmptyCache
<1>3. CASE free_dns_hash_bucket
  <2>1. emptying.i \in Buckets
    BY <1>3 DEF IInv, EmptyingPlaced, free_dns_hash_bucket
  <2>. QED BY <1>3, <2>1, EmptyIsOrdered, ChainChanged DEF IInv, free_dns_hash_bucket
<1>4. CASE free_dns_hash_selected
  BY <1>4, SelectedKeeps
<1>5. CASE YieldLock \/ Resume \/ fetch_first \/ fetch_next
  BY <1>0, <1>5 DEF YieldLock, Resume, fetch_first, fetch_next
<1>6. CASE free_dns_hash
  <2>1. DOMAIN hash_buckets' = Buckets /\ \A b \in Buckets : hash_buckets'[b] = <<>>
    BY <1>6 DEF free_dns_hash
  <2>2. \A b \in Buckets : Ordered(b, <<>>)
    BY EmptyIsOrdered
  <2>. QED BY <2>1, <2>2 DEF ChainsOrdered, Ordered
<1>7. CASE UNCHANGED tableVars
  BY <1>0, <1>7 DEF tableVars
<1>. QED BY <1>1, <1>2, <1>3, <1>4, <1>5, <1>6, <1>7 DEF TableNext

LEMMA PlaceKept == ASSUME IInv, [TableNext]_tableVars PROVE EmptyingPlaced'
<1>. USE DEF IInv, EmptyingPlaced
<1>1. CASE \E n \in Names : Add(n) \/ del_dns_hash(n) \/ Replace(n)
  BY <1>1 DEF Add, del_dns_hash, Replace, sweep
<1>2. CASE \E sla \in Lists : EmptyCache(sla)
  <2>1. PICK sla \in Lists : EmptyCache(sla)
    BY <1>2
  <2>2. emptying' = [sla |-> sla, i |-> 0] /\ hep' = 1
    BY <2>1 DEF EmptyCache
  <2>3. 0 \in Buckets
    BY BucketsPositive DEF Buckets
  <2>4. emptying' \in [sla : Lists, i : Buckets] /\ emptying' # NULL
    BY <2>2, <2>3, NullIsNothing DEF Buckets
  <2>. QED BY <2>2, <2>4
<1>3. CASE free_dns_hash_bucket
  BY <1>3 DEF free_dns_hash_bucket, sweep
<1>4. CASE free_dns_hash_selected
  BY <1>4 DEF free_dns_hash_selected
<1>5. CASE YieldLock
  BY <1>5, BucketsPositive DEF YieldLock, Buckets
<1>6. CASE Resume
  BY <1>6 DEF Resume, sweep
<1>7. CASE fetch_first
  BY <1>7 DEF fetch_first, sweep
<1>8. CASE fetch_next
  BY <1>8 DEF fetch_next, Fetch, sweep
<1>9. CASE free_dns_hash
  BY <1>9 DEF free_dns_hash, sweep
<1>10. CASE UNCHANGED tableVars
  BY <1>10 DEF tableVars, sweep
<1>. QED BY <1>1, <1>2, <1>3, <1>4, <1>5, <1>6, <1>7, <1>8, <1>9, <1>10 DEF TableNext

-----------------------------------------------------------------------------
(* The theorems. *)

\* Every chain keeps the order in which dns_lookup() may give up at a larger hash.
THEOREM OrderKept == TableSpec => []IInv
<1>1. TableInit => IInv
  BY InitOrders
<1>2. IInv /\ [TableNext]_tableVars => IInv'
  BY ChainsKept, PlaceKept DEF IInv
<1>. QED BY <1>1, <1>2, PTL DEF TableSpec

LEMMA OrderIsRight == ASSUME IInv PROVE LookupsRight
<1>1. ChainsOrdered
  BY DEF IInv
<1>2. ASSUME NEW b \in Buckets PROVE /\ hash_buckets[b] \in Seq(Names) /\ Ordered(b, hash_buckets[b])
                                     /\ DOMAIN hash_buckets[b] = 1..Len(hash_buckets[b])
  BY <1>1, LenProperties DEF ChainsOrdered, Ordered
<1>3. ASSUME NEW n \in Names PROVE n \in Entries <=> \E i \in 1..Len(hash_buckets[Idx[n]]) : hash_buckets[Idx[n]][i] = n
  <2>1. n \in Entries <=> \E b \in Buckets : \E i \in 1..Len(hash_buckets[b]) : hash_buckets[b][i] = n
    BY <1>2 DEF Entries, Held, Range
  <2>2. \A b \in Buckets : \A i \in 1..Len(hash_buckets[b]) : Idx[hash_buckets[b][i]] = b
    BY <1>2 DEF Ordered
  <2>. QED BY <2>1, <2>2, NamesHaveBuckets
<1>4. \A n \in Names : dns_lookup(n).found <=> n \in Entries
  BY <1>1, <1>3, LookupFinds
<1>5. ASSUME NEW b \in Buckets, NEW k \in DOMAIN hash_buckets[b]
      PROVE  Idx[hash_buckets[b][k]] = b /\ \A j \in 1..k - 1 : hash_buckets[b][j] # hash_buckets[b][k]
  BY <1>2 DEF Ordered
<1>. QED BY <1>4, <1>5 DEF LookupsRight

\* A search finds exactly what is in the table, for any names, hashes and number of buckets.
THEOREM SearchesAreRight == TableSpec => []LookupsRight
<1>. QED BY OrderKept, OrderIsRight, PTL

-----------------------------------------------------------------------------
(* empty_cache(). *)

\* Of what was there when it began, nothing that it selects is left behind it.
Swept ==
  /\ holder # "empty" => hep = 1
  /\ emptying # NULL =>
       \A b \in Buckets : \A k \in 1..Len(hash_buckets[b]) :
         hash_buckets[b][k] \in old /\ (b < emptying.i \/ (b = emptying.i /\ k < hep)) => ~Selected(emptying.sla, hash_buckets[b][k])

LEMMA EntriesAreElements ==
  ASSUME ChainsOrdered
  PROVE  \A n : n \in Entries <=> \E b \in Buckets : \E k \in 1..Len(hash_buckets[b]) : hash_buckets[b][k] = n
<1>1. \A b \in Buckets : DOMAIN hash_buckets[b] = 1..Len(hash_buckets[b])
  BY LenProperties DEF ChainsOrdered, Ordered
<1>. QED BY <1>1 DEF Entries, Held, Range

\* Who changes a chain between two buckets puts in nothing but what is new.
LEMMA OthersKeepSwept ==
  ASSUME IInv, Swept, holder = "none", UNCHANGED <<holder, emptying, hep>>, old' \subseteq old,
         NEW c \in Buckets, NEW chain \in Seq(Names), WithChain(c, chain),
         \A i \in 1..Len(chain) : chain[i] \in old' => \E k \in 1..Len(hash_buckets[c]) : hash_buckets[c][k] = chain[i]
  PROVE  Swept'
<1>1. hep = 1
  BY DEF Swept
<1>2. ASSUME emptying # NULL, NEW b \in Buckets, NEW i \in 1..Len(hash_buckets'[b]), hash_buckets'[b][i] \in old', b < emptying.i
      PROVE  ~Selected(emptying.sla, hash_buckets'[b][i])
  <2>1. CASE b = c
    <3>1. hash_buckets'[b] = chain
      BY <2>1 DEF WithChain, IInv, ChainsOrdered
    <3>2. PICK k \in 1..Len(hash_buckets[b]) : hash_buckets[b][k] = chain[i]
      BY <1>2, <2>1, <3>1
    <3>. QED BY <1>2, <3>1, <3>2 DEF Swept
  <2>2. CASE b # c
    <3>1. hash_buckets'[b] = hash_buckets[b]
      BY <2>2 DEF WithChain, IInv, ChainsOrdered
    <3>. QED BY <1>2, <3>1 DEF Swept
  <2>. QED BY <2>1, <2>2
<1>3. \A b \in Buckets : \A k \in 1..Len(hash_buckets'[b]) : ~(k < 1)
  OBVIOUS
<1>4. UNCHANGED <<holder, emptying, hep>>
  OBVIOUS
<1>. QED BY <1>1, <1>2, <1>3, <1>4 DEF Swept

LEMMA EditKeepsSwept ==
  ASSUME IInv, Swept, NEW n \in Names, Add(n) \/ del_dns_hash(n) \/ Replace(n)
  PROVE  Swept'
<1>. DEFINE chain == hash_buckets[Idx[n]]  k == dns_lookup(n).pos
<1>1. Idx[n] \in Buckets /\ chain \in Seq(Names) /\ k \in 1..Len(chain) + 1
      /\ k = Place(chain, n) /\ (dns_lookup(n).found => k \in 1..Len(chain))
  BY LookupFinds DEF IInv, Ordered
<1>. HIDE DEF chain, k
<1>2. CASE Add(n)
  <2>1. WithChain(Idx[n], InsertAt(chain, k, n)) /\ old' = old \ {n} /\ holder = "none" /\ UNCHANGED <<holder, emptying, hep>>
    BY <1>2 DEF Add, chain, k
  <2>2. chain \in Seq(Names) /\ k \in 1..Len(chain) + 1 /\ n \in Names
    BY <1>1
  <2>3. InsertAt(chain, k, n) \in Seq(Names) /\ Len(InsertAt(chain, k, n)) = Len(chain) + 1
    BY ONLY <2>2, InsertIntoSeq
  <2>4. ASSUME NEW i \in 1..Len(InsertAt(chain, k, n)), InsertAt(chain, k, n)[i] \in old'
        PROVE  \E j \in 1..Len(chain) : chain[j] = InsertAt(chain, k, n)[i]
    <3>1. InsertAt(chain, k, n)[i] # n
      BY <2>1, <2>4
    <3>. QED BY ONLY <2>2, <2>4, <3>1, ElementsInserted
  <2>. QED BY <1>1, <2>1, <2>3, <2>4, OthersKeepSwept DEF chain
<1>3. ASSUME dns_lookup(n).found
      PROVE  /\ RemoveAt(chain, k) \in Seq(Names) /\ Len(RemoveAt(chain, k)) = Len(chain) - 1
             /\ \A i \in 1..Len(chain) - 1 : \E j \in 1..Len(chain) : chain[j] = RemoveAt(chain, k)[i]
  <2>1. /\ RemoveAt(chain, k) \in Seq(Names) /\ Len(RemoveAt(chain, k)) = Len(chain) - 1
        /\ \A i \in 1..Len(chain) - 1 : RemoveAt(chain, k)[i] = IF i < k THEN chain[i] ELSE chain[i + 1]
    BY <1>1, <1>3, RemoveFromSeq
  <2>2. \A i \in 1..Len(chain) - 1 : i \in 1..Len(chain) /\ i + 1 \in 1..Len(chain)
    BY <1>1
  <2>. QED BY <2>1, <2>2
<1>4. CASE del_dns_hash(n)
  <2>1. WithChain(Idx[n], RemoveAt(chain, k)) /\ old' = old /\ holder = "none" /\ UNCHANGED <<holder, emptying, hep>>
    BY <1>4 DEF del_dns_hash, chain, k, sweep
  <2>2. dns_lookup(n).found
    BY <1>4 DEF del_dns_hash
  <2>. QED BY <1>1, <1>3, <2>1, <2>2, OthersKeepSwept DEF chain
<1>5. CASE Replace(n)
  <2>. DEFINE rest == RemoveAt(chain, k)  new == InsertAt(rest, Place(rest, n), n)
  <2>1. WithChain(Idx[n], new) /\ old' = old \ {n} /\ holder = "none" /\ UNCHANGED <<holder, emptying, hep>>
    BY <1>5 DEF Replace, chain, k
  <2>2. /\ rest \in Seq(Names) /\ Len(rest) = Len(chain) - 1
        /\ \A i \in 1..Len(rest) : \E j \in 1..Len(chain) : chain[j] = rest[i]
    BY <1>3, <1>5 DEF Replace
  <2>. HIDE DEF rest
  <2>3. Place(rest, n) \in 1..Len(rest) + 1
    BY <2>2, PlaceIsFirst
  <2>4. /\ new \in Seq(Names) /\ Len(new) = Len(rest) + 1
        /\ \A i \in 1..Len(rest) + 1 : new[i] = IF i < Place(rest, n) THEN rest[i] ELSE IF i = Place(rest, n) THEN n ELSE rest[i - 1]
    BY <2>2, <2>3, InsertIntoSeq
  <2>. HIDE DEF new
  <2>5. ASSUME NEW i \in 1..Len(new), new[i] \in old' PROVE \E j \in 1..Len(chain) : chain[j] = new[i]
    <3>1. i # Place(rest, n)
      BY <2>1, <2>4, <2>5
    <3>2. PICK j \in 1..Len(rest) : new[i] = rest[j]
      <4>1. CASE i < Place(rest, n)
        BY <2>2, <2>3, <2>4, <4>1
      <4>2. CASE i > Place(rest, n)
        <5>1. i - 1 \in 1..Len(rest) /\ new[i] = rest[i - 1]
          BY <2>2, <2>3, <2>4, <4>2
        <5>. QED BY <5>1
      <4>. QED BY <2>2, <2>3, <2>4, <3>1, <4>1, <4>2
    <3>. QED BY <2>2, <3>2
  <2>. QED BY <1>1, <2>1, <2>4, <2>5, OthersKeepSwept DEF chain
<1>. QED BY <1>2, <1>4, <1>5

LEMMA SelectedKeepsSwept == ASSUME IInv, Swept, free_dns_hash_selected PROVE Swept'
<1>1. emptying \in [sla : Lists, i : Buckets] /\ hep \in 1..Len(Chain) /\ Chain \in Seq(Names) /\ holder = "empty"
  <2>1. emptying \in [sla : Lists, i : Buckets] /\ hep \in Nat \ {0} /\ hep <= Len(Chain) /\ holder = "empty"
    BY DEF IInv, EmptyingPlaced, free_dns_hash_selected
  <2>2. Chain \in Seq(Names)
    BY <2>1 DEF IInv, ChainsOrdered, Ordered, Chain
  <2>. QED BY <2>1, <2>2, LenProperties
<1>2. UNCHANGED <<holder, emptying, old>>
  BY DEF free_dns_hash_selected
<1>3. CASE WithChain(emptying.i, RemoveAt(Chain, hep)) /\ UNCHANGED hep
  <2>1. /\ Len(RemoveAt(Chain, hep)) = Len(Chain) - 1
        /\ \A i \in 1..Len(Chain) - 1 : RemoveAt(Chain, hep)[i] = IF i < hep THEN Chain[i] ELSE Chain[i + 1]
    BY <1>1, RemoveFromSeq
  <2>2. /\ hash_buckets'[emptying.i] = RemoveAt(Chain, hep)
        /\ \A b \in Buckets : b # emptying.i => hash_buckets'[b] = hash_buckets[b]
    BY <1>1, <1>3 DEF WithChain, IInv, ChainsOrdered
  <2>3. ASSUME NEW b \in Buckets, NEW k \in 1..Len(hash_buckets'[b]), hash_buckets'[b][k] \in old,
               b < emptying.i \/ (b = emptying.i /\ k < hep)
        PROVE  ~Selected(emptying.sla, hash_buckets'[b][k])
    <3>1. k \in 1..Len(hash_buckets[b]) /\ hash_buckets'[b][k] = hash_buckets[b][k]
      <4>1. CASE b = emptying.i
        <5>1. k \in 1..Len(Chain) - 1 /\ k < hep
          BY <1>1, <2>1, <2>2, <2>3, <4>1 DEF Buckets
        <5>. QED BY <1>1, <2>1, <2>2, <4>1, <5>1 DEF Chain
      <4>2. CASE b # emptying.i
        BY <2>2, <4>2
      <4>. QED BY <4>1, <4>2
    <3>2. emptying # NULL
      BY DEF free_dns_hash_selected, IInv, EmptyingPlaced
    <3>. QED BY <2>3, <3>1, <3>2 DEF Swept
  <2>. QED BY <1>1, <1>2, <1>3, <2>3 DEF Swept
<1>4. CASE ~Selected(emptying.sla, Chain[hep]) /\ hep' = hep + 1 /\ UNCHANGED hash_buckets
  <2>1. ASSUME NEW b \in Buckets, NEW k \in 1..Len(hash_buckets[b]), hash_buckets[b][k] \in old,
               b < emptying.i \/ (b = emptying.i /\ k < hep + 1)
        PROVE  ~Selected(emptying.sla, hash_buckets[b][k])
    <3>1. emptying # NULL
      BY DEF free_dns_hash_selected, IInv, EmptyingPlaced
    <3>2. CASE b = emptying.i /\ k = hep
      BY <1>4, <3>2 DEF Chain
    <3>3. CASE b < emptying.i \/ (b = emptying.i /\ k < hep)
      BY <2>1, <3>1, <3>3 DEF Swept
    <3>. QED BY <1>1, <2>1, <3>2, <3>3
  <2>. QED BY <1>1, <1>2, <1>4, <2>1 DEF Swept
<1>. QED BY <1>3, <1>4 DEF free_dns_hash_selected

LEMMA YieldKeepsSwept == ASSUME IInv, Swept, YieldLock PROVE Swept'
<1>1. holder' = "none" /\ hep' = 1 /\ UNCHANGED <<hash_buckets, old>> /\ hep > Len(Chain) /\ hep \in Nat
  BY DEF YieldLock, IInv, EmptyingPlaced
<1>2. emptying # NULL /\ emptying \in [sla : Lists, i : Buckets]
  BY DEF YieldLock, IInv, EmptyingPlaced
<1>3. CASE emptying' = NULL
  BY <1>1, <1>3 DEF Swept
<1>4. CASE emptying' = [emptying EXCEPT !.i = @ + 1]
  <2>1. emptying'.i = emptying.i + 1 /\ emptying'.sla = emptying.sla
    BY <1>2, <1>4
  <2>2. ASSUME NEW b \in Buckets, NEW k \in 1..Len(hash_buckets[b]), hash_buckets[b][k] \in old, b < emptying.i + 1
        PROVE  ~Selected(emptying.sla, hash_buckets[b][k])
    <3>1. CASE b < emptying.i
      BY <1>2, <2>2, <3>1 DEF Swept
    <3>2. CASE b = emptying.i
      <4>1. k < hep
        BY <1>1, <2>2, <3>2, LenProperties DEF Chain, IInv, ChainsOrdered, Ordered
      <4>. QED BY <1>2, <2>2, <3>2, <4>1 DEF Swept
    <3>. QED BY <1>2, <2>2, <3>1, <3>2 DEF Buckets
  <2>. QED BY <1>1, <2>1, <2>2 DEF Swept
<1>. QED BY <1>3, <1>4 DEF YieldLock

LEMMA StepKeepsSwept == ASSUME IInv, Swept, [TableNext]_tableVars PROVE Swept'
<1>1. ASSUME NEW n \in Names, Add(n) \/ del_dns_hash(n) \/ Replace(n) PROVE Swept'
  BY <1>1, EditKeepsSwept
<1>2. ASSUME NEW sla \in Lists, EmptyCache(sla) PROVE Swept'
  <2>1. holder' = "empty" /\ emptying' = [sla |-> sla, i |-> 0] /\ hep' = 1 /\ UNCHANGED hash_buckets
    BY <1>2 DEF EmptyCache, walk
  <2>2. \A b \in Buckets : \A k \in 1..Len(hash_buckets[b]) : ~(b < 0) /\ ~(k < 1)
    BY DEF Buckets
  <2>. QED BY <2>1, <2>2 DEF Swept
<1>3. CASE free_dns_hash_bucket
  <2>1. emptying \in [sla : Lists, i : Buckets] /\ holder = "empty" /\ UNCHANGED <<holder, emptying, hep, old>>
    BY <1>3 DEF free_dns_hash_bucket, IInv, EmptyingPlaced, sweep
  <2>2. hash_buckets'[emptying.i] = <<>> /\ \A b \in Buckets : b # emptying.i => hash_buckets'[b] = hash_buckets[b]
    BY <1>3, <2>1 DEF free_dns_hash_bucket, WithChain, IInv, ChainsOrdered
  <2>3. ASSUME NEW b \in Buckets, NEW k \in 1..Len(hash_buckets'[b]) PROVE b # emptying.i /\ hash_buckets'[b] = hash_buckets[b]
    BY <2>2, <2>3
  <2>. QED BY <2>1, <2>3 DEF Swept
<1>4. CASE free_dns_hash_selected
  BY <1>4, SelectedKeepsSwept
<1>5. CASE YieldLock
  BY <1>5, YieldKeepsSwept
<1>6. CASE Resume
  BY <1>6 DEF Resume, Swept, sweep
<1>7. CASE fetch_first
  BY <1>7 DEF fetch_first, Swept, sweep
<1>8. CASE fetch_next
  BY <1>8 DEF fetch_next, Fetch, Swept, sweep
<1>9. CASE free_dns_hash
  <2>1. holder = "none" /\ holder' = "over" /\ UNCHANGED <<emptying, hep, old>> /\ \A b \in Buckets : hash_buckets'[b] = <<>>
    BY <1>9 DEF free_dns_hash, sweep
  <2>. QED BY <2>1 DEF Swept
<1>10. CASE UNCHANGED tableVars
  BY <1>10 DEF tableVars, Swept, sweep
<1>. QED BY <1>1, <1>2, <1>3, <1>4, <1>5, <1>6, <1>7, <1>8, <1>9, <1>10 DEF TableNext

\* What a finished empty_cache() has passed is everything.
LEMMA FinishIsComplete ==
  ASSUME IInv, Swept, emptying # NULL, emptying' = NULL, [TableNext]_tableVars
  PROVE  \A n \in old \intersect Entries : ~Selected(emptying.sla, n)
<1>1. YieldLock
  <2>1. ~(\E sla \in Lists : EmptyCache(sla))
    BY DEF EmptyCache
  <2>2. emptying' # emptying
    OBVIOUS
  <2>. QED BY <2>1, <2>2 DEF TableNext, Add, del_dns_hash, Replace, free_dns_hash_bucket, free_dns_hash_selected, Resume,
                              fetch_first, fetch_next, free_dns_hash, tableVars, sweep
<1>2. emptying \in [sla : Lists, i : Buckets] /\ hep \in Nat /\ hep > Len(Chain)
  BY <1>1 DEF YieldLock, IInv, EmptyingPlaced
<1>3. emptying.i + 1 >= HASH_NUM_BUCKETS
  <2>1. ASSUME ~(emptying.i + 1 >= HASH_NUM_BUCKETS) PROVE FALSE
    <3>1. [emptying EXCEPT !.i = @ + 1] \in [sla : Lists, i : Nat]
      BY <1>2 DEF Buckets
    <3>. QED BY <1>1, <2>1, <3>1, NullIsNothing DEF YieldLock
  <2>. QED BY <2>1
<1>4. ASSUME NEW b \in Buckets, NEW k \in 1..Len(hash_buckets[b]), hash_buckets[b][k] \in old
      PROVE  ~Selected(emptying.sla, hash_buckets[b][k])
  <2>1. CASE b < emptying.i
    BY <1>4, <2>1 DEF Swept
  <2>2. CASE b = emptying.i
    <3>1. k < hep
      BY <1>2, <1>4, <2>2, LenProperties DEF Chain, IInv, ChainsOrdered, Ordered
    <3>. QED BY <1>4, <2>2, <3>1 DEF Swept
  <2>. QED BY <1>2, <1>3, <2>1, <2>2, BucketsPositive DEF Buckets
<1>5. ASSUME NEW n \in old \intersect Entries PROVE ~Selected(emptying.sla, n)
  <2>1. PICK b \in Buckets : \E k \in 1..Len(hash_buckets[b]) : hash_buckets[b][k] = n
    BY <1>5, EntriesAreElements DEF IInv
  <2>. QED BY <1>4, <1>5, <2>1
<1>. QED BY <1>5

\* What empty_cache() deletes is selected.
LEMMA DeletesSelected ==
  ASSUME IInv, IInv', holder = "empty", [TableNext]_tableVars, NEW n \in Entries, n \notin Entries'
  PROVE  Selected(emptying.sla, n)
<1>1. ChainsOrdered /\ ChainsOrdered'
  BY DEF IInv
<1>2. PICK b \in Buckets : \E k \in 1..Len(hash_buckets[b]) : hash_buckets[b][k] = n
  BY <1>1, EntriesAreElements
<1>3. PICK k \in 1..Len(hash_buckets[b]) : hash_buckets[b][k] = n
  BY <1>2
<1>4. ~(\E i \in 1..Len(hash_buckets'[b]) : hash_buckets'[b][i] = n)
  <2>1. \A m : m \in Entries' <=> \E c \in Buckets : \E i \in 1..Len(hash_buckets'[c]) : hash_buckets'[c][i] = m
    <3>1. \A c \in Buckets : DOMAIN (hash_buckets'[c]) = 1..Len(hash_buckets'[c])
      BY <1>1, LenProperties DEF ChainsOrdered, Ordered
    <3>. QED BY <3>1 DEF Entries, Held, Range
  <2>. QED BY <2>1
<1>5. hash_buckets' # hash_buckets
  BY <1>3, <1>4
<1>6. free_dns_hash_bucket \/ free_dns_hash_selected
  BY <1>5 DEF TableNext, Add, del_dns_hash, Replace, EmptyCache, YieldLock, Resume, fetch_first, fetch_next, free_dns_hash, tableVars
<1>7. CASE free_dns_hash_bucket
  BY <1>7 DEF free_dns_hash_bucket, Selected
<1>8. CASE free_dns_hash_selected
  <2>1. emptying \in [sla : Lists, i : Buckets] /\ hep \in Nat \ {0} /\ hep <= Len(Chain)
    BY <1>8 DEF IInv, EmptyingPlaced, free_dns_hash_selected
  <2>2. Chain \in Seq(Names) /\ hep \in 1..Len(Chain)
    BY <1>1, <2>1, LenProperties DEF ChainsOrdered, Ordered, Chain
  <2>3. Selected(emptying.sla, Chain[hep]) /\ WithChain(emptying.i, RemoveAt(Chain, hep))
    BY <1>5, <1>8 DEF free_dns_hash_selected
  <2>4. b = emptying.i /\ hash_buckets'[b] = RemoveAt(Chain, hep)
    BY <1>1, <1>3, <1>4, <2>1, <2>3 DEF WithChain, ChainsOrdered
  <2>5. /\ Len(RemoveAt(Chain, hep)) = Len(Chain) - 1
        /\ \A i \in 1..Len(Chain) - 1 : RemoveAt(Chain, hep)[i] = IF i < hep THEN Chain[i] ELSE Chain[i + 1]
    BY <2>2, RemoveFromSeq
  <2>6. Chain[k] = n /\ k \in 1..Len(Chain)
    BY <1>3, <2>4 DEF Chain
  <2>7. CASE k < hep
    <3>1. k \in 1..Len(Chain) - 1
      BY <2>2, <2>6, <2>7
    <3>. QED BY <1>4, <2>4, <2>5, <2>6, <2>7, <3>1
  <2>8. CASE k > hep
    <3>1. k - 1 \in 1..Len(Chain) - 1 /\ ~(k - 1 < hep) /\ (k - 1) + 1 = k
      BY <2>2, <2>6, <2>8
    <3>2. RemoveAt(Chain, hep)[k - 1] = n
      BY <2>5, <2>6, <3>1
    <3>. QED BY <1>4, <2>4, <2>5, <3>1, <3>2
  <2>. QED BY <2>2, <2>3, <2>6, <2>7, <2>8
<1>. QED BY <1>6, <1>7, <1>8

\* empty_cache() deletes all that its list selects and nothing else, whoever has the lock between its buckets.
THEOREM EmptyingIsRight == TableSpec => EmptiesSelected
<1>1. TableInit => Swept
  BY DEF TableInit, Swept
<1>2. IInv /\ Swept /\ [TableNext]_tableVars => Swept'
  BY StepKeepsSwept
<1>3. IInv /\ IInv' /\ Swept /\ [TableNext]_tableVars =>
        [/\ emptying # NULL /\ emptying' = NULL => \A n \in old \intersect Entries : ~Selected(emptying.sla, n)
         /\ holder = "empty" => \A n \in Entries : n \in Entries' \/ Selected(emptying.sla, n)]_tableVars
  BY FinishIsComplete, DeletesSelected
<1>. QED BY <1>1, <1>2, <1>3, OrderKept, PTL DEF TableSpec, EmptiesSelected
=============================================================================
