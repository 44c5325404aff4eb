------------------------------ MODULE CacheLock ------------------------------
(***************************************************************************)
(* The lock of pdnsd's cache (cache.c): many threads may read or one may   *)
(* write. The lock is a few counters guarded by lock_mutex, and threads    *)
(* that do not get it sleep on one of two condition variables.             *)
(*                                                                         *)
(* What a thread does between taking and leaving lock_mutex is one step.   *)
(* A condition variable is the set of threads asleep on it: signalling     *)
(* wakes one of them, and threads may wake for no reason. A timed wait     *)
(* that was signalled does not report a timeout (a futex wait reports one  *)
(* or the other; POSIX leaves it open).                                    *)
(***************************************************************************)
EXTENDS Integers, FiniteSets

CONSTANTS
  Readers,   \* threads that take the lock to read
  Writers,   \* threads that take the lock to write
  Emptiers,  \* threads that run empty_cache(): the status thread
  Exiters    \* threads that take soft locks: the main thread, when the program exits

Threads == Readers \union Writers \union Emptiers \union Exiters

\* There is one status thread, and the main thread answers no queries.
ASSUME ThreadAssumption ==
  /\ IsFiniteSet(Threads)
  /\ Cardinality(Emptiers) <= 1
  /\ Exiters \intersect (Readers \union Writers \union Emptiers) = {}

VARIABLES
  pc,            \* where each thread is
  cache_w_lock,  \* the variables of these names: is there a writer?
  cache_r_lock,  \* how many readers are there?
  r_pend,        \* how many threads wait to read?
  rw_pend,       \* how many threads wait to write?
  r_susp         \* is read locking suspended?

locks == <<cache_w_lock, cache_r_lock>>
pends == <<r_pend, rw_pend>>
vars  == <<pc, locks, pends, r_susp>>

OnRCond  == {"rsleep"}
OnRwCond == {"wsleep", "tsleep"}
Woken    == [rsleep |-> "rwoken", wsleep |-> "wwoken", tsleep |-> "twoken"]
Pc == OnRCond \union OnRwCond \union
      {"rwoken", "wwoken", "twoken", "idle", "reading", "writing", "away",
       "purged", "saved", "destroying"}

Init ==
  /\ pc = [t \in Threads |-> "idle"]
  /\ cache_w_lock = FALSE /\ cache_r_lock = 0
  /\ r_pend = 0 /\ rw_pend = 0 /\ r_susp = FALSE

SUSP_THRESH(pend) == pend \div 2 + 2

-----------------------------------------------------------------------------
Goes(t, to) == [pc EXCEPT ![t] = to]

\* pthread_cond_signal and pthread_cond_broadcast: what the program counters
\* at may become.
SignalRw(at) ==
  LET asleep == {u \in Threads : at[u] \in OnRwCond}
  IN  IF asleep = {} THEN {at} ELSE {[at EXCEPT ![u] = Woken[@]] : u \in asleep}

BroadcastR(at) ==
  {[u \in Threads |-> IF at[u] \in OnRCond THEN Woken[at[u]] ELSE at[u]]}

\* Variant: suspension is recorded and not obeyed.
TryRUnsuspended(t, pend) ==
  /\ r_susp' = (r_susp \/ rw_pend > SUSP_THRESH(pend))
  /\ IF cache_w_lock
     THEN /\ pc' = Goes(t, "rsleep") /\ r_pend' = pend
          /\ UNCHANGED cache_r_lock
     ELSE /\ pc' = Goes(t, "reading") /\ r_pend' = pend - 1
          /\ cache_r_lock' = cache_r_lock + 1
  /\ UNCHANGED <<cache_w_lock, rw_pend>>

\* The loop of lock_cache_r, with pend threads waiting to read.
TryR(t, pend) ==
  /\ r_susp' = (r_susp \/ rw_pend > SUSP_THRESH(pend))
  /\ IF r_susp' \/ cache_w_lock
     THEN /\ pc' = Goes(t, "rsleep") /\ r_pend' = pend
          /\ UNCHANGED cache_r_lock
     ELSE /\ pc' = Goes(t, "reading") /\ r_pend' = pend - 1
          /\ cache_r_lock' = cache_r_lock + 1
  /\ UNCHANGED <<cache_w_lock, rw_pend>>

\* Variant: a writer does not mind the readers.
TryRWAmongReaders(t, pend, asleep) ==
  /\ IF cache_w_lock
     THEN pc' = Goes(t, asleep) /\ rw_pend' = pend /\ UNCHANGED cache_w_lock
     ELSE pc' = Goes(t, "writing") /\ rw_pend' = pend - 1 /\ cache_w_lock' = TRUE
  /\ UNCHANGED <<cache_r_lock, r_pend, r_susp>>

\* The loop of lock_cache_rw, of timedlock_cache_rw and of yield_lock_cache_rw.
TryRW(t, pend, asleep) ==
  /\ IF cache_w_lock \/ cache_r_lock > 0
     THEN pc' = Goes(t, asleep) /\ rw_pend' = pend /\ UNCHANGED cache_w_lock
     ELSE pc' = Goes(t, "writing") /\ rw_pend' = pend - 1 /\ cache_w_lock' = TRUE
  /\ UNCHANGED <<cache_r_lock, r_pend, r_susp>>

\* Variant: the suspension of readers outlives the writer.
ReleaseRWSuspended(t, to) ==
  /\ cache_w_lock' = FALSE
  /\ pc' \in IF r_pend = 0 \/ rw_pend > SUSP_THRESH(r_pend)
             THEN SignalRw(Goes(t, to)) ELSE BroadcastR(Goes(t, to))
  /\ UNCHANGED <<cache_r_lock, pends, r_susp>>

\* What unlock_cache_rw and yield_lock_cache_rw do to give up the lock.
ReleaseRW(t, to) ==
  /\ cache_w_lock' = FALSE /\ r_susp' = FALSE
  /\ pc' \in IF r_pend = 0 \/ rw_pend > SUSP_THRESH(r_pend)
             THEN SignalRw(Goes(t, to)) ELSE BroadcastR(Goes(t, to))
  /\ UNCHANGED <<cache_r_lock, pends>>

-----------------------------------------------------------------------------
LockR(t) ==
  /\ t \in Readers /\ pc[t] = "idle"
  /\ TryR(t, r_pend + 1)

RetryR(t) ==
  /\ pc[t] = "rwoken"
  /\ TryR(t, r_pend)

UnlockR(t) ==
  /\ t \notin Exiters /\ pc[t] = "reading"
  /\ cache_r_lock' = IF cache_r_lock > 0 THEN cache_r_lock - 1 ELSE 0
  /\ pc' \in IF cache_r_lock' = 0 THEN SignalRw(Goes(t, "idle")) ELSE {Goes(t, "idle")}
  /\ UNCHANGED <<cache_w_lock, pends, r_susp>>

LockRW(t) ==
  /\ t \in Writers /\ pc[t] = "idle"
  /\ TryRW(t, rw_pend + 1, "wsleep")

RetryRW(t) ==
  /\ pc[t] = "wwoken"
  /\ TryRW(t, rw_pend, "wsleep")

UnlockRW(t) ==
  /\ t \notin Exiters /\ pc[t] = "writing"
  /\ ReleaseRW(t, "idle")

\* timedlock_cache_rw
LockTimed(t) ==
  /\ t \in Emptiers /\ pc[t] = "idle"
  /\ TryRW(t, rw_pend + 1, "tsleep")

RetryTimed(t) ==
  /\ pc[t] = "twoken"
  /\ TryRW(t, rw_pend, "tsleep")

TimeOut(t) ==
  /\ pc[t] = "tsleep" /\ pc' = Goes(t, "idle")
  /\ rw_pend' = rw_pend - 1
  /\ UNCHANGED <<locks, r_pend, r_susp>>

\* yield_lock_cache_rw; the counters are tested without the mutex and do not
\* fall while the thread that tests them holds the lock.
Yield(t) ==
  /\ t \in Emptiers /\ pc[t] = "writing"
  /\ r_pend > 0 \/ rw_pend > 0
  /\ ReleaseRW(t, "away")

Retake(t) ==
  /\ pc[t] = "away"
  /\ TryRW(t, rw_pend + 1, "wsleep")

SpuriousWakeup(t) ==
  /\ pc[t] \in OnRCond \union OnRwCond
  /\ pc' = Goes(t, Woken[pc[t]])
  /\ UNCHANGED <<locks, pends, r_susp>>

\* The soft locks: the exiting thread purges the cache and saves it
\* (write_disk_cache), then destroys it (destroy_cache) and never unlocks it.
SoftLockRW(t) ==
  /\ t \in Exiters
  /\ \/ pc[t] = "idle"  /\ pc' = Goes(t, "writing")
     \/ pc[t] = "saved" /\ pc' = Goes(t, "destroying")
  /\ ~(cache_w_lock \/ cache_r_lock > 0) /\ cache_w_lock' = TRUE
  /\ UNCHANGED <<cache_r_lock, pends, r_susp>>

SoftUnlockRW(t) ==
  /\ t \in Exiters /\ pc[t] = "writing" /\ pc' = Goes(t, "purged")
  /\ cache_w_lock' = FALSE
  /\ UNCHANGED <<cache_r_lock, pends, r_susp>>

SoftLockR(t) ==
  /\ t \in Exiters /\ pc[t] = "purged" /\ pc' = Goes(t, "reading")
  /\ ~cache_w_lock /\ cache_r_lock' = cache_r_lock + 1
  /\ UNCHANGED <<cache_w_lock, pends, r_susp>>

SoftUnlockR(t) ==
  /\ t \in Exiters /\ pc[t] = "reading" /\ pc' = Goes(t, "saved")
  /\ cache_r_lock' = IF cache_r_lock > 0 THEN cache_r_lock - 1 ELSE 0
  /\ UNCHANGED <<cache_w_lock, pends, r_susp>>

\* After SOFTLOCK_MAXTRIES, and when lock_mutex itself is not to be had.
SoftGiveUp(t) ==
  /\ t \in Exiters /\ pc[t] \in {"idle", "purged"} /\ pc' = Goes(t, "saved")
  /\ UNCHANGED <<locks, pends, r_susp>>

-----------------------------------------------------------------------------
Retry(t)  == RetryR(t) \/ RetryRW(t) \/ RetryTimed(t) \/ Retake(t)
Unlock(t) == UnlockR(t) \/ UnlockRW(t)
Soft(t)   == \/ SoftLockR(t) \/ SoftUnlockR(t) \/ SoftLockRW(t) \/ SoftUnlockRW(t)
             \/ SoftGiveUp(t)

Step(t) ==
  \/ LockR(t) \/ LockRW(t) \/ LockTimed(t)
  \/ Retry(t) \/ Unlock(t) \/ TimeOut(t) \/ Yield(t)
  \/ SpuriousWakeup(t) \/ Soft(t)

Next == \E t \in Threads : Step(t)

Spec == Init /\ [][Next]_vars

\* A thread that is awake runs, and one that has the lock gives it up: of the
\* sections that the lock protects only dump_cache() waits for anything else, a
\* control client, which is assumed to read. Nobody has to ask for the lock, and
\* a timeout need not come first.
Fairness == \A t \in Threads : WF_vars(Retry(t)) /\ WF_vars(Unlock(t))

-----------------------------------------------------------------------------
Among(states) == {t \in Threads : pc[t] \in states}
Reading   == {"reading"}
Writing   == {"writing", "destroying"}
WaitingR  == {"rsleep", "rwoken"}
WaitingRW == {"wsleep", "wwoken", "tsleep", "twoken"}

\* The program is not exiting: nobody has tried a soft lock.
Running == \A t \in Exiters : pc[t] = "idle"

\* The counters are what they count.
TypeOK ==
  /\ pc \in [Threads -> Pc]
  /\ cache_w_lock \in BOOLEAN /\ r_susp \in BOOLEAN
  /\ cache_r_lock = Cardinality(Among(Reading))
  /\ r_pend = Cardinality(Among(WaitingR))
  /\ rw_pend = Cardinality(Among(WaitingRW))

\* "Concurrent reads are allowed, while writes are forbidden": while a thread
\* writes no other thread reads or writes the cache (lock_cache_r, lock_cache_rw,
\* timedlock_cache_rw, yield_lock_cache_rw and the soft locks).
Exclusive ==
  \A t, u \in Threads :
     pc[t] \in Writing /\ u # t => pc[u] \notin Reading \union Writing

\* The flag is up while a thread writes, and the status thread alone waits with
\* a timeout.
WriterFlag ==
  /\ cache_w_lock <=> \E t \in Threads : pc[t] \in Writing
  /\ \A t \in Threads : pc[t] \in {"tsleep", "twoken"} => t \in Emptiers

\* Readers that are kept out with no writer inside are kept out for a writer
\* that cannot time out.
KeptOutForWriter ==
  r_susp \/ Among(OnRCond) # {} => cache_w_lock \/ Among({"wsleep", "wwoken"}) # {}

\* When the lock is free and no writer has been woken, the next step is a
\* reader's, and it is not going to be suspended.
HandedToReaders ==
  /\ ~cache_w_lock /\ cache_r_lock = 0
  /\ Among(OnRwCond) # {} /\ Among({"wwoken", "twoken"}) = {}
  => /\ Among({"rwoken"}) # {}
     /\ ~r_susp /\ rw_pend <= SUSP_THRESH(r_pend)

\* The inductive invariants: of every use of the lock, and of the hand-over.
LockInv == TypeOK /\ WriterFlag /\ Exclusive
WakeInv == LockInv /\ (Running => KeptOutForWriter /\ HandedToReaders)

\* No lost wake-up: until the program exits, while a thread sleeps some thread is
\* awake that has the lock or is about to try for it (the signals of
\* unlock_cache_r and unlock_cache_rw, and the timeout of timedlock_cache_rw that
\* sends none).
SomeoneAwake ==
  Running /\ (\E t \in Threads : pc[t] \in OnRCond \union OnRwCond)
    => \E t \in Threads : pc[t] \in Reading \union Writing \union {"rwoken", "wwoken", "twoken"}

\* "to give rw locking a chance" (cache.c:185): when more threads that cannot time
\* out wait to write than the threshold for as many readers as there are, one of
\* them gets the lock though new readers keep coming.
WriterGetsChance ==
  Cardinality(Among({"wsleep", "wwoken"})) > SUSP_THRESH(Cardinality(Readers))
    ~> cache_w_lock \/ ~Running
=============================================================================
