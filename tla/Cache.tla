------------------------------- MODULE Cache -------------------------------
(***************************************************************************)
(* pdnsd's cache (cache.c): entries in a hash table, each with its RR sets *)
(* or negative as a whole; the list rrset_l of what may be purged, oldest  *)
(* first; and cache_size, which the limit is compared with. Query handlers *)
(* look names up and store answers, the control socket and the             *)
(* configuration define local records, and the disk file carries the cache *)
(* over a restart. CacheLock shows that the functions under the write lock *)
(* exclude each other; here each of them is one step.                      *)
(*                                                                         *)
(* An RR set stands for a type's records, all of one size. A name's        *)
(* parents (wild cards, references to NS and SOA) are left out.            *)
(***************************************************************************)
EXTENDS Integers, FiniteSets, Sequences, SequencesExt, FiniteSetsExt, TLC

CONSTANTS
  Names, Queries,
  MU, EXT,               \* indices of RR sets: in the entry, in its array rrext
  Excludes,              \* pairs of indices that exclude each other (rr_info)
  Answers, Extras,       \* contents of an answer: for the name asked, for others
  Locals,                \* contents of local records
  PermCache, MCSZ,       \* the limit, and the excess allowed before the file is written
  CACHE_LAT, MinTtl, NegTtl, MaxTtl,
  Start, MaxTime,        \* the clock's range
  MaxAnswers, MaxCommands \* bounds on answers and on commands

RR == MU \union EXT
RrSet == [ttl : Nat, local : BOOLEAN, negative : BOOLEAN, additional : BOOLEAN,
          rootserv : BOOLEAN, nopurge : BOOLEAN, nocache : BOOLEAN]

IsCent(cent) ==
  /\ DOMAIN cent = {"neg", "local", "nocache", "ttl", "sets"}
  /\ DOMAIN cent.sets \subseteq RR /\ cent.sets \in [DOMAIN cent.sets -> RrSet]
  /\ cent.neg => DOMAIN cent.sets = {}

ASSUME IndexAssumption ==
  /\ IsFiniteSet(RR) /\ RR \subseteq Nat \ {0}
  /\ \A i \in MU, j \in EXT : i < j
ASSUME TimeAssumption == Start \in Nat /\ MaxTtl + CACHE_LAT < Start  \* 0 is long ago
ASSUME SizeAssumption == PermCache \in Nat /\ MCSZ \in Nat
\* Only the control socket and the configuration make records local.
ASSUME CentAssumption ==
  /\ \A cent \in Answers \union Extras \union Locals : IsCent(cent)
  /\ \A cent \in Answers \union Extras : \A i \in DOMAIN cent.sets : ~cent.sets[i].local

VARIABLES
  cache,                 \* hash table, rrset_l, cache_size, insert_sort
  now,                   \* time(NULL)
  pc,                    \* where each query is
  answers, commands,     \* how many so far
  odd                    \* unusual events so far: "oom", "invalidated"

vars == <<cache, now, pc, answers, commands, odd>>

\* The indices in their order.
Indices == [k \in 1..Cardinality(RR) |->
              CHOOSE i \in RR : Cardinality({j \in RR : j <= i}) = k]
Whole == -1              \* idx of a negative entry in rrset_l

NoEntries == [n \in {} |-> n]
Drop(f, x) == [y \in DOMAIN f \ {x} |-> f[y]]
With(f, x, v) == [y \in DOMAIN f \union {x} |-> IF y = x THEN v ELSE f[y]]

CentSize == 2
RrextSize == 1
SetSize(s) == IF s.negative THEN 1 ELSE 2

Timedout(ts, ttl) == ts + Max({ttl, CACHE_LAT}) < now

----------------------------------------------------------------------------
(* The list rrset_l: pairs of a name and an index. *)

TsOf(c, le) == IF le[2] = Whole THEN c.ent[le[1]].ts ELSE c.ent[le[1]].sets[le[2]].ts

AtTheEnd(c, le) == Len(c.rrl)

After(c, le) ==
  IF ~c.insert_sort THEN Len(c.rrl)
  ELSE Max({0} \union {k \in 1..Len(c.rrl) : TsOf(c, c.rrl[k]) <= TsOf(c, le)})

InsertRrl(c, n, i) ==
  IF c.ent[n].local \/ (i # Whole /\ c.ent[n].sets[i].local) THEN c
  ELSE [c EXCEPT !.rrl = InsertAt(@, After(c, <<n, i>>) + 1, <<n, i>>)]

Unlisted(list, gone) ==
  FoldLeft(LAMBDA l, le : IF le \in gone THEN l ELSE Append(l, le), <<>>, list)

RemoveRrl(c, le) == [c EXCEPT !.rrl = Unlisted(@, {le})]

\* Merge sort keeps the order of equal time stamps, as repeated insertion does.
SortRrl(c) ==
  FoldLeft(LAMBDA d, le : InsertRrl(d, le[1], le[2]),
           [c EXCEPT !.rrl = <<>>, !.insert_sort = TRUE], c.rrl)

----------------------------------------------------------------------------
(* Deleting and purging. *)

\* del_cent_rrset_by_index leaves cache_size to the caller.
DelSet(c, n, i) ==
  IF i \notin DOMAIN c.ent[n].sets THEN c
  ELSE [RemoveRrl(c, <<n, i>>) EXCEPT
          !.ent[n].sets = Drop(@, i), !.ent[n].cs = @ - SetSize(c.ent[n].sets[i])]

DelSetCharged(c, n, i) == [DelSet(c, n, i) EXCEPT !.size = @ - SetSize(c.ent[n].sets[i])]

DelCacheEnt(c, n) ==
  [c EXCEPT !.rrl = Unlisted(@, {n} \X ({Whole} \union RR)), !.size = @ - c.ent[n].cs,
            !.ent = Drop(@, n)]

PurgeRrset(c, n, i) ==
  IF i \notin DOMAIN c.ent[n].sets THEN c
  ELSE LET s == c.ent[n].sets[i]
       IN  IF s.nopurge \/ s.local \/ ~Timedout(s.ts, s.ttl) THEN c ELSE DelSetCharged(c, n, i)

FreeRrext(c, n) ==
  IF c.ent[n].ext /\ DOMAIN c.ent[n].sets \intersect EXT = {}
  THEN [c EXCEPT !.ent[n].ext = FALSE, !.ent[n].cs = @ - RrextSize, !.size = @ - RrextSize]
  ELSE c

PurgeAllRrsets(c, n) ==
  FreeRrext(FoldLeft(LAMBDA d, i : PurgeRrset(d, n, i), c, Indices), n)

Vacant(c, n) ==
  LET e == c.ent[n]
  IN  DOMAIN e.sets = {} /\ (e.neg => ~e.local /\ Timedout(e.ts, e.ttl))

\* purge_cent with delete, as lookup_cache calls it.
PurgeCent(c, n) ==
  LET d == PurgeAllRrsets(c, n) IN IF Vacant(d, n) THEN DelCacheEnt(d, n) ELSE d

Purgeable(c, le) ==
  LET e == c.ent[le[1]] IN ~e.local /\ (le[2] = Whole \/ ~e.sets[le[2]].local)

PurgeTimedout(c, le) ==
  IF ~Purgeable(c, le) THEN c
  ELSE LET d == IF le[2] = Whole THEN c ELSE PurgeRrset(c, le[1], le[2])
       IN  IF Vacant(d, le[1]) THEN DelCacheEnt(d, le[1]) ELSE d

PurgeOldest(c, le) ==
  IF ~Purgeable(c, le) THEN c
  ELSE LET d == IF le[2] = Whole THEN c ELSE DelSetCharged(c, le[1], le[2])
       IN  IF DOMAIN d.ent[le[1]].sets = {} THEN DelCacheEnt(d, le[1]) ELSE d

PurgeCache(c, sz, lazy) ==
  LET first == FoldLeft(LAMBDA d, le : IF lazy /\ d.size <= sz THEN d ELSE PurgeTimedout(d, le),
                        c, c.rrl)
      sorted == IF first.insert_sort THEN first ELSE SortRrl(first)
  IN  IF first.size <= sz THEN first
      ELSE FoldLeft(LAMBDA d, le : IF d.size <= sz THEN d ELSE PurgeOldest(d, le),
                    sorted, sorted.rrl)

----------------------------------------------------------------------------
(* Adding. A cent is [neg, local, nocache, ttl, ts, sets]. *)

Clamp(ttl, least) == IF ttl < least THEN least ELSE Min({ttl, MaxTtl})

Adjusted(s) ==
  LET least == IF s.negative THEN Min({MinTtl, NegTtl}) ELSE MinTtl
  IN  [s EXCEPT !.nocache = FALSE, !.ttl = IF s.nocache THEN 0 ELSE Clamp(@, least)]

AdjustedDomTtl(cent) ==
  IF cent.nocache THEN 0 ELSE Clamp(cent.ttl, Min({MinTtl, NegTtl}))

SetsSize(sets) == SumFunction([i \in DOMAIN sets |-> SetSize(sets[i])])

Copied(cent) ==
  LET ext == DOMAIN cent.sets \intersect EXT # {}
  IN  [neg |-> cent.neg, local |-> cent.local, ext |-> ext,
       cs |-> CentSize + SetsSize(cent.sets) + (IF ext THEN RrextSize ELSE 0),
       ttl |-> IF cent.neg THEN AdjustedDomTtl(cent) ELSE 0,
       ts |-> IF cent.neg THEN cent.ts ELSE 0,
       sets |-> [i \in DOMAIN cent.sets |-> Adjusted(cent.sets[i])]]

\* An entry for a name that has none.
AddNew(c, n, cent) ==
  LET e == Copied(cent)
      d == [c EXCEPT !.ent = With(@, n, e), !.size = @ + e.cs]
  IN  IF cent.neg THEN InsertRrl(d, n, Whole)
      ELSE FoldLeft(LAMBDA b, i : IF i \in DOMAIN e.sets THEN InsertRrl(b, n, i) ELSE b,
                    d, Indices)

Blank(cent) == ~cent.neg /\ DOMAIN cent.sets = {}

PrecedesUnlessTimedout(old, new) ==
  \/ old.local /\ ~new.local /\ ~Timedout(old.ts, old.ttl)
  \/ /\ new.additional /\ (~old.additional \/ (old.rootserv /\ ~new.rootserv))
     /\ ~Timedout(old.ts, old.ttl)

\* Local records, answers before additional records, answers of root servers.
Precedes(old, new) ==
  \/ old.local /\ ~new.local
  \/ /\ new.additional /\ (~old.additional \/ (old.rootserv /\ ~new.rootserv))
     /\ ~Timedout(old.ts, old.ttl)

Conflicts(c, n, i) ==
  {j \in DOMAIN c.ent[n].sets : ~c.ent[n].sets[j].negative /\ <<i, j>> \in Excludes}

\* The outcome of cr_check_add, and what it deletes when it admits the new set.
CrCheckAdd(c, n, i, new) ==
  LET sets == c.ent[n].sets
      conflicts == Conflicts(c, n, i)
      left == FoldLeft(LAMBDA k, j : k + IF j \in conflicts
                                         THEN Max({0, sets[j].ttl + sets[j].ts - now}) ELSE 0,
                       0, Indices)
  IN  \/ new.negative \/ new.local
      \/ /\ ~c.ent[n].local /\ \A j \in conflicts : ~sets[j].local
         /\ conflicts # {} => new.ttl > left \div Cardinality(conflicts)

DelConflicts(c, n, i, new) ==
  IF new.negative THEN c
  ELSE LET gone == Conflicts(c, n, i)
       IN  FoldLeft(LAMBDA d, j : IF j \in gone THEN DelSet(d, n, j) ELSE d, c, Indices)

NotNegativeYetListed(c, n) ==
  IF ~c.ent[n].neg THEN c
  ELSE [c EXCEPT !.ent[n].neg = FALSE, !.ent[n].ttl = 0, !.ent[n].ts = 0]

\* add_cent_rrset_by_index: a domain with an RR set is not negative any more.
NotNegative(c, n) ==
  IF ~c.ent[n].neg THEN c
  ELSE [RemoveRrl(c, <<n, Whole>>) EXCEPT
          !.ent[n].neg = FALSE, !.ent[n].ttl = 0, !.ent[n].ts = 0]

AddSet(c, n, i, new) ==
  LET grow == IF i \in EXT /\ ~c.ent[n].ext THEN RrextSize ELSE 0
  IN  InsertRrl([c EXCEPT !.ent[n].ext = @ \/ i \in EXT, !.ent[n].cs = @ + grow + SetSize(new),
                          !.ent[n].sets = With(@, i, Adjusted(new))], n, i)

\* The set with index i of a cent, and whether memory runs out as it is added.
MergeSet(a, n, i, cent, fail) ==
  IF a.full \/ i \notin DOMAIN cent.sets THEN a
  ELSE LET new == cent.sets[i]
           d == DelSet(a.c, n, i)
           b == NotNegative(DelConflicts(d, n, i, new), n)
       IN  IF i \in DOMAIN a.c.ent[n].sets /\ Precedes(a.c.ent[n].sets[i], new) THEN a
           ELSE IF ~CrCheckAdd(d, n, i, new) THEN [a EXCEPT !.c = d]
           ELSE IF fail = i THEN [c |-> b, full |-> TRUE]
           ELSE [a EXCEPT !.c = AddSet(b, n, i, new)]

\* add_cache for a name that has an entry, unless the cent is negative.
Merged(c, n, cent, fail) ==
  LET d == PurgeAllRrsets(c, n)
  IN  FoldLeft(LAMBDA a, i : MergeSet(a, n, i, cent, fail),
               [c |-> [d EXCEPT !.size = @ - d.ent[n].cs], full |-> FALSE], Indices)

Purged(c) == PurgeCache(c, PermCache + MCSZ, TRUE)

\* fail is 0, or where memory runs out: then nothing is purged.
AddCache(c, n, cent, fail) ==
  IF n \in DOMAIN c.ent /\ ~cent.neg
  THEN LET a == Merged(c, n, cent, fail)
           d == [a.c EXCEPT !.size = @ + a.c.ent[n].cs]
       IN  IF a.full THEN d ELSE Purged(d)
  ELSE IF n \in DOMAIN c.ent /\ \E i \in DOMAIN c.ent[n].sets : c.ent[n].sets[i].local
  THEN c
  ELSE LET d == IF n \in DOMAIN c.ent THEN DelCacheEnt(c, n) ELSE c
       IN  IF Blank(cent) THEN Purged(d)
           ELSE IF fail # 0 THEN d ELSE Purged(AddNew(d, n, cent))

----------------------------------------------------------------------------
(* The disk file. *)

Written(c) ==
  {n \in DOMAIN c.ent : IF c.ent[n].neg THEN ~c.ent[n].local
                        ELSE \E i \in DOMAIN c.ent[n].sets : ~c.ent[n].sets[i].local}

OnDisk(e) ==
  [neg |-> e.neg, local |-> e.local, nocache |-> FALSE, ttl |-> e.ttl, ts |-> e.ts,
   sets |-> Restrict(e.sets, {i \in DOMAIN e.sets : ~e.sets[i].local})]

Fresh == [ent |-> NoEntries, rrl |-> <<>>, size |-> 0, insert_sort |-> TRUE]

ReadDiskCache(c, file) ==
  LET d == FoldLeft(LAMBDA b, n : AddCache(b, n, OnDisk(c.ent[n]), 0),
                    [Fresh EXCEPT !.insert_sort = FALSE], file)
  IN  IF d.insert_sort THEN d ELSE SortRrl(d)

----------------------------------------------------------------------------
(* Steps. *)

Idle == [at |-> "idle"]

Init ==
  /\ cache = Fresh /\ now = Start
  /\ pc = [q \in Queries |-> Idle]
  /\ answers = 0 /\ commands = 0 /\ odd = {}

Stamp(cent, ts) ==
  [neg |-> cent.neg, local |-> cent.local, nocache |-> cent.nocache, ttl |-> cent.ttl,
   ts |-> ts, sets |-> [i \in DOMAIN cent.sets |-> With(cent.sets[i], "ts", ts)]]

\* Memory runs out at most once.
Fails(cent) ==
  {0} \union IF "oom" \in odd THEN {} ELSE IF cent.neg THEN {Whole} ELSE DOMAIN cent.sets

AddsTo(n, cent, fail) ==
  /\ cache' = AddCache(cache, n, cent, fail)
  /\ odd' = IF fail = 0 THEN odd ELSE odd \union {"oom"}

Cached(n) == n \in DOMAIN cache.ent
ToPurge(n) == Cached(n) /\ PurgeCent(cache, n) # cache

\* lookup_cache under the read lock: something has timed out, or the query must be sent.
LookupTests(q, n) ==
  /\ pc[q] = Idle
  /\ \/ ToPurge(n) /\ pc' = [pc EXCEPT ![q] = [at |-> "purging", name |-> n]]
     \/ /\ ~ToPurge(n) /\ (Cached(n) => ~cache.ent[n].local)
        /\ pc' = [pc EXCEPT ![q] = [at |-> "asking", name |-> n]]
  /\ UNCHANGED <<cache, now, answers, commands, odd>>

\* lookup_cache under the write lock, where the entry may be another one or gone.
LookupPurges(q) ==
  LET n == pc[q].name
  IN  /\ pc[q].at \in {"purging", "mergepurging"}
      /\ cache' = IF Cached(n) THEN PurgeCent(cache, n) ELSE cache
      /\ \/ pc' = [pc EXCEPT ![q] = Idle]
         \/ /\ pc[q].at = "purging"
            /\ n \in DOMAIN cache'.ent => ~cache'.ent[n].local
            /\ pc' = [pc EXCEPT ![q] = [at |-> "asking", name |-> n]]
      /\ UNCHANGED <<now, answers, commands, odd>>

\* A reply is read and stamped with the time.
Receive(q, cent) ==
  /\ pc[q].at = "asking" /\ answers < MaxAnswers
  /\ pc' = [pc EXCEPT ![q] = [at |-> "received", name |-> pc[q].name,
                              cent |-> Stamp(cent, now)]]
  /\ answers' = answers + 1
  /\ UNCHANGED <<cache, now, commands, odd>>

\* Records for other names that came with the reply.
StoreExtra(q, n, cent, fail) ==
  /\ pc[q].at = "received" /\ answers < MaxAnswers
  /\ n # pc[q].name
  /\ AddsTo(n, Stamp(cent, pc[q].cent.ts), fail)
  /\ answers' = answers + 1
  /\ UNCHANGED <<now, pc, commands>>

Store(q, fail) ==
  /\ pc[q].at = "received" /\ fail \in Fails(pc[q].cent)
  /\ AddsTo(pc[q].name, pc[q].cent, fail)
  /\ pc' = [pc EXCEPT ![q] = [at |-> "merging", name |-> pc[q].name]]
  /\ UNCHANGED <<now, answers, commands>>

\* The lookup after an answer has been stored.
LookupMerged(q) ==
  /\ pc[q].at = "merging"
  /\ pc' = [pc EXCEPT ![q] = IF ToPurge(pc[q].name)
                             THEN [at |-> "mergepurging", name |-> pc[q].name] ELSE Idle]
  /\ UNCHANGED <<cache, now, answers, commands, odd>>

Command == commands < MaxCommands /\ commands' = commands + 1 /\ UNCHANGED <<now, answers>>

\* Records and negations of the control socket and the configuration.
Define(n, cent, fail) ==
  /\ Command /\ AddsTo(n, Stamp(cent, 0), fail)
  /\ UNCHANGED pc

\* del_cache, and empty_cache entry by entry, as it yields the lock between buckets.
Delete(n) ==
  /\ Command /\ Cached(n)
  /\ cache' = DelCacheEnt(cache, n)
  /\ UNCHANGED <<pc, odd>>

Invalidated(e) ==
  IF e.neg THEN [e EXCEPT !.ts = 0]
  ELSE [e EXCEPT !.sets = [i \in DOMAIN @ |-> [e.sets[i] EXCEPT !.ts = 0]]]

\* The list is not sorted again.
InvalidateRecord(n) ==
  /\ Command /\ Cached(n)
  /\ cache' = [cache EXCEPT !.ent[n] = Invalidated(@)]
  /\ odd' = odd \union {"invalidated"}
  /\ UNCHANGED pc

\* The end and the next start of the program; the file may be cut off anywhere.
\* One restart may follow the last command.
Restart ==
  LET c == PurgeCache(cache, PermCache, FALSE)
  IN  /\ commands <= MaxCommands /\ commands' = commands + 1
      /\ \E read \in SUBSET Written(c) :
           \E file \in SetToSeqs(read) : cache' = ReadDiskCache(c, file)
      /\ pc' = [q \in Queries |-> Idle]
      /\ odd' = {}
      /\ UNCHANGED <<now, answers>>

Tick == now < MaxTime /\ now' = now + 1 /\ UNCHANGED <<cache, pc, answers, commands, odd>>

Next ==
  \/ \E q \in Queries :
       \/ \E n \in Names : LookupTests(q, n)
       \/ LookupPurges(q)
       \/ \E cent \in Answers : Receive(q, cent)
       \/ \E n \in Names, cent \in Extras : \E fail \in Fails(cent) : StoreExtra(q, n, cent, fail)
       \/ \E fail \in {0, Whole} \union RR : Store(q, fail)
       \/ LookupMerged(q)
  \/ \E n \in Names :
       \/ \E cent \in Locals : \E fail \in Fails(cent) : Define(n, cent, fail)
       \/ Delete(n)
       \/ InvalidateRecord(n)
  \/ Restart
  \/ Tick

Spec == Init /\ [][Next]_vars
----------------------------------------------------------------------------
(* Properties. *)

\* cache_size is the sum of the entries' sizes and each is what the entry takes,
\* whatever was replaced, merged, refused or purged, and where memory ran out.
SizeExact ==
  /\ cache.size = SumFunction([n \in DOMAIN cache.ent |-> cache.ent[n].cs])
  /\ \A n \in DOMAIN cache.ent :
       LET e == cache.ent[n]
       IN  /\ e.cs = CentSize + SetsSize(e.sets) + (IF e.ext THEN RrextSize ELSE 0)
           /\ DOMAIN e.sets \intersect EXT # {} => e.ext
           /\ e.neg => DOMAIN e.sets = {}

\* rrset_l has what purge_cache may delete, each once and nothing that is gone: sets
\* that are not local, and negative domains, of entries that are not local.
Listable(c) ==
  {le \in (DOMAIN c.ent) \X ({Whole} \union RR) :
     LET e == c.ent[le[1]]
     IN  /\ ~e.local
         /\ IF le[2] = Whole THEN e.neg
            ELSE le[2] \in DOMAIN e.sets /\ ~e.sets[le[2]].local}

ListExact ==
  /\ Cardinality(ToSet(cache.rrl)) = Len(cache.rrl)
  /\ ToSet(cache.rrl) = Listable(cache)

\* Neither the size nor the list of what may be purged drifts from the entries, in
\* whatever order sets are added, merged, refused, purged, invalidated and deleted.
BooksExact == SizeExact /\ ListExact

\* The list is in the order of the time stamps however late answers are stored,
\* unless records were invalidated.
OldestFirst ==
  "invalidated" \notin odd =>
    \A j, k \in 1..Len(cache.rrl) :
      j < k => TsOf(cache, cache.rrl[j]) <= TsOf(cache, cache.rrl[k])

\* The cache exceeds its limit only by what may not be purged, unless memory ran out
\* as something was added (add_cache, purge_cache).
SizeBounded ==
  cache.size > PermCache + MCSZ /\ "oom" \notin odd => cache.rrl = <<>>

\* What purging goes by and what it has to reach (purge_cache, insert_rrl).
PurgesOldest == OldestFirst /\ SizeBounded

\* "Do not clobber local records" (cache.c:1922): a local RR set is deleted, or
\* replaced by one that is not local, only by a command.
LocalRecordsStay ==
  [][\A n \in DOMAIN cache.ent : \A i \in DOMAIN cache.ent[n].sets :
       cache.ent[n].sets[i].local /\ commands' = commands =>
         /\ n \in DOMAIN cache'.ent /\ i \in DOMAIN cache'.ent[n].sets
         /\ cache'.ent[n].sets[i].local]_vars

\* "The records defined with neg sections remain valid until they are explicitely
\* invalidated or deleted by the user" (pdnsd.conf.5.in:1163), for whole domains
\* and while there is memory.
LocalNegationStays ==
  [][\A n \in DOMAIN cache.ent :
       /\ cache.ent[n].neg /\ cache.ent[n].local
       /\ commands' = commands /\ odd' = odd
       => n \in DOMAIN cache'.ent /\ cache'.ent[n].neg /\ cache'.ent[n].local]_vars
=============================================================================
