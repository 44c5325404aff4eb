-------------------------------- MODULE Hash --------------------------------
(***************************************************************************)
(* pdnsd's hash table of cache entries (hash.c), in which entries are      *)
(* chained by bucket, each chain in the order of a longer hash, and        *)
(* empty_cache() (cache.c), which gives the lock up between two buckets.   *)
(* An entry is known by its name, of which there is only one. Whoever      *)
(* holds the lock is alone here (CacheLock). A pointer to a place in a     *)
(* chain (hep, loc.pos) is an index, a pointer to an element is its name.  *)
(***************************************************************************)
EXTENDS Integers, Sequences, SequencesExt, FiniteSets

CONSTANTS
  Names, NULL,
  HASH_NUM_BUCKETS,
  Idx, RHash,                \* dns_hash(): a name's bucket and its longer hash
  Lists,                     \* include/exclude lists: sequences of rules, a null pointer the empty one
  Covers(_, _)               \* a rule is about a name (domain_match())

ASSUME NullIsNothing == NULL \notin Names /\ NULL \notin [sla : Lists, i : Nat]
ASSUME BucketsPositive == HASH_NUM_BUCKETS \in Nat \ {0}
ASSUME HashesNat == Idx \in [Names -> 0..HASH_NUM_BUCKETS - 1] /\ RHash \in [Names -> Nat]
ASSUME ListsAreRules == \A sla \in Lists : DOMAIN sla = 1..Len(sla)

VARIABLES
  hash_buckets,
  holder,                    \* of the lock: "none", "empty" (empty_cache()), "walk", or "over" for ever
  emptying,                  \* empty_cache() in progress: [sla, i], or NULL
  hep,                       \* its place in the chain
  old,                       \* what was there when it began and has not been added anew: a history
  pos, seen,                 \* a walk's position, and what it has retrieved: a history
  present                    \* what was there when the walk began: a history

sweep == <<emptying, hep, old>>
walk == <<pos, seen, present>>
tableVars == <<hash_buckets, holder, sweep, walk>>

Buckets == 0..HASH_NUM_BUCKETS - 1

Held(b) == Range(hash_buckets[b])
Entries == UNION {Held(b) : b \in Buckets}

\* Variant: a name behind another of the same hash is not found.
StopsAtHash(chain, n, k) == k = Len(chain) + 1 \/ RHash[chain[k]] >= RHash[n]

\* Where a search for a name stops: at the name, before a larger hash or at the end.
Stops(chain, n, k) == k = Len(chain) + 1 \/ RHash[chain[k]] > RHash[n] \/ chain[k] = n
Place(chain, n) == CHOOSE k \in 1..Len(chain) + 1 :
                     Stops(chain, n, k) /\ \A j \in 1..k - 1 : ~Stops(chain, n, j)

dns_lookup(n) ==
  LET chain == hash_buckets[Idx[n]]
      k == Place(chain, n)
  IN [pos |-> k, found |-> k <= Len(chain) /\ chain[k] = n]

WithChain(b, chain) == hash_buckets' = [hash_buckets EXCEPT ![b] = chain]

TableInit ==
  /\ hash_buckets = [b \in Buckets |-> <<>>]
  /\ holder = "none"
  /\ emptying = NULL /\ hep = 1 /\ old = {}
  /\ pos = NULL /\ seen = <<>> /\ present = {}

----------------------------------------------------------------------------
(* One entry, with the lock held throughout. *)

\* add_cache() looks for the name and adds the entry at the place it was told.
Add(n) ==
  /\ holder = "none"
  /\ LET loc == dns_lookup(n)
     IN ~loc.found /\ WithChain(Idx[n], InsertAt(hash_buckets[Idx[n]], loc.pos, n))
  /\ old' = old \ {n}
  /\ UNCHANGED <<holder, emptying, hep, walk>>

del_dns_hash(n) ==
  /\ holder = "none" /\ dns_lookup(n).found
  /\ WithChain(Idx[n], RemoveAt(hash_buckets[Idx[n]], dns_lookup(n).pos))
  /\ UNCHANGED <<holder, sweep, walk>>

\* A negative entry takes an entry's place: add_cache() deletes the one and looks again.
Replace(n) ==
  /\ holder = "none"
  /\ LET loc == dns_lookup(n)
         rest == RemoveAt(hash_buckets[Idx[n]], loc.pos)
     IN loc.found /\ WithChain(Idx[n], InsertAt(rest, Place(rest, n), n))
  /\ old' = old \ {n}
  /\ UNCHANGED <<holder, emptying, hep, walk>>

----------------------------------------------------------------------------
(* empty_cache(). *)

\* The first rule about a name decides; without a list everything goes.
Selected(sla, n) ==
  sla = <<>> \/ \E j \in DOMAIN sla : /\ Covers(sla[j], n) /\ sla[j].rule = "included"
                                         /\ \A i \in 1..j - 1 : ~Covers(sla[i], n)

EmptyCache(sla) ==
  /\ holder = "none" /\ emptying = NULL
  /\ holder' = "empty" /\ emptying' = [sla |-> sla, i |-> 0] /\ hep' = 1
  /\ old' = Entries
  /\ UNCHANGED <<hash_buckets, walk>>

Chain == hash_buckets[emptying.i]

free_dns_hash_bucket ==
  /\ holder = "empty" /\ emptying.sla = <<>> /\ Chain # <<>>
  /\ WithChain(emptying.i, <<>>)
  /\ UNCHANGED <<holder, sweep, walk>>

\* Variant: the place moves on after a deletion too, over the entry that took it.
FreeSkips ==
  /\ holder = "empty" /\ emptying.sla # <<>> /\ hep <= Len(Chain)
  /\ hep' = hep + 1
  /\ IF Selected(emptying.sla, Chain[hep]) THEN WithChain(emptying.i, RemoveAt(Chain, hep)) ELSE UNCHANGED hash_buckets
  /\ UNCHANGED <<holder, emptying, old, walk>>

free_dns_hash_selected ==
  /\ holder = "empty" /\ emptying.sla # <<>> /\ hep <= Len(Chain)
  /\ IF Selected(emptying.sla, Chain[hep])
     THEN WithChain(emptying.i, RemoveAt(Chain, hep)) /\ UNCHANGED hep
     ELSE hep' = hep + 1 /\ UNCHANGED hash_buckets
  /\ UNCHANGED <<holder, emptying, old, walk>>

\* The bucket is done: others get the lock before the next one, if any.
YieldLock ==
  /\ holder = "empty" /\ hep > Len(Chain)
  /\ holder' = "none" /\ hep' = 1
  /\ emptying' = IF emptying.i + 1 >= HASH_NUM_BUCKETS THEN NULL ELSE [emptying EXCEPT !.i = @ + 1]
  /\ UNCHANGED <<hash_buckets, old, walk>>

Resume ==
  /\ holder = "none" /\ emptying # NULL
  /\ holder' = "empty"
  /\ UNCHANGED <<hash_buckets, sweep, walk>>

----------------------------------------------------------------------------
(* A walk over all entries, as of write_disk_cache() and dump_cache(), with the lock held throughout. *)

Filled(from) == {b \in Buckets : b >= from /\ hash_buckets[b] # <<>>}

\* Variant: the last element of a chain is taken for its end.
AfterButLast(chain, k) == IF k + 1 < Len(chain) THEN chain[k + 1] ELSE NULL

\* The element behind the k-th of a chain.
After(chain, k) == IF k < Len(chain) THEN chain[k + 1] ELSE NULL

\* The first element from a bucket on is retrieved; without one the walk is over.
Fetch(from) ==
  IF Filled(from) = {} THEN holder' = "none" /\ pos' = NULL /\ UNCHANGED seen
  ELSE LET b == CHOOSE b \in Filled(from) : \A c \in Filled(from) : b <= c
       IN /\ holder' = "walk" /\ seen' = Append(seen, hash_buckets[b][1])
          /\ pos' = [bucket |-> b, ent |-> After(hash_buckets[b], 1)]

fetch_first ==
  /\ holder = "none" /\ Entries # {}
  /\ LET b == CHOOSE b \in Filled(0) : \A c \in Filled(0) : b <= c
     IN seen' = <<hash_buckets[b][1]>> /\ pos' = [bucket |-> b, ent |-> After(hash_buckets[b], 1)]
  /\ holder' = "walk" /\ present' = Entries
  /\ UNCHANGED <<hash_buckets, sweep>>

fetch_next ==
  /\ holder = "walk"
  /\ IF pos.ent = NULL THEN Fetch(pos.bucket + 1)
     ELSE LET chain == hash_buckets[pos.bucket]
              k == CHOOSE k \in DOMAIN chain : chain[k] = pos.ent
          IN /\ seen' = Append(seen, pos.ent) /\ pos' = [pos EXCEPT !.ent = After(chain, k)]
             /\ UNCHANGED holder
  /\ UNCHANGED <<hash_buckets, sweep, present>>

\* destroy_cache(), when the program ends: the lock is never given back.
free_dns_hash ==
  /\ holder = "none" /\ holder' = "over"
  /\ hash_buckets' = [b \in Buckets |-> <<>>]
  /\ UNCHANGED <<sweep, walk>>

TableNext ==
  \/ \E n \in Names : Add(n) \/ del_dns_hash(n) \/ Replace(n)
  \/ \E sla \in Lists : EmptyCache(sla)
  \/ free_dns_hash_bucket \/ free_dns_hash_selected \/ YieldLock \/ Resume
  \/ fetch_first \/ fetch_next \/ free_dns_hash

TableSpec == TableInit /\ [][TableNext]_tableVars

----------------------------------------------------------------------------
(* Properties. *)

\* Whatever has been added, deleted and replaced, among names whose hashes are equal too: a search
\* finds exactly what is in the table, and every name is there once, in its own bucket (dns_lookup()).
LookupsRight ==
  /\ \A n \in Names : dns_lookup(n).found <=> n \in Entries
  /\ \A b \in Buckets : \A k \in DOMAIN hash_buckets[b] :
       /\ Idx[hash_buckets[b][k]] = b
       /\ \A j \in 1..k - 1 : hash_buckets[b][j] # hash_buckets[b][k]

\* empty_cache() leaves nothing of what its list selects and was there when it began, though others add
\* and delete between two buckets, and deletes nothing else.
EmptiesSelected ==
  [][/\ emptying # NULL /\ emptying' = NULL => \A n \in old \intersect Entries : ~Selected(emptying.sla, n)
     /\ holder = "empty" => \A n \in Entries : n \in Entries' \/ Selected(emptying.sla, n)]_tableVars

\* A walk over the table (that of write_disk_cache() and dump_cache()) retrieves every entry, and none twice.
WalksOverAll ==
  [][holder = "walk" /\ holder' # "walk" => IsInjective(seen) /\ Range(seen) = present]_tableVars
=============================================================================
