# Verification of the ladder VPN client

TLA+ models of the parts of this repository whose correctness depends on the order of events:
the Android VPN service with its guarded child processes, the screen that drives it, the
traffic counters, pdnsd, the caching DNS proxy that runs as one of the children, and libev's
event loop, which two others of them run in. TLC checks the models on small instances; TLAPS
proves the central invariants for every value of the constants. Paths are abbreviated: `app/`
is `src/app/src/main/java/cc/cloudist/app/`, `pdnsd/` is `src/ndk/src/main/jni/pdnsd/src/`,
`libev/` is `src/ndk/src/main/jni/libev/`.

To check a run: `tlc -config <cfg> <module>`; both are in `PROJECT.json`. To check
the proofs: `tlapm <module>_proofs.tla`.

## Inventory

| component | code | state it keeps | operations |
|---|---|---|---|
| guarded process | `app/common/GuardedProcess.java` | guard thread, `process`, `isDestroyed`, semaphore | `start`, the guard's loop, `destroy` |
| VPN service | `app/service/ShadowsocksService.java`, `BaseVpnService.java` | `mState`, `mConfig`, one field per child, descriptor, thread and receiver; callbacks and the traffic timer | `use`, `startRunner`, `stopRunner`, `onRevoke`, the close broadcast, `changeState`, `registerCallback`, `unregisterCallback` |
| connect screen | `app/ui/shadowsocks/ShadowSocksFragment.java`, `app/ui/base/ServiceBoundContext.java` | a copy of the state, `isServiceStarted`, the button, the binding | click, consent result, life cycle, `mCallback` |
| traffic counters | `app/util/TrafficMonitor.java` | static totals, rates and a dirty flag | `update`, `updateRate`, `reset` |
| socket services | `app/common/thread/*.java` | a server socket, `isRunning`, a pool | `run`, `stopThread` |
| notification | `app/ui/notification/NotificationHelper.java` | two receivers, `callbackRegistered` | screen events, `update`, `destroy` |
| sign-in | `app/ui/signin/`, `app/data/` | two subscriptions, stored preferences | `login`, results, `detachView` |
| pdnsd: cache | `pdnsd/cache.c` | a readers-writer lock; entries, the list of what may be purged, their total size, a disk file | lock functions, `add_cache`, `lookup_cache`, `purge_cache`, control commands |
| pdnsd: tables | `pdnsd/hash.c`, `list.c`, `rr_types.c` and platform code | `hash_buckets`: a chain of entries for each bucket | `dns_lookup`, `add_dns_hash`, `del_dns_hash`, `free_dns_hash_*`, `fetch_first`, `fetch_next` |
| pdnsd: servers | `pdnsd/servers.c` | time stamps, `servers_lock`, `server_data_users`, `retest_flag`, `signal_interrupt` | status thread, tests by query handlers, control commands |
| pdnsd: answering | `pdnsd/dns_answer.c` | `procs`, `qprocs`, two sockets; per thread the message under way | UDP and TCP servers, admission of queries, `process_query`, `compose_answer` |
| pdnsd: querying | `pdnsd/dns_query.c` | on the stack: a `query_stat_t` for each server, the cache seen so far, hops left | `p_dns_cached_resolve`, `p_dns_resolve`, `p_recursive_query`, `p_exec_query`, `p_query_sm`, root server discovery, `query_uptest` |
| pdnsd: configuration, control, start | `pdnsd/conff.c`, `conf-parser.c`, `status.c`, `main.c` | the configuration | parsing, commands, start and end |
| libev | `libev/ev.c`, `ev_epoll.c` | `struct ev_loop`: pending events, heaps, file descriptors, lists of watchers; `signals[]`, an eventfd | `ev_run`, `ev_*_start`, `ev_*_stop`, signal handlers, `ev_once`, `ev_loop_fork` |
| JNI | `src/ndk/src/main/jni/system.cpp` | none | system calls |
| base library | `src/base` | none of its own | screens, lists, utilities |
| vendored | the rest of `libev`; shadowsocks-libev, badvpn and redsocks are empty submodules | | |

How they interact. The user interface and the service share one Android process: the fragment
calls `use()` through a local binder, so the call runs at once on the main thread. The service
answers through `changeState()`, which only posts a Runnable to the main looper; the Runnable
sets `mState` and calls the callbacks. `onRevoke()` arrives on a binder thread. The service
starts ss-local, pdnsd, ss-tunnel and tun2socks, each under a `GuardedProcess` that spawns it
again when it exits, and passes the tun descriptor to tun2socks through a Unix socket. ss-local
reports its byte counts to `TrafficMonitorThread`, which calls `TrafficMonitor.update()`; a
timer calls `updateRate()` and tells the callbacks. pdnsd is a multi-threaded C program of its
own: a query comes in at a server thread, which starts a thread that answers it; that thread
looks into the cache, asks servers itself and waits for them with `poll()`, stores what it
learns and composes the answer; the status thread probes the servers beside it. ss-local and
ss-tunnel are single threads in libev's loop; only signal handlers interrupt them.

What is hard about it:

- threads that share fields without a lock (`onRevoke` beside the main thread; the traffic
  counters), or with hand-made locks (pdnsd's cache);
- decisions on a state that messages still in the queue are about to change;
- interrupts and signals that must end a guard whatever it is doing, or wake up a loop that is
  about to wait;
- queries over TCP and UDP that are given up in the middle, for batches of servers, nested in
  look-ups of the servers' own addresses;
- callbacks that stop, start and set again watchers which are pending or in a heap, and file
  descriptors that are closed and opened again under the loop;
- starts that fail half way and have to be undone;
- a client whose copy of the state misses changes while it is stopped.

`PROJECT.json` lists each hazard with its line and the properties that would catch it.

## Modules

| module | models | runs |
|---|---|---|
| `ManagedProcess` | what the service counts on a guard for | (abstract) |
| `GuardedProcess` | `GuardedProcess.java`, `sendFd` as restart callback | `App` |
| `VpnService` | `BaseVpnService`, `ShadowsocksService` | `VpnService` |
| `Vpn_proofs` | theorems about it and `VpnApp` | |
| `VpnApp` | the fragment, composed with `VpnService` | `App` |
| `MC_App` | `VpnApp` or `GuardedProcess`, as one specification | `App` |
| `TrafficMonitor` | `TrafficMonitor.java` and its callers | |
| `LocalServer` | `ShadowsocksThread`, `TrafficMonitorThread` and how the service starts and stops them | |
| `TrafficCallbacks` | the callbacks, their count and the timer of `BaseVpnService`, with `ServiceBoundContext` and `NotificationHelper` | |
| `MC_Session` | these three, which share no variable, each on its own | `Session` |
| `Threads_proofs` | theorems about `GuardedProcess`, these three and `EvPipe` | |
| `CacheLock` | the lock of `cache.c` | |
| `Cache` | the cache of `cache.c`, with the hash table as a function | |
| `MC_Cache` | answers and local records for it | `Cache`, `CacheNegation` |
| `FoldFacts` | induction over a loop written as a fold | |
| `Cache_proofs` | theorems about `Cache` | |
| `Hash` | the hash table of `hash.c` with `empty_cache()` | |
| `MC_CacheTable` | names and rules for it, and the lock: they share no variable, each on its own | `CacheTable` |
| `CacheTable_proofs` | theorems about `CacheLock` and `Hash` | |
| `Servers` | `servers.c` with the reload of `conff.c` | |
| `MC_Servers` | configurations for it | `Servers`, `ServersRoot` |
| `Servers_proofs` | theorems about it | |
| `Entries` | names and cache entries, from `dns.c` and `cache.c` | |
| `Reply` | what is made of a server's answer: `p_exec_query()`'s second half, `rrs2cent()` | |
| `ServerQuery` | one query to one server: `p_query_sm()`, `p_exec_query()` | |
| `QueryCache` | the cache as a look-up uses it | |
| `Resolve` | `dns_query.c` around them | |
| `MC_Query` | a world of servers for it | `Query` |
| `Resolve_proofs` | theorems about it | |
| `Admission` | the server threads and the limits of `dns_answer.c` | (abstract) |
| `Compose` | how `dns_answer.c` writes an answer | |
| `Answering` | the threads of `Admission` at work | |
| `MC_Answering` | clients and a cache for it | `Answer` |
| `Answering_proofs` | theorems about `Admission`, that `Answering` implements it, what follows, and about what is sent | |
| `EvSources` | the signals and asyncs that `EvLoop` and `EvPipe` have in common | |
| `EvPipe` | the handshake of handlers with libev's loop | |
| `EvHeap` | libev's heaps | |
| `EvLoop` | the functions that change `struct ev_loop` | |
| `EvEpoll` | the epoll backend and the kernel's side | |
| `Ev` | `ev_run()` over all of these, with programs, handlers, files and clocks | |
| `MC_Ev` | programs for it | `Ev`, `EvPlain` |

### GuardedProcess

`gpc` is the guard thread's place in `run()`; every access to a field another thread writes is
a step of its own. `owner` and `permits` are the semaphore handshake of `start()`. `dpc[d]` is
the place of thread `d` in `destroy()`: set the flag, interrupt, `process.destroy()`, `join()`.
The guard and `destroy()` each run beside the other at any step, and the service reaches
`destroy()` from two threads (main and binder), so there are two destroyers. A child exits when
it likes; one that was told to stop does exit. Whether `start()` was given a callback
(`onRestartCallback`) is chosen when it is called. `sendFd` sleeps and tries up to four times;
its handler of `InterruptedException` is part of the model because it decides whether an
interrupt reaches the guard. A child that ran for less than a second ends the guard; a fast
iteration is possible only when the callback, which sleeps for a second, was not run.

`ManagedProcess` is the promise: never more than one child that nobody has told to stop, and
none once the guard is over. `Implements` is the refinement with `running <- alive \
signalled`.

### VpnService

A session is a set of objects `<<kind, number>>`, numbered by the `startRunner()` that made
them; `field[k]` is what the service's field of that kind names. `startRunner()` and
`stopRunner()` are sequences of steps, built from the same pieces as the code (`KillProcesses`,
`Drop`, `Post`), and `if (f != null) { f.destroy(); f = null; }` is three steps, because
`onRevoke()` may run between them on the binder thread. `posts` is the looper's queue of state
changes. `changeState()` sets `mState` only when the Runnable runs.

What can go wrong in a start: the first child of a guard is not spawned, the file of a child's
configuration is not opened (`printToFile()` then returns the null that its callers write to),
with `isAuth` an argument is added to ss-tunnel's list, which is of fixed size (both are
`MakeThrows`), a name does not resolve, `establish()` returns null or throws, or the descriptor
does not get to tun2socks. In a stop: a null field, an unregistered receiver and a guard without
a child throw and leave the rest undone (`CanDestroy`). An exception on the main thread ends the
application, one on the binder thread does not. Out of memory and the like are left out.

`childless` is the set of the guards that never had a child. `GuardedProcess.start()` only logs
that, the service assigns its field all the same, and since CONNECTED depends on `sendFd()`
alone a connected service may have a childless ss-local, ss-tunnel or pdnsd. Who destroys it
gets a NullPointerException. If that is `onRevoke()`, STOPPING is posted by then, STOPPED never
is, and the application lives on: the service stays in STOPPING, where `use()` does nothing;
the fragment's button stays disabled, and `isServiceStarted` what it was. `CutShort` is this
case, which the properties name, each with what is still true of it: `SessionsWhole` says that
the service rests in STOPPING in this case only, `FragmentAgrees` that the fragment shows it.

`Wanted` are the objects of a session: with `isUdpDns` there is no ss-tunnel and no pdnsd.

`overlapped` records that `onRevoke()` has run beside a call of the main thread. What holds
until then and not afterwards is due to the missing lock; `ContextReset` is such a property,
and `Settles` holds in both cases. `Overlap = FALSE`, in the run `App`, keeps revocations
between the calls of the main thread.

A `Config` has its `profileId` (`Profiles`), whether its server is an address, a name or
missing, `isUdpDns` and `isAuth`. The present screen always passes -1 and FALSE for both
(`ConfigUtils.java:127`), so a switch of profiles and what the flags change can only come from
another client of the AIDL interface; `use()` and `startRunner()` handle them, and the run
`VpnService` covers them.

`CallUse` keeps a caller away while a CONNECTING is still queued. This is what the fragment is
supposed to ensure, and it does in a fragment's ordinary life: `VpnApp` checks `StartsOnce`
with the actual client, as long as one consent dialog is open at a time. With two (`MaxDialogs
= 2`) two results arrive and two sessions are started.

### VpnApp

Extends `VpnService` with the fragment on the main thread: the button (`enabled`, the
one-second timers of `changeSwitch`), accepted clicks, consent dialogs, the binding, the
registration of the callback and the fragment's copy of the state. A binder call to the local
service runs at once, so the fragment's steps are put in front of each other in the same
sequence (`prog["main"]`).

Assumptions about Android: a view posts its click behind what is already queued; a view takes
no touch before `onResume`; a delayed Runnable does not overtake what was posted before it was
due; the looper runs every message in the end.

### TrafficMonitor

A method is the sequence of its accesses to the shared static fields. `races` records which
pairs of methods have run beside each other, to separate what the sequential code promises from
what the missing lock breaks. One direction is modelled: the other one differs only in names,
and they share the dirty flag. Time scales a rate and leaves its sign; a call at an unmoved
clock does nothing.

### LocalServer

One thread for every session; `ShadowsocksThread` and `TrafficMonitorThread` differ in names
and in what their pools do for a client. `pc[t]` is the thread's place in `run()`, with a step
for each access to what `stopThread()` changes beside it: the test of `isRunning`, the reading
of `mServerSocket`, `accept()`. `file` is whose socket the path leads to, whatever `field` says:
the threads of two sessions share the path, and nobody waits for the first to end. `socket[t]`
belongs to the kernel. Closing it may wake a thread out of `accept()` or not, since Android
closes the descriptor and does not shut the socket down; a thread that is not woken takes one
more connection. `early` is a history: `stopThread()` came before there was a socket to close.
`crashed` ends the process (below).

### TrafficCallbacks

Everything that registers, counts and unregisters runs on the main thread, so a handler is one
step; but the screen does not wait for it, and so the constructor of the notification is three:
it asks whether the screen is on, acts on that, and registers its receiver. A broadcast is
announced, sent to whoever is registered by then, queued in the looper behind the posted states,
and minded only while `mState` is CONNECTED. `upset` is a history: a change of the screen was
still under way at the start of a session, fell into it or was not minded. `RemoteCallbackList`
is external: it holds a callback once and answers `true` to the second registration. The guard
of `StartRunner` stands on `StartsOnce` of `VpnApp`. Left out are `onRevoke()`, on its binder
thread, and the switch of profiles, which stops and starts at once and which no screen asks for:
both are in `VpnService`.

### CacheLock

What a thread does while it holds `lock_mutex` is one step. A thread sleeps on one of two
condition variables; a signal wakes one, a broadcast all, and threads wake for no reason. The
status thread takes the lock with a timeout and gives it up in between (`yield_lock_cache_rw`).
The main thread takes it softly before it exits.

A timed wait that has been signalled does not report a timeout: pthreads on Linux sleep on a
futex, which reports one or the other. POSIX would let the signal be lost.

### Cache

Every function that holds the write lock throughout is one step, which `CacheLock` shows to be
sound; `lookup_cache()`, which tests under the read lock and looks up again under the write
lock, is two (`LookupTests`, `LookupPurges`). The cache is one record: `ent` from names to
entries, the list `rrl` (pairs of name and index, oldest first), `size` and `insert_sort`. The
functions of `cache.c` are operators from such a record to another, and loops over RR sets and
over the list are folds, so `AddCache` runs through copying, merging, conflict resolution
(`CrCheckAdd`), sorted insertion and both passes of `purge_cache()` as the code does. An RR set
has its flags, TTL and time stamp; its records are one unit of size.

A query handler goes from the look-up to asking, to an answer that is stamped when it is read
(`received`), to storing it and looking it up again. Between these any other thread may store,
define, delete or invalidate. `Restart` writes the file, which may be cut off after any entry,
and reads it at the next start in any order, as the hash table's order is not specified. `fail`
is the RR set at which memory runs out, at most once. `odd` is a history: memory has run out,
records were invalidated.

Left out: the look-up of a name's parents (wild cards, subdomains of a local negation), the
references `c_ns` and `c_soa`, and `add_reverse_cache()`.

### Hash

`hash_buckets` is a function from buckets to sequences of names; a pointer to a place (`hep`,
`loc.pos`) is an index. What a name hashes to is a constant (`Idx`, `RHash`), and so is which
rule is about which name (`Covers`). `empty_cache()` holds the lock for one bucket after the
other: `EmptyCache`, one step for each entry that `free_dns_hash_selected()` comes to,
`YieldLock` and `Resume`. Others run whenever nobody holds the lock; the lock itself is
`CacheLock`'s. The list of a control command is the empty sequence when the command names
nothing, as the code passes a null pointer then. A walk over the table is that of
`write_disk_cache()` and `dump_cache()`, with what they do to an entry left out.

### Servers

`servers_lock` names the thread that holds the mutex; every stretch of code between a lock and
an unlock is one step or several steps at places (`pc`) where the thread holds it.
`server_data_users` is the count that protects the data while the mutex is free. The walk over
the sections (`Walk`) is shared by the status thread and by `test_onquery()`; `at` holds its
loop variables and the place where `retest()` returns to. `due` is the set of addresses whose
time stamp `i_ts` is 0. The two condition variables are places: `asleep` (`server_test_cond`),
`waiting` (`server_data_cond`); a signal moves their sleepers on. `main()` starts the status
thread and stores `servstat_thrid` without the mutex, so `MainGoesOn` may come at any time
after the thread has begun to run; other starts happen under the mutex and are one step. `lost`
and `stale` are histories: ways in which a request may have been lost (a command that gives
addresses to a section which the thread does not go on for is one of them), and threads under
which data was replaced.

A test's outcome and whether an interval has passed are left open, and so is the answer of a
root server discovery. What comes after the two mistakes in the wait of `servstat_thread()`
(below) is undefined: the thread goes to `undefined` and stays there.

### Resolve, ServerQuery, Reply, QueryCache

One thread resolves a name. Its C stack is the variable `stack`: a frame for every
`p_dns_cached_resolve()` or `simple_dns_cached_resolve()` in progress, with what these call in
turn (`p_dns_resolve()`, `p_recursive_query()`). A frame has its place `at`, the queries `q`,
the batch that is waited for and what has come of it. Returning from a frame hands its result
to the one below, as the C functions do. `cache` may be changed by nobody else here (`"purge"`
takes an entry away between two looks); its locking and sizes are in `CacheLock` and `Cache`.
`probe` is a `query_uptest()`, `results` what calls from outside have returned.

`ServerQuery` gives the set of what may come of a call of `p_query_sm()`: a socket may fail to
open, a connection may be refused, an answer arrive in parts, be junk or be cut off. `Faults`
names which of these may happen. `"AGAIN"` is -1, by which the C functions say that they wait
for a socket. `Reply` is a pure function of query and message; `rrs2cent()` is modelled by the
layouts of the records it accepts and by what it does with each. Labels, ports, identifiers and
times are left out: a query from one port is told from another by whether a port was free.

What the constants may be is assumed by name, and is what the code sees to: a packet has a code
of four bits and lists of records, whose names are lists of labels (`IsMessage`, which `Received`
applies to whatever a server sends: the header is a C structure, and `rrs2cent()` decompresses every name before it
looks at it); the configuration has lists of sections with lists of addresses
(`SectionsAssumption`) and at least one query at a time (`ParQueriesAssumption`: `conf-parser.c`
refuses `par_queries` below 1); an entry that is in the cache at the start is made of RR sets, and NS
and SOA records begin with a name (`CachesAssumption`, `IsStored`: nothing else is
stored there, and what a look-up adds is shown to be like it); `MAXNAMESERVIPS` is a number.

### Admission, Compose, Answering

`Admission` has the two servers, what `start_dns_servers()` does before they run, and the
workers with `qprocs` and `procs`; each thread calls `run_as()` first, which may fail. `Compose` writes a message record by record: `text` keeps
the names that stand in it, `cb` what `compress_name()` remembers of them, which survives when
a record is taken back. `Answering` extends both: `job[w]` is what worker `w` is about. Each
look-up of the cache or `dns_cached_resolve()` between two records is a step that may find any
entry the cache could have, since other threads change it: `CacheEntries` is the set of these
and `Outcomes` that of what the resolver may return, of which the named ASSUMEs ask what the
types of the C code give (`IsEntry`: names and data are made of parts, an alias begins with a
name; an RR set holds a record once, as `add_cent_rr()` sees to; `IsQuery`). What goes into a
thread's answer depends on `job` only; the servers' and counters' steps are those of
`Admission`, which makes the refinement provable.

`NoDoubles` has one exception, which is the code's: SOAs of the answer section are not entered
in `sva`, so one that a question asks for may be repeated in the authority section for another
question of the same message, of whose type there is nothing.

### EvPipe, EvHeap, EvLoop, EvEpoll, Ev

`ev_run()` is cut at its stages (`pc`): fork, prepare, reify, poll, timers, check, then the
turn's end, and `invoking` with a priority wherever `EV_INVOKE_PENDING` stands. The struct is
one record `l`, the functions of `ev.c` are operators from such a record to another, as in
`Cache`; the kernel's side is a record `k` beside it. In a callback the program makes calls
from `program.calls`, as many as `program.bounds` has for it, or returns.

`EvPipe` is the handshake with signal handlers: `evpipe_write()`, `pipecb()` and the accesses
of `ev_run()` to the same flags, one step each, with handlers between any two. It is a
specification of its own, for the proofs; `Ev` extends it, uses its steps in the stages they
belong to, and adds what they know nothing of.

`owed` and `stopped` are histories for the properties: whom something has happened to that has
not been told, and whom the program has stopped.

Assumptions: a program is single-threaded, so a handler, which blocks all signals
(`sigfillset`), is one step, and asyncs are sent by handlers. After a file was closed the
program sets the watchers of its descriptor anew before it starts them (`ev_io_set`), as the
manual asks. The kernel never gives the same open file to a descriptor twice. `epoll_ctl()` has
memory; growing arrays are left out. Watchers of children have the highest priority, as
`loop_init` gives it to the signal's. A tick of the clocks is longer than `MIN_TIMEJUMP`; a
wait is never shorter than one tick (`backend_mintime`) and never longer than `MAX_BLOCKTIME`,
three ticks. Left out: `ev_stat`, `ev_embed`, signalfd, other backends, `ev_run()` in a
callback, the collect intervals.

## What the runs show

Passing runs, with the bounds of their configurations:

- `VpnService` (two starts, two profiles with and without `isUdpDns` and `isAuth`, one
  revocation at any time, the failures of a start and of a stop that are listed above): until a
  revocation has overlapped a call, a service at rest that says CONNECTED has all objects its
  `Config` calls for, of one session and of no other, one that says STOPPED has left nothing,
  it rests in STOPPING only after a revocation that was cut short, and a start meets nothing of
  an earlier session; with overlaps the state still settles, but in that case. Of the objects
  of a connected service only tun2socks is sure to have had a child. A call begins with at most
  one Runnable in the queue (`MaxPosts`); two states behind each other come from the call
  itself.
- `App` (one of two parts, chosen at the start: the fragment over the service, or the guard of
  one of the processes, of which the service knows only that `start()` returns, whether the
  first child was spawned, and that `destroy()` throws if not). The fragment (two starts, one
  dialog at a time, one stop of the screen) agrees with the service when all messages have run,
  it starts one session at a time, and the button comes back; but for the switch and the button
  after a revocation that was cut short. The guard (two destroyers, three children, with and without callback): no
  child outlives its guard untold, `destroy()` throws only if there never was a child, none is
  spawned after a `destroy()`, the guard implements `ManagedProcess`, `start()` returns and so
  does `destroy()`, unless the callback swallowed the interrupt. Three children suffice to
  destroy a guard in its first, a middle and a last iteration.
- `Session` (one of three parts, chosen at the start). The counters (two threads that query, one
  that updates): no byte is missed as long as the methods run apart, and the rate settles at 0
  whatever happens. The callbacks (two sessions, four changes of the screen, also between the
  steps of the constructor, and a fragment that comes and goes): nobody who is registered is
  left without the timer, a notification that was destroyed or a fragment that let go is told
  no more, and nobody is counted twice unless a change of the screen crossed a start. The
  threads at a socket file (three sessions, three connections): unless one was stopped before
  it had a socket, every thread binds, the path leads to the thread of the session, and no
  client waits at a socket of an earlier one. A thread can meet the file of the one before it
  and, in `accept()`, the one before that, hence three.
- `CacheTable` (lock or table, chosen at the start). The lock (two readers, four writers, which
  is more than the threshold for two readers, the status thread and an exiting main thread):
  exclusion, no lost wake-up until the program exits, no deadlock, and writers that outnumber
  the threshold get their turn. The table (five names in two buckets, two of them with the same
  longer hash and one behind them; emptying by no list and by one that excludes a name of what
  the next rule includes): a search finds exactly what is in the table; an emptying deletes what
  its list selects of what was there when it began, and nothing else; a walk retrieves every
  entry once.
- `Cache` (two names, two query handlers, three types of which the second excludes the others
  and the third is kept in the array `rrext`, three answers, one command and a restart; a limit
  that two full entries exceed, so both passes of purging happen): the books are exact
  (`cache_size` is the sum of what the entries take, the list has exactly what may be purged)
  whatever was merged, refused, purged or cut short by lack of memory; the list is in the order
  of time stamps unless records were invalidated; the limit is kept as long as anything can be
  purged; and local RR sets go only by command.
- `Servers` (four configurations of two sections with two addresses, one query handler, one
  control thread, one command): the count of users is exact and nobody replaces data under a
  user, a test that was asked for is not lost between the status thread's passes, its sleep and
  its end, and what is due is tested. With two commands the invariants hold too (a million
  states).
- `Query` (three configurations: a server that refers to others beside a forwarder, a root
  server to be discovered first, two forwarders over TCP; batches of two, two ports, three
  hops; a cache that is empty, has the name from long ago, or knows the zone's servers): a
  query has its socket and its message while it waits and never after its look-up, however that
  ended; nobody looks an address up that is being looked up further out; what comes from a
  server that others referred to stays within its zone; every question and every test ends. The
  zone's two name servers refer to each other, one of them has its name in another zone: two
  hops lead around the circle, a third shows that it ends.
- `Answer` (two threads, three queries, one of which may be answered and one wait; plain,
  negative, cyclic and multiple questions; bounds of a datagram close to the sizes of the
  answers): the counters are exact, the last server to end ends the program, every name in a
  message can be read through its pointers, also after a record was taken back; no record comes
  twice in the last two sections; the answer is authoritative only if all of it is local; a
  datagram fits; and threads end.
- `Ev` (five programs, chosen at the start: ten timers in three levels of heap with stops and
  settings by callbacks; two descriptors that are closed, shared with a child, opened again as
  sockets or plain files, with forks; a signal and two children; timers, periodics and a clock
  that is set back and forth; `ev_once()` in single turns with an async, cleanup, check and
  idle watchers): heaps, lists and `activecnt` are exact; whenever the loop waits the kernel
  reports what the watchers want of every file that it can report and the loop believes it; a wake-up is not lost; nobody is
  called after it was stopped; and whoever is due is served. `Observed` are the watchers that
  the last is about: those that some program may find neglected. `program.bounds` limits calls,
  jumps, sends, runs and signals, `program.time` the clock.

Violations, each a disagreement between the code and what it says (see `findings`):

- `CacheNegation`: an answer that was under way when a domain was negated locally replaces the
  negation (NXDOMAIN) or takes it away from the entry (an empty answer for a type), though the
  manual says it stays until the user removes it.
- `ServersRoot`: the status thread overwrites addresses that a control command has set with the
  root servers it discovered, because it does not look again after its wait for the users of
  the data.
- `EvPlain`: a plain file, which `epoll` refuses, whose watcher is stopped for a turn of the
  loop and started again gets no events any more: `epoll_poll()` has taken it out of
  `epoll_eperms` and `epoll_modify()` takes it for one that is there, because its `emask` still
  says so, though the code promises to make the events of "all fds where epoll fails, while
  select works". `KernelCovers` therefore asks of a plain file only that libev knows it for one.

Observations on the way that no run states, because the code says nothing to the contrary or
because it needs more than a run shows. On the application:

- a guard whose first child was not spawned makes its `destroy()` throw
  (`GuardedProcess.java:102`), and the service is CONNECTED with it unless it is that of
  tun2socks: the next stop ends the application, and a revocation leaves it in STOPPING with a
  button that nothing enables again (`CutShort`);
- the look-up of a server's name never yields an address (`Utils.java:76`), a `Config` with
  `isAuth` makes `startDnsTunnel()` throw (`ShadowsocksService.java:252`);
- `sendFd()` swallows the interrupt that should end the guard (`ShadowsocksService.java:397`,
  `GuardedProcess.java:68`), and `destroy()` then waits for ever;
- `onRevoke()` beside a restart leaves objects of the earlier session in place when the next
  one has reset the context (`ShadowsocksService.java:66`, `:126`);
- coming back to the screen after the VPN was stopped elsewhere starts it again, since
  `onResume()` looks at `isServiceStarted` before refreshing it;
- a restart of ss-local makes the session's total shrink and the rate negative;
- a socket thread that is stopped before it has bound closes nothing, binds later, and may
  delete the file of the next session's socket and leave the path leading to a socket nobody
  accepts at (`ShadowsocksThread.java:42`, `:61`, `:69`: `early`);
- `stopThread()` may set `mServerSocket` to null between the loop's test and its `accept()`
  (`ShadowsocksThread.java:81`); a NullPointerException is no IOException, and ends the process
  (`crashed`);
- the threads' pools are never shut down, so each session leaves its pool threads behind, and
  a client that says nothing holds the only thread of the counters' pool for good;
- a change of the screen that crosses the start of a session makes the notification register
  its callback twice; the count stays too high then, and the timer never ends (`upset`);
- `callbacksCount` and `timer` are changed without a lock, by the main thread and, in
  `onRevoke()`, by a binder thread.

On pdnsd's cache and servers:

- `invalidate_record()` sets time stamps to 0 without moving the records in the list, so
  purging no longer deletes the oldest first (`odd` has `"invalidated"`);
- an answer without information that meets an entry whose sets have all timed out leaves an
  empty entry that is not in the list, which `add_cache()` avoids for new entries
  (`cache.c:1883`); only a look-up of the name removes it;
- an entry that has a local negation keeps `DF_LOCAL` when an empty answer has made it
  ordinary, and takes the flag to the disk file;
- `dump_cache()` writes to a control client while it holds the read lock (`cache.c:2677`), so a
  client that does not read keeps writers out of the cache;
- when the wait of `servstat_thread()` for the users of the data times out (`servers.c:404`),
  `continue` belongs to the inner loop: the addresses are freed and then freed again or stored;
  and a reload during the wait frees the section it points to;
- a section with root servers that are tested on time-outs (`conf-parser.c:1072-1080` and `:1137`
  allow it, and `manual.txt:1154` says how such servers are tested) keeps the status thread going
  only by `needs_intermittent_testing` (`servers.c:388`, not `:439`): once a command has given it
  addresses (`servers.c:809-811`), a test that is asked for (`servers.c:540-579` start no thread)
  may never come (`lost` gets `"unattended"`);
- an interrupted pass of the status thread may end the thread with tests still due (`lost` gets
  `"interrupted"`), and a thread that ends before `main()` has stored its name is never started
  again (`"late"`).

On pdnsd's querying and answering:

- `pdnsd.conf.5.in:714-722` and `dns_query.c:3462-3471` let an entry that was not purged answer
  when the servers do not; a server that replies REFUSED, say, ends the look-up with that code
  instead;
- `p_recursive_query()` can return -1 when the last batch of `tcp_udp` falls back to UDP;
- when `poll()` fails, an answer that was saved for want of a better one is thrown away;
- the query saved with such an answer may become `QS_DONE` and its server be asked again, which
  `dns_query.c:2070-2071` rules out, and its flags `aa` and `ra` may be those of a later reply;
- in `start_dns_servers()` a failing `pthread_create()` leads to `pdnsd_exit()` in the main
  thread itself, which ends with nobody left in `sigwait()` (`dns_answer.c:2117`, `:2130`), and
  the servers' thread names are stored after the threads have begun;
- if `run_as()` fails, the cleanup handler counts `procs` down although it was not counted up;
- an answer of more than 65535 bytes wraps in the length that goes before it over TCP;
- an OPT record for which there is no room is left out without the tc flag.

On libev:

- this `ev.c` is older than the repair its `Changes` file names in lines 19-20: what a callback
  feeds with a higher priority waits for the next round, so the loop may sleep with pending
  events for `MAX_BLOCKTIME`;
- after a fork a plain file is added a second time to the list of those that `epoll` refuses
  (`ev_epoll.c:124`), since `fd_rearm_all()` forgets that it is there;
- `loop_fork()` calls `pipecb()`, and the signal watchers that it feeds wait until the
  following `epoll_wait()` is over;
- a signal noted when its last watcher is stopped stays noted, and goes to a watcher started
  later;
- `evpipe_write()` has none of the fences that an `ev_async_send()` from another thread needs.

Fairness. Threads run (weak fairness of their steps); that includes, in `VpnService`, that
`destroy()` returns or throws: `CallersReturn` says so of the guard, but when the callback has
swallowed the interrupt (above); messages in the looper's queue run
however many others come first (strong fairness, because the main thread is busy again and
again); a child that was told to stop exits; the timer fires. Users, the system and remote ends
are never obliged to act, a child that was not told to stop may run for ever, and a lock need
not be asked for. Who has the cache's lock gives it up (the client of `dump_cache()` is assumed
to read). In `Servers` the mutex is granted to a thread that keeps trying (strong
fairness: pthreads do not let one thread wait for ever while others come and go), timed waits
time out, and tests end. In `Query` the thread goes on, `poll()` and tests time out in the end
(strong fairness: they may be busy with packets in between, but a server does not send for
ever), and a test that was begun sends its query. In `Answer` threads run, and of those that
wait for their turn some begin. In `Ev` the loop's thread moves whenever it can and time passes
while it waits or runs a callback (strong fairness); handlers, files, callers and those who set
the clock owe nothing. Where a fairness formula's ENABLED would evaluate a whole answer or turn
again, the condition is written out (`Going`, `Runs`, `CanMove`, `CanTick`).

Bounds. `MaxStarts`, `MaxSpawns`, `MaxRevokes`, `MaxPosts`, `MaxDialogs`, `MaxStops`, `MaxTimers`,
`MaxBytes`, `MaxResets`, `MaxRestarts`, `MaxAnswers`, `MaxTime`, `MaxCommands`, `MaxCalls`,
`MaxConnects`, `MaxScreens`, `MaxQueries` and the bounds of `Ev`'s programs limit how often the
environment acts; each hazard needs at most three sessions, one revocation, one restart, one
command, one question, three clients, four changes of the screen or four calls of a callback.
`CHECK_DEADLOCK FALSE` is set where the system may come to rest (bounded environments);
`CacheTable` checks deadlock.

## What is proved

`Threads_proofs`, of guards, for any set of destroyers, any bound on children, with and without
callback:

- `Invariant`: `Spec => []Inv`. `NoOrphan` and `ThrowsOnlyChildless` are not inductive:
  `OneChild` (only the newest child can run, and none does where the guard spawns),
  `FieldFollows` (outside the assignment the field names the newest child) and `StartWaits`
  (the semaphore keeps `destroy()` away until there is a child or no guard) make them so.
- `GuardLeavesNoOrphan`, `ThrowMeansNoChild`: their consequences.
- `DestroyIsFinal`: the action property, from `StartWaits` (a destroyer that is done has joined
  the guard).
- `Refinement`: every step of the guard is a step of `ManagedProcess` or a stutter.

`CacheTable_proofs`, of the lock, for any finite set of threads with at most one status thread:

- `LockInvariant` and `WritersAlone`: each counter is the cardinality of the set of threads it
  counts. The lemmas about moving one thread between sets and about what a signal or broadcast
  does to program counters carry the proof.
- `NoLostWakeUp`: until the program begins to exit a sleeping thread always has somebody awake
  to wake it. `SomeoneAwake` is not inductive; it needs `KeptOutForWriter` (readers are
  suspended only for a writer that cannot time out) and `HandedToReaders` (a free lock with
  sleeping writers has been handed to readers that are not going to be suspended). The argument
  turns on the threshold: a release that hands over to readers leaves at most
  `SUSP_THRESH(r_pend)` writers waiting, so the readers it wakes get in.

`Vpn_proofs`, for any profiles and bounds, with revocations at any time:

- `WholeSessions` and `ContextsAreReset`: what is true of the objects depends on the steps that
  a thread has still to make, so the invariant `Mode` reads them. `Stopping`: what is left of
  `stopRunner()` tests, destroys and clears, in this order, all there is of the present session.
  `Starting`: there is exactly what the steps left do not make, and the states posted, with
  those still to be posted, end with CONNECTING, CONNECTED. `Resting`: nothing is left and
  STOPPED was announced last, or all that the session wants (`Wanted`) is there, tun2socks had
  a child and CONNECTED was. `Halted`: a revocation was cut short, and STOPPING was announced
  last. Who stops the service then does not get past the guard without a child (`Blocked`). A
  stop announces STOPPING before its first guard and STOPPED in its last step (`Heard`), so no
  STOPPED follows that STOPPING, and behind an earlier one that has not been heard yet a
  CONNECTING is queued (`Behind`): no start begins there, and `StoppingIsCutShort` holds. A start turns into a stop
  where it fails, a stop into a start where profiles are switched; one lemma for each says what a
  step does, and the lemmas about `StopRunner`, `StartRunner` and `HandleConnection` say
  what their steps clear and make. All this holds until a revocation overlaps a call.
- `FragmentFollows` and `StartedOnce`, of `VpnApp`: `FragmentAgrees` and `StartsOnce`, for any
  proxies and bounds, under two hypotheses that are the run's too: `OneProfile` (the screens
  pass -1) and `OneDialog` (two results of two dialogs do start two sessions: with three starts
  and `MaxDialogs = 2` TLC shows it). The invariant `AppMode` takes the main thread's code
  apart: steps of the service `q`, a request for a session `x`, a resume `y`. Of `q` it says
  what `Mode` says. `Ordered`: no CONNECTING is queued while the service is CONNECTED, none is
  to come unless it is STOPPED, and CONNECTED follows its CONNECTING at once. `Fragment`: whatever leads to a
  start (a load, an accepted click, an open dialog, a button that says connected when the
  screen resumes) excludes a start under way; for a click this is the number of messages it
  waits for, behind which no CONNECTING is queued. A registered fragment shows the state the
  service has (`Shows`); that `isServiceStarted` agrees in STOPPED and CONNECTED alone is why
  `FragmentAgrees` is about rest. A service that rests in STOPPING is `Halted`: there the
  fragment shows the state, and its flag is whatever it was. `FragmentAndService` is the case where nothing can overlap.

`Threads_proofs`, of counters, callbacks and sockets, for any numbers of threads, sessions and clients:

- `MonitorSafety`: while no methods of the monitor have crossed, one runs at a time, and what
  is not marked dirty has been looked at (`LookedAt`): a query that is about to clear the mark
  has read the present total.
- `CallbackSafety`: `CallbacksExact` is about who is in the list, and it rests on what the
  looper has still to run. What the fragment and the notifications believe is what the list
  holds (`FlagsAgree`); notifications are made one after the other (`InOrder`), only one that
  was registered is sent a broadcast (`Heard`), and a session with a live one ends up CONNECTED
  (`LiveConnects`), so the state that ends a session comes with no notification left; the
  changes of the screen that are queued for a notification alternate and begin with the
  opposite of what it has heard (`AnnouncedAlternate`, `Fresh`, `HearsAlternate`), so nobody
  registers twice, and the count is that of the list (`Counted`).
- `SocketSafety`: until a thread was stopped before it has bound, `SessionsApart` follows from
  `Apart`: a thread that was not started has touched nothing, that of the service's field owns
  the file, earlier ones are past it and have their sockets closed.

`CacheTable_proofs`, of the table, for any names, hash functions, number of buckets and lists of rules:

- `OrderKept` and `SearchesAreRight`: a search gives up at the first larger hash, so what it
  finds is right only while every chain is in the order of the longer hash (`ChainsOrdered`).
  That an entry put where its search stopped keeps the order, and that a search stops at a name
  wherever it is, are lemmas about `Place`, `InsertAt` and `RemoveAt`.
- `EmptyingIsRight`: the action property, from `Swept` (of what was there when emptying began
  nothing that its list selects is left in the buckets and places behind it; elsewhere than in
  a bucket `hep` is at its start, so others that shift a chain do no harm).

`FoldFacts`: a loop over a list is a fold of the community modules, and these are defined by
recursion through sets, with operators as parameters, so the library's induction theorems do
not apply. `FoldRun` says that a fold over a sequence runs through it from the first element to
the last, and `FoldKeeps` that what holds before it and is kept by each pass holds after it.
The pass (`Op`) and what it keeps (`Good`) are constants of the module: each loop is one
instance, and three parameters hold what the loop does not change.

`Cache_proofs`, for any names, RR types, answers, commands, record sizes, hour of the start,
limit of the cache and order of the entries on disk:

- `CacheInvariant`: `CacheInv` is made of `Books` (`cache_size` is the sum of the entries'
  sizes, `rrset_l` has each RR set that may be purged once and nothing else), `Ordered` (by
  time stamps, until a record is invalidated: that sets its stamp back where it stands),
  `Bounded` (the limit) and `Keeps` (a local record is what it was). The functions break
  `Books` half way: `add_cache()` merges an entry record by record, and what was added to it is
  counted only at the end, after what it replaced was taken off and while `purge_cache()` may
  already delete other entries to make room. So `Books` has a parameter, the size that
  `cache_size` still owes (or was paid in advance) for one entry. Each function of `cache.c` has
  a lemma that says what becomes of the debt; those of the functions within loops are the passes
  of an instance of `FoldFacts`. That a new time stamp keeps the order of the list is the lemma
  on insertion from the end, and that a list without the sets of a deleted entry keeps it is the
  one on `Unlisted`.
- `BooksStayExact`, `PurgingIsInOrder`: `BooksExact` and `PurgesOldest` follow.
- `LocalRecordsAreKept`: the action property, from `Keeps` of every function that a step calls.

`Servers_proofs`, for any finite sets of threads, any number of sections and addresses and any
configurations:

- `Invariant` and `DataStaysUnderUsers`: `UsersUndisturbed` is not inductive. `Granted`
  (exclusive access means the mutex and no users), `Named` (past the start, "no status thread"
  means it is over, so a new one does not take the place of one that uses data) and
  `StartsFirst` (nobody else runs before `main()` goes on) make it so. One lemma says what a
  step has to do to keep the invariant, and three more cover the shapes of nearly all steps: a
  plain move, a user that leaves, a request for a test.
- `RequestsAreKept`: `NothingForgotten` is about an address that is due when the status thread
  is over or asleep. The invariant follows the thread through its pass: what the pass has
  behind it (`Before`, `Here`) is not due, unless another pass follows, a signal came in
  between or the thread goes on for the section's sake; and it ends or sleeps (`Over`,
  `Asleep`) only when nothing else is left. Each excuse in `lost` is one step of the code.

`Answering_proofs`, for any finite set of threads and any limits:

- `Counters`: `qprocs` and `procs` are cardinalities of sets of threads, so the lemmas are
  about one thread that moves between sets; that neither exceeds its limit follows from the
  guards once they count exactly.
- `Exits`: `LastServerExits` needs `Sockets` (a server that runs has its socket open) and
  `Unstarted` (what the main thread is about to start has not run yet).
- `Implements`: whatever is asked, cached and answered, every step of the threads with all
  they do is a step of `Admission` or a stutter, so `CountersThroughout` and `ExitsThroughout` follow from the theorems above.
- `AnswersSound`: `MessageSound`, for any queries, cache, outcomes and sizes. That names can be
  read needs to know what `compress_name()` may rely on. A pointer leads to a remembered name,
  and this has to be written out from there on; but a remembered name may end in a pointer
  itself, and it may belong to a record that was taken back. `Covered`: of all remembered names
  with the same end, the first has it written out, if a pointer can reach it, so looking for the
  longest match at its first place finds letters and never a pointer. `NameTakenBack`: the only
  records taken back are addresses, whose data has no name that is compressed; their owners were
  written before as data of a record that stays, so no name is forgotten that a pointer can
  still reach. `Sound` is about records: `sva` has each that must not come twice (`Recorded`),
  and what `ar` plans for the last sections is no repetition (`Planned`, `ServersKnown`).
  `HostsKnown` says that the hosts whose addresses are added are names in the message. Each loop
  of `dns_answer.c` is an instance of `FoldFacts`. A datagram fits by `UdpMax` and what
  `Truncated` cuts off.
- `AuthorityIsLocal`: while `aa` is set every record of the answer section is local (`Jobs`);
  `WithEntry` clears it together with the first that is not.

`Resolve_proofs`, for any servers, replies, caches, questions and number of hops:

- `NoCircles`: `NotCircular` compares a call with all that wait for it, and the code looks only
  at one list, the hints it was handed. The invariant `Nested` says why this is enough: what a
  call must not look up again (`Seen`: its hints and its own question) contains all that the
  calls above it must not, but for the discovery of root servers, whose question is of another
  type; and a call of the discovery has nothing but the discovery above it (`Placed`). A
  referral repeats its caller's question with its caller's hints, so it must test its own
  question besides the hints: that is the mutant. No other step changes a call's question, hints
  or hops, which is a lemma for each of the operators that steps consist of.
- `QueriesNeverLeak` and `ForeignersAreNotHeard`: `NothingLeaks`, and the action property
  `NothingForeign`. Neither is inductive: whether a query is open when its call ends depends on
  all that came of it since its batch was sent, and whether a server may speak for a name on
  the referrals of the calls above. The invariant `IInv` says of every call (`Framed`), by its
  place, what its queries can be. In the loops (`Asks`), those that were not sent are `Fresh`,
  the others `Kept`, and the one at work may have been answered and wait to be tried again
  (`Current`); every query with an open socket or a message is one that waits for its server
  (`Tidy`). Past the loops (`Settled`) nothing is open. `Believed` says that a server reached by a
  referral is asked about names in its domain only: `ToDo` carries this from the answer's NS
  records through the look-ups of their addresses to the queries of the next call (`Linked`),
  and the answer that is kept was given by one of the queries (`Answers`, `Saves`), so it may
  be stored at the end under the name that was asked, at whatever place it is stored. What an
  answer says of other names is stored at once, after the test `MaySpeakFor` (`Allowed`). Both
  need the shape of what is passed on (`IsStored`, `Sections`, `ToAsk`): a reply is read record
  by record, and each loop of `rrs2cent()`, of `p_exec_query()`, of `add_cache()` and of the choice
  of servers is an instance of `FoldFacts`. One lemma for each outcome of `p_query_sm()` and of
  `p_exec_query()`, one for each place of a call and one for each action: it either replaces the
  call at the top by one that fits its new place (`Stays`), pushes one, or pops one
  (`FramesGoOn`, `FramesCall`, `Returned`). That step lemma also gives `Heard`, which says where
  a change of the cache comes from.

`Threads_proofs`, of the loop's handshake, for any disjoint sets of signals and asyncs:

- `PipeTypes`, and `NoWakeupIsLost`: a loop that waits while something was raised and not fed
  has a readable eventfd. It is not inductive: `Noted` (what was raised is noted, with
  `sig_pending` or `async_pending` set unless `pipecb()` is scanning and has still to come to
  it), `Announced` (a flag that is set means that the eventfd is readable, a write was skipped
  or `pipecb()` is pending, or is at work and has not tested the flag) and `Wanted` (the write
  is wanted from before the loop looks until the kernel has answered) make it so.

Type invariants (of `GuardedProcess`, `VpnService`, `VpnApp`, the parts of `Session`, `CacheLock`,
`Servers`, `Admission`, `EvPipe`) are proved with the invariants they belong to rather than checked by a run.

Assumptions: the named ASSUMEs of the modules, which TLC evaluates in every run.

Only model-checked: every liveness property, the walks of `Hash`, and of `Ev` all but the
handshake. The order of its heaps is kept by walks along an index that doubles or halves, and
their proof is still to come. Of inductions over data the prover can do those that `FoldFacts`
states, but not one whose pass is an operator that was handed to another (`SelectSeq`,
`SortSeq`): the lists of `Resolve` are therefore filtered by a set (`Among`). Liveness under fairness is beyond it.

## What is not modelled

Configuration files, addresses, routes, strings, layout, drawing, dependency injection, list
and image utilities: data or output without control. The bytes of DNS messages. Parsing pdnsd's
configuration and its control socket's commands, but for what these do to other parts. What
libev has that the program does not use (above). Vendored and empty submodules. The parts of
the plan that are still to come are below.

## Plan

Done: guarded processes, the service, its screen, the traffic counters, the socket threads and
the traffic callbacks; of pdnsd the cache lock, the cache, its hash table, the server data,
querying and answering; libev's loop; proofs for guards, the service, its screen, its counters, callbacks
and sockets, lock, cache, hash table, server data, look-ups (nesting, leaks, foreign records), admission, answers and the loop's handshake.

Still to come:

1. `Cache`: a name's parents (wild cards, negated subdomains).
2. `SignIn`: requests and results against a detached view.
3. Composition of `GuardedProcess` with `VpnService`: the captured descriptor of the restart
   callback, and a guard that gives up while the service is CONNECTED.
4. Proofs: the order of the heaps, whose walks are folds (`HeapsExact`), and `KernelCovers`.
