------------------------------ MODULE Servers ------------------------------
(***************************************************************************)
(* pdnsd's server data (servers.c): the mutex servers_lock, the count of   *)
(* users that keeps the data in place while the mutex is free, the server  *)
(* status thread with its tests and its discovery of root servers, the     *)
(* tests of query handlers, and the control commands that ask for tests or *)
(* replace data.                                                           *)
(*                                                                         *)
(* A section has NAddrs addresses. An address is due when its time stamp   *)
(* i_ts is 0. Whether a server is up is the outcome of a test and left     *)
(* open, and so is whether the interval since the last test has passed.    *)
(***************************************************************************)
EXTENDS Integers, FiniteSets

CONSTANTS
  Queries,      \* threads that resolve a query
  Controls,     \* threads that serve control commands
  Status,       \* the server status thread
  NSections,    \* server sections of a configuration
  NAddrs,       \* addresses of a section
  Configs,      \* the configurations that are loaded
  MaxCommands   \* bound on control commands

ASSUME ThreadAssumption ==
  /\ IsFiniteSet(Queries) /\ IsFiniteSet(Controls)
  /\ Queries \intersect Controls = {} /\ Status \notin Queries \union Controls
  /\ {"nobody", "main"} \intersect (Queries \union Controls \union {Status}) = {}
ASSUME SizeAssumption ==
  /\ NSections \in Nat \ {0} /\ NAddrs \in Nat \ {0} /\ MaxCommands \in Nat

\* What a section's entry says of tests; interval 0 is "never".
Kinds == [interval : {"regular", "never", "onquery", "ontimeout"},
          uptest : {"none", "address", "ping", "command"},
          scheme : BOOLEAN, rootserver : BOOLEAN]

ASSUME ConfigAssumption == Configs \subseteq [1..NSections -> Kinds]

VARIABLES
  servers_lock,        \* the thread that holds the mutex, or "nobody"
  server_data_users, server_status_ping, retest_flag, signal_interrupt,
  servstat_thrid,      \* "main": no status thread
  sent,                \* a signal is on its way to the status thread
  kind,                \* the configuration, section by section
  rootserver,          \* sections whose root servers are to be discovered
  due,                 \* addresses with time stamp 0
  origin,              \* where a section's addresses come from
  pc,                  \* where each thread is
  at,                  \* what it tests: addresses adr..last of sec, then back
  keep_testing, adrs,  \* locals of the status thread
  cmd,                 \* the command each control thread serves
  main,                \* main() is in start_servstat_thread(), or has gone on
  commands,            \* commands so far
  stale,               \* threads whose data was replaced while they used it
  lost                 \* ways in which requests may have been lost

lockvars == <<servers_lock, server_data_users, server_status_ping>>
flags    == <<retest_flag, signal_interrupt, sent>>
config   == <<kind, rootserver, origin>>
locals   == <<keep_testing, adrs>>
ctl      == <<cmd, commands>>
history  == <<stale, lost>>
vars     == <<lockvars, flags, servstat_thrid, config, due, pc, at, locals, ctl, main, history>>

Threads  == Queries \union Controls \union {Status}
Walkers  == Queries \union {Status}
Sections == 1..NSections
Addrs    == 1..NAddrs

NeedsIntermittentTesting(k) == k.interval = "regular" /\ (k.uptest # "none" \/ k.scheme)
NeedsTesting(k) == k.interval \in {"regular", "ontimeout"} /\ (k.uptest # "none" \/ k.scheme)

All(s) == {s} \X Addrs

\* A configuration as the parser leaves it.
Fresh(ks) == UNION {All(s) : s \in {s \in Sections : ks[s].interval \in {"regular", "never"}}}
Roots(ks) == {s \in Sections : ks[s].rootserver}

Init ==
  /\ servers_lock = "nobody" /\ server_data_users = 0 /\ server_status_ping = 0
  /\ retest_flag = FALSE /\ signal_interrupt = FALSE /\ sent = FALSE
  /\ servstat_thrid = "main" /\ main = "starts"
  /\ kind \in Configs
  /\ rootserver = Roots(kind) /\ due = Fresh(kind)
  /\ origin = [s \in Sections |-> "config"]
  /\ pc = [t \in Threads |-> IF t = Status THEN "new" ELSE "idle"]
  /\ at = [t \in Walkers |-> [sec |-> 1, adr |-> 1, last |-> 1, back |-> "next"]]
  /\ keep_testing = FALSE /\ adrs = "none"
  /\ cmd = [c \in Controls |-> <<>>] /\ commands = 0
  /\ stale = {} /\ lost = {}

-----------------------------------------------------------------------------
Free  == servers_lock = "nobody"
At(t, l) == pc[t] = l /\ servers_lock = t
Goes(t, l) == pc' = [pc EXCEPT ![t] = l]

\* --server_data_users, which wakes those who wait for 0.
LeaveUsers(t, l) ==
  /\ server_data_users' = server_data_users - 1
  /\ pc' = [u \in Threads |-> IF u = t THEN l
                              ELSE IF pc[u] = "waiting" /\ server_data_users = 1 THEN "woken"
                              ELSE pc[u]]

\* Thread t asks for a test and goes on at l: the status thread is started or woken.
AskTest(t, l) ==
  /\ servstat_thrid' = Status
  /\ pc' = [pc EXCEPT ![t] = l,
                      ![Status] = IF servstat_thrid = "main" THEN "new"
                                  ELSE IF @ = "asleep" THEN "roused" ELSE @]

\* Variant: the flag is not set.
AskTestUnflagged(t, l) ==
  /\ AskTest(t, l)
  /\ UNCHANGED retest_flag

AskTestFlagged(t, l) ==
  /\ AskTest(t, l)
  /\ retest_flag' = IF servstat_thrid = "main" THEN retest_flag ELSE TRUE

-----------------------------------------------------------------------------
(* retest() and uptest(), in the status thread and in test_onquery().      *)
Sec(t)   == at[t].sec
Kind(t)  == kind[Sec(t)]
Tests(t) == {Sec(t)} \X (at[t].adr..at[t].last)

Retests(t, first, last, back) ==
  /\ at' = [at EXCEPT ![t] = [@ EXCEPT !.adr = first, !.last = last, !.back = back]]
  /\ Goes(t, "retest")

\* Variant: the time is not set either.
RetestNothingAtAll(t) ==
  /\ At(t, "retest") /\ (Kind(t).uptest = "none" \/ Kind(t).scheme)
  /\ Goes(t, at[t].back)
  /\ UNCHANGED <<lockvars, flags, servstat_thrid, config, due, at, locals, ctl, main, history>>

\* The scheme does not match, or there is no test: only the time is set.
RetestNothing(t) ==
  /\ At(t, "retest") /\ (Kind(t).uptest = "none" \/ Kind(t).scheme)
  /\ due' = due \ Tests(t)
  /\ Goes(t, at[t].back)
  /\ UNCHANGED <<lockvars, flags, servstat_thrid, config, at, locals, ctl, main, history>>

Uptest(t) ==
  /\ At(t, "retest") /\ Kind(t).uptest # "none"
  /\ server_data_users' = server_data_users + 1
  /\ server_status_ping' = IF servstat_thrid = t /\ Kind(t).uptest \in {"address", "ping"}
                             THEN 1 ELSE server_status_ping
  /\ servers_lock' = "nobody" /\ Goes(t, "testing")
  /\ UNCHANGED <<flags, servstat_thrid, config, due, at, locals, ctl, main, history>>

\* The next address of the section, or the end of retest().
UptestEnds(t) ==
  /\ pc[t] = "testing" /\ Free /\ servers_lock' = t
  /\ server_status_ping' = IF t = Status THEN 0 ELSE server_status_ping
  /\ \/ /\ Kind(t).uptest = "address" /\ ~signal_interrupt
        /\ due' = due \ {<<Sec(t), at[t].adr>>}
        /\ \/ /\ at[t].adr < at[t].last
              /\ LeaveUsers(t, "retest") /\ at' = [at EXCEPT ![t].adr = @ + 1]
           \/ /\ at[t].adr = at[t].last
              /\ LeaveUsers(t, at[t].back) /\ UNCHANGED at
     \/ /\ Kind(t).uptest # "address"
        /\ due' = IF signal_interrupt /\ Kind(t).uptest = "ping" THEN due ELSE due \ Tests(t)
        /\ LeaveUsers(t, at[t].back) /\ UNCHANGED at
     \/ /\ Kind(t).uptest = "address" /\ signal_interrupt
        /\ LeaveUsers(t, at[t].back) /\ UNCHANGED <<at, due>>
  /\ UNCHANGED <<flags, servstat_thrid, config, locals, ctl, main, history>>

NextSection(t) ==
  /\ At(t, "next")
  /\ at' = [at EXCEPT ![t].sec = IF @ = NSections THEN 1 ELSE @ + 1]
  /\ Goes(t, IF Sec(t) = NSections THEN "end" ELSE "section")
  /\ UNCHANGED <<lockvars, flags, servstat_thrid, config, due, locals, ctl, main, history>>

-----------------------------------------------------------------------------
(* servstat_thread()                                                       *)
PassBegins ==
  /\ keep_testing' = FALSE /\ retest_flag' = FALSE
  /\ Goes(Status, "section")

StatusStarts ==
  /\ pc[Status] = "new" /\ Free /\ servers_lock' = Status
  /\ signal_interrupt' = FALSE /\ PassBegins
  /\ UNCHANGED <<server_data_users, server_status_ping, sent, servstat_thrid, config, due, at,
                 adrs, ctl, main, history>>

Section ==
  /\ At(Status, "section") /\ Sec(Status) \notin rootserver
  /\ keep_testing' = (keep_testing \/ NeedsTesting(Kind(Status)))
  /\ \/ All(Sec(Status)) \subseteq due /\ ~signal_interrupt /\ Retests(Status, 1, NAddrs, "next")
     \/ All(Sec(Status)) \subseteq due /\ signal_interrupt /\ Goes(Status, "next") /\ UNCHANGED at
     \/ /\ ~(All(Sec(Status)) \subseteq due)
        /\ at' = [at EXCEPT ![Status].adr = 1] /\ Goes(Status, "each")
  /\ UNCHANGED <<lockvars, flags, servstat_thrid, config, due, adrs, ctl, main, history>>

\* The next address that is due, or whose interval has passed.
Each ==
  /\ At(Status, "each")
  /\ \/ /\ ~signal_interrupt
        /\ \E a \in at[Status].adr..NAddrs :
             /\ <<Sec(Status), a>> \in due \/ NeedsIntermittentTesting(Kind(Status))
             /\ \A b \in at[Status].adr..(a - 1) : <<Sec(Status), b>> \notin due
             /\ Retests(Status, a, a, "tested")
     \/ /\ signal_interrupt \/ \A a \in at[Status].adr..NAddrs : <<Sec(Status), a>> \notin due
        /\ Goes(Status, "next") /\ UNCHANGED at
  /\ UNCHANGED <<lockvars, flags, servstat_thrid, config, due, locals, ctl, main, history>>

Tested ==
  /\ At(Status, "tested")
  /\ at' = [at EXCEPT ![Status].adr = @ + 1] /\ Goes(Status, "each")
  /\ UNCHANGED <<lockvars, flags, servstat_thrid, config, due, locals, ctl, main, history>>

\* A section with root servers to be discovered is tested first, or not at all.
RootSection ==
  /\ At(Status, "section") /\ Sec(Status) \in rootserver
  /\ \/ /\ Kind(Status).scheme
        /\ due' = due \ All(Sec(Status)) /\ Goes(Status, "rootdown") /\ UNCHANGED at
     \/ /\ Kind(Status).uptest \in {"address", "ping"} /\ Kind(Status).interval = "regular"
        /\ Goes(Status, "rootup") /\ UNCHANGED <<due, at>>
     \/ /\ Kind(Status).uptest \in {"address", "ping"} /\ Kind(Status).interval # "regular"
        /\ due' = due \ All(Sec(Status)) /\ UNCHANGED at
        /\ \/ Goes(Status, "rootup")
           \/ All(Sec(Status)) \intersect due = {} /\ Goes(Status, "rootdown")
     \/ /\ Kind(Status).uptest \in {"none", "command"}
        /\ Retests(Status, 1, NAddrs, "roottested") /\ UNCHANGED due
  /\ UNCHANGED <<lockvars, flags, servstat_thrid, config, locals, ctl, main, history>>

RootTested ==
  /\ At(Status, "roottested")
  /\ \/ Goes(Status, "rootup")
     \/ Goes(Status, "rootdown")
  /\ UNCHANGED <<lockvars, flags, servstat_thrid, config, due, at, locals, ctl, main, history>>

RootDown ==
  /\ At(Status, "rootdown")
  /\ keep_testing' = (keep_testing \/ NeedsIntermittentTesting(Kind(Status)))
  /\ Goes(Status, "next")
  /\ UNCHANGED <<lockvars, flags, servstat_thrid, config, due, at, adrs, ctl, main, history>>

ResolvRootserverAddrs ==
  /\ At(Status, "rootup")
  /\ server_data_users' = server_data_users + 1
  /\ servers_lock' = "nobody" /\ Goes(Status, "resolving")
  /\ UNCHANGED <<server_status_ping, flags, servstat_thrid, config, due, at, locals, ctl, main, history>>

Resolved ==
  /\ pc[Status] = "resolving" /\ Free /\ servers_lock' = Status
  /\ \/ LeaveUsers(Status, "filling") /\ adrs' = "held" /\ UNCHANGED keep_testing
     \/ LeaveUsers(Status, "next") /\ keep_testing' = TRUE /\ UNCHANGED adrs
  /\ UNCHANGED <<server_status_ping, flags, servstat_thrid, config, due, at, ctl, main, history>>

\* The wait for the users to leave.
FillWaits ==
  /\ At(Status, "filling") /\ server_data_users > 0 /\ adrs = "held"
  /\ servers_lock' = "nobody" /\ Goes(Status, "waiting")
  /\ UNCHANGED <<server_data_users, server_status_ping, flags, servstat_thrid, config, due, at,
                 locals, ctl, main, history>>

FillWoken ==
  /\ pc[Status] = "woken" /\ Free /\ servers_lock' = Status /\ Goes(Status, "filling")
  /\ UNCHANGED <<server_data_users, server_status_ping, flags, servstat_thrid, config, due, at,
                 locals, ctl, main, history>>

\* A timeout frees the addresses and goes on with the loop.
FillTimesOut ==
  /\ pc[Status] = "waiting" /\ Free
  /\ adrs' = "freed" /\ keep_testing' = TRUE /\ Goes(Status, "woken")
  /\ UNCHANGED <<lockvars, flags, servstat_thrid, config, due, at, ctl, main, history>>

\* The section gets the addresses found, and is then treated like any other.
Fill ==
  /\ At(Status, "filling") /\ server_data_users = 0 /\ adrs = "held" /\ Status \notin stale
  /\ adrs' = "none"
  /\ \/ /\ rootserver' = rootserver \ {Sec(Status)}
        /\ origin' = [origin EXCEPT ![Sec(Status)] = "root"]
        /\ due' = IF Kind(Status).interval \in {"regular", "never"}
                    THEN due \union All(Sec(Status)) ELSE due \ All(Sec(Status))
        /\ Goes(Status, "section") /\ UNCHANGED keep_testing
     \/ keep_testing' = TRUE /\ Goes(Status, "next") /\ UNCHANGED <<rootserver, origin, due>>
  /\ UNCHANGED <<lockvars, flags, servstat_thrid, kind, at, ctl, main, history>>

\* Freed addresses are freed again, because a wait past its time is over at once,
\* or are stored; or the section is one of a configuration that is gone.
FillUndefined ==
  /\ At(Status, "filling")
  /\ adrs = "freed" \/ (Status \in stale /\ server_data_users = 0)
  /\ servers_lock' = "nobody" /\ Goes(Status, "undefined")
  /\ UNCHANGED <<server_data_users, server_status_ping, flags, servstat_thrid, config, due, at,
                 locals, ctl, main, history>>

PassEnds ==
  /\ At(Status, "end")
  /\ \/ ~signal_interrupt /\ retest_flag /\ PassBegins
        /\ UNCHANGED <<servers_lock, signal_interrupt, sent, servstat_thrid, lost>>
     \/ /\ signal_interrupt \/ ~retest_flag
        /\ signal_interrupt' = FALSE /\ servers_lock' = "nobody"
        /\ lost' = IF signal_interrupt THEN lost \union {"interrupted"} ELSE lost
        /\ \/ keep_testing /\ Goes(Status, "asleep") /\ UNCHANGED <<servstat_thrid, sent>>
           \/ ~keep_testing /\ Goes(Status, "off") /\ servstat_thrid' = "main" /\ sent' = FALSE
        /\ UNCHANGED <<retest_flag, keep_testing>>
  /\ UNCHANGED <<server_data_users, server_status_ping, config, due, at, adrs, ctl, main, stale>>

\* A signal, or the end of the wait.
StatusWakes ==
  /\ pc[Status] \in {"asleep", "roused"} /\ Free /\ servers_lock' = Status
  /\ PassBegins
  /\ UNCHANGED <<server_data_users, server_status_ping, signal_interrupt, sent, servstat_thrid,
                 config, due, at, adrs, ctl, main, history>>

SigintHandler ==
  /\ sent /\ sent' = FALSE /\ signal_interrupt' = TRUE
  /\ UNCHANGED <<lockvars, retest_flag, servstat_thrid, config, due, pc, at, locals, ctl, main, history>>

\* main() stores servstat_thrid after the thread it names has begun to run.
MainGoesOn ==
  /\ main = "starts" /\ main' = "goes on"
  /\ servstat_thrid' = Status
  /\ lost' = IF pc[Status] = "off" THEN lost \union {"late"} ELSE lost
  /\ UNCHANGED <<lockvars, flags, config, due, pc, at, locals, ctl, stale>>

-----------------------------------------------------------------------------
(* Query handlers.                                                         *)
TestOnquery(q) ==
  /\ main = "goes on" /\ pc[q] = "idle" /\ Free /\ servers_lock' = q
  /\ \E s \in Sections : kind[s].interval = "onquery"
  /\ Goes(q, "section")
  /\ UNCHANGED <<server_data_users, server_status_ping, flags, servstat_thrid, config, due, at,
                 locals, ctl, main, history>>

OnquerySection(q) ==
  /\ At(q, "section")
  /\ \/ /\ Kind(q).interval = "onquery" /\ Sec(q) \notin rootserver
        /\ Retests(q, 1, NAddrs, "next") /\ UNCHANGED due
     \/ /\ Kind(q).interval = "onquery" /\ Sec(q) \in rootserver
        /\ due' = due \union All(Sec(q)) /\ Goes(q, "next") /\ UNCHANGED at
     \/ Kind(q).interval # "onquery" /\ Goes(q, "next") /\ UNCHANGED <<due, at>>
  /\ UNCHANGED <<lockvars, flags, servstat_thrid, config, locals, ctl, main, history>>

OnqueryEnds(q) ==
  /\ At(q, "end") /\ servers_lock' = "nobody"
  /\ \/ /\ \E s \in rootserver : kind[s].interval = "onquery"
        /\ AskTestFlagged(q, "idle")
     \/ /\ \A s \in rootserver : kind[s].interval # "onquery"
        /\ Goes(q, "idle") /\ UNCHANGED <<servstat_thrid, retest_flag>>
  /\ UNCHANGED <<server_data_users, server_status_ping, signal_interrupt, sent, config, due, at,
                 locals, ctl, main, history>>

LockServerData(q) ==
  /\ main = "goes on" /\ pc[q] = "idle" /\ Free
  /\ server_data_users' = server_data_users + 1 /\ Goes(q, "using")
  /\ UNCHANGED <<servers_lock, server_status_ping, flags, servstat_thrid, config, due, at,
                 locals, ctl, main, history>>

UnlockServerData(q) ==
  /\ pc[q] = "using" /\ Free
  /\ LeaveUsers(q, "idle")
  /\ UNCHANGED <<servers_lock, server_status_ping, flags, servstat_thrid, config, due, at,
                 locals, ctl, main, history>>

\* A server answered, or did not. Only the addresses of sections that need tests
\* are handed to the query that way (needs_testing).
SchedServerTest(q) ==
  /\ main = "goes on" /\ pc[q] = "idle" /\ Free
  /\ \E s \in {s \in Sections : NeedsTesting(kind[s])}, a \in Addrs :
       \/ /\ due' = due \ {<<s, a>>} /\ UNCHANGED pc
       \/ /\ <<s, a>> \notin due /\ due' = due \union {<<s, a>>}
          /\ pc' = [pc EXCEPT ![Status] = IF @ = "asleep" THEN "roused" ELSE @]
  /\ UNCHANGED <<lockvars, flags, servstat_thrid, config, at, locals, ctl, main, history>>

-----------------------------------------------------------------------------
(* Control commands.                                                       *)
Serves(c) ==
  /\ main = "goes on" /\ pc[c] = "idle" /\ Free
  /\ commands < MaxCommands /\ commands' = commands + 1

\* mark_servers(), and change_servers() with the addresses a section has already.
MarkServers(c) ==
  /\ Serves(c)
  /\ \E S \in {{s} : s \in Sections} \union {Sections} :
       LET addrs == UNION {All(s) : s \in S} IN
       \/ /\ due' = due \ addrs
          /\ UNCHANGED <<servstat_thrid, retest_flag, pc>>
       \/ /\ due' = due \ addrs /\ S \intersect rootserver # {}
          /\ AskTestFlagged(c, "idle")
       \/ /\ addrs \ due # {} /\ due' = due \union addrs
          /\ AskTestFlagged(c, "idle")
  /\ UNCHANGED <<lockvars, signal_interrupt, sent, config, at, locals, cmd, main, history>>

\* exclusive_lock_server_data(), also at the beginning of change_servers().
LockExclusive(c) ==
  /\ Serves(c)
  /\ \E m \in {<<"reload">>} \union ({"mark", "retest"} \X Sections) : cmd' = [cmd EXCEPT ![c] = m]
  /\ sent' = (sent \/ (server_status_ping > 0 /\ servstat_thrid # "main"))
  /\ servers_lock' = IF server_data_users = 0 THEN c ELSE "nobody"
  /\ Goes(c, IF server_data_users = 0 THEN "granted" ELSE "waiting")
  /\ UNCHANGED <<server_data_users, server_status_ping, retest_flag, signal_interrupt, servstat_thrid,
                 config, due, at, locals, main, history>>

\* Variant: the number of users is not looked at again.
WokenUnchecked(c) ==
  /\ pc[c] = "woken" /\ Free
  /\ servers_lock' = c /\ Goes(c, "granted")
  /\ UNCHANGED <<server_data_users, server_status_ping, flags, servstat_thrid, config, due, at,
                 locals, ctl, main, history>>

Woken(c) ==
  /\ pc[c] = "woken" /\ Free
  /\ servers_lock' = IF server_data_users = 0 THEN c ELSE "nobody"
  /\ Goes(c, IF server_data_users = 0 THEN "granted" ELSE "waiting")
  /\ UNCHANGED <<server_data_users, server_status_ping, flags, servstat_thrid, config, due, at,
                 locals, ctl, main, history>>

\* The wait times out, or there is no memory for the new addresses.
GivesUp(c) ==
  /\ \/ pc[c] = "waiting" /\ Free
     \/ At(c, "granted") /\ cmd[c] # <<"reload">>
  /\ servers_lock' = "nobody" /\ Goes(c, "idle")
  /\ cmd' = [cmd EXCEPT ![c] = <<>>]
  /\ UNCHANGED <<server_data_users, server_status_ping, flags, servstat_thrid, config, due, at,
                 locals, commands, main, history>>

\* Those who have pointers to the data: its users, and across a reload the status
\* thread in its wait, which keeps a pointer to its section.
UsingPlaces == {"using", "testing", "resolving"}
Using == {t \in Threads : pc[t] \in UsingPlaces}
Keeping == Using \union {t \in {Status} : pc[t] \in {"waiting", "woken"}}

\* The status thread goes on for a section with root servers to discover only if it is tested at
\* intervals, though its addresses are tested on time-outs too once they are known.
Unattended(k) == NeedsTesting(k) /\ ~NeedsIntermittentTesting(k)

Change(c) ==
  /\ At(c, "granted") /\ cmd[c] # <<"reload">>
  /\ LET s == cmd[c][2] IN
       /\ rootserver' = rootserver \ {s}
       /\ origin' = [origin EXCEPT ![s] = "command"]
       /\ \/ /\ cmd[c][1] = "mark" /\ due' = due \ All(s)
             /\ Goes(c, "idle") /\ UNCHANGED <<servstat_thrid, retest_flag>>
             /\ lost' = IF s \in rootserver /\ Unattended(kind[s]) THEN lost \union {"unattended"} ELSE lost
          \/ /\ cmd[c][1] = "retest" /\ due' = due \union All(s)
             /\ AskTestFlagged(c, "idle") /\ UNCHANGED lost
  /\ stale' = stale \union Using
  /\ servers_lock' = "nobody" /\ cmd' = [cmd EXCEPT ![c] = <<>>]
  /\ UNCHANGED <<server_data_users, server_status_ping, signal_interrupt, sent, kind, at,
                 locals, commands, main>>

Reload(c) ==
  /\ At(c, "granted") /\ cmd[c] = <<"reload">>
  /\ \E ks \in Configs :
       kind' = ks /\ rootserver' = Roots(ks) /\ due' = Fresh(ks)
  /\ origin' = [s \in Sections |-> "config"]
  /\ stale' = stale \union Keeping
  /\ AskTest(c, "idle")
  /\ servers_lock' = "nobody" /\ cmd' = [cmd EXCEPT ![c] = <<>>]
  /\ UNCHANGED <<server_data_users, server_status_ping, flags, at, locals, commands, main, lost>>

-----------------------------------------------------------------------------
Walk(t) == RetestNothing(t) \/ Uptest(t) \/ UptestEnds(t) \/ NextSection(t)

StatusStep ==
  \/ Walk(Status) \/ StatusStarts \/ Section \/ Each \/ Tested
  \/ RootSection \/ RootTested \/ RootDown \/ ResolvRootserverAddrs \/ Resolved
  \/ FillWaits \/ FillWoken \/ FillTimesOut \/ Fill \/ FillUndefined
  \/ PassEnds \/ StatusWakes

QueryGoesOn(q) == Walk(q) \/ OnquerySection(q) \/ OnqueryEnds(q) \/ UnlockServerData(q)
ControlGoesOn(c) == Woken(c) \/ GivesUp(c) \/ Change(c) \/ Reload(c)

Next ==
  \/ StatusStep \/ SigintHandler \/ MainGoesOn
  \/ \E q \in Queries : QueryGoesOn(q) \/ TestOnquery(q) \/ LockServerData(q) \/ SchedServerTest(q)
  \/ \E c \in Controls : ControlGoesOn(c) \/ MarkServers(c) \/ LockExclusive(c)

Spec == Init /\ [][Next]_vars

\* Threads get the lock in the end, tests end, the timed waits time out, and the
\* signal is delivered. Nobody has to ask for anything.
FairSpec ==
  /\ Spec
  /\ SF_vars(StatusStep) /\ SF_vars(FillTimesOut) /\ WF_vars(SigintHandler) /\ WF_vars(MainGoesOn)
  /\ \A q \in Queries : SF_vars(QueryGoesOn(q))
  /\ \A c \in Controls : SF_vars(ControlGoesOn(c)) /\ SF_vars(GivesUp(c))

-----------------------------------------------------------------------------
Places == {"idle", "section", "retest", "testing", "next", "end", "using", "waiting", "woken",
           "granted", "new", "each", "tested", "roottested", "rootup", "rootdown", "resolving",
           "filling", "asleep", "roused", "off", "undefined"}

TypeOK ==
  /\ servers_lock \in Threads \union {"nobody"}
  /\ server_data_users \in Nat /\ server_status_ping \in 0..1
  /\ {retest_flag, signal_interrupt, sent, keep_testing} \subseteq BOOLEAN
  /\ servstat_thrid \in {"main", Status} /\ main \in {"starts", "goes on"}
  /\ kind \in Configs /\ rootserver \subseteq Sections
  /\ due \subseteq Sections \X Addrs
  /\ origin \in [Sections -> {"config", "command", "root"}]
  /\ pc \in [Threads -> Places]
  /\ at \in [Walkers -> [sec : Sections, adr : 1..(NAddrs + 1), last : Addrs,
                         back : {"next", "tested", "roottested"}]]
  /\ adrs \in {"none", "held", "freed"}
  /\ cmd \in [Controls -> {<<>>, <<"reload">>} \union ({"mark", "retest"} \X Sections)]
  /\ commands \in 0..MaxCommands
  /\ stale \subseteq Threads /\ lost \subseteq {"interrupted", "late", "unattended"}

\* server_data_users counts those who use server data without the mutex, and nobody
\* replaces data under them (change_servers, reload_config_file). Only the status
\* thread, which keeps a pointer to its section while it waits for the users to
\* leave, may find the configuration replaced.
UsersUndisturbed ==
  /\ server_data_users = Cardinality(Using)
  /\ stale \subseteq {Status}

\* A test that somebody asked for is not forgotten: when the status thread ends
\* nothing is due, and when it sleeps until a timer no flag is up, unless a signal
\* has interrupted a pass, the thread was over before main() stored its name, or a
\* command has told it the addresses of a section it does not go on for
\* (retest_flag, servstat_thrid, RootDown).
NothingForgotten ==
  /\ pc[Status] = "off" /\ lost = {} => due \subseteq rootserver \X Addrs
  /\ pc[Status] = "asleep" /\ retest_flag => "interrupted" \in lost

\* An address that is due is tested in the end, with the same exceptions and as long
\* as the discovery of root servers has not gone wrong.
DueIsTested ==
  \A s \in Sections, a \in Addrs :
    <<s, a>> \in due /\ s \notin rootserver
      ~> <<s, a>> \notin due \/ s \in rootserver \/ lost # {} \/ pc[Status] = "undefined"

\* "Stop trying to discover rootservers if we set the addresses using this routine"
\* (servers.c:809): addresses that a command has set are replaced only by the
\* configuration file or another command.
CommandedAddressesStay ==
  [][\A s \in Sections : origin[s] = "command" => origin'[s] # "root"]_origin
=============================================================================
