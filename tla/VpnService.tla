----------------------------- MODULE VpnService -----------------------------
(***************************************************************************)
(* ShadowsocksService and its base BaseVpnService: what use(), the close   *)
(* broadcast and onRevoke() do to the objects a VPN session consists of    *)
(* and to the state that is broadcast to the callbacks.                    *)
(*                                                                         *)
(* The service shares its process with the user interface, so use() runs   *)
(* on the main thread, like the receivers and the Runnables that           *)
(* changeState() posts. onRevoke() runs on a binder thread and takes no    *)
(* lock. startRunner() and stopRunner() are written here as the sequences  *)
(* of steps a thread has still to make; a test of a field, the call on it  *)
(* and the assignment of null are steps of their own, because the other    *)
(* thread may act between them.                                            *)
(*                                                                         *)
(* The objects of a session: the children ss-local, ss-tunnel, tun2socks   *)
(* and pdnsd (each a GuardedProcess), the tun descriptor conn, the threads *)
(* of the socket services (protect: ShadowsocksThread, traffic:            *)
(* TrafficMonitorThread) and the two receivers (closeReceiver of the       *)
(* service, lockReceiver of the NotificationHelper). An object carries the *)
(* number of the startRunner() that made it.                               *)
(*                                                                         *)
(* Of the guards this module has what their owner sees: start() returns    *)
(* whether or not the first child was spawned, and destroy() of a guard    *)
(* that never had one throws (module GuardedProcess, ThrowsOnlyChildless). *)
(***************************************************************************)
EXTENDS Naturals, Sequences

CONSTANTS
  Profiles,    \* values of Config.profileId
  UdpDns,      \* values of Config.isUdpDns
  Auth,        \* values of Config.isAuth
  MaxStarts,   \* bound on calls of startRunner()
  MaxRevokes,  \* bound on calls of onRevoke()
  MaxPosts,    \* bound on the Runnables queued when a call begins
  Overlap      \* may onRevoke() run beside the main thread's calls?

ASSUME BoundAssumption ==
  /\ {MaxStarts, MaxRevokes, MaxPosts} \subseteq Nat
  /\ Overlap \in BOOLEAN /\ UdpDns \subseteq BOOLEAN /\ Auth \subseteq BOOLEAN

VARIABLES
  mState,      \* the field of that name
  posts,       \* states in Runnables of changeState() the looper has to run
  prog,        \* the steps each thread has still to make
  field,       \* per kind: the object the service's field names, 0 for null
  live,        \* objects made and not destroyed: <<kind, number>>
  childless,   \* guards whose first child could not be spawned
  gen,         \* startRunner() calls so far
  mConfig,     \* the field of that name; NoConfig for null
  thrown,      \* threads on which an exception left the service's code
  revokes,     \* onRevoke() calls so far
  overlapped   \* has onRevoke() run beside a call of the main thread?

svcVars == <<mState, posts, prog, field, live, childless, gen, mConfig, thrown, revokes, overlapped>>
revoking == <<revokes, overlapped>>
started  == <<gen, mConfig>>
sessions == <<field, live, childless, started>>

Threads   == {"main", "binder"}
Processes == {"sslocal", "sstunnel", "tun2socks", "pdnsd"}
Receivers == {"closeReceiver", "lockReceiver"}
Kinds     == Processes \union Receivers \union {"conn", "protect", "traffic"}
States    == {"STOPPED", "CONNECTING", "CONNECTED", "STOPPING"}

\* A Config: the server is given as an address, as a name or not at all.
Configs == [profileId : Profiles, proxy : {"numeric", "name", "empty"},
            isUdpDns : UdpDns, isAuth : Auth]
NoConfig == [profileId |-> "none", proxy |-> "empty", isUdpDns |-> FALSE, isAuth |-> FALSE]

Init ==
  /\ mState = "STOPPED" /\ posts = <<>>
  /\ prog = [t \in Threads |-> <<>>]
  /\ field = [k \in Kinds |-> 0] /\ live = {} /\ childless = {}
  /\ gen = 0 /\ mConfig = NoConfig
  /\ thrown = {} /\ revokes = 0 /\ overlapped = FALSE

-----------------------------------------------------------------------------
(* The code of the service as sequences of steps.                          *)

Make(k) == << <<"make", k>> >>
Post(s) == << <<"post", s>> >>

\* if (f != null) { f.destroy(); f = null; }
Drop(k) == << <<"test", k>>, <<"destroy", k>>, <<"clear", k>> >>

KillProcesses ==
  Drop("sslocal") \o Drop("sstunnel") \o Drop("tun2socks") \o Drop("pdnsd")

\* Variant: the notification is not destroyed.
StopKeepingNotification ==
  Drop("protect") \o Post("STOPPING") \o KillProcesses \o Drop("conn")
    \o Drop("closeReceiver") \o Drop("traffic") \o Post("STOPPED")

\* Variant: super.stopRunner() comes first.
StopSuperFirst ==
  Drop("closeReceiver") \o Drop("traffic") \o Post("STOPPED") \o Drop("protect")
    \o Drop("lockReceiver") \o Post("STOPPING") \o KillProcesses \o Drop("conn")

StopRunner ==
  Drop("protect") \o Drop("lockReceiver") \o Post("STOPPING") \o KillProcesses
    \o Drop("conn") \o Drop("closeReceiver") \o Drop("traffic") \o Post("STOPPED")

StartRunner(c) ==
  << <<"begin", c>> >> \o Make("traffic") \o << <<"register", "closeReceiver">> >>
    \o Make("protect") \o Post("CONNECTING") \o KillProcesses
    \o << <<"resolve", c.proxy>> >>

\* With isUdpDns, the session does without ss-tunnel and pdnsd.
HandleConnection ==
  Make("sslocal") \o (IF mConfig.isUdpDns THEN <<>> ELSE Make("pdnsd") \o Make("sstunnel"))
    \o << <<"establish", "conn">>, <<"send", "tun2socks">> >>

\* changeState(State.STOPPED, msg); stopRunner(true)
Refuse == Post("STOPPED") \o StopRunner

\* Variant: another profile is started over the present one.
UseWithoutStop(c) ==
  IF mState = "STOPPED" \/ (mState = "CONNECTED" /\ c.profileId # mConfig.profileId)
  THEN IF c.proxy # "empty" THEN StartRunner(c) ELSE Refuse
  ELSE <<>>

\* use() with a Config, and checkConfig().
UseConfig(c) ==
  LET start == mState = "STOPPED"
      switch == mState = "CONNECTED" /\ c.profileId # mConfig.profileId
  IN CASE (start \/ switch) /\ c.proxy = "empty" -> Refuse
       [] start /\ c.proxy # "empty" -> StartRunner(c)
       [] switch /\ c.proxy # "empty" -> StopRunner \o StartRunner(c)
       [] OTHER -> <<>>

UseNull == IF mState = "CONNECTED" THEN StopRunner ELSE <<>>

-----------------------------------------------------------------------------
(* The steps. Each takes the first step of the thread's sequence, and may  *)
(* put others before the rest.                                             *)

Idle(t) == prog[t] = <<>>
At(t, op) == ~Idle(t) /\ Head(prog[t])[1] = op
Arg(t) == Head(prog[t])[2]
Goes(t, steps) == prog' = [prog EXCEPT ![t] = steps \o Tail(@)]

\* An exception leaves the rest of the sequence undone.
Throws(t) ==
  /\ prog' = [prog EXCEPT ![t] = <<>>]
  /\ thrown' = thrown \union {t}

Begin(t) ==
  /\ At(t, "begin") /\ Goes(t, <<>>)
  /\ gen' = gen + 1
  /\ mConfig' = Arg(t)
  /\ UNCHANGED <<mState, posts, field, live, childless, thrown, revoking>>

\* Those of the children that have a configuration file.
Configured == Processes \ {"tun2socks"}

\* There is no PrintWriter for the file of a child, or its arguments are a list of
\* fixed size (Arrays.asList), which add("-A") does not take.
MakeThrows(t) ==
  /\ At(t, "make") /\ Arg(t) \in Configured
  /\ Throws(t)
  /\ UNCHANGED <<mState, posts, sessions, revoking>>

\* A constructor, start() or registerReceiver(), and the field's assignment. The
\* IOException of a first spawn is logged, and the guard assigned all the same.
MakeObject(t) ==
  /\ \/ At(t, "make") /\ ~(Arg(t) = "sstunnel" /\ mConfig.isAuth)
     \/ At(t, "register") /\ field[Arg(t)] = 0
  /\ Goes(t, <<>>)
  /\ field' = [field EXCEPT ![Arg(t)] = gen]
  /\ live' = live \union {<<Arg(t), gen>>}
  /\ \/ UNCHANGED childless
     \/ Arg(t) \in Processes /\ childless' = childless \union {<<Arg(t), gen>>}
  /\ UNCHANGED <<mState, posts, started, thrown, revoking>>

\* closeReceiverRegistered is set.
AlreadyRegistered(t) ==
  /\ At(t, "register") /\ field[Arg(t)] # 0
  /\ Goes(t, <<>>)
  /\ UNCHANGED <<mState, posts, sessions, thrown, revoking>>

TestField(t) ==
  /\ At(t, "test")
  /\ IF field[Arg(t)] = 0
       THEN prog' = [prog EXCEPT ![t] = SubSeq(@, 4, Len(@))]
       ELSE Goes(t, <<>>)
  /\ UNCHANGED <<mState, posts, sessions, thrown, revoking>>

\* The service's guard of this kind never had a child.
Childless(k) == field[k] # 0 /\ <<k, field[k]>> \in childless

\* The call needs the object: a null field throws, and so do a receiver that is not
\* registered any more and a guard whose process is null. To destroy an object
\* twice is harmless otherwise.
CanDestroy(k) ==
  /\ field[k] # 0 /\ ~Childless(k)
  /\ k \in Receivers => <<k, field[k]>> \in live

DestroyObject(t) ==
  /\ At(t, "destroy")
  /\ IF CanDestroy(Arg(t))
       THEN /\ live' = {o \in live : o[1] # Arg(t) \/ o[2] # field[Arg(t)]}
            /\ Goes(t, <<>>)
            /\ UNCHANGED thrown
       ELSE Throws(t) /\ UNCHANGED live
  /\ UNCHANGED <<mState, posts, field, childless, started, revoking>>

ClearField(t) ==
  /\ At(t, "clear") /\ Goes(t, <<>>)
  /\ field' = [field EXCEPT ![Arg(t)] = 0]
  /\ UNCHANGED <<mState, posts, live, childless, started, thrown, revoking>>

\* changeState() only posts; the looper runs the Runnables in their order.
PostState(t) ==
  /\ At(t, "post") /\ Goes(t, <<>>)
  /\ posts' = Append(posts, Arg(t))
  /\ UNCHANGED <<mState, sessions, thrown, revoking>>

\* Utils.resolve() returns no address for any name: its tests of what it found
\* are the wrong way round.
Resolve(t) ==
  /\ At(t, "resolve")
  /\ Goes(t, IF Arg(t) = "numeric" THEN HandleConnection ELSE Refuse)
  /\ UNCHANGED <<mState, posts, sessions, thrown, revoking>>

\* The look-up of a name is network access, which Android refuses the main thread.
ResolveThrows(t) ==
  /\ At(t, "resolve") /\ Arg(t) = "name"
  /\ Throws(t)
  /\ UNCHANGED <<mState, posts, sessions, revoking>>

Establish(t) ==
  /\ At(t, "establish")
  /\ field' = [field EXCEPT !["conn"] = gen]
  /\ live' = live \union {<<"conn", gen>>}
  /\ Goes(t, << <<"getFd", "conn">> >> \o Make("tun2socks"))
  /\ UNCHANGED <<mState, posts, childless, started, thrown, revoking>>

\* Null and IllegalStateException are announced, another exception is not.
EstablishFails(t) ==
  /\ At(t, "establish")
  /\ field' = [field EXCEPT !["conn"] = 0]
  /\ \E steps \in {Refuse, StopRunner} : Goes(t, steps)
  /\ UNCHANGED <<mState, posts, live, childless, started, thrown, revoking>>

GetFd(t) ==
  /\ At(t, "getFd")
  /\ IF field["conn"] # 0 THEN Goes(t, <<>>) /\ UNCHANGED thrown ELSE Throws(t)
  /\ UNCHANGED <<mState, posts, sessions, revoking>>

\* sendFd() reaches the child of tun2socks with an open descriptor, which is all
\* that CONNECTED asks for ...
Send(t) ==
  /\ At(t, "send")
  /\ {<<"tun2socks", gen>>, <<"conn", gen>>} \subseteq live \ childless
  /\ Goes(t, Post("CONNECTED") \o Make("lockReceiver"))
  /\ UNCHANGED <<mState, posts, sessions, thrown, revoking>>

\* ... or gives up after four tries.
SendFails(t) ==
  /\ At(t, "send")
  /\ Goes(t, Refuse)
  /\ UNCHANGED <<mState, posts, sessions, thrown, revoking>>

Step(t) ==
  \/ Begin(t) \/ MakeThrows(t) \/ MakeObject(t) \/ AlreadyRegistered(t) \/ TestField(t)
  \/ DestroyObject(t) \/ ClearField(t) \/ PostState(t) \/ Resolve(t)
  \/ ResolveThrows(t) \/ Establish(t) \/ EstablishFails(t) \/ GetFd(t) \/ Send(t) \/ SendFails(t)

-----------------------------------------------------------------------------
(* What the main looper and the system make the threads do.                *)

Runs(t, steps) ==
  /\ Idle(t) /\ (Overlap \/ \A u \in Threads : Idle(u))
  /\ prog' = [prog EXCEPT ![t] = steps]
  /\ overlapped' = (overlapped \/ \E u \in Threads : ~Idle(u))

\* The main thread's calls, from its messages.
Calls(steps) == Len(posts) <= MaxPosts /\ Runs("main", steps)

RunPost ==
  /\ Idle("main") /\ posts # <<>>
  /\ mState' = Head(posts) /\ posts' = Tail(posts)
  /\ UNCHANGED <<prog, sessions, thrown, revoking>>

\* ACTION_SHUTDOWN, or the stop button of the notification.
CloseBroadcast ==
  /\ field["closeReceiver"] # 0
  /\ Calls(StopRunner)
  /\ UNCHANGED <<mState, posts, sessions, thrown, revokes>>

\* Another application takes the interface, or the user withdraws the consent.
Revoke ==
  /\ revokes < MaxRevokes
  /\ \E n \in 1..gen : <<"conn", n>> \in live
  /\ Runs("binder", StopRunner)
  /\ revokes' = revokes + 1
  /\ UNCHANGED <<mState, posts, sessions, thrown>>

\* A caller that has seen CONNECTING before it asks for another session.
CallUse ==
  /\ \A i \in DOMAIN posts : posts[i] # "CONNECTING"
  /\ \/ Calls(UseNull)
     \/ gen < MaxStarts /\ \E c \in Configs : Calls(UseConfig(c))
  /\ UNCHANGED <<mState, posts, sessions, thrown, revokes>>

\* An exception on the main thread ends the application.
Next ==
  /\ "main" \notin thrown
  /\ (\E t \in Threads : Step(t)) \/ RunPost \/ CloseBroadcast \/ Revoke \/ CallUse

Spec == Init /\ [][Next]_svcVars

\* The threads run, which takes every destroy() to return or throw, and the looper runs
\* its messages; nobody has to call. Module GuardedProcess has the one that never
\* returns (CallersReturn: its callback has swallowed the interrupt).
Fairness ==
  /\ \A t \in Threads : WF_svcVars("main" \notin thrown /\ Step(t))
  /\ WF_svcVars("main" \notin thrown /\ RunPost)

FairSpec == Spec /\ Fairness

-----------------------------------------------------------------------------
\* Nothing is under way in the service, and the application runs.
Quiet == "main" \notin thrown /\ posts = <<>> /\ \A t \in Threads : Idle(t)

\* A revocation's stopRunner() has met a guard without a child: the rest is undone, and
\* the guard is still in its field.
CutShort == "binder" \in thrown /\ \E k \in Processes : Childless(k)

\* The objects of a session with the present Config.
Wanted == IF mConfig.isUdpDns THEN Kinds \ {"sstunnel", "pdnsd"} ELSE Kinds

\* Once everything a stop has posted has run, nothing of any session is left:
\* no child, descriptor, thread or receiver (stopRunner, killProcesses).
StoppedIsClean == ~overlapped /\ Quiet /\ mState = "STOPPED" => live = {}

\* A service that says CONNECTED has every object its Config calls for, of one session
\* and of no other; of its guards, only that of tun2socks is sure to have had a
\* child (startRunner, handleConnection, sendFd).
ConnectedIsComplete ==
  ~overlapped /\ Quiet /\ mState = "CONNECTED" =>
    /\ live = Wanted \X {gen}
    /\ field = [k \in Kinds |-> IF k \in Wanted THEN gen ELSE 0]
    /\ <<"tun2socks", gen>> \notin childless

\* A service comes to rest in another state only in STOPPING, and only when a guard
\* without a child has cut a revocation short (onRevoke, GuardedProcess.destroy).
StoppingIsCutShort ==
  ~overlapped /\ Quiet /\ mState \notin {"STOPPED", "CONNECTED"} => mState = "STOPPING" /\ CutShort

\* A session is all there when the service says so, and all gone when it has stopped.
SessionsWhole == StoppedIsClean /\ ConnectedIsComplete /\ StoppingIsCutShort

\* The service does not stay in CONNECTING or STOPPING, whoever stops it, unless a guard
\* without a child has cut a revocation short (the last changeState() wins).
Settles == mState \in {"CONNECTING", "STOPPING"} ~>
             mState \in {"STOPPED", "CONNECTED"} \/ "main" \in thrown \/ CutShort

\* Past killProcesses() a starting session finds nothing of an earlier one
\* ("reset the context", ShadowsocksService.java:126).
ContextReset ==
  At("main", "resolve") => \A o \in live : o[2] = gen

\* That is so while onRevoke() has kept clear of the main thread's calls, whatever
\* has failed and whoever has stopped the sessions before (use, stopRunner).
ContextResetAlone == ~overlapped => ContextReset
=============================================================================
