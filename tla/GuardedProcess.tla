--------------------------- MODULE GuardedProcess ---------------------------
(***************************************************************************)
(* One cc.cloudist.app.common.GuardedProcess object: the guard thread,     *)
(* which spawns a child, waits for it and spawns it again when it exits,   *)
(* the owner, which calls start(), and the threads that call destroy().    *)
(*                                                                         *)
(* The service reaches destroy() through a field that it assigns when      *)
(* start() has returned, from the main thread (stopRunner) and from the    *)
(* binder thread that delivers onRevoke: the Destroyers.                   *)
(*                                                                         *)
(* The restart callback is that of tun2socks, the only one in the program: *)
(* ShadowsocksService.sendFd, a loop of sleeps and attempts.               *)
(***************************************************************************)
EXTENDS Naturals

CONSTANTS
  Destroyers,   \* threads that may call destroy()
  MaxSpawns     \* bound on the children spawned

ASSUME StartsAssumption == MaxSpawns \in Nat

VARIABLES
  gpc,          \* where the guard thread is
  owner,        \* "new", in start() ("starting") or past it ("started")
  permits,      \* permits of the semaphore the owner waits on
  dpc,          \* where each destroyer is in destroy()
  isDestroyed,  \* the field of that name
  process,      \* the field of that name: a child, 0 for null
  starts,       \* children spawned so far, numbered from 1
  alive,        \* children that run
  signalled,    \* children Process.destroy() was called on
  interrupted,  \* the interrupt flag of the guard thread
  onRestartCallback,  \* was start() given a callback?
  tries         \* the local of sendFd

sem         == <<owner, permits>>
children    == <<starts, alive, signalled>>
guardFields == <<isDestroyed, process>>
callback    == <<onRestartCallback, tries>>
guardVars   == <<gpc, sem, dpc, guardFields, children, interrupted, callback>>

GuardPc   == {"unborn", "loop", "spawn", "assign", "callback", "sleep", "send",
              "release", "wait", "check", "caught", "finally", "dead"}
DestroyPc == {"idle", "interrupt", "kill", "join", "done", "npe"}

GuardInit ==
  /\ gpc = "unborn" /\ owner = "new" /\ permits = 0
  /\ dpc = [d \in Destroyers |-> "idle"]
  /\ isDestroyed = FALSE /\ process = 0
  /\ starts = 0 /\ alive = {} /\ signalled = {}
  /\ interrupted = FALSE
  /\ onRestartCallback = FALSE /\ tries = 1

\* The guard thread goes from one place to the next.
GuardMoves(from, to) == gpc = from /\ gpc' = to

-----------------------------------------------------------------------------
(* start(): the semaphore's one permit is taken before the guard starts.   *)

StartGuard ==
  /\ owner = "new" /\ owner' = "starting"
  /\ onRestartCallback' \in BOOLEAN
  /\ GuardMoves("unborn", "loop")
  /\ UNCHANGED <<permits, dpc, guardFields, children, interrupted, tries>>

\* Variant: start() does not wait for the first release().
StartReturnsAtOnce ==
  /\ owner = "starting" /\ owner' = "started"
  /\ UNCHANGED <<gpc, permits, dpc, guardFields, children, interrupted, callback>>

\* The second acquire() waits for the guard's first release().
StartReturns ==
  /\ owner = "starting" /\ owner' = "started"
  /\ permits > 0 /\ permits' = permits - 1
  /\ UNCHANGED <<gpc, dpc, guardFields, children, interrupted, callback>>

-----------------------------------------------------------------------------
(* The guard thread.                                                       *)

Loop ==
  /\ GuardMoves("loop", IF isDestroyed THEN "finally" ELSE "spawn")
  /\ UNCHANGED <<sem, dpc, guardFields, children, interrupted, callback>>

\* The child exists before the field names it.
Spawn ==
  /\ GuardMoves("spawn", "assign")
  /\ starts < MaxSpawns
  /\ starts' = starts + 1
  /\ alive' = alive \union {starts'}
  /\ UNCHANGED <<sem, dpc, guardFields, signalled, interrupted, callback>>

\* An IOException ends the guard.
SpawnFails ==
  /\ GuardMoves("spawn", "finally")
  /\ UNCHANGED <<sem, dpc, guardFields, children, interrupted, callback>>

SetProcess ==
  /\ GuardMoves("assign", "callback")
  /\ process' = starts
  /\ UNCHANGED <<sem, dpc, isDestroyed, children, interrupted, callback>>

\* The local callback is null in the first iteration only.
Callback ==
  /\ GuardMoves("callback",
                IF onRestartCallback /\ starts > 1 THEN "sleep" ELSE "release")
  /\ tries' = 1
  /\ UNCHANGED <<sem, dpc, guardFields, children, interrupted, onRestartCallback>>

Sleep ==
  /\ ~interrupted
  /\ GuardMoves("sleep", "send")
  /\ UNCHANGED <<sem, dpc, guardFields, children, interrupted, callback>>

\* Variant: the handler sets the flag again, as handlers should elsewhere.
SleepInterruptedKeepsFlag ==
  /\ interrupted
  /\ GuardMoves("sleep", "sleep")
  /\ UNCHANGED <<sem, dpc, guardFields, children, interrupted, callback>>

\* sendFd catches InterruptedException, which clears the flag, and loops with
\* the same number of tries.
SleepInterrupted ==
  /\ interrupted /\ interrupted' = FALSE
  /\ GuardMoves("sleep", "sleep")
  /\ UNCHANGED <<sem, dpc, guardFields, children, callback>>

SendFd ==
  /\ process \in alive
  /\ GuardMoves("send", "release")
  /\ UNCHANGED <<sem, dpc, guardFields, children, interrupted, callback>>

SendFdFails ==
  /\ tries' = tries + 1
  /\ GuardMoves("send", IF tries' < 5 THEN "sleep" ELSE "release")
  /\ UNCHANGED <<sem, dpc, guardFields, children, interrupted, onRestartCallback>>

Release ==
  /\ GuardMoves("release", "wait")
  /\ permits' = permits + 1
  /\ UNCHANGED <<owner, dpc, guardFields, children, interrupted, callback>>

WaitFor ==
  /\ process \notin alive
  /\ GuardMoves("wait", "check")
  /\ UNCHANGED <<sem, dpc, guardFields, children, interrupted, callback>>

\* Variant: the exception is caught inside the loop.
WaitForInterruptedLoops ==
  /\ interrupted /\ interrupted' = FALSE
  /\ GuardMoves("wait", "loop")
  /\ UNCHANGED <<sem, dpc, guardFields, children, callback>>

WaitForInterrupted ==
  /\ interrupted /\ interrupted' = FALSE
  /\ GuardMoves("wait", "caught")
  /\ UNCHANGED <<sem, dpc, guardFields, children, callback>>

\* An iteration of less than a second stops the guard. One that ran the
\* callback has slept for a second at least.
CheckFast ==
  /\ GuardMoves("check", "loop")
  /\ \E fast \in BOOLEAN :
        /\ fast => ~(onRestartCallback /\ starts > 1)
        /\ isDestroyed' = (isDestroyed \/ fast)
  /\ UNCHANGED <<sem, dpc, process, children, interrupted, callback>>

\* Variant: the handler does not destroy the process.
CaughtOnlyLogs ==
  /\ GuardMoves("caught", "finally")
  /\ UNCHANGED <<sem, dpc, guardFields, children, interrupted, callback>>

\* catch (InterruptedException)
Caught ==
  /\ GuardMoves("caught", "finally")
  /\ signalled' = signalled \union {process}
  /\ UNCHANGED <<sem, dpc, guardFields, starts, alive, interrupted, callback>>

Finally ==
  /\ GuardMoves("finally", "dead")
  /\ permits' = permits + 1
  /\ UNCHANGED <<owner, dpc, guardFields, children, interrupted, callback>>

-----------------------------------------------------------------------------
(* destroy(), statement by statement.                                      *)

DestroyMoves(d, from, to) == dpc[d] = from /\ dpc' = [dpc EXCEPT ![d] = to]

DestroyFlag(d) ==
  /\ owner = "started"
  /\ DestroyMoves(d, "idle", "interrupt")
  /\ isDestroyed' = TRUE
  /\ UNCHANGED <<gpc, sem, process, children, interrupted, callback>>

\* A thread that has ended is not interrupted.
DestroyInterrupt(d) ==
  /\ DestroyMoves(d, "interrupt", "kill")
  /\ interrupted' = (interrupted \/ gpc # "dead")
  /\ UNCHANGED <<gpc, sem, guardFields, children, callback>>

DestroyKill(d) ==
  /\ process # 0
  /\ DestroyMoves(d, "kill", "join")
  /\ signalled' = signalled \union {process}
  /\ UNCHANGED <<gpc, sem, guardFields, starts, alive, interrupted, callback>>

\* Without a child the field is null, and only InterruptedException is caught.
DestroyThrows(d) ==
  /\ process = 0
  /\ DestroyMoves(d, "kill", "npe")
  /\ UNCHANGED <<gpc, sem, guardFields, children, interrupted, callback>>

DestroyJoin(d) ==
  /\ gpc = "dead"
  /\ DestroyMoves(d, "join", "done")
  /\ UNCHANGED <<gpc, sem, guardFields, children, interrupted, callback>>

\* A child exits, by itself or because it was told to.
Exit(p) ==
  /\ p \in alive /\ alive' = alive \ {p}
  /\ UNCHANGED <<gpc, sem, dpc, guardFields, starts, signalled, interrupted, callback>>

-----------------------------------------------------------------------------
Guard ==
  \/ Loop \/ Spawn \/ SpawnFails \/ SetProcess \/ Callback
  \/ Sleep \/ SleepInterrupted \/ SendFd \/ SendFdFails
  \/ Release \/ WaitFor \/ WaitForInterrupted \/ CheckFast \/ Caught \/ Finally

Destroy(d) ==
  \/ DestroyFlag(d) \/ DestroyInterrupt(d) \/ DestroyKill(d)
  \/ DestroyThrows(d) \/ DestroyJoin(d)

GuardNext ==
  \/ StartGuard \/ StartReturns \/ Guard
  \/ \E d \in Destroyers : Destroy(d)
  \/ \E p \in 1..MaxSpawns : Exit(p)

GuardSpec == GuardInit /\ [][GuardNext]_guardVars

\* Threads run, and a child that was told to stop exits. Nobody has to call
\* destroy(), and a child may run for ever when it was not told to stop.
GuardFairness ==
  /\ WF_guardVars(StartReturns)
  /\ WF_guardVars(Guard)
  /\ \A d \in Destroyers : WF_guardVars(dpc[d] # "idle" /\ Destroy(d))
  /\ \A p \in 1..MaxSpawns : WF_guardVars(p \in signalled /\ Exit(p))

-----------------------------------------------------------------------------
TypeOK ==
  /\ gpc \in GuardPc
  /\ owner \in {"new", "starting", "started"}
  /\ permits \in Nat
  /\ dpc \in [Destroyers -> DestroyPc]
  /\ isDestroyed \in BOOLEAN
  /\ starts \in 0..MaxSpawns
  /\ process \in 0..starts
  /\ alive \subseteq 1..starts
  /\ signalled \subseteq 1..starts
  /\ interrupted \in BOOLEAN
  /\ onRestartCallback \in BOOLEAN /\ tries \in 1..5

\* Only the last child can run, and the guard spawns when there is none.
OneChild ==
  /\ alive \subseteq {starts}
  /\ gpc \in {"unborn", "loop", "spawn", "check"} => alive = {}

\* The field names the last child from its assignment on.
FieldFollows ==
  /\ gpc = "unborn" => starts = 0
  /\ gpc = "assign" => starts > 0
  /\ gpc # "assign" => process = starts
  /\ gpc \in {"callback", "sleep", "send", "release", "wait", "check", "caught"}
       => starts > 0
  /\ gpc \in {"sleep", "send"} => tries < 5

\* The semaphore: nobody calls destroy() before there is a child or no guard.
StartWaits ==
  /\ owner = "started" \/ permits > 0 => process > 0 \/ gpc = "dead"
  /\ \A d \in Destroyers : dpc[d] # "idle" => owner = "started"
  /\ \A d \in Destroyers : dpc[d] = "done" => gpc = "dead"

\* Once the guard thread is through, every child that still runs has been told
\* to stop: no ss-local, ss-tunnel, tun2socks or pdnsd outlives its guard
\* (GuardedProcess.run and destroy()).
NoOrphan == gpc \in {"finally", "dead"} => alive \subseteq signalled

\* destroy() throws a NullPointerException only when no child was ever spawned,
\* and then there is nothing left to stop (destroy() with a null process).
ThrowsOnlyChildless ==
  \A d \in Destroyers : dpc[d] = "npe" => starts = 0 /\ gpc = "dead"

\* The inductive invariant.
Inv == TypeOK /\ OneChild /\ FieldFollows /\ StartWaits /\ NoOrphan /\ ThrowsOnlyChildless

\* Nothing is spawned any more once a destroy() has returned or thrown: it
\* would be a process that no field of the service names.
NoSpawnAfterDestroy ==
  [][(\E d \in Destroyers : dpc[d] \in {"done", "npe"}) => starts' = starts]_starts

\* What the service counts on, with the children that run untold.
Managed == INSTANCE ManagedProcess
             WITH running <- alive \ signalled, born <- starts, over <- gpc = "dead"

Implements == Managed!Spec

\* start() returns to the main thread that called it, whatever the child does. Without
\* a restart callback every destroy() returns. With one it waits for ever
\* only on a child that runs and that nobody has told to stop: the interrupt meant
\* for the guard ended a sleep of sendFd, and the signal went to the child before.
CallersReturn ==
  /\ owner = "starting" ~> owner = "started"
  /\ \A d \in Destroyers :
       dpc[d] = "join" ~>
         (dpc[d] = "done" \/ (onRestartCallback /\ gpc = "wait" /\ process \in alive \ signalled))
=============================================================================
