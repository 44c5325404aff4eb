------------------------------- MODULE EvPipe -------------------------------
(***************************************************************************)
(* How a signal handler, or ev_async_send(), wakes libev's loop up (ev.c): *)
(* evpipe_write() notes the event in flags and writes to an eventfd only   *)
(* when the loop says that it wants it, pipecb() serves what is noted. The *)
(* handler interrupts the loop between any two of its accesses, and all    *)
(* signals are blocked while it runs (sigfillset), so it is one step.      *)
(***************************************************************************)
EXTENDS Naturals, EvSources

VARIABLES
  pipe_write_wanted, pipe_write_skipped, sig_pending, async_pending,
  pending,                   \* signals[].pending
  sent,                      \* the asyncs' sent
  evfd,                      \* the eventfd can be read
  fed,                       \* the events that pipe_w is pending with
  at,                        \* the loop's place in what concerns the pipe
  scan,                      \* what pipecb() has still to look at
  watched,                   \* signals and asyncs with a watcher that is started
  raised                     \* of these, what has been raised and not fed since: a history

flags == <<pipe_write_wanted, pipe_write_skipped, sig_pending, async_pending, evfd>>
noted == <<pending, sent, raised>>
pipe == <<flags, noted, fed, at, scan, watched>>

Places == {"runs", "wants", "blocks", "polls", "polled", "checks", "clears", "signals?", "signals",
           "asyncs?", "asyncs"}

PipeInit ==
  /\ pipe_write_wanted = FALSE /\ pipe_write_skipped = FALSE
  /\ sig_pending = FALSE /\ async_pending = FALSE
  /\ pending = [s \in Signals |-> FALSE] /\ sent = [a \in Asyncs |-> FALSE]
  /\ evfd = FALSE /\ fed = {} /\ at = "runs" /\ scan = {}
  /\ watched \in SUBSET (Signals \union Asyncs) /\ raised = {}

----------------------------------------------------------------------------
(* Signal handlers and ev_async_send(). *)

\* evpipe_write() once the flag has been set: skipped, unless the write is wanted.
Wake ==
  /\ pipe_write_skipped' = ~pipe_write_wanted
  /\ evfd' = (evfd \/ pipe_write_wanted)

RaiseSignal(s) ==
  /\ s \in watched /\ s \in Signals
  /\ pending' = [pending EXCEPT ![s] = TRUE] /\ raised' = raised \union {s}
  /\ sig_pending' = TRUE
  /\ IF sig_pending THEN UNCHANGED <<pipe_write_skipped, evfd>> ELSE Wake
  /\ UNCHANGED <<pipe_write_wanted, async_pending, sent, fed, at, scan, watched>>

SendAsync(a) ==
  /\ a \in watched /\ a \in Asyncs
  /\ sent' = [sent EXCEPT ![a] = TRUE] /\ raised' = raised \union {a}
  /\ async_pending' = TRUE
  /\ IF async_pending THEN UNCHANGED <<pipe_write_skipped, evfd>> ELSE Wake
  /\ UNCHANGED <<pipe_write_wanted, sig_pending, pending, fed, at, scan, watched>>

\* Watchers start and stop; an async that starts has not been sent.
Watch(now) ==
  /\ at = "runs"
  /\ watched' = now /\ raised' = raised \intersect now
  /\ sent' = [a \in Asyncs |-> sent[a] /\ (a \in now => a \in watched)]
  /\ UNCHANGED <<flags, pending, fed, at, scan>>

----------------------------------------------------------------------------
(* ev_run(), from the calculation of the blocking time to the reification of the timers. *)

\* Variant: what has been skipped before is forgotten.
WantAnew ==
  /\ at = "runs" /\ fed = {}
  /\ pipe_write_wanted' = TRUE /\ pipe_write_skipped' = FALSE /\ at' = "wants"
  /\ UNCHANGED <<sig_pending, async_pending, evfd, noted, fed, scan, watched>>

Want ==
  /\ at = "runs" /\ fed = {}
  /\ pipe_write_wanted' = TRUE /\ at' = "wants"
  /\ UNCHANGED <<pipe_write_skipped, sig_pending, async_pending, evfd, noted, fed, scan, watched>>

Look(blocks) ==
  /\ at = "wants" /\ (blocks => ~pipe_write_skipped)
  /\ at' = IF blocks THEN "blocks" ELSE "polls"
  /\ UNCHANGED <<flags, noted, fed, scan, watched>>

\* The kernel reports what can be read, or that a signal has interrupted the wait.
Poll(interrupted) ==
  /\ at \in {"blocks", "polls"} /\ at' = "polled"
  /\ fed' = IF evfd /\ ~interrupted THEN {"READ"} ELSE {}
  /\ UNCHANGED <<flags, noted, scan, watched>>

Unwant ==
  /\ at = "polled"
  /\ pipe_write_wanted' = FALSE /\ at' = "checks"
  /\ UNCHANGED <<pipe_write_skipped, sig_pending, async_pending, evfd, noted, fed, scan, watched>>

CheckSkipped ==
  /\ at = "checks" /\ at' = "runs"
  /\ fed' = fed \union {e \in {"CUSTOM"} : pipe_write_skipped}
  /\ UNCHANGED <<flags, noted, scan, watched>>

----------------------------------------------------------------------------
(* pipecb(), as the callback of pipe_w and for the new eventfd of loop_fork(). *)

Pipecb ==
  /\ at = "runs" /\ fed # {}
  /\ evfd' = (evfd /\ "READ" \notin fed) /\ fed' = {} /\ at' = "clears"
  /\ UNCHANGED <<pipe_write_wanted, pipe_write_skipped, sig_pending, async_pending, noted, scan, watched>>

Renew ==
  /\ at = "runs"
  /\ evfd' = FALSE /\ fed' = {} /\ at' = "clears"
  /\ UNCHANGED <<pipe_write_wanted, pipe_write_skipped, sig_pending, async_pending, noted, scan, watched>>

Clear ==
  /\ at = "clears"
  /\ pipe_write_skipped' = FALSE /\ at' = "signals?"
  /\ UNCHANGED <<pipe_write_wanted, sig_pending, async_pending, evfd, noted, fed, scan, watched>>

CheckSignals ==
  /\ at = "signals?"
  /\ IF sig_pending THEN scan' = Signals /\ at' = "signals" ELSE at' = "asyncs?" /\ UNCHANGED scan
  /\ sig_pending' = FALSE
  /\ UNCHANGED <<pipe_write_wanted, pipe_write_skipped, async_pending, evfd, noted, fed, watched>>

\* A signal that nobody waits for stays noted.
FeedSignal(s) ==
  /\ at = "signals" /\ s \in scan
  /\ scan' = scan \ {s} /\ at' = IF scan' = {} THEN "asyncs?" ELSE at
  /\ pending' = [pending EXCEPT ![s] = @ /\ s \notin watched] /\ raised' = raised \ {s}
  /\ UNCHANGED <<flags, sent, fed, watched>>

CheckAsyncs ==
  /\ at = "asyncs?"
  /\ IF async_pending /\ Asyncs \intersect watched # {}
     THEN scan' = Asyncs \intersect watched /\ at' = "asyncs"
     ELSE at' = "runs" /\ UNCHANGED scan
  /\ async_pending' = FALSE
  /\ UNCHANGED <<pipe_write_wanted, pipe_write_skipped, sig_pending, evfd, noted, fed, watched>>

FeedAsync(a) ==
  /\ at = "asyncs" /\ a \in scan
  /\ scan' = scan \ {a} /\ at' = IF scan' = {} THEN "runs" ELSE at
  /\ sent' = [sent EXCEPT ![a] = FALSE] /\ raised' = raised \ {a}
  /\ UNCHANGED <<flags, pending, fed, watched>>

----------------------------------------------------------------------------
PipeNext ==
  \/ \E s \in Signals : RaiseSignal(s) \/ FeedSignal(s)
  \/ \E a \in Asyncs : SendAsync(a) \/ FeedAsync(a)
  \/ \E now \in SUBSET (Signals \union Asyncs) : Watch(now)
  \/ Want \/ Unwant \/ CheckSkipped \/ Pipecb \/ Renew \/ Clear \/ CheckSignals \/ CheckAsyncs
  \/ \E b \in BOOLEAN : Look(b) \/ Poll(b)

PipeSpec == PipeInit /\ [][PipeNext]_pipe

PipeTypeOK ==
  /\ pipe_write_wanted \in BOOLEAN /\ pipe_write_skipped \in BOOLEAN
  /\ sig_pending \in BOOLEAN /\ async_pending \in BOOLEAN /\ evfd \in BOOLEAN
  /\ pending \in [Signals -> BOOLEAN] /\ sent \in [Asyncs -> BOOLEAN]
  /\ fed \in SUBSET {"READ", "CUSTOM"} /\ at \in Places
  /\ scan \in SUBSET (Signals \union Asyncs)
  /\ watched \in SUBSET (Signals \union Asyncs) /\ raised \in SUBSET watched

\* A signal or an async that is raised, at whatever point of the loop, while its watcher is started
\* keeps the loop from sleeping before it has been fed: when the loop waits in epoll_wait() with a
\* timeout that is not 0 the eventfd can be read, so the wait ends at once (evpipe_write(), ev_run()
\* and pipecb() touch the same flags without a lock).
NoLostWakeup == at = "blocks" /\ raised # {} => evfd
=============================================================================
