------------------------------- MODULE EvLoop -------------------------------
(***************************************************************************)
(* The functions of libev (ev.c) that change struct ev_loop, as functions  *)
(* of the struct, l: pending events, watchers that start and stop, timers, *)
(* the clocks. The arrays grow as they must; that is left out.             *)
(***************************************************************************)
EXTENDS EvHeap, EvSources

CONSTANTS
  Watchers, Fds, Pids,
  Kind,                      \* watcher -> its type
  Priority,                  \* watcher -> 0..NUMPRI - 1
  Repeat,                    \* timer -> repeat; periodic -> interval
  Offset,                    \* periodic -> offset
  Rescheduled,               \* periodics with a reschedule_cb, which gives a time within Repeat
  SignalOf, PidOf,           \* signal -> signum; child -> pid, 0 for any
  NUMPRI,
  anfdmax                    \* descriptors are less than it

ASSUME FdsBelow == anfdmax \in Nat /\ Fds \subseteq 0..anfdmax - 1

Priorities == 0..NUMPRI - 1
MAXPRI == NUMPRI - 1

\* Kinds that an array of their own keeps.
Arrays == {"prepare", "check", "fork", "cleanup", "async"}

childev == "childev"
pending_w == "pending_w"

\* child_reap() gives the watchers of children the priority of the signal's.
Pri(w) == IF w = childev \/ Kind[w] = "child" THEN MAXPRI ELSE Priority[w]

Of(kinds) == {w \in Watchers : Kind[w] \in kinds}

----------------------------------------------------------------------------
(* Pending events. *)

ev_feed_event(l, w, revents) ==
  LET p == Pri(w)
  IN IF l.pending[w] # 0
     THEN [l EXCEPT !.pendings[p][l.pending[w]].events = @ \union revents]
     ELSE [l EXCEPT !.pending[w] = Len(l.pendings[p]) + 1,
                    !.pendings[p] = Append(@, [w |-> w, events |-> revents])]

queue_events(l, ws, revents) == FoldLeft(LAMBDA m, w : ev_feed_event(m, w, revents), l, ws)

\* Variant: only the watcher forgets.
clear_pendingHalf(l, w) == [l EXCEPT !.pending[w] = 0]

\* The entry stays, for a watcher that does nothing.
clear_pending(l, w) ==
  IF l.pending[w] = 0 THEN l
  ELSE [l EXCEPT !.pendings[Pri(w)][l.pending[w]].w = pending_w, !.pending[w] = 0]

PendingEvents(l, w) == IF l.pending[w] = 0 THEN {} ELSE l.pendings[Pri(w)][l.pending[w]].events

ev_start(l, w, active) == [l EXCEPT !.active[w] = active, !.activecnt = @ + 1]
ev_stop(l, w) == [l EXCEPT !.active[w] = 0, !.activecnt = @ - 1]
ev_ref(l) == [l EXCEPT !.activecnt = @ + 1]
ev_unref(l) == [l EXCEPT !.activecnt = @ - 1]

----------------------------------------------------------------------------
(* File descriptors. *)

\* Does nothing more than note the descriptor, for fd_reify().
fd_change(l, fd, flags) ==
  [l EXCEPT !.anfds[fd].reify = @ \union flags,
            !.fdchanges = IF l.anfds[fd].reify = {} THEN Append(@, fd) ELSE @]

ev_io_start(l, w) ==
  LET fd == l.fd[w]
      m == [ev_start(l, w, 1) EXCEPT !.anfds[fd].head = <<w>> \o @]
  IN [fd_change(m, fd, (l.events[w] \intersect {"IOFDSET"}) \union {"REIFY"})
        EXCEPT !.events[w] = @ \ {"IOFDSET"}]

ev_io_stop(l, w) ==
  LET m == ev_stop(clear_pending(l, w), w)
  IN fd_change([m EXCEPT !.anfds[l.fd[w]].head = RemoveFirst(@, w)], l.fd[w], {"REIFY"})

\* The watchers of a descriptor that are interested.
fd_event_nocheck(l, fd, revents) ==
  FoldLeft(LAMBDA m, w : IF l.events[w] \intersect revents = {} THEN m
                         ELSE ev_feed_event(m, w, l.events[w] \intersect revents),
           l, l.anfds[fd].head)

fd_event(l, fd, revents) == IF l.anfds[fd].reify = {} THEN fd_event_nocheck(l, fd, revents) ELSE l

fd_kill(l, fd) ==
  FoldLeft(LAMBDA m, w : ev_feed_event(ev_io_stop(m, w), w, {"ERROR", "READ", "WRITE"}), l, l.anfds[fd].head)

\* For every descriptor in use: the kernel knows nothing of it any more.
fd_rearm(l, fd) ==
  IF fd \notin Fds \/ l.anfds[fd].events = {} THEN l
  ELSE fd_change([l EXCEPT !.anfds[fd].events = {}, !.anfds[fd].emask = {}], fd, {"IOFDSET", "REIFY"})

fd_rearm_all(l) == FoldLeft(LAMBDA m, fd : fd_rearm(m, fd), l, [i \in 1..anfdmax |-> i - 1])

----------------------------------------------------------------------------
(* Timers: after (relative) and repeat; periodics: offset, interval or a callback (absolute). *)

Heap(l, array) == [array |-> array, active |-> l.active]
Timers(l, h) == [l EXCEPT !.timers = h.array, !.active = h.active]
Periodics(l, h) == [l EXCEPT !.periodics = h.array, !.active = h.active]

\* ANHE_at_cache()
Cache(h, k, at) == [h EXCEPT !.array[k].at = at]

ev_timer_start(l, w) ==
  LET at == l.at[w] + l.mn_now
  IN ev_ref(Timers([l EXCEPT !.at[w] = at], Insert(Heap(l, l.timers), w, at)))

ev_timer_stop(l, w) ==
  LET m == clear_pending(l, w)
  IN ev_stop([Timers(m, Delete(Heap(m, m.timers), l.active[w])) EXCEPT !.at[w] = @ - l.mn_now], w)

ev_timer_again(l, w) ==
  LET m == clear_pending(l, w)
      at == l.mn_now + Repeat[w]
  IN CASE l.active[w] # 0 /\ Repeat[w] # 0 ->
            Timers([m EXCEPT !.at[w] = at],
                   adjustheap(Cache(Heap(m, m.timers), l.active[w], at), l.active[w]))
       [] l.active[w] # 0 /\ Repeat[w] = 0 -> ev_timer_stop(m, w)
       [] l.active[w] = 0 /\ Repeat[w] # 0 -> ev_timer_start([m EXCEPT !.at[w] = Repeat[w]], w)
       [] OTHER -> m

\* The first time after now that an interval gives.
periodic_recalc(l, w) == Offset[w] + Repeat[w] * ((l.ev_rt_now - Offset[w]) \div Repeat[w] + 1)

NextTime(l, w) == CASE w \in Rescheduled -> l.ev_rt_now + Repeat[w]
                    [] w \notin Rescheduled /\ Repeat[w] # 0 -> periodic_recalc(l, w)
                    [] OTHER -> l.at[w]

ev_periodic_start(l, w) ==
  LET at == IF w \in Rescheduled \/ Repeat[w] # 0 THEN NextTime(l, w) ELSE Offset[w]
  IN ev_ref(Periodics([l EXCEPT !.at[w] = at], Insert(Heap(l, l.periodics), w, at)))

ev_periodic_stop(l, w) ==
  LET m == clear_pending(l, w)
  IN ev_stop(Periodics(m, Delete(Heap(m, m.periodics), l.active[w])), w)

ev_periodic_again(l, w) ==
  ev_periodic_start(IF l.active[w] # 0 THEN ev_periodic_stop(l, w) ELSE clear_pending(l, w), w)

\* The first of a heap is due: it is stopped or gets its next time, which is not due. s.fed collects
\* who was due.
DueTimer(s) ==
  LET l == s.l
      w == l.timers[HEAP0].w
      again == l.at[w] + Repeat[w]
      at == IF again < l.mn_now THEN l.mn_now ELSE again
  IN IF DOMAIN l.timers = {} \/ ~(l.timers[HEAP0].at < l.mn_now) THEN s
     ELSE [l |-> IF Repeat[w] = 0 THEN ev_timer_stop(l, w)
                 ELSE Timers([l EXCEPT !.at[w] = at],
                             downheap(Cache(Heap(l, l.timers), HEAP0, at), HEAP0)),
           fed |-> <<w>> \o s.fed]

DuePeriodic(s) ==
  LET l == s.l
      w == l.periodics[HEAP0].w
      at == NextTime(l, w)
  IN IF DOMAIN l.periodics = {} \/ ~(l.periodics[HEAP0].at < l.ev_rt_now) THEN s
     ELSE [l |-> IF Repeat[w] = 0 THEN ev_periodic_stop(l, w)
                 ELSE Periodics([l EXCEPT !.at[w] = at],
                                downheap(Cache(Heap(l, l.periodics), HEAP0, at), HEAP0)),
           fed |-> <<w>> \o s.fed]

timers_reify(l) ==
  LET due == FoldLeft(LAMBDA s, i : DueTimer(s), [l |-> l, fed |-> <<>>], Passes(l.timers))
  IN queue_events(due.l, due.fed, {"TIMER"})

periodics_reify(l) ==
  LET due == FoldLeft(LAMBDA s, i : DuePeriodic(s), [l |-> l, fed |-> <<>>], Passes(l.periodics))
  IN queue_events(due.l, due.fed, {"PERIODIC"})

\* After a jump of the clock every periodic gets its time anew.
periodics_reschedule(l) ==
  LET ws == {l.periodics[k].w : k \in DOMAIN l.periodics}
      m == [l EXCEPT !.at = [w \in DOMAIN @ |-> IF w \in ws THEN NextTime(l, w) ELSE @[w]]]
  IN Periodics(m, reheap(Heap(m, [k \in DOMAIN l.periodics |-> [l.periodics[k] EXCEPT !.at = m.at[l.periodics[k].w]]])))

timers_reschedule(l, adjust) ==
  LET ws == {l.timers[k].w : k \in DOMAIN l.timers}
  IN [l EXCEPT !.at = [w \in DOMAIN @ |-> IF w \in ws THEN @[w] + adjust ELSE @[w]],
               !.timers = [k \in DOMAIN @ |-> [@[k] EXCEPT !.at = @ + adjust]]]

\* The clocks are read: the monotonic one, and the other when half a unit has passed. A difference
\* that has changed by a unit is a jump.
time_update(l, monotonic, realtime) ==
  IF monotonic = l.now_floor
  THEN [l EXCEPT !.mn_now = monotonic, !.ev_rt_now = l.rtmn_diff + monotonic]
  ELSE LET m == [l EXCEPT !.mn_now = monotonic, !.now_floor = monotonic, !.ev_rt_now = realtime,
                          !.rtmn_diff = realtime - monotonic]
       IN IF m.rtmn_diff = l.rtmn_diff THEN m ELSE periodics_reschedule(m)

----------------------------------------------------------------------------
(* The other kinds. *)

\* An element that leaves an array is replaced by the last one, which is told.
Leave(l, array, w) ==
  LET k == l.active[w]
      moved == Last(array)
  IN [array |-> Front([array EXCEPT ![k] = moved]),
      l |-> ev_stop([clear_pending(l, w) EXCEPT !.active[moved] = k], w)]

ev_idle_start(l, w) ==
  LET p == Pri(w) IN [ev_start(l, w, Len(l.idles[p]) + 1) EXCEPT !.idles[p] = Append(@, w)]

ev_idle_stop(l, w) ==
  LET left == Leave(l, l.idles[Pri(w)], w) IN [left.l EXCEPT !.idles[Pri(w)] = left.array]

\* ev_prepare_start(), ev_check_start(), ev_fork_start(), ev_cleanup_start() and ev_async_start(); a
\* cleanup watcher does not keep the loop alive.
ArrayStart(l, w) ==
  LET kind == Kind[w]
      m == [ev_start(l, w, Len(l.arrays[kind]) + 1) EXCEPT !.arrays[kind] = Append(@, w)]
  IN IF kind = "cleanup" THEN ev_unref(m) ELSE m

ArrayStop(l, w) ==
  LET kind == Kind[w]
      left == Leave(IF kind = "cleanup" THEN ev_ref(l) ELSE l, l.arrays[kind], w)
  IN [left.l EXCEPT !.arrays[kind] = left.array]

\* The watchers of a signal, and of the children with a pid or any, are lists.
ev_signal_start(l, w) ==
  LET s == IF w = childev THEN "CHLD" ELSE SignalOf[w]
  IN [ev_start(l, w, 1) EXCEPT !.heads[s] = <<w>> \o @]

ev_signal_stop(l, w) ==
  [ev_stop(clear_pending(l, w), w)
     EXCEPT !.heads[IF w = childev THEN "CHLD" ELSE SignalOf[w]] = RemoveFirst(@, w)]

ev_child_start(l, w) == [ev_start(l, w, 1) EXCEPT !.childs[PidOf[w]] = <<w>> \o @]
ev_child_stop(l, w) == [ev_stop(clear_pending(l, w), w) EXCEPT !.childs[PidOf[w]] = RemoveFirst(@, w)]

ev_feed_signal_event(l, s) == queue_events(l, l.heads[s], {"SIGNAL"})

\* Variant: one SIGCHLD is taken for one child.
ReapOne(l, pid) ==
  LET ws == l.childs[pid] \o l.childs[0]
  IN queue_events([l EXCEPT !.rpid = [w \in DOMAIN @ |-> IF w \in Range(ws) THEN pid ELSE @[w]]], ws, {"CHILD"})

\* childcb() for a child that waitpid() has returned: once more, after the child's watchers.
Reap(l, pid) ==
  LET m == ev_feed_event(l, childev, {"SIGNAL"})
      ws == l.childs[pid] \o l.childs[0]
  IN queue_events([m EXCEPT !.rpid = [w \in DOMAIN @ |-> IF w \in Range(ws) THEN pid ELSE @[w]]],
                  ws, {"CHILD"})

\* Idle watchers of the highest priority that has some, unless something of that or a higher one waits.
idle_reify(l) ==
  LET busy == {p \in Priorities : l.pendings[p] # <<>> \/ l.idles[p] # <<>>}
      p == CHOOSE p \in busy : \A q \in busy : q <= p
  IN IF busy = {} \/ l.pendings[p] # <<>> THEN l ELSE queue_events(l, l.idles[p], {"IDLE"})

----------------------------------------------------------------------------
Start(l, w) ==
  CASE l.active[w] # 0 -> l
    [] l.active[w] = 0 /\ Kind[w] = "io" -> ev_io_start(l, w)
    [] l.active[w] = 0 /\ Kind[w] = "timer" -> ev_timer_start(l, w)
    [] l.active[w] = 0 /\ Kind[w] = "periodic" -> ev_periodic_start(l, w)
    [] l.active[w] = 0 /\ Kind[w] = "idle" -> ev_idle_start(l, w)
    [] l.active[w] = 0 /\ Kind[w] = "signal" -> ev_signal_start(l, w)
    [] l.active[w] = 0 /\ Kind[w] = "child" -> ev_child_start(l, w)
    [] l.active[w] = 0 /\ Kind[w] \in Arrays -> ArrayStart(l, w)

Stop(l, w) ==
  CASE l.active[w] = 0 -> clear_pending(l, w)
    [] l.active[w] # 0 /\ Kind[w] = "io" -> ev_io_stop(l, w)
    [] l.active[w] # 0 /\ Kind[w] = "timer" -> ev_timer_stop(l, w)
    [] l.active[w] # 0 /\ Kind[w] = "periodic" -> ev_periodic_stop(l, w)
    [] l.active[w] # 0 /\ Kind[w] = "idle" -> ev_idle_stop(l, w)
    [] l.active[w] # 0 /\ Kind[w] = "signal" -> ev_signal_stop(l, w)
    [] l.active[w] # 0 /\ Kind[w] = "child" -> ev_child_stop(l, w)
    [] l.active[w] # 0 /\ Kind[w] \in Arrays -> ArrayStop(l, w)

\* A new loop, with the watcher for SIGCHLD, which does not keep it alive: loop_init() and
\* ev_default_loop(). fds and events are those of the io watchers, after the timers' delays.
ev_default_loop(fds, events, after, time) ==
  LET l == [active |-> [w \in Watchers \union {childev} |-> 0], activecnt |-> 0,
            pending |-> [w \in Watchers \union {childev} |-> 0], pendings |-> [p \in Priorities |-> <<>>],
            fd |-> fds, events |-> [w \in DOMAIN events |-> events[w] \union {"IOFDSET"}],
            anfds |-> [fd \in Fds |-> [head |-> <<>>, events |-> {}, reify |-> {}, emask |-> {}, egen |-> 0]],
            fdchanges |-> <<>>, eperms |-> <<>>,
            timers |-> <<>>, periodics |-> <<>>, at |-> after,
            idles |-> [p \in Priorities |-> <<>>], arrays |-> [kind \in Arrays |-> <<>>],
            heads |-> [s \in Signals |-> <<>>], childs |-> [p \in Pids \union {0} |-> <<>>],
            rpid |-> [w \in Of({"child"}) |-> 0],
            mn_now |-> time, ev_rt_now |-> time, now_floor |-> time, rtmn_diff |-> 0,
            postfork |-> FALSE, loop_done |-> FALSE]
  IN ev_unref(ev_signal_start(l, childev))
=============================================================================
