--------------------------------- MODULE Ev ---------------------------------
(***************************************************************************)
(* libev's event loop (ev.c, ev_epoll.c), which ss-local and ss-tunnel run *)
(* in one thread: ev_run() stage by stage, the callbacks with the calls    *)
(* they make, and beside them the signal handlers, the children, the files *)
(* and the clocks. A program is chosen from Programs: the watchers it      *)
(* starts first, its flags and what may happen to it.                      *)
(***************************************************************************)
EXTENDS EvEpoll, EvPipe

CONSTANTS
  Programs,
  FdOf, EventsOf, AfterOf,   \* the initial fields of io watchers and timers
  PartnerOf,                 \* the other watcher of an ev_once()
  Observed,                  \* the watchers that Served is about
  MAX_BLOCKTIME              \* in ticks

VARIABLES
  program, loop, kernel,
  pc, pri, then, current,    \* the stage, the priority that is invoked, what follows, the callback
  wait,                      \* the timeout of epoll_wait()
  eintr,                     \* a handler has run during it
  clock, jumped,             \* the clocks: time of the monotonic one, the other's difference
  left,                      \* how often what the program may do, or suffer, may still happen
  children,                  \* "runs", "zombie" or "gone"
  owed,                      \* who has not been called for what has happened: a history
  stopped                    \* whom the program has stopped and not started or fed since: a history

thread == <<pc, pri, then, current, at, scan, fed, loop>>
world == <<clock, jumped, left, children>>
vars == <<program, loop, kernel, pc, pri, then, current, wait, eintr, world, owed, stopped, pipe>>

\* What evpipe's part knows of the watchers.
Watched(l) == {s \in Signals : l.heads[s] # <<>>} \union {a \in Asyncs : l.active[a] # 0}

Go(stage) == pc' = stage /\ UNCHANGED <<pri, then>>
InvokePending(stage) == pc' = "invoking" /\ pri' = MAXPRI /\ then' = stage

Begun(p) == FoldLeft(Start, ev_default_loop(FdOf, EventsOf, AfterOf, 0), p.begin)
Opened(p) == FoldLeft(LAMBDA k, fd : Open(k, fd, fd \in p.plain), NoKernel, p.open)

Init ==
  /\ program \in Programs
  /\ loop = Begun(program) /\ kernel = Opened(program)
  /\ pc = "outside" /\ pri = 0 /\ then = "outside" /\ current = pending_w
  /\ wait = 0 /\ eintr = FALSE
  /\ clock = 0 /\ jumped = 0 /\ left = program.bounds
  /\ children = [pid \in Pids |-> IF pid \in program.children THEN "runs" ELSE "gone"]
  /\ owed = {} /\ stopped = {}
  /\ watched = Watched(loop) /\ PipeInit

----------------------------------------------------------------------------
(* The world: handlers interrupt the loop between any two steps. *)

Spend(what) == left[what] > 0 /\ left' = [left EXCEPT ![what] = @ - 1]

Interrupts == eintr' = (at \in {"blocks", "polls"})

Raise(s) ==
  /\ RaiseSignal(s) /\ Interrupts
  /\ Spend(s)
  /\ owed' = owed \union {<<w, 0>> : w \in Range(loop.heads[s])}
  /\ UNCHANGED <<program, loop, kernel, pc, pri, then, current, wait, clock, jumped, children, stopped>>

\* From the handler of a signal that libev does not know.
Send(a) ==
  /\ SendAsync(a) /\ Interrupts
  /\ Spend("async")
  /\ owed' = owed \union {<<a, 0>>}
  /\ UNCHANGED <<program, loop, kernel, pc, pri, then, current, wait, clock, jumped, children, stopped>>

ChildExits(pid) ==
  /\ RaiseSignal("CHLD") /\ Interrupts
  /\ children[pid] = "runs" /\ children' = [children EXCEPT ![pid] = "zombie"]
  /\ owed' = owed \union {<<w, pid>> : w \in Range(loop.childs[pid] \o loop.childs[0])}
  /\ UNCHANGED <<program, loop, kernel, pc, pri, then, current, wait, clock, jumped, left, stopped>>

\* Time passes while the loop waits and in callbacks; the clock may be set.
Tick ==
  /\ at = "blocks" \/ pc = "calling"
  /\ clock < program.time /\ clock' = clock + 1
  /\ UNCHANGED <<program, loop, kernel, pc, pri, then, current, wait, eintr, jumped, left, children, owed,
                 stopped, pipe>>

Jump(by) ==
  /\ at = "blocks" \/ pc = "calling"
  /\ clock < program.time
  /\ Spend("jump") /\ jumped' = jumped + by
  /\ UNCHANGED <<program, loop, kernel, pc, pri, then, current, wait, eintr, clock, children, owed, stopped,
                 pipe>>

----------------------------------------------------------------------------
(* What a callback may call. *)

NoWatcher(fd) == loop.anfds[fd].head = <<>>

Legal(c) ==
  CASE c.op = "open" -> kernel.file[c.fd] = 0
    [] c.op = "close" -> kernel.file[c.fd] # 0 /\ NoWatcher(c.fd)
    [] c.op = "once" -> loop.active[c.w] = 0 /\ loop.active[PartnerOf[c.w]] = 0
    [] OTHER -> TRUE

\* The watchers of a file that is closed are set anew: ev_io_set(), before they may start again.
Closed(l, fd) ==
  [l EXCEPT !.events = [w \in DOMAIN @ |-> IF l.fd[w] = fd THEN @[w] \union {"IOFDSET"} ELSE @[w]]]

\* ev_resume()
Resumed(l) ==
  LET m == time_update(l, clock, clock + jumped)
  IN periodics_reschedule(timers_reschedule(m, m.mn_now - l.mn_now))

Loop(c, l) ==
  CASE c.op = "start" -> Start(l, c.w)
    [] c.op = "stop" -> Stop(l, c.w)
    [] c.op = "again" /\ Kind[c.w] = "timer" -> ev_timer_again(l, c.w)
    [] c.op = "again" /\ Kind[c.w] = "periodic" -> ev_periodic_again(l, c.w)
    [] c.op = "feed" -> ev_feed_event(l, c.w, {"CUSTOM"})
    [] c.op = "close" -> Closed(l, c.fd)
    [] c.op = "feed fd" -> fd_event_nocheck(l, c.fd, {"READ"})
    [] c.op = "once" -> Start(Start(l, c.w), PartnerOf[c.w])
    [] c.op = "break" -> [l EXCEPT !.loop_done = TRUE]
    [] c.op = "fork" -> [l EXCEPT !.postfork = TRUE]
    [] c.op = "resume" -> Resumed(l)
    [] OTHER -> l

Kernel(c, k) ==
  CASE c.op = "open" -> Open(k, c.fd, c.plain)
    [] c.op = "close" -> Close(k, c.fd, c.shared)
    [] OTHER -> k

Stopped(c) ==
  CASE c.op = "stop" -> stopped \union {c.w}
    [] c.op \in {"start", "again", "feed"} -> stopped \ {c.w}
    [] c.op = "once" -> stopped \ {c.w, PartnerOf[c.w]}
    [] c.op = "feed fd" -> stopped \ Range(loop.anfds[c.fd].head)
    [] OTHER -> stopped

Call(c) ==
  /\ pc = "calling" /\ Legal(c) /\ Spend("call")
  /\ loop' = Loop(c, loop) /\ kernel' = Kernel(c, kernel)
  /\ Watch(Watched(loop'))
  /\ stopped' = Stopped(c)
  /\ owed' = {o \in owed : o[1] \notin stopped'}
  /\ UNCHANGED <<program, pc, pri, then, current, wait, eintr, clock, jumped, children>>

Return ==
  /\ pc = "calling" /\ Go("invoking")
  /\ UNCHANGED <<program, loop, kernel, current, wait, eintr, world, owed, stopped, pipe>>

----------------------------------------------------------------------------
(* ev_invoke_pending() *)

Unused == UNCHANGED <<program, kernel, wait, eintr, clock, jumped, left>>

Pop(l) ==
  LET w == Last(l.pendings[pri]).w
      m == [l EXCEPT !.pendings[pri] = Front(@)]
  IN IF w = pending_w THEN m ELSE [m EXCEPT !.pending[w] = 0]

\* once_cb() stops and frees both watchers, and calls the program's function.
OnceDone(l, w) == IF w \in DOMAIN PartnerOf THEN Stop(Stop(l, w), PartnerOf[w]) ELSE l

Invoke ==
  /\ pc = "invoking" /\ at = "runs" /\ loop.pendings[pri] # <<>>
  /\ LET w == Last(loop.pendings[pri]).w
     IN CASE w = pending_w ->
               loop' = Pop(loop) /\ Go(pc) /\ UNCHANGED <<current, children, owed, stopped>>
          [] w = childev ->
               /\ IF \A pid \in Pids : children[pid] # "zombie" THEN loop' = Pop(loop) /\ UNCHANGED children
                  ELSE \E pid \in Pids : /\ children[pid] = "zombie"
                                        /\ children' = [children EXCEPT ![pid] = "gone"]
                                        /\ loop' = Reap(Pop(loop), pid)
               /\ owed' = owed \ {<<childev, 0>>}
               /\ Go(pc) /\ UNCHANGED <<current, stopped>>
          [] OTHER ->
               /\ loop' = OnceDone(Pop(loop), w) /\ current' = w /\ Go("calling")
               /\ owed' = owed \ {<<w, IF Kind[w] = "child" THEN loop.rpid[w] ELSE 0>>}
               /\ stopped' = IF w \in DOMAIN PartnerOf THEN stopped \union {PartnerOf[w]} ELSE stopped
               /\ UNCHANGED children
  /\ UNCHANGED pipe /\ Unused

\* pipe_w is pending with the highest priority.
InvokePipecb ==
  /\ pc = "invoking" /\ pri = MAXPRI /\ Pipecb
  /\ UNCHANGED <<loop, pc, pri, then, current, children, owed, stopped>> /\ Unused

\* Priorities only fall: what a callback feeds at a higher one waits for the next round.
NextPriority ==
  /\ pc = "invoking" /\ at = "runs" /\ loop.pendings[pri] = <<>>
  /\ pri = MAXPRI => fed = {}
  /\ IF pri > 0 THEN pri' = pri - 1 /\ UNCHANGED <<pc, then>> ELSE Go(then)
  /\ UNCHANGED <<loop, current, children, owed, stopped, pipe>> /\ Unused

----------------------------------------------------------------------------
(* pipecb(), once the eventfd has been read *)

Serve(l) == loop' = l /\ UNCHANGED <<pc, pri, then, current, children, owed, stopped>> /\ Unused

Pipes ==
  \/ (Clear \/ CheckSignals \/ CheckAsyncs) /\ Serve(loop)
  \/ \E s \in Signals : FeedSignal(s) /\ Serve(IF pending[s] THEN ev_feed_signal_event(loop, s) ELSE loop)
  \/ \E a \in Asyncs : FeedAsync(a) /\ Serve(IF sent[a] THEN ev_feed_event(loop, a, {"ASYNC"}) ELSE loop)

----------------------------------------------------------------------------
(* ev_run() *)

Still == UNCHANGED <<current, wait, eintr, world, owed, stopped, program>>

ev_run ==
  /\ pc \in {"outside", "left"} /\ Spend("run")
  /\ loop' = [loop EXCEPT !.loop_done = FALSE]
  /\ InvokePending("forks")
  /\ UNCHANGED <<kernel, current, wait, eintr, clock, jumped, children, owed, stopped, program, pipe>>

Forks ==
  /\ pc = "forks"
  /\ IF loop.postfork /\ loop.arrays["fork"] # <<>>
     THEN loop' = queue_events(loop, loop.arrays["fork"], {"FORK"}) /\ InvokePending("prepares")
     ELSE UNCHANGED loop /\ Go("prepares")
  /\ UNCHANGED <<kernel, pipe>> /\ Still

Prepares ==
  /\ pc = "prepares"
  /\ IF loop.arrays["prepare"] # <<>>
     THEN loop' = queue_events(loop, loop.arrays["prepare"], {"PREPARE"}) /\ InvokePending("ready")
     ELSE UNCHANGED loop /\ Go("ready")
  /\ UNCHANGED <<kernel, pipe>> /\ Still

\* loop_fork() recreates what the kernel knows, with a new eventfd, and looks what has been missed.
Ready ==
  /\ pc = "ready"
  /\ CASE loop.loop_done -> Go("leaves") /\ UNCHANGED <<loop, kernel, pipe>>
       [] ~loop.loop_done /\ loop.postfork ->
            LET s == epoll_fork([l |-> loop, k |-> kernel])
            IN loop' = [s.l EXCEPT !.postfork = FALSE] /\ kernel' = s.k /\ Renew /\ Go("reify")
       [] OTHER -> Go("reify") /\ UNCHANGED <<loop, kernel, pipe>>
  /\ Still

Reify ==
  /\ pc = "reify" /\ Want
  /\ LET s == fd_reify([l |-> loop, k |-> kernel])
     IN loop' = time_update(s.l, clock, clock + jumped) /\ kernel' = s.k
  /\ Go("poll") /\ Still

\* The earliest timer ends the wait, which is never 0: backend_mintime, here a tick.
Timeout(l) ==
  LET due == {l.timers[k].at - l.mn_now : k \in {HEAP0} \intersect DOMAIN l.timers}
               \union {l.periodics[k].at - l.ev_rt_now : k \in {HEAP0} \intersect DOMAIN l.periodics}
               \union {MAX_BLOCKTIME}
      first == CHOOSE t \in due : \A u \in due : t <= u
  IN IF first < 1 THEN 1 ELSE first

\* No wait with idle watchers, without anything to wait for, or when the pipe has not been written to.
Blocks == /\ program.flags # "NOWAIT" /\ loop.activecnt # 0 /\ ~pipe_write_skipped
          /\ \A p \in Priorities : loop.idles[p] = <<>>

BeginWait ==
  /\ pc = "poll" /\ at = "wants" /\ Look(Blocks)
  /\ wait' = Timeout(loop) /\ eintr' = FALSE
  /\ UNCHANGED <<loop, kernel, pc, pri, then, current, world, owed, stopped, program>>

\* What epoll_wait() may return for a registration: what was asked for, or an error.
Reports(key) ==
  {[fd |-> key[1], gen |-> kernel.registered[key].gen, got |-> got]
     : got \in {{e} : e \in kernel.registered[key].mask} \union {{"READ", "WRITE"}}}

Sleeps == at = "blocks" /\ loop.eperms = <<>>
TimedOut == Sleeps => clock >= loop.mn_now + wait \/ clock = program.time

\* One file, or none, is reported with the eventfd; the program may have been told to look again.
EndWait(events, interrupted) ==
  /\ pc = "poll" /\ Poll(interrupted)
  /\ interrupted => eintr /\ events = <<>>
  /\ ~interrupted => events # <<>> \/ evfd \/ TimedOut
  /\ IF interrupted THEN UNCHANGED <<loop, kernel>>
     ELSE LET s == epoll_poll([l |-> loop, k |-> kernel], events) IN loop' = s.l /\ kernel' = s.k
  /\ Go("polled") /\ Still

AfterWait ==
  /\ pc = "polled" /\ Unwant
  /\ UNCHANGED <<loop, kernel, pc, pri, then>> /\ Still

\* The rest of the turn feeds timers, periodics, idle watchers and check watchers, in this order.
FeedTimed ==
  /\ pc = "polled" /\ CheckSkipped
  /\ LET timed == periodics_reify(timers_reify(time_update(loop, clock, clock + jumped)))
         idle == IF fed' = {} THEN idle_reify(timed) ELSE timed
     IN loop' = queue_events(idle, idle.arrays["check"], {"CHECK"})
  /\ InvokePending("turn")
  /\ UNCHANGED kernel /\ Still

Turn ==
  /\ pc = "turn"
  /\ Go(IF loop.activecnt # 0 /\ ~loop.loop_done /\ program.flags = "" THEN "forks" ELSE "leaves")
  /\ UNCHANGED <<loop, kernel, pipe>> /\ Still

Leaves ==
  /\ pc = "leaves" /\ Go("left")
  /\ loop' = [loop EXCEPT !.loop_done = FALSE]
  /\ UNCHANGED <<kernel, pipe>> /\ Still

\* ev_loop_destroy(): the cleanup watchers are called, then everything is freed.
Destroy ==
  /\ pc = "left" /\ left["run"] = 0
  /\ IF loop.arrays["cleanup"] # <<>>
     THEN loop' = queue_events(loop, loop.arrays["cleanup"], {"CLEANUP"}) /\ InvokePending("frees")
     ELSE UNCHANGED loop /\ Go("frees")
  /\ UNCHANGED <<kernel, pipe>> /\ Still

Free ==
  /\ pc = "frees" /\ Go("destroyed")
  /\ loop' = ev_signal_stop(ev_ref(loop), childev)
  /\ Watch({}) /\ owed' = {}
  /\ UNCHANGED <<kernel, current, wait, eintr, world, stopped, program>>

----------------------------------------------------------------------------
Stage == \/ ev_run \/ Forks \/ Prepares \/ Ready \/ Reify \/ BeginWait \/ AfterWait \/ FeedTimed \/ Turn \/ Leaves
         \/ Destroy \/ Free

Polls == \/ \E interrupted \in BOOLEAN : EndWait(<<>>, interrupted)
         \/ \E key \in DOMAIN kernel.registered : \E event \in Reports(key) : EndWait(<<event>>, FALSE)

Handlers == \/ \E s \in Signals : Raise(s)
            \/ \E a \in Asyncs : Send(a)
            \/ \E pid \in Pids : ChildExits(pid)

Next ==
  \/ Handlers \/ Tick \/ \E by \in program.jumps : Jump(by)
  \/ \E c \in program.calls : Call(c)
  \/ Return \/ Invoke \/ InvokePipecb \/ NextPriority \/ Pipes \/ Stage \/ Polls

Spec == Init /\ [][Next]_vars

(* The thread of the loop goes on, once epoll_wait() has something to return; time passes. Handlers,  *)
(* files, calls and the clock's jumps owe nothing.                                                    *)
CanMove == \/ pc \notin {"poll", "left", "destroyed"}
           \/ pc = "left" /\ left["run"] = 0
           \/ pc = "poll" /\ (at = "wants" \/ eintr \/ evfd \/ TimedOut)
CanTick == clock < program.time /\ (at = "blocks" \/ pc = "calling")

Fairness == /\ []<>~CanMove \/ []<><<TRUE>>_thread
            /\ <>[]~CanTick \/ []<><<TRUE>>_clock

FairSpec == Spec /\ Fairness

----------------------------------------------------------------------------
(* Properties. *)

\* Whatever callbacks stop, start and set again, in whatever order, and however the clock is set: the
\* heaps are ordered, every watcher knows its own place in the heap, array or list of pending events
\* that has it, and activecnt, which ends ev_run(), counts them (verify_heap(), ev_verify()).
HeapsExact ==
  /\ HeapExact(loop.timers, loop.active, loop.at)
  /\ HeapExact(loop.periodics, loop.active, loop.at)
  /\ \A w \in Watchers : loop.pending[w] # 0 => loop.pendings[Pri(w)][loop.pending[w]].w = w
  /\ \A p \in Priorities : \A i \in DOMAIN loop.idles[p] : loop.active[loop.idles[p][i]] = i
  /\ \A kind \in Arrays : \A i \in DOMAIN loop.arrays[kind] : loop.active[loop.arrays[kind][i]] = i
  /\ loop.activecnt = Cardinality({w \in Watchers : loop.active[w] # 0 /\ Kind[w] # "cleanup"})

Covered(fd) ==
  LET a == loop.anfds[fd]
      file == kernel.file[fd]
  IN \/ Wanted(loop, fd) = {}
     \/ file \in kernel.plain /\ "EPERM" \in a.emask
     \/ /\ IsRegistered(kernel, fd)
        /\ Wanted(loop, fd) \subseteq kernel.registered[Key(kernel, fd)].mask
        /\ kernel.registered[Key(kernel, fd)].gen = a.egen

\* While the loop waits, the kernel reports what the watchers want of every file that it can report,
\* and libev takes the report for a current one, although a descriptor may have been closed and given to another file, a
\* child may keep the old one open, and registrations are not deleted (epoll_modify()).
KernelCovers == at \in {"blocks", "polls"} => \A fd \in Fds : Covered(fd)

\* The kernel reports nothing of a plain file: "the fd is always ready, but epoll is too snobbish to
\* handle it", and epoll_poll() makes its events, of those that are in epoll_eperms. A plain file that
\* a watcher wants should be there while the loop waits.
PlainFilesReady ==
  at \in {"blocks", "polls"} =>
    \A fd \in Fds : kernel.file[fd] \in kernel.plain /\ Wanted(loop, fd) # {} => fd \in Range(loop.eperms)

\* A watcher that the program has stopped is not called any more, in the same round or later, also
\* when it was pending with others (clear_pending() for every kind of watcher, fd_event(), once_cb()).
NoGhost == [][pc' = "calling" /\ pc # "calling" => current' \notin stopped]_vars

Due(w) == loop.active[w] # 0 /\ \/ Kind[w] = "timer" /\ loop.at[w] < clock
                                \/ Kind[w] = "periodic" /\ loop.at[w] < clock + jumped

Awaited(w) == Due(w) \/ loop.pending[w] # 0 \/ \E o \in owed : o[1] = w

\* Everybody is served: a timer whose time has come, on a clock that may be set, a watcher with a
\* pending event, and one whose signal, child or async a handler has noted is called, stopped or given
\* a later time, unless the loop ends first, even if callbacks start and feed others all the time.
Served == \A w \in Observed : Awaited(w) ~> (~Awaited(w) \/ pc \in {"left", "destroyed"})
=============================================================================

