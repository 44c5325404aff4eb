------------------------------ MODULE EvEpoll ------------------------------
(***************************************************************************)
(* libev's epoll backend (ev_epoll.c) with what fd_reify() and loop_fork() *)
(* (ev.c) ask of it, and the kernel's side as it is used here. Kernel and  *)
(* loop change together: a pair, s, of the loop, s.l, and the kernel, s.k. *)
(*                                                                         *)
(* The kernel knows an open file by a number that it gives only once, and  *)
(* has a descriptor's file, 0 when it is closed, in k.file. What is        *)
(* registered, for a descriptor and its file, has a mask and, as the data  *)
(* of its events, the descriptor with a generation, and lasts until the    *)
(* file is closed in every process. A plain file cannot be registered.     *)
(***************************************************************************)
EXTENDS EvLoop

NoKernel == [file |-> [fd \in Fds |-> 0], files |-> 0, plain |-> {}, registered |-> [key \in {} |-> 0]]

Key(k, fd) == <<fd, k.file[fd]>>
IsRegistered(k, fd) == Key(k, fd) \in DOMAIN k.registered
Register(k, fd, mask, gen) == [k EXCEPT !.registered = (Key(k, fd) :> [mask |-> mask, gen |-> gen]) @@ @]
Unregister(k, keys) == [k EXCEPT !.registered = [key \in DOMAIN @ \ keys |-> @[key]]]

Open(k, fd, plain) ==
  [k EXCEPT !.files = @ + 1, !.file[fd] = k.files + 1,
            !.plain = IF plain THEN @ \union {k.files + 1} ELSE @]

\* The file may stay open in a child.
Close(k, fd, shared) ==
  [IF shared THEN k ELSE Unregister(k, {Key(k, fd)}) EXCEPT !.file[fd] = 0]

----------------------------------------------------------------------------
\* EPOLL_CTL_DEL is left out. ADD or MOD, whichever fails because the descriptor is registered or is
\* not is followed by the other; but a registration that is thought to have the mask already, when
\* ADD finds it, is left as it is.
epoll_modify(s, fd, nev) ==
  LET a == s.l.anfds[fd]
      file == s.k.file[fd]
  IN CASE nev = {} \/ (file \notin s.k.plain /\ IsRegistered(s.k, fd) /\ a.emask = nev) -> s
       [] nev # {} /\ file = 0 ->
            [s EXCEPT !.l = fd_kill([s.l EXCEPT !.anfds[fd].emask = nev], fd)]
       [] nev # {} /\ file \in s.k.plain ->
            [s EXCEPT !.l.anfds[fd] = [a EXCEPT !.emask = {"EPERM"}, !.egen = @ + 1],
                      !.l.eperms = IF "EPERM" \in a.emask THEN @ ELSE Append(@, fd)]
       [] OTHER ->
            [l |-> [s.l EXCEPT !.anfds[fd] = [a EXCEPT !.emask = nev, !.egen = @ + 1]],
             k |-> Register(s.k, fd, nev, a.egen + 1)]

Wanted(l, fd) == UNION {l.events[w] : w \in Range(l.anfds[fd].head)}

\* Variant: only a change of the events counts.
ReifyFirstChanged(s) ==
  LET fd == Head(s.l.fdchanges)
      a == s.l.anfds[fd]
      events == Wanted(s.l, fd)
      t == [s EXCEPT !.l.fdchanges = Tail(@), !.l.anfds[fd] = [a EXCEPT !.reify = {}, !.events = events]]
  IN IF a.events # events THEN epoll_modify(t, fd, events) ELSE t

\* fd_reify() for the first of the descriptors that have changed.
ReifyFirst(s) ==
  LET fd == Head(s.l.fdchanges)
      a == s.l.anfds[fd]
      events == Wanted(s.l, fd)
      t == [s EXCEPT !.l.fdchanges = Tail(@), !.l.anfds[fd] = [a EXCEPT !.reify = {}, !.events = events]]
  IN IF a.events # events \/ "IOFDSET" \in a.reify THEN epoll_modify(t, fd, events) ELSE t

\* A descriptor that is killed on the way comes again, behind the others, and has no watcher then.
ReifyAll(s) == FoldLeft(LAMBDA t, fd : ReifyFirst(t), s, s.l.fdchanges)
fd_reify(s) == ReifyAll(ReifyAll(s))

----------------------------------------------------------------------------
\* An event of an older generation shows a file that is open elsewhere, one that nobody wants a
\* registration that has not been deleted; if that cannot be done now either everything is recreated.
Event(s, event) ==
  LET fd == event.fd
      a == s.l.anfds[fd]
      heard == [s EXCEPT !.l.anfds[fd].emask = a.events]
  IN CASE event.gen # a.egen -> [s EXCEPT !.l.postfork = TRUE]
       [] event.gen = a.egen /\ event.got \subseteq a.events -> [s EXCEPT !.l = fd_event(@, fd, event.got)]
       [] event.gen = a.egen /\ ~(event.got \subseteq a.events) /\ ~IsRegistered(s.k, fd) ->
            [heard EXCEPT !.l.postfork = TRUE]
       [] OTHER ->
            [l |-> fd_event(heard.l, fd, event.got),
             k |-> IF a.events = {} THEN Unregister(s.k, {Key(s.k, fd)})
                   ELSE Register(s.k, fd, a.events, event.gen)]

\* A plain file is always ready; one that is not watched any more leaves, and the last comes instead.
\* What its mask was is not forgotten.
SynthesizeAt(l, i) ==
  LET fd == l.eperms[i]
      events == l.anfds[fd].events
  IN IF "EPERM" \in l.anfds[fd].emask /\ events # {}
     THEN fd_event(l, fd, events)
     ELSE [l EXCEPT !.eperms = Front([l.eperms EXCEPT ![i] = Last(l.eperms)])]

\* From the last to the first.
Synthesize(l) ==
  LET n == Len(l.eperms)
  IN FoldLeft(LAMBDA m, i : SynthesizeAt(m, i), l, [i \in 1..n |-> n + 1 - i])

epoll_poll(s, events) ==
  LET t == FoldLeft(LAMBDA u, event : Event(u, event), s, events)
  IN [t EXCEPT !.l = Synthesize(@)]

epoll_fork(s) == [l |-> fd_rearm_all(s.l), k |-> Unregister(s.k, DOMAIN s.k.registered)]
=============================================================================
