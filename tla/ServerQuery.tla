---------------------------- MODULE ServerQuery ----------------------------
(***************************************************************************)
(* One query to one server (dns_query.c): the state machine p_query_sm()   *)
(* over TCP and UDP, and p_exec_query(), which runs it, checks the header  *)
(* of what comes back and says "RETRY" where a server refuses recursion or *)
(* EDNS, to be asked again at once. Operators from the state st of a       *)
(* query (query_stat_t) to the set of what may come of a call. rv "AGAIN"  *)
(* is the code's -1: call again when the socket is ready.                  *)
(***************************************************************************)
EXTENDS Reply

CONSTANTS
  Replies(_, _), \* what the server at an address may reply to a query
  Faults,        \* what else may happen: "memory", "socket", "refused",
                 \* "unreachable", "reset", "slow", "at once", "junk", "poll", "purge"
  Ports          \* how many ports to query from, 0: the kernel chooses

Waiting == {"TCPWRITE", "TCPREAD", "UDPRECEIVE"}

IsDone(st) == st.state = "DONE"

\* add_qserv(). open: there is a socket; asked: there is a message; io: some bytes have moved.
NewQuery(addr, flags, nocache, lean, edns, auth, testing, trusted, nsdomain, rejectlist, qm) ==
  [addr |-> addr, flags |-> flags, nocache |-> nocache, lean |-> lean, edns |-> edns,
   auth_serv |-> auth, testing |-> testing, trusted |-> trusted, nsdomain |-> nsdomain,
   rejectlist |-> rejectlist, aa |-> FALSE, tc |-> FALSE, ra |-> FALSE, failed |-> 0,
   state |-> "INITIAL", qm |-> qm, errno |-> "none",
   open |-> FALSE, asked |-> FALSE, io |-> FALSE, rd |-> FALSE, opt |-> FALSE]

UseUdp(st) == st.qm \in {"UDP_ONLY", "UDP_TCP"}

TentativeTcp(st) ==
  st.qm = "TCP_UDP" /\ (st.state = "TCPWRITE" \/ (st.state = "TCPREAD" /\ ~st.io))

SwitchToUdp(st) == [st EXCEPT !.qm = "UDP_ONLY", !.open = FALSE, !.state = "UDPINITIAL"]
SwitchToTcp(st) == [st EXCEPT !.qm = "TCP_ONLY", !.state = "INITIAL", !.failed = 0]

----------------------------------------------------------------------------
(* p_query_sm(). busy: how many sockets the other queries have open.        *)

Errors == {"refused", "reset", "unreachable"} \intersect Faults

Again(st) == {[rv |-> "AGAIN", st |-> st, m |-> Nothing]}
Ended(st, rv, m) == {[rv |-> rv, st |-> [st EXCEPT !.state = "DONE", !.open = FALSE], m |-> m]}
Fails(st) == Ended(st, "SERVFAIL", Nothing)
Slow(st) == IF "slow" \in Faults THEN Again(st) ELSE {}
OutOfMemory(st) == IF "memory" \in Faults THEN Ended(st, "FATALERR", Nothing) ELSE {}

Received(st, query) == {m \in Replies(st.addr, query) : IsMessage(m)}

\* bind_socket() tries ports at random and then all of them in a row.
CanBind(busy) == Ports = 0 \/ busy < Ports

NoSocket(st, busy) == IF "socket" \in Faults \/ ~CanBind(busy) THEN Fails(st) ELSE {}

UdpInitial(st, busy) ==
  NoSocket(st, busy)
  \union IF ~CanBind(busy) THEN {}
         ELSE Again([st EXCEPT !.state = "UDPRECEIVE", !.open = TRUE])
              \union UNION {Fails([st EXCEPT !.errno = e]) : e \in Errors}

UdpReceive(st, query) ==
  OutOfMemory(st)
  \union (UNION {Fails([st EXCEPT !.errno = e]) : e \in Errors})
  \union (IF "junk" \in Faults THEN Again(st) ELSE {})          \* short, or another id
  \union UNION {Ended(st, "OK", m) : m \in Received(st, query)}

TcpFailed(st, busy) == IF st.qm = "TCP_UDP" THEN UdpInitial(SwitchToUdp(st), busy) ELSE Fails(st)

\* The length of the message, then the message.
TcpRead(st, query, busy) ==
  LET begun == [st EXCEPT !.io = TRUE]
  IN  Slow(st) \union Slow(begun)
      \union (IF st.io THEN {} ELSE OutOfMemory(begun))
      \union TcpFailed(st, busy)                                \* the end of the stream
      \union TcpFailed(begun, busy)
      \union (UNION {TcpFailed([st EXCEPT !.errno = e], busy) : e \in Errors})
      \union UNION {Ended(begun, "OK", m) : m \in Received(st, query)}

\* An error with nothing sent may be connect()'s. What is all sent is waited for.
TcpWrite(st, query, busy) ==
  Slow(st) \union Slow([st EXCEPT !.io = TRUE])
  \union (UNION {LET failed == [st EXCEPT !.errno = e]
                 IN  IF ~st.io /\ e \in {"refused", "reset"} THEN TcpFailed(failed, busy)
                     ELSE Fails(failed) : e \in Errors})
  \union Again([st EXCEPT !.state = "TCPREAD", !.io = FALSE])
  \union IF "at once" \in Faults THEN TcpRead([st EXCEPT !.state = "TCPREAD", !.io = FALSE], query, busy)
         ELSE {}

TcpInitial(st, query, busy) ==
  LET connecting == [st EXCEPT !.state = "TCPWRITE", !.open = TRUE, !.io = FALSE]
  IN  NoSocket(st, busy)
      \union IF ~CanBind(busy) THEN {}
             ELSE Again(connecting)
                  \union (IF "at once" \in Faults THEN TcpWrite(connecting, query, busy) ELSE {})
                  \union (IF "refused" \in Faults
                          THEN TcpFailed([st EXCEPT !.errno = "refused"], busy) ELSE {})
                  \union (IF "unreachable" \in Faults THEN Fails(st) ELSE {})

QuerySm(st, query, busy) ==
  CASE st.state = "TCPINITIAL" -> TcpInitial(st, query, busy)
    [] st.state = "TCPWRITE"   -> TcpWrite(st, query, busy)
    [] st.state = "TCPREAD"    -> TcpRead(st, query, busy)
    [] st.state = "UDPINITIAL" -> UdpInitial(st, busy)
    [] st.state = "UDPRECEIVE" -> UdpReceive(st, query)

----------------------------------------------------------------------------
(* p_exec_query(). A query is [name, type], or Nothing for a mere test.     *)

NoReply(rv, st, news) ==
  [rv |-> rv, st |-> st, ent |-> Nothing, ns |-> <<>>, adds |-> <<>>, news |-> news]

Discarded(rv, st, news) ==
  NoReply(rv, [st EXCEPT !.state = "DONE", !.asked = FALSE], news)

\* news: what sched_server_test() is told of the server.
Failed(o) ==
  LET down == o.st.testing > 0 /\ o.st.errno \in {"unreachable", "refused"}
  IN  Discarded(o.rv, IF down THEN [o.st EXCEPT !.testing = 0] ELSE o.st,
                IF down THEN "down" ELSE "none")

Restarted(st, news) ==
  NoReply("RETRY", [st EXCEPT !.state = IF UseUdp(st) THEN "UDPINITIAL" ELSE "TCPINITIAL"], news)

WithoutEdns(st) == [st EXCEPT !.opt = FALSE, !.edns = FALSE]

With(p, news) == [rv |-> p.rv, st |-> p.st, ent |-> p.ent, ns |-> p.ns, adds |-> p.adds, news |-> news]

\* The answer is read. Memory may run out in many places of it.
Read(st, m, query, news) ==
  LET done == [st EXCEPT !.state = "DONE", !.asked = FALSE]
  IN  IF query = Nothing THEN {NoReply(m.rcode, done, news)}
      ELSE {With(Process(done, m, query.name, query.type, st.rd), news)}
           \union IF "memory" \in Faults THEN {NoReply("FATALERR", done, news)} ELSE {}

Succeeded == {"OK", "NAMEERR"}
Refusals == {"SERVFAIL", "NOTSUPP", "REFUSED"}

\* Recursion is given up first, then EDNS.
GivesUpRecursion(st, m) == m.rcode \in Refusals /\ st.rd /\ ~m.ra
GivesUpEdns(st, m) ==
  m.rcode \in {"NOTSUPP", "REFUSED", "FORMAT"} /\ st.edns /\ st.opt /\ ~GivesUpRecursion(st, m)

\* A name server found on the way may answer in spite of its error code.
AnswersAnyway(st, m) == m.rcode \in Refusals /\ m.an # <<>> /\ st.auth_serv = 2

Answered(st, m, query, news) ==
  CASE m.rcode \notin Succeeded /\ query # Nothing /\ GivesUpRecursion(st, m) ->
         {Restarted([st EXCEPT !.rd = FALSE], news)}
    [] m.rcode \notin Succeeded /\ query # Nothing /\ GivesUpEdns(st, m) -> {Restarted(WithoutEdns(st), news)}
    [] \/ m.rcode \in Succeeded
       \/ query # Nothing /\ AnswersAnyway(st, m) /\ ~GivesUpRecursion(st, m) /\ ~GivesUpEdns(st, m) ->
         Read(IF m.rcode \in Succeeded THEN st ELSE [st EXCEPT !.failed = 3], m, query, news)
    [] OTHER -> {Discarded(m.rcode, st, news)}

\* What is made of one outcome of p_query_sm().
Outcome(o, query) ==
  CASE o.rv = "AGAIN" -> {NoReply("AGAIN", o.st, "none")}
    [] o.rv \in {"SERVFAIL", "FATALERR"} -> {Failed(o)}
    [] o.rv = "OK" /\ ~o.m.header -> {Discarded("SERVFAIL", o.st, "none")}
    [] o.rv = "OK" /\ o.m.header ->
         Answered([o.st EXCEPT !.testing = 0], o.m, query,
                  IF o.st.testing > 0 THEN "up" ELSE "none")

Begun(st, query) ==
  [st EXCEPT !.asked = TRUE, !.rd = query # Nothing /\ st.trusted,
             !.opt = query # Nothing /\ st.edns,
             !.state = IF UseUdp(st) THEN "UDPINITIAL" ELSE "TCPINITIAL"]

\* One call, up to its end or to a "RETRY", which the caller makes good at once.
Exec(st, query, busy) ==
  (IF st.state = "INITIAL" /\ "memory" \in Faults
   THEN {NoReply("FATALERR", [st EXCEPT !.state = "DONE"], "none")} ELSE {})
  \union UNION {Outcome(o, query) :
                  o \in QuerySm(IF st.state = "INITIAL" THEN Begun(st, query) ELSE st, query, busy)}

\* Variant: a connection that is still being set up is left open.
CancelReading(st) ==
  [st EXCEPT !.open = IF st.state \in {"TCPREAD", "UDPRECEIVE"} THEN FALSE ELSE @,
             !.asked = IF st.state \in {"INITIAL", "DONE"} THEN @ ELSE FALSE,
             !.state = IF st.state \in {"INITIAL", "DONE"} THEN @ ELSE "CANCELED"]

\* p_cancel_query()
Cancel(st) ==
  [st EXCEPT !.open = IF st.state \in Waiting THEN FALSE ELSE @,
             !.asked = IF st.state \in {"INITIAL", "DONE"} THEN @ ELSE FALSE,
             !.state = IF st.state \in {"INITIAL", "DONE"} THEN @ ELSE "CANCELED"]
=============================================================================
