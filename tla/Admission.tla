------------------------------ MODULE Admission ------------------------------
(***************************************************************************)
(* The threads that answer (dns_answer.c): main() starts a TCP and a UDP   *)
(* server, a server starts a thread for each query it takes. qprocs counts *)
(* these threads, procs those that have begun to answer; both are limited. *)
(* A server that cannot go on closes its socket, and the last one ends the *)
(* program: pdnsd_exit() sends the main thread a signal it waits for. The  *)
(* names of the threads are only reported and left out.                    *)
(***************************************************************************)
EXTENDS Integers, FiniteSets

CONSTANTS
  Workers,                   \* answering threads
  proc_limit, procq_limit,
  MaxQueries                 \* bound on queries from clients

ASSUME WorkersFinite == IsFiniteSet(Workers)
ASSUME LimitsNat == proc_limit \in Nat /\ procq_limit \in Nat

VARIABLES
  main,                      \* the server that the main thread starts next, or its place after
  serv,                      \* the servers' places
  open,                      \* tcp_socket and udp_socket, # -1
  pc,                        \* the workers' places
  procs, qprocs,
  taken,                     \* queries so far: spawned + dropped, which is all that is kept of them
  exiting                    \* somebody has called pdnsd_exit()

threads == <<main, serv, open>>
counters == <<procs, qprocs, taken>>
admission == <<threads, pc, counters, exiting>>

Servers == {"tcp", "udp"}
Other == [tcp |-> "udp", udp |-> "tcp"]
Places == {"tcp", "udp", "wait", "gone"}

AdmissionInit ==
  /\ open \in [Servers -> BOOLEAN] /\ \E s \in Servers : open[s]
  /\ main = "tcp"
  /\ serv = [s \in Servers |-> "none"]
  /\ pc = [w \in Workers |-> "none"]
  /\ procs = 0 /\ qprocs = 0 /\ taken = 0
  /\ exiting = FALSE

----------------------------------------------------------------------------
(* start_dns_servers() *)

GoesOn(s) == IF s = "tcp" THEN "udp" ELSE "wait"

StartServer(s) ==
  /\ main = s /\ main' = GoesOn(s)
  /\ IF open[s] THEN serv' = [serv EXCEPT ![s] = "starts"] ELSE UNCHANGED serv
  /\ UNCHANGED <<open, pc, counters, exiting>>

\* The main thread ends itself, and with it the only one that waits for the signal.
StartFails(s) ==
  /\ main = s /\ open[s]
  /\ main' = "gone" /\ exiting' = TRUE
  /\ UNCHANGED <<serv, open, pc, counters>>

----------------------------------------------------------------------------
(* tcp_server_thread() and udp_server_thread() *)

\* run_as(), which is a thread's own affair unless strict_suid is set.
ServerRunsAs(s) ==
  /\ serv[s] = "starts"
  /\ serv' = [serv EXCEPT ![s] = "recv"]
  /\ UNCHANGED <<main, open, pc, counters, exiting>>

\* The thread ends; its socket stays open.
ServerRunAsFails(s) ==
  /\ serv[s] = "starts"
  /\ serv' = [serv EXCEPT ![s] = "over"] /\ exiting' = TRUE
  /\ UNCHANGED <<main, open, pc, counters>>

Takes(s) == serv[s] = "recv" /\ taken < MaxQueries

\* A query has come. Variant: the limit on queued queries stands alone.
AdmitQueued(s) ==
  /\ Takes(s)
  /\ taken' = taken + 1
  /\ IF qprocs - procs <= procq_limit
     THEN qprocs' = qprocs + 1 /\ serv' = [serv EXCEPT ![s] = "create"]
     ELSE UNCHANGED <<qprocs, serv>>
  /\ UNCHANGED <<main, open, pc, procs, exiting>>

Admit(s) ==
  /\ Takes(s)
  /\ taken' = taken + 1
  /\ IF qprocs < proc_limit + procq_limit
     THEN qprocs' = qprocs + 1 /\ serv' = [serv EXCEPT ![s] = "create"]
     ELSE UNCHANGED <<qprocs, serv>>
  /\ UNCHANGED <<main, open, pc, procs, exiting>>

Create(s, w) ==
  /\ serv[s] = "create" /\ pc[w] = "none"
  /\ pc' = [pc EXCEPT ![w] = "started"] /\ serv' = [serv EXCEPT ![s] = "recv"]
  /\ UNCHANGED <<main, open, counters, exiting>>

CreateFails(s) ==
  /\ serv[s] = "create"
  /\ qprocs' = qprocs - 1
  /\ serv' = [serv EXCEPT ![s] = "recv"]
  /\ UNCHANGED <<main, open, pc, procs, taken, exiting>>

\* listen() has failed, or there is no memory for the next query.
CloseSocket(s) ==
  /\ serv[s] = "recv"
  /\ serv' = [serv EXCEPT ![s] = "closed"] /\ open' = [open EXCEPT ![s] = FALSE]
  /\ UNCHANGED <<main, pc, counters, exiting>>

\* Variant: a server that was never started does not count as gone.
ServerEndsSecond(s) ==
  /\ serv[s] = "closed"
  /\ serv' = [serv EXCEPT ![s] = "over"]
  /\ exiting' = (exiting \/ serv[Other[s]] = "over")
  /\ UNCHANGED <<main, open, pc, counters>>

ServerEnds(s) ==
  /\ serv[s] = "closed"
  /\ serv' = [serv EXCEPT ![s] = "over"]
  /\ exiting' = (exiting \/ ~open[Other[s]])
  /\ UNCHANGED <<main, open, pc, counters>>

----------------------------------------------------------------------------
(* tcp_answer_thread() and udp_answer_thread() *)

\* They run_as() too.
RunAs(w) ==
  /\ pc[w] = "started"
  /\ pc' = [pc EXCEPT ![w] = "queued"]
  /\ UNCHANGED <<threads, counters, exiting>>

\* The cleanup handler gives back what the thread has not taken.
RunAsFails(w) ==
  /\ pc[w] = "started"
  /\ pc' = [pc EXCEPT ![w] = "none"]
  /\ procs' = procs - 1 /\ qprocs' = qprocs - 1
  /\ exiting' = TRUE
  /\ UNCHANGED <<threads, taken>>

\* Tried every 50 ms
Activate(w) ==
  /\ pc[w] = "queued" /\ procs < proc_limit
  /\ pc' = [pc EXCEPT ![w] = "active"] /\ procs' = procs + 1
  /\ UNCHANGED <<threads, qprocs, taken, exiting>>

\* decrease_procs() runs however the thread ends.
Finish(w) ==
  /\ pc[w] = "active"
  /\ pc' = [pc EXCEPT ![w] = "none"]
  /\ procs' = procs - 1 /\ qprocs' = qprocs - 1
  /\ UNCHANGED <<threads, taken, exiting>>

----------------------------------------------------------------------------
MainStep == \E s \in Servers : StartServer(s) \/ StartFails(s)
ServerStep(s) ==
  \/ ServerRunsAs(s) \/ ServerRunAsFails(s) \/ Admit(s) \/ (\E w \in Workers : Create(s, w)) \/ CreateFails(s)
  \/ CloseSocket(s) \/ ServerEnds(s)
WorkerStep(w) == RunAs(w) \/ RunAsFails(w) \/ Activate(w) \/ Finish(w)

AdmissionNext == MainStep \/ (\E s \in Servers : ServerStep(s)) \/ (\E w \in Workers : WorkerStep(w))

AdmissionSpec == AdmissionInit /\ [][AdmissionNext]_admission

----------------------------------------------------------------------------
(* Properties. *)

Active == {w \in Workers : pc[w] = "active"}
Counted == {w \in Workers : pc[w] # "none"}
Admitted == {s \in Servers : serv[s] = "create"}

TypeOK ==
  /\ main \in Places
  /\ serv \in [Servers -> {"none", "starts", "recv", "create", "closed", "over"}]
  /\ open \in [Servers -> BOOLEAN]
  /\ pc \in [Workers -> {"none", "started", "queued", "active"}]
  /\ procs \in Int /\ qprocs \in Int /\ taken \in Int
  /\ exiting \in BOOLEAN

\* The counters are what they count, so that no slot is ever lost, and no limit is exceeded.
\* Only a thread that could not take on its identity takes one off procs, and the program ends.
CountersExact ==
  /\ qprocs = Cardinality(Counted) + Cardinality(Admitted) /\ qprocs <= proc_limit + procq_limit
  /\ exiting \/ (procs = Cardinality(Active) /\ procs <= proc_limit)

\* When no server is left the program has been told to end.
LastServerExits == (\A s \in Servers : ~open[s] /\ serv[s] \in {"none", "over"}) => exiting
=============================================================================
