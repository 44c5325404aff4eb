---------------------------- MODULE LocalServer ----------------------------
(***************************************************************************)
(* The threads that serve a Unix socket at a fixed path, one for every     *)
(* session: ShadowsocksThread (protect_path) and TrafficMonitorThread      *)
(* (stat_path), which differ in names and in what they do for a client.    *)
(* The service starts one and stops it again; the threads run on beside    *)
(* it, perhaps into the next session.                                      *)
(***************************************************************************)
EXTENDS Naturals

CONSTANTS
  Sessions,                  \* a thread for each, in their order
  MaxConnects                \* of clients: bounds the model only

ASSUME SessionsNumbered == Sessions \subseteq Nat \ {0}
ASSUME ConnectsNat == MaxConnects \in Nat

VARIABLES
  pc,                        \* where run() is
  isRunning, mServerSocket,  \* fields of a thread, the second TRUE when not null
  socket,                    \* of a thread: "none", "bound", "listening" or "closed"
  file,                      \* whose socket the path leads to, 0 when there is no file
  field,                     \* shadowsocksThread of the service, 0 for null
  stopping,                  \* stopThread(): "no", "close", "null"
  waiting, connects,         \* connections nobody has accepted; how many there were
  crashed,                   \* an exception that nobody caught has ended the process
  early                      \* a history: stopThread() found no socket to close

control == <<field, stopping, isRunning>>
clients == <<waiting, connects>>
socketVars == <<pc, mServerSocket, socket, file, control, clients, crashed, early>>

SocketInit ==
  /\ pc = [t \in Sessions |-> "new"]
  /\ isRunning = [t \in Sessions |-> TRUE] /\ mServerSocket = [t \in Sessions |-> FALSE]
  /\ socket = [t \in Sessions |-> "none"] /\ file \in Sessions \union {0}   \* an earlier process may have left one
  /\ field = 0 /\ stopping = "no"
  /\ waiting = [t \in Sessions |-> 0] /\ connects = 0
  /\ crashed = FALSE /\ early = FALSE

Goto(t, place) == pc' = [pc EXCEPT ![t] = place]
Becomes(t, state) == socket' = [socket EXCEPT ![t] = state]

----------------------------------------------------------------------------
(* The service, on its main thread. *)

\* startRunner(): the next session's thread.
StartThread(t) ==
  /\ field = 0 /\ stopping = "no"
  /\ pc[t] = "new" /\ \A u \in Sessions : pc[u] = "new" => t <= u
  /\ field' = t /\ Goto(t, "delete")
  /\ UNCHANGED <<mServerSocket, socket, file, stopping, isRunning, clients, crashed, early>>

stopThread ==
  /\ field # 0 /\ stopping = "no"
  /\ isRunning' = [isRunning EXCEPT ![field] = FALSE] /\ stopping' = "close"
  /\ UNCHANGED <<pc, mServerSocket, socket, file, field, clients, crashed, early>>

\* Variant: the socket is forgotten and stays open.
ForgetSocket ==
  /\ stopping = "close"
  /\ stopping' = IF mServerSocket[field] THEN "null" ELSE "no"
  /\ IF mServerSocket[field] THEN UNCHANGED <<field, early>> ELSE field' = 0 /\ early' = TRUE
  /\ UNCHANGED <<pc, mServerSocket, socket, file, isRunning, clients, crashed>>

\* A closed socket refuses those who wait, unless the thread is in accept(), which keeps it.
closeServerSocket ==
  /\ stopping = "close"
  /\ IF mServerSocket[field]
     THEN /\ Becomes(field, "closed")
          /\ waiting' = [waiting EXCEPT ![field] = IF pc[field] = "accepting" THEN @ ELSE 0]
          /\ stopping' = "null" /\ UNCHANGED <<field, early>>
     ELSE stopping' = "no" /\ field' = 0 /\ early' = TRUE /\ UNCHANGED <<socket, waiting>>
  /\ UNCHANGED <<pc, mServerSocket, file, isRunning, connects, crashed>>

Forget ==
  /\ stopping = "null"
  /\ mServerSocket' = [mServerSocket EXCEPT ![field] = FALSE]
  /\ stopping' = "no" /\ field' = 0
  /\ UNCHANGED <<pc, socket, file, isRunning, clients, crashed, early>>

----------------------------------------------------------------------------
(* run() *)

DeleteFile(t) ==
  /\ pc[t] = "delete" /\ Goto(t, "bind")
  /\ file' = 0
  /\ UNCHANGED <<mServerSocket, socket, control, clients, crashed, early>>

\* The path must not exist: "unable to bind" otherwise.
Bind(t) ==
  /\ pc[t] = "bind"
  /\ IF file = 0 THEN Goto(t, "listen") /\ file' = t /\ Becomes(t, "bound")
     ELSE Goto(t, "unbound") /\ UNCHANGED <<file, socket>>
  /\ UNCHANGED <<mServerSocket, control, clients, crashed, early>>

Listen(t) ==
  /\ pc[t] = "listen" /\ Goto(t, "check")
  /\ mServerSocket' = [mServerSocket EXCEPT ![t] = TRUE] /\ Becomes(t, "listening")
  /\ UNCHANGED <<file, control, clients, crashed, early>>

CheckRunning(t) ==
  /\ pc[t] = "check" /\ Goto(t, IF isRunning[t] THEN "read" ELSE "done")
  /\ UNCHANGED <<mServerSocket, socket, file, control, clients, crashed, early>>

\* mServerSocket may be null by now: a NullPointerException is no IOException.
ReadSocket(t) ==
  /\ pc[t] = "read"
  /\ IF mServerSocket[t] THEN Goto(t, "call") /\ UNCHANGED crashed ELSE crashed' = TRUE /\ Goto(t, "done")
  /\ UNCHANGED <<mServerSocket, socket, file, control, clients, early>>

CallAccept(t) ==
  /\ pc[t] = "call" /\ Goto(t, IF socket[t] = "closed" THEN "done" ELSE "accepting")
  /\ UNCHANGED <<mServerSocket, socket, file, control, clients, crashed, early>>

\* The pool takes the connection; the loop goes on.
Accept(t) ==
  /\ pc[t] = "accepting" /\ waiting[t] > 0 /\ Goto(t, "check")
  /\ waiting' = [waiting EXCEPT ![t] = IF socket[t] = "closed" THEN 0 ELSE @ - 1]
  /\ UNCHANGED <<mServerSocket, socket, file, control, connects, crashed, early>>

\* Closing the socket may wake accept() up, or not.
AcceptFails(t) ==
  /\ pc[t] = "accepting" /\ socket[t] = "closed" /\ Goto(t, "done")
  /\ waiting' = [waiting EXCEPT ![t] = 0]
  /\ UNCHANGED <<mServerSocket, socket, file, control, connects, crashed, early>>

----------------------------------------------------------------------------
\* ss-local connects to the path.
Connect ==
  /\ file # 0 /\ connects < MaxConnects
  /\ socket[file] = "listening" \/ (socket[file] = "closed" /\ pc[file] = "accepting")
  /\ waiting' = [waiting EXCEPT ![file] = @ + 1] /\ connects' = connects + 1
  /\ UNCHANGED <<pc, mServerSocket, socket, file, control, crashed, early>>

Run(t) == DeleteFile(t) \/ Bind(t) \/ Listen(t) \/ CheckRunning(t) \/ ReadSocket(t) \/ CallAccept(t) \/ Accept(t)

SocketNext ==
  /\ ~crashed
  /\ \/ \E t \in Sessions : StartThread(t) \/ Run(t) \/ AcceptFails(t)
     \/ stopThread \/ closeServerSocket \/ Forget \/ Connect

SocketSpec == SocketInit /\ [][SocketNext]_socketVars

----------------------------------------------------------------------------
(* Properties. *)

\* In its loop, and before.
Serving == {"check", "read", "call", "accepting"}

\* Every thread gets its socket though others left files behind, and the path leads to that of the
\* session's own thread.
PathIsNewest ==
  \A t \in Sessions :
    /\ pc[t] # "unbound"
    /\ t = field /\ pc[t] \in Serving \union {"done"} => file = t

\* No socket outlives its session: clients of a stopped thread are refused, or served if it was in accept().
NobodyWaitsForever ==
  \A t \in Sessions : t # field /\ (socket[t] = "listening" \/ waiting[t] > 0) =>
    pc[t] = "accepting" /\ socket[t] = "closed"

\* Unless a thread was stopped before it had a socket, the threads of two sessions keep apart though they
\* share the path and nobody waits for the first to end: the path leads to the present one, and no client
\* waits for ever at a socket of the one before (run(), stopThread(), closeServerSocket()).
SessionsApart == ~early => PathIsNewest /\ NobodyWaitsForever
=============================================================================
