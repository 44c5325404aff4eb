----------------------------- MODULE Vpn_proofs -----------------------------
(***************************************************************************)
(* A VPN session is whole when the service says CONNECTED and gone when it *)
(* says STOPPED, and a starting session finds nothing of an earlier one,   *)
(* whoever stops and starts the sessions and whatever fails, while         *)
(* onRevoke() keeps clear of the main thread's calls.                      *)
(*                                                                         *)
(* The invariant Mode reads the sequence of steps a thread has still to    *)
(* make. A thread stops a session (Stopping: what is left of stopRunner()  *)
(* clears whatever there is), starts one (Starting: there is just what the *)
(* steps left do not make, and the states they have still to post follow   *)
(* those posted), or both threads rest (Resting). A guard without a child  *)
(* cuts a revocation short and stays in its field: the service then rests  *)
(* in STOPPING (Halted), and who stops it again does not get past that     *)
(* guard either (Blocked). That no STOPPED comes after this STOPPING is    *)
(* what a revocation has behind it (Behind) and still to do (Heard).       *)
(*                                                                         *)
(* With the fragment (AppMode) its own steps come behind the service's.    *)
(* CONNECTING is posted only once the service is stopped, and CONNECTED    *)
(* right behind it (Ordered); a click, a dialog's result or a button that  *)
(* says connected comes only while no start is announced (Fragment).       *)
(***************************************************************************)
EXTENDS VpnApp, SequenceTheorems, TLAPS

\* The objects of a kind, and how they go with the service's field: none; that of the
\* present session; destroyed, and the field still to be set to null.
Held(k) == {o \in live : o[1] = k}
Clean(k) == field[k] = 0 /\ Held(k) = {}
Made(k) == gen # 0 /\ field[k] = gen /\ Held(k) = {<<k, gen>>}
Cut(k) == gen # 0 /\ field[k] = gen /\ Held(k) = {}

\* The steps of stopRunner(), and of all the code.
StopSteps == ({"test", "destroy", "clear"} \X Kinds) \union ({"post"} \X {"STOPPING", "STOPPED"})
Steps == StopSteps \union ({"post"} \X States) \union ({"make"} \X Kinds) \union ({"begin"} \X Configs)
         \union ({"resolve"} \X {"numeric", "name", "empty"})
         \union {<<"register", "closeReceiver">>, <<"establish", "conn">>, <<"getFd", "conn">>, <<"send", "tun2socks">>}

\* The fragment's steps come behind those of the service.
ClientSteps == ({"load", "reload"} \X Proxies) \union {<<"switch", "">>, <<"update", "">>}
AllSteps == Steps \union ClientSteps

\* The step that announces a start.
Connecting == <<"post", "CONNECTING">>
Has(p, s) == \E i \in 1..Len(p) : p[i] = s

\* A type invariant of what the properties read.
Typed ==
  /\ mState \in States /\ posts \in Seq(States)
  /\ prog \in [Threads -> Seq(AllSteps)]
  /\ field \in [Kinds -> Nat] /\ live \subseteq Kinds \X Nat /\ gen \in Nat
  /\ childless \subseteq Processes \X Nat
  /\ overlapped \in BOOLEAN

\* In the code of a stop, a test, the call and the null after it stand together.
InPlace(a, i) ==
  /\ a[i][1] = "test" => /\ i + 2 =< Len(a)
                         /\ a[i + 1] = <<"destroy", a[i][2]>> /\ a[i + 2] = <<"clear", a[i][2]>>
  /\ a[i][1] = "destroy" => i + 1 =< Len(a) /\ a[i + 1] = <<"clear", a[i][2]>>
  /\ i > 1 /\ a[i][1] = "destroy" => a[i - 1] = <<"test", a[i][2]>>
  /\ i > 1 /\ a[i][1] = "clear" => a[i - 1] = <<"destroy", a[i][2]>>
Orderly(a) == \A i \in 1..Len(a) : InPlace(a, i)
Clears(a, k) == \E i \in 1..Len(a) : a[i] = <<"clear", k>>
Whole(a) == a # <<>> /\ Orderly(a) /\ Head(a)[1] \notin {"destroy", "clear"}

\* What may follow a stop: nothing, the call of sendFd() that finds everything gone, or the
\* start of another profile.
Rests == {<<>>, << <<"send", "tun2socks">> >>} \union {StartRunner(c) : c \in Configs}
\* The steps a stop has left suffice for the objects there are.
Going(a, k) == Made(k) \/ (a # <<>> /\ Head(a) = <<"clear", k>> /\ Cut(k))
Stops(a) ==
  /\ \A k \in Kinds : Clean(k) \/ (Clears(a, k) /\ Going(a, k))
  /\ a # <<>> => /\ Head(a)[1] = "destroy" => Made(Head(a)[2])
                 /\ Head(a)[1] = "clear" => Cut(Head(a)[2])
\* A stop that nothing follows ends with STOPPED.
Closed(a, r) == r = <<>> => a # <<>> /\ a[Len(a)] = <<"post", "STOPPED">>
\* A thread's steps are what is left of a stop and what follows it.
Stopping(p, R) ==
  \E a \in Seq(StopSteps), r \in R : p = a \o r /\ Orderly(a) /\ Closed(a, r) /\ Stops(a)

-----------------------------------------------------------------------------
(* The code of a stop.                                                     *)

LEMMA BeforeClient ==
  ASSUME NEW f \in Seq(ClientSteps)
  PROVE  \A x, y \in Seq(Steps) : x \o (y \o f) = (x \o y) \o f
<1>1. f \in Seq(AllSteps)
  BY DEF AllSteps
<1>2. \A x \in Seq(Steps) : x \in Seq(AllSteps)
  BY DEF AllSteps
<1>. SUFFICES ASSUME NEW x \in Seq(Steps), NEW y \in Seq(Steps)
              PROVE  x \o (y \o f) = (x \o y) \o f
  OBVIOUS
<1>3. x \in Seq(AllSteps) /\ y \in Seq(AllSteps)
  BY <1>2
<1>. QED BY <1>1, <1>3, ConcatAssociative

LEMMA ClientNames ==
  ASSUME NEW s \in ClientSteps
  PROVE  s[1] \in {"load", "reload", "switch", "update"} /\ s \notin Steps
<1>1. CASE s \in {"load", "reload"} \X Proxies
  BY <1>1 DEF Steps, StopSteps
<1>2. CASE s = <<"switch", "">>
  BY <1>2 DEF Steps, StopSteps
<1>3. CASE s = <<"update", "">>
  BY <1>3 DEF Steps, StopSteps
<1>. QED BY <1>1, <1>2, <1>3 DEF ClientSteps

LEMMA DropWhole ==
  ASSUME NEW k \in Kinds
  PROVE  Drop(k) \in Seq(StopSteps) /\ Whole(Drop(k)) /\ Clears(Drop(k), k)
BY DEF Drop, StopSteps, Whole, Orderly, InPlace, Clears

LEMMA PostWhole ==
  ASSUME NEW s \in {"STOPPING", "STOPPED"}
  PROVE  Post(s) \in Seq(StopSteps) /\ Whole(Post(s))
<1>1. <<"post", s>> \in StopSteps
  BY DEF StopSteps
<1>2. Post(s) \in Seq(StopSteps) /\ Len(Post(s)) = 1 /\ Post(s)[1] = <<"post", s>> /\ Head(Post(s)) = <<"post", s>>
  BY <1>1 DEF Post
<1>3. \A i \in 1..Len(Post(s)) : i = 1
  BY <1>2
<1>4. Orderly(Post(s))
  BY <1>2, <1>3 DEF Orderly, InPlace
<1>5. Post(s) # <<>>
  BY <1>2
<1>. QED BY <1>2, <1>4, <1>5 DEF Whole

LEMMA ConcatWhole ==
  ASSUME NEW a \in Seq(StopSteps), NEW b \in Seq(StopSteps), Whole(a), Whole(b)
  PROVE  /\ a \o b \in Seq(StopSteps) /\ Whole(a \o b)
         /\ \A k : Clears(a, k) \/ Clears(b, k) => Clears(a \o b, k)
         /\ (a \o b)[Len(a \o b)] = b[Len(b)]
<1>1. Whole(a \o b)
  <2>. DEFINE w == a \o b
  <2>1. /\ Len(w) = Len(a) + Len(b) /\ Len(a) > 0 /\ Len(b) > 0
        /\ \A i \in 1..Len(a) : w[i] = a[i]
        /\ \A j \in 1..Len(b) : w[Len(a) + j] = b[j]
        /\ Len(a) \in Nat /\ Len(b) \in Nat
        /\ w # <<>> /\ Head(w) = a[1] /\ Head(a) = a[1] /\ Head(b) = b[1]
    BY DEF Whole
  <2>. HIDE DEF w
  <2>2. ASSUME NEW i \in 1..Len(a)
        PROVE  InPlace(w, i)
    <3>1. /\ w[i] = a[i] /\ (i > 1 => w[i - 1] = a[i - 1])
          /\ (i + 1 =< Len(a) => w[i + 1] = a[i + 1] /\ i + 1 =< Len(w))
          /\ (i + 2 =< Len(a) => w[i + 2] = a[i + 2] /\ i + 2 =< Len(w) /\ i + 1 =< Len(a))
      BY <2>1
    <3>2. InPlace(a, i)
      BY DEF Whole, Orderly
    <3>. QED BY <3>1, <3>2 DEF InPlace
  <2>3. ASSUME NEW j \in 1..Len(b)
        PROVE  InPlace(w, Len(a) + j)
    <3>. DEFINE i == Len(a) + j
    <3>1. /\ i \in Nat /\ i > 1 /\ w[i] = b[j] /\ (j > 1 => w[i - 1] = b[j - 1])
          /\ (j + 1 =< Len(b) => w[i + 1] = b[j + 1] /\ i + 1 =< Len(w))
          /\ (j + 2 =< Len(b) => w[i + 2] = b[j + 2] /\ i + 2 =< Len(w) /\ j + 1 =< Len(b))
      <4>1. \A x \in {j - 1, j, j + 1, j + 2} : x \in 1..Len(b) => w[Len(a) + x] = b[x]
        BY <2>1
      <4>2. i - 1 = Len(a) + (j - 1) /\ i + 1 = Len(a) + (j + 1) /\ i + 2 = Len(a) + (j + 2)
        BY <2>1
      <4>3. i \in Nat /\ i > 1 /\ w[i] = b[j]
        BY <2>1
      <4>4. /\ (j > 1 => w[i - 1] = b[j - 1])
            /\ (j + 1 =< Len(b) => w[i + 1] = b[j + 1])
            /\ (j + 2 =< Len(b) => w[i + 2] = b[j + 2])
        <5>1. (j > 1 => j - 1 \in 1..Len(b)) /\ (j + 1 =< Len(b) => j + 1 \in 1..Len(b))
              /\ (j + 2 =< Len(b) => j + 2 \in 1..Len(b))
          OBVIOUS
        <5>. HIDE DEF i
        <5>. QED BY <4>1, <4>2, <5>1
      <4>. QED BY <2>1, <4>3, <4>4
    <3>2. j = 1 => w[i][1] \notin {"destroy", "clear"}
      BY <2>1, <3>1 DEF Whole
    <3>3. InPlace(b, j)
      BY <3>1 DEF Whole, Orderly
    <3>4. j = 1 \/ j > 1
      OBVIOUS
    <3>. HIDE DEF i
    <3>5. InPlace(w, i)
      BY <3>1, <3>2, <3>3, <3>4 DEF InPlace
    <3>. QED BY <3>5 DEF i
  <2>4. Orderly(w)
    <3>1. \A i \in 1..Len(w) : i \in 1..Len(a) \/ \E j \in 1..Len(b) : i = Len(a) + j
      <4>. SUFFICES ASSUME NEW i \in 1..Len(w), i \notin 1..Len(a) PROVE i - Len(a) \in 1..Len(b) /\ i = Len(a) + (i - Len(a))
        OBVIOUS
      <4>. QED BY <2>1
    <3>. QED BY <2>2, <2>3, <3>1 DEF Orderly
  <2>. QED BY <2>1, <2>4 DEF Whole, w
<1>2. \A k : Clears(a, k) \/ Clears(b, k) => Clears(a \o b, k)
  <2>. SUFFICES ASSUME NEW k, Clears(a, k) \/ Clears(b, k) PROVE Clears(a \o b, k)
    OBVIOUS
  <2>1. CASE Clears(a, k)
    <3>1. PICK i \in 1..Len(a) : a[i] = <<"clear", k>>
      BY <2>1 DEF Clears
    <3>2. i \in 1..Len(a \o b) /\ (a \o b)[i] = a[i]
      OBVIOUS
    <3>. QED BY <3>1, <3>2 DEF Clears
  <2>2. CASE Clears(b, k)
    <3>1. PICK i \in 1..Len(b) : b[i] = <<"clear", k>>
      BY <2>2 DEF Clears
    <3>2. i + Len(a) \in 1..Len(a \o b) /\ (a \o b)[i + Len(a)] = b[i]
      OBVIOUS
    <3>. QED BY <3>1, <3>2 DEF Clears
  <2>. QED BY <2>1, <2>2
<1>. QED BY <1>1, <1>2 DEF Whole

\* stopRunner() tests, destroys and clears every kind of object and ends with STOPPED; so does
\* the refusal.
LEMMA StopWhole ==
  /\ StopRunner \in Seq(StopSteps) /\ Whole(StopRunner) /\ \A k \in Kinds : Clears(StopRunner, k)
  /\ StopRunner[Len(StopRunner)] = <<"post", "STOPPED">>
  /\ Refuse \in Seq(StopSteps) /\ Whole(Refuse) /\ \A k \in Kinds : Clears(Refuse, k)
  /\ Refuse[Len(Refuse)] = <<"post", "STOPPED">>
<1>1. StopRunner \in Seq(StopSteps) /\ StopRunner # <<>> /\ StopRunner[Len(StopRunner)] = <<"post", "STOPPED">>
  BY DEF StopRunner, KillProcesses, Drop, Post, StopSteps, Kinds, Processes, Receivers, States
<1>2. Whole(StopRunner)
  <2>. DEFINE Good(a) == a \in Seq(StopSteps) /\ Whole(a)
  <2>1. \A a, b : Good(a) /\ Good(b) => Good(a \o b)
    BY ConcatWhole
  <2>2. \A k \in Kinds : Good(Drop(k))
    BY DropWhole
  <2>3. \A s \in {"STOPPING", "STOPPED"} : Good(Post(s))
    BY PostWhole
  <2>. HIDE DEF Good
  <2>4. Good(KillProcesses)
    BY <2>1, <2>2 DEF KillProcesses, Kinds, Processes
  <2>5. Good(StopRunner)
    BY <2>1, <2>2, <2>3, <2>4 DEF StopRunner, Kinds, Receivers, States
  <2>. QED BY <2>5 DEF Good
<1>3. \A k \in Kinds : Clears(StopRunner, k)
  <2>1. /\ Len(StopRunner) = 29
        /\ StopRunner[3] = <<"clear", "protect">> /\ StopRunner[6] = <<"clear", "lockReceiver">>
        /\ StopRunner[10] = <<"clear", "sslocal">> /\ StopRunner[13] = <<"clear", "sstunnel">>
        /\ StopRunner[16] = <<"clear", "tun2socks">> /\ StopRunner[19] = <<"clear", "pdnsd">>
        /\ StopRunner[22] = <<"clear", "conn">> /\ StopRunner[25] = <<"clear", "closeReceiver">>
        /\ StopRunner[28] = <<"clear", "traffic">>
    BY DEF StopRunner, KillProcesses, Drop, Post
  <2>. QED BY <2>1 DEF Clears, Kinds, Processes, Receivers
<1>4. Post("STOPPED") \in Seq(StopSteps) /\ Whole(Post("STOPPED"))
  BY PostWhole DEF States
<1>. QED BY <1>1, <1>2, <1>3, <1>4, ConcatWhole DEF Refuse

LEMMA ProgramTypes ==
  /\ StopRunner \in Seq(Steps) /\ Refuse \in Seq(Steps) /\ HandleConnection \in Seq(Steps)
  /\ \A c \in Configs : StartRunner(c) \in Seq(Steps)
<1>1. StopRunner \in Seq(Steps) /\ Refuse \in Seq(Steps)
  BY StopWhole DEF Steps
<1>2. HandleConnection \in Seq(Steps)
  <2>1. CASE mConfig.isUdpDns
    BY <2>1 DEF HandleConnection, Make, Steps, Kinds, Processes
  <2>2. CASE ~mConfig.isUdpDns
    BY <2>2 DEF HandleConnection, Make, Steps, Kinds, Processes
  <2>. QED BY <2>1, <2>2
<1>3. ASSUME NEW c \in Configs PROVE StartRunner(c) \in Seq(Steps)
  BY DEF StartRunner, KillProcesses, Drop, Post, Make, Steps, StopSteps, Kinds, Processes, Receivers, States, Configs
<1>. QED BY <1>1, <1>2, <1>3

\* A step further in the code of a stop.
LEMMA OnTail ==
  ASSUME NEW a \in Seq(StopSteps), a # <<>>, Orderly(a)
  PROVE  /\ Tail(a) \in Seq(StopSteps) /\ Orderly(Tail(a)) /\ Head(a) \in StopSteps
         /\ Head(a)[1] = "test" => Tail(a) # <<>> /\ Head(Tail(a)) = <<"destroy", Head(a)[2]>>
         /\ Head(a)[1] = "destroy" => Tail(a) # <<>> /\ Head(Tail(a)) = <<"clear", Head(a)[2]>>
         /\ Head(a)[1] \in {"clear", "post"} => Tail(a) = <<>> \/ Head(Tail(a))[1] \notin {"destroy", "clear"}
         /\ \A k : Clears(a, k) => Clears(Tail(a), k) \/ Head(a) = <<"clear", k>>
         /\ Tail(a) # <<>> => Tail(a)[Len(Tail(a))] = a[Len(a)]
         /\ Tail(a) = <<>> => a[Len(a)] = Head(a)
<1>. DEFINE b == Tail(a)
<1>1. /\ b \in Seq(StopSteps) /\ Len(b) = Len(a) - 1 /\ Len(a) \in Nat /\ Len(a) > 0 /\ Head(a) = a[1]
      /\ \A i \in 1..Len(b) : b[i] = a[i + 1]
      /\ a[1] \in StopSteps /\ (b # <<>> => Head(b) = b[1] /\ Len(a) > 1) /\ (b = <<>> => Len(a) = 1)
  <2>1. b \in Seq(StopSteps) /\ Len(b) = Len(a) - 1 /\ \A i \in 1..Len(b) : b[i] = a[i + 1]
    BY HeadTailProperties
  <2>2. Len(a) \in Nat /\ Len(a) > 0 /\ Head(a) = a[1] /\ a[1] \in StopSteps
    OBVIOUS
  <2>. HIDE DEF b
  <2>3. (b # <<>> => Head(b) = b[1] /\ Len(b) > 0) /\ (b = <<>> => Len(b) = 0)
    BY <2>1
  <2>. QED BY <2>1, <2>2, <2>3
<1>. HIDE DEF b
<1>2. InPlace(a, 1) /\ (Len(a) > 1 => InPlace(a, 2) /\ b[1] = a[2])
  BY <1>1 DEF Orderly
<1>3. Orderly(b)
  <2>. SUFFICES ASSUME NEW i \in 1..Len(b) PROVE InPlace(b, i)
    BY DEF Orderly
  <2>1. /\ b[i] = a[i + 1] /\ (i > 1 => b[i - 1] = a[i])
        /\ (i + 1 =< Len(b) => b[i + 1] = a[i + 1 + 1]) /\ (i + 2 =< Len(b) => b[i + 2] = a[i + 1 + 2])
    BY <1>1
  <2>2. InPlace(a, i + 1)
    BY <1>1 DEF Orderly
  <2>3. /\ i + 1 > 1 /\ i + 1 - 1 = i /\ (i + 1 + 2 =< Len(a) => i + 2 =< Len(b) /\ i + 1 =< Len(b))
        /\ (i + 1 + 1 =< Len(a) => i + 1 =< Len(b))
    BY <1>1
  <2>. QED BY <2>1, <2>2, <2>3 DEF InPlace
<1>4. \A k : Clears(a, k) => Clears(b, k) \/ Head(a) = <<"clear", k>>
  <2>. SUFFICES ASSUME NEW k, NEW i \in 1..Len(a), a[i] = <<"clear", k>>, i # 1 PROVE Clears(b, k)
    BY <1>1 DEF Clears
  <2>1. i - 1 \in 1..Len(b) /\ b[i - 1] = a[i]
    BY <1>1
  <2>. QED BY <2>1 DEF Clears
<1>5. /\ Head(a)[1] = "test" => b # <<>> /\ Head(b) = <<"destroy", Head(a)[2]>>
      /\ Head(a)[1] = "destroy" => b # <<>> /\ Head(b) = <<"clear", Head(a)[2]>>
  BY <1>1, <1>2 DEF InPlace
<1>6. ASSUME Head(a)[1] \in {"clear", "post"}, b # <<>> PROVE Head(b)[1] \notin {"destroy", "clear"}
  BY <1>1, <1>2, <1>6 DEF InPlace
<1>7. b # <<>> => b[Len(b)] = a[Len(a)]
  BY <1>1
<1>. QED BY <1>1, <1>3, <1>4, <1>5, <1>6, <1>7 DEF b

LEMMA Tails ==
  ASSUME NEW S, NEW a \in Seq(S), a # <<>>
  PROVE  /\ Tail(a) \in Seq(S) /\ Len(Tail(a)) = Len(a) - 1 /\ Len(a) \in Nat /\ Len(a) > 0
         /\ \A i \in 1..(Len(a) - 1) : Tail(a)[i] = a[i + 1]
  BY HeadTailProperties

\* A test that finds null leaves out three steps.
LEMMA SkipIsTails ==
  ASSUME NEW S, NEW a \in Seq(S), Len(a) > 2
  PROVE  SubSeq(a, 4, Len(a)) = Tail(Tail(Tail(a)))
<1>. DEFINE b == Tail(a)
            c == Tail(b)
            d == Tail(c)
            e == SubSeq(a, 4, Len(a))
<1>1. a # <<>> /\ Len(a) \in Nat
  OBVIOUS
<1>2. b \in Seq(S) /\ Len(b) = Len(a) - 1 /\ \A i \in 1..(Len(a) - 1) : b[i] = a[i + 1]
  BY <1>1, Tails
<1>5. e \in Seq(S) /\ Len(e) = Len(a) - 3 /\ \A i \in 1..(Len(a) - 3) : e[i] = a[i + 3]
  <2>1. 4 \in 1..(Len(a) + 1) /\ Len(a) \in 3..Len(a) /\ Len(a) - 4 + 1 = Len(a) - 3
    BY <1>1
  <2>2. e \in Seq(S) /\ Len(e) = (IF 4 <= Len(a) THEN Len(a) - 4 + 1 ELSE 0)
        /\ \A i \in 1..(Len(a) - 4 + 1) : e[i] = a[4 + i - 1]
    BY <1>1, <2>1, SubSeqProperties
  <2>3. \A i \in 1..(Len(a) - 3) : 4 + i - 1 = i + 3
    BY <1>1
  <2>. QED BY <1>1, <2>1, <2>2, <2>3
<1>. HIDE DEF b, e
<1>3. b # <<>>
  BY <1>1, <1>2
<1>4. c \in Seq(S) /\ Len(c) = Len(b) - 1 /\ \A i \in 1..(Len(b) - 1) : c[i] = b[i + 1]
  BY <1>2, <1>3, Tails
<1>. HIDE DEF c
<1>6. c # <<>>
  BY <1>1, <1>2, <1>4
<1>7. d \in Seq(S) /\ Len(d) = Len(c) - 1 /\ \A i \in 1..(Len(c) - 1) : d[i] = c[i + 1]
  BY <1>4, <1>6, Tails
<1>. HIDE DEF d
<1>8. Len(d) = Len(e)
  BY <1>1, <1>2, <1>4, <1>5, <1>7
<1>9. \A i \in 1..Len(e) : e[i] = d[i]
  <2>. TAKE i \in 1..Len(e)
  <2>1. i \in 1..(Len(c) - 1) /\ i + 1 \in 1..(Len(b) - 1) /\ i + 2 \in 1..(Len(a) - 1) /\ i \in 1..(Len(a) - 3)
    BY <1>1, <1>2, <1>4, <1>5
  <2>2. d[i] = c[i + 1] /\ c[i + 1] = b[i + 1 + 1] /\ i + 1 + 1 = i + 2 /\ b[i + 2] = a[i + 2 + 1] /\ i + 2 + 1 = i + 3
    BY <1>2, <1>4, <1>7, <2>1
  <2>. QED BY <1>5, <2>1, <2>2
<1>10. e = d
  BY <1>5, <1>7, <1>8, <1>9, SeqEqual
<1>. QED BY <1>10 DEF b, c, d, e

LEMMA TailOfConcat ==
  ASSUME NEW S, NEW a \in Seq(S), NEW r \in Seq(S), a # <<>>
  PROVE  Tail(a \o r) = Tail(a) \o r /\ Head(a \o r) = Head(a) /\ a \o r # <<>>
OBVIOUS

LEMMA SkipOfConcat ==
  ASSUME NEW S, NEW a \in Seq(S), NEW r \in Seq(S), Len(a) > 2
  PROVE  SubSeq(a \o r, 4, Len(a \o r)) = SubSeq(a, 4, Len(a)) \o r
<1>1. \A x \in Seq(S) : Len(x) > 0 => /\ Tail(x) \in Seq(S) /\ Len(Tail(x)) = Len(x) - 1
                                      /\ Tail(x \o r) = Tail(x) \o r
  <2>. TAKE x \in Seq(S)
  <2>. HAVE Len(x) > 0
  <2>1. x # <<>>
    OBVIOUS
  <2>. QED BY <2>1, Tails, TailOfConcat
<1>. DEFINE b == Tail(a)
            c == Tail(b)
<1>2. Len(a) \in Nat /\ Len(a) > 0 /\ b \in Seq(S) /\ Len(b) = Len(a) - 1 /\ Tail(a \o r) = b \o r
  BY <1>1
<1>3. SubSeq(a, 4, Len(a)) = Tail(c)
  BY SkipIsTails
<1>4. SubSeq(a \o r, 4, Len(a \o r)) = Tail(Tail(Tail(a \o r)))
  <2>1. a \o r \in Seq(S) /\ Len(a \o r) > 2
    OBVIOUS
  <2>. QED BY <2>1, SkipIsTails
<1>. HIDE DEF b
<1>5. c \in Seq(S) /\ Len(c) = Len(b) - 1 /\ Tail(b \o r) = c \o r
  <2>1. Len(b) > 0
    BY <1>2
  <2>. QED BY <1>1, <1>2, <2>1
<1>. HIDE DEF c
<1>6. Tail(c \o r) = Tail(c) \o r
  <2>1. Len(c) > 0
    BY <1>2, <1>5
  <2>. QED BY <1>1, <1>5, <2>1
<1>. QED BY <1>2, <1>3, <1>4, <1>5, <1>6

\* What a concatenation has.
LEMMA HasConcat ==
  ASSUME NEW S, NEW a \in Seq(S), NEW b \in Seq(S), NEW s
  PROVE  Has(a \o b, s) <=> Has(a, s) \/ Has(b, s)
<1>. DEFINE w == a \o b
<1>1. /\ Len(w) = Len(a) + Len(b) /\ Len(a) \in Nat /\ Len(b) \in Nat
      /\ \A i \in 1..Len(a) : w[i] = a[i]
      /\ \A i \in 1..Len(b) : w[Len(a) + i] = b[i]
  OBVIOUS
<1>. HIDE DEF w
<1>2. ASSUME Has(w, s) PROVE Has(a, s) \/ Has(b, s)
  <2>1. PICK i \in 1..Len(w) : w[i] = s
    BY <1>2 DEF Has
  <2>2. CASE i \in 1..Len(a)
    BY <1>1, <2>1, <2>2 DEF Has
  <2>3. CASE i \notin 1..Len(a)
    <3>1. i - Len(a) \in 1..Len(b) /\ Len(a) + (i - Len(a)) = i
      BY <1>1, <2>3
    <3>2. b[i - Len(a)] = s
      BY <1>1, <2>1, <3>1
    <3>. QED BY <3>1, <3>2 DEF Has
  <2>. QED BY <2>2, <2>3
<1>3. ASSUME Has(a, s) PROVE Has(w, s)
  <2>1. PICK i \in 1..Len(a) : a[i] = s
    BY <1>3 DEF Has
  <2>2. i \in 1..Len(w)
    BY <1>1
  <2>. QED BY <1>1, <2>1, <2>2 DEF Has
<1>4. ASSUME Has(b, s) PROVE Has(w, s)
  <2>1. PICK i \in 1..Len(b) : b[i] = s
    BY <1>4 DEF Has
  <2>2. Len(a) + i \in 1..Len(w)
    BY <1>1
  <2>. QED BY <1>1, <2>1, <2>2 DEF Has
<1>. QED BY <1>2, <1>3, <1>4 DEF w

LEMMA RestTypes == \A r \in Rests : r \in Seq(Steps)
<1>1. <<>> \in Seq(Steps)
  OBVIOUS
<1>2. <<"send", "tun2socks">> \in Steps
  BY DEF Steps
<1>3. << <<"send", "tun2socks">> >> \in Seq(Steps)
  BY <1>2
<1>. QED BY <1>1, <1>3, ProgramTypes DEF Rests

\* A stop does not announce a start.
LEMMA StopsAreSilent == \A a \in Seq(StopSteps) : ~Has(a, Connecting)
BY DEF Has, Connecting, StopSteps

\* Nothing is announced but the end of a session.
Hushed == posts' = posts \/ \E s \in {"STOPPING", "STOPPED"} : posts' = Append(posts, s)

\* A stop is cut short: destroy() throws for a guard without a child.
Snags(t, p) ==
  /\ thrown' = thrown \union {t} /\ prog' = [prog EXCEPT ![t] = <<>>]
  /\ UNCHANGED <<mState, posts, sessions, revoking>>
  /\ p # <<>> /\ Head(p)[1] = "destroy" /\ Head(p)[2] \in Processes /\ Childless(Head(p)[2])

\* A step of a stop leaves a shorter one that still suffices.
Leaves(t, a, r) ==
  \E b \in Seq(StopSteps) :
    /\ prog' = [prog EXCEPT ![t] = b \o r]
    /\ Orderly(b) /\ Stops(b)'
    /\ b # <<>> => b[Len(b)] = a[Len(a)]
    /\ b = <<>> /\ a[Len(a)] = <<"post", "STOPPED">> => posts' = Append(posts, "STOPPED")

LEMMA StopHead ==
  ASSUME Typed, NEW t \in Threads, NEW a \in Seq(StopSteps), NEW r \in Seq(AllSteps),
         prog[t] = a \o r, a # <<>>, Orderly(a), Stops(a), Step(t)
  PROVE  /\ UNCHANGED <<mState, gen, mConfig, revoking>> /\ Hushed
         /\ Snags(t, a) \/ (UNCHANGED thrown /\ Leaves(t, a, r))
<1>. DEFINE b == Tail(a)
            h == Head(a)
            k == h[2]
<1>1. a \in Seq(AllSteps) /\ r \in Seq(AllSteps) /\ prog[t] \in Seq(AllSteps)
  BY DEF Typed, AllSteps, Steps
<1>2. /\ prog[t] # <<>> /\ Head(prog[t]) = h /\ Tail(prog[t]) = b \o r
  BY <1>1, TailOfConcat
<1>3. /\ b \in Seq(StopSteps) /\ Orderly(b) /\ h \in StopSteps
      /\ h[1] = "test" => b # <<>> /\ Head(b) = <<"destroy", k>>
      /\ h[1] = "destroy" => b # <<>> /\ Head(b) = <<"clear", k>>
      /\ h[1] \in {"clear", "post"} => b = <<>> \/ Head(b)[1] \notin {"destroy", "clear"}
      /\ \A x : Clears(a, x) => Clears(b, x) \/ h = <<"clear", x>>
      /\ b # <<>> => b[Len(b)] = a[Len(a)]
      /\ b = <<>> => a[Len(a)] = h
  BY OnTail
<1>4. b \o r \in Seq(AllSteps) /\ Tail(prog[t]) \in Seq(AllSteps) /\ \A s \in Seq(AllSteps) : <<>> \o s = s
  BY <1>1, <1>2, <1>3 DEF AllSteps, Steps
<1>5. /\ Goes(t, <<>>) => prog' = [prog EXCEPT ![t] = b \o r]
      /\ \A o : At(t, o) => h[1] = o
      /\ Arg(t) = k
  BY <1>2, <1>4 DEF Goes, At, Arg
<1>6. h[1] \in {"test", "destroy", "clear"} => k \in Kinds /\ h = <<h[1], k>>
  BY <1>3 DEF StopSteps
<1>7. /\ h[1] \in {"test", "destroy", "clear", "post"}
      /\ h[1] = "post" => k \in {"STOPPING", "STOPPED"} /\ h = <<"post", k>>
  BY <1>3 DEF StopSteps
<1>. HIDE DEF b, h, k
<1>a. ASSUME Goes(t, <<>>), Stops(b)',
             b = <<>> /\ a[Len(a)] = <<"post", "STOPPED">> => posts' = Append(posts, "STOPPED")
      PROVE  Leaves(t, a, r)
  BY <1>3, <1>5, <1>a DEF Leaves
<1>8. CASE h[1] = "post"
  <2>1. PostState(t)
    BY <1>5, <1>8 DEF Step, Begin, MakeThrows, MakeObject, AlreadyRegistered, TestField, DestroyObject, ClearField, Resolve,
         ResolveThrows, Establish, EstablishFails, GetFd, Send, SendFails
  <2>2. /\ UNCHANGED <<mState, field, live, gen, mConfig, thrown, revoking>> /\ Goes(t, <<>>)
        /\ posts' = Append(posts, k) /\ Hushed
    BY <1>5, <1>7, <1>8, <2>1 DEF PostState, sessions, started, Hushed
  <2>3. \A x \in Kinds : Clean(x) \/ (Clears(b, x) /\ Made(x))
    BY <1>3, <1>8 DEF Stops, Going, h
  <2>4. Stops(b)'
    BY <1>3, <1>8, <2>2, <2>3 DEF Stops, Going, Clean, Made, Held
  <2>5. b = <<>> /\ a[Len(a)] = <<"post", "STOPPED">> => posts' = Append(posts, "STOPPED")
    BY <1>3, <1>7, <2>2
  <2>. QED BY <1>a, <2>2, <2>4, <2>5
<1>9. CASE h[1] = "test"
  <2>1. TestField(t)
    BY <1>5, <1>9 DEF Step, Begin, MakeThrows, MakeObject, AlreadyRegistered, PostState, DestroyObject, ClearField, Resolve,
         ResolveThrows, Establish, EstablishFails, GetFd, Send, SendFails
  <2>2. UNCHANGED <<mState, field, live, gen, mConfig, thrown, revoking>> /\ Hushed
    BY <2>1 DEF TestField, sessions, started, Hushed
  <2>3. \A x \in Kinds : Clean(x) \/ (Clears(b, x) /\ Made(x))
    BY <1>3, <1>9 DEF Stops, Going, h
  <2>4. CASE field[k] # 0
    <3>1. Goes(t, <<>>)
      BY <1>5, <2>1, <2>4 DEF TestField
    <3>2. Made(k)
      BY <1>6, <1>9, <2>3, <2>4 DEF Clean
    <3>3. Stops(b)'
      BY <1>3, <1>9, <2>2, <2>3, <3>2 DEF Stops, Going, Clean, Made, Held
    <3>4. ~(b = <<>> /\ a[Len(a)] = <<"post", "STOPPED">>)
      BY <1>3, <1>9
    <3>. QED BY <1>a, <2>2, <3>1, <3>3, <3>4
  <2>5. CASE field[k] = 0
    <3>. DEFINE c == Tail(b)
                d == Tail(c)
    <3>1. b # <<>> /\ Head(b) = <<"destroy", k>>
      BY <1>3, <1>9
    <3>2. /\ c \in Seq(StopSteps) /\ Orderly(c) /\ c # <<>> /\ Head(c) = <<"clear", k>>
          /\ \A x : Clears(b, x) => Clears(c, x)
          /\ c[Len(c)] = b[Len(b)]
      BY <1>3, <3>1, OnTail
    <3>3. /\ d \in Seq(StopSteps) /\ Orderly(d)
          /\ d = <<>> \/ Head(d)[1] \notin {"destroy", "clear"}
          /\ \A x : Clears(c, x) => Clears(d, x) \/ x = k
          /\ d # <<>> => d[Len(d)] = c[Len(c)]
          /\ d = <<>> => c[Len(c)] = <<"clear", k>>
      <4>. HIDE DEF c
      <4>1. Head(c)[1] \in {"clear", "post"} /\ \A x : Head(c) = <<"clear", x>> => x = k
        BY <3>2
      <4>2. /\ d \in Seq(StopSteps) /\ Orderly(d)
            /\ Head(c)[1] \in {"clear", "post"} => d = <<>> \/ Head(d)[1] \notin {"destroy", "clear"}
            /\ \A x : Clears(c, x) => Clears(d, x) \/ Head(c) = <<"clear", x>>
            /\ d # <<>> => d[Len(d)] = c[Len(c)]
            /\ d = <<>> => c[Len(c)] = Head(c)
        BY <3>2, OnTail
      <4>. HIDE DEF d
      <4>. QED BY <3>2, <4>1, <4>2
    <3>4. SubSeq(prog[t], 4, Len(prog[t])) = d \o r
      <4>1. b \o r \in Seq(AllSteps) /\ c \o r \in Seq(AllSteps) /\ Tail(b \o r) = c \o r /\ Tail(c \o r) = d \o r
            /\ b \o r # <<>> /\ c \o r # <<>>
        <5>1. b \in Seq(AllSteps) /\ c \in Seq(AllSteps)
          BY <1>3, <3>2 DEF AllSteps, Steps
        <5>2. Tail(b \o r) = c \o r /\ b \o r # <<>>
          BY <1>1, <3>1, <5>1, TailOfConcat
        <5>. HIDE DEF c
        <5>3. Tail(c \o r) = d \o r /\ c \o r # <<>>
          BY <1>1, <3>2, <5>1, TailOfConcat
        <5>4. b \o r \in Seq(AllSteps) /\ c \o r \in Seq(AllSteps)
          BY <1>1, <5>1, ConcatProperties
        <5>. QED BY <5>2, <5>3, <5>4 DEF c
      <4>2. Len(prog[t]) > 2
        <5>1. Len(prog[t]) \in Nat /\ Len(b \o r) \in Nat /\ Len(c \o r) \in Nat
              /\ Len(b \o r) = Len(prog[t]) - 1 /\ Len(c \o r) = Len(b \o r) - 1 /\ Len(c \o r) > 0
          BY <1>1, <1>2, <4>1, Tails
        <5>. QED BY <5>1
      <4>. QED BY <1>1, <1>2, <4>1, <4>2, SkipIsTails
    <3>5. prog' = [prog EXCEPT ![t] = d \o r]
      BY <1>5, <2>1, <2>5, <3>4 DEF TestField
    <3>6. Clean(k)
      BY <1>6, <1>9, <2>3, <2>5 DEF Made
    <3>7. \A x \in Kinds : Clean(x) \/ (Clears(d, x) /\ Made(x))
      BY <2>3, <3>2, <3>3, <3>6
    <3>. HIDE DEF d, c
    <3>8. Stops(d)'
      BY <2>2, <3>3, <3>7 DEF Stops, Going, Clean, Made, Held
    <3>9. d # <<>> => d[Len(d)] = a[Len(a)]
      BY <1>3, <3>1, <3>2, <3>3
    <3>10. ~(d = <<>> /\ a[Len(a)] = <<"post", "STOPPED">>)
      BY <1>3, <3>1, <3>2, <3>3
    <3>. QED BY <2>2, <3>3, <3>5, <3>8, <3>9, <3>10 DEF Leaves
  <2>. QED BY <2>4, <2>5
<1>10. CASE h[1] = "destroy"
  <2>1. DestroyObject(t) /\ Made(k)
    BY <1>5, <1>10 DEF Step, Begin, MakeThrows, MakeObject, AlreadyRegistered, PostState, TestField, ClearField, Resolve,
         ResolveThrows, Establish, EstablishFails, GetFd, Send, SendFails, Stops, h, k
  <2>2. <<k, field[k]>> \in live /\ field[k] # 0
    BY <2>1 DEF Made, Held
  <2>9. CASE ~CanDestroy(k)
    <3>1. Childless(k)
      BY <2>2, <2>9 DEF CanDestroy
    <3>2. k \in Processes
      BY <3>1 DEF Childless, Typed
    <3>3. Throws(t) /\ UNCHANGED <<mState, posts, field, live, childless, started, revoking>>
      BY <1>5, <2>1, <2>9 DEF DestroyObject
    <3>. QED BY <1>10, <3>1, <3>2, <3>3 DEF Snags, Throws, Hushed, sessions, started, h, k
  <2>10. CASE CanDestroy(k)
    <3>3. /\ UNCHANGED <<mState, field, gen, mConfig, thrown, revoking>> /\ Hushed /\ Goes(t, <<>>)
          /\ live' = {o \in live : o[1] # k \/ o[2] # field[k]}
      BY <1>5, <2>1, <2>10 DEF DestroyObject, Hushed, started
    <3>4. Cut(k)' /\ \A x \in Kinds \ {k} : Held(x)' = Held(x)
      BY <2>1, <3>3 DEF Cut, Made, Held
    <3>5. \A x \in Kinds \ {k} : (Clean(x) \/ (Clears(b, x) /\ Made(x))) /\ (Clean(x) => Clean(x)') /\ (Made(x) => Made(x)')
      BY <1>3, <1>10, <3>3, <3>4 DEF Stops, Going, h, Clean, Made
    <3>6. Clears(b, k)
      <4>1. Clears(a, k)
        BY <1>6, <1>10, <2>2 DEF Stops, Clean
      <4>. QED BY <1>3, <1>10, <4>1
    <3>7. Stops(b)'
      BY <1>3, <1>10, <3>4, <3>5, <3>6 DEF Stops, Going
    <3>8. ~(b = <<>> /\ a[Len(a)] = <<"post", "STOPPED">>)
      BY <1>3, <1>10
    <3>. QED BY <1>a, <3>3, <3>7, <3>8
  <2>. QED BY <2>9, <2>10
<1>11. CASE h[1] = "clear"
  <2>1. ClearField(t) /\ Cut(k)
    BY <1>5, <1>11 DEF Step, Begin, MakeThrows, MakeObject, AlreadyRegistered, PostState, TestField, DestroyObject, Resolve,
         ResolveThrows, Establish, EstablishFails, GetFd, Send, SendFails, Stops, h, k
  <2>2. /\ UNCHANGED <<mState, live, gen, mConfig, thrown, revoking>> /\ Hushed /\ Goes(t, <<>>)
        /\ field' = [field EXCEPT ![k] = 0]
    BY <1>5, <2>1 DEF ClearField, Hushed, started
  <2>3. Clean(k)' /\ \A x \in Kinds \ {k} : field'[x] = field[x] /\ Held(x)' = Held(x)
    BY <1>6, <1>11, <2>1, <2>2 DEF Cut, Clean, Held, Typed
  <2>4. \A x \in Kinds \ {k} : (Clean(x) \/ (Clears(b, x) /\ Made(x))) /\ (Clean(x) => Clean(x)') /\ (Made(x) => Made(x)')
    BY <1>3, <1>6, <1>11, <2>2, <2>3 DEF Stops, Going, h, Clean, Made
  <2>5. Stops(b)'
    BY <1>3, <1>11, <2>3, <2>4 DEF Stops, Going
  <2>6. ~(b = <<>> /\ a[Len(a)] = <<"post", "STOPPED">>)
    BY <1>3, <1>11
  <2>. QED BY <1>a, <2>2, <2>5, <2>6
<1>. QED BY <1>7, <1>8, <1>9, <1>10, <1>11

-----------------------------------------------------------------------------
(* The code of a start.                                                    *)

\* A step, or what is put in its place, makes an object of kind k.
Brings(s, k) ==
  \/ s[1] \in {"make", "register"} /\ k = s[2]
  \/ s[1] = "establish" /\ k \in {"conn", "tun2socks"}
  \/ s[1] = "send" /\ k = "lockReceiver"
  \/ s[1] = "resolve" /\ k \in {"sslocal", "pdnsd", "sstunnel", "conn", "tun2socks", "lockReceiver"}
Ahead(p, k) == \E i \in 1..Len(p) : Brings(p[i], k)

\* What stands beside a step in the code of a start: resolve, establish and send are its
\* last steps, nothing is made twice, and every state is posted once.
Expected(p, i) ==
  /\ p[i][1] \notin {"begin", "load", "switch", "reload", "update"}
  /\ p[i][1] = "test" => i < Len(p) /\ p[i + 1][1] = "destroy" /\ p[i][2] \in Processes
  /\ p[i][1] = "destroy" => i < Len(p) /\ p[i + 1][1] = "clear"
  /\ p[i][1] = "clear" => i < Len(p)
  /\ i > 1 /\ p[i][1] = "destroy" => p[i - 1][1] = "test"
  /\ i > 1 /\ p[i][1] = "clear" => p[i - 1][1] = "destroy"
  /\ p[i][1] = "test" \/ p[i] = <<"post", "CONNECTING">> => p[Len(p)][1] = "resolve"
  /\ p[i][1] \in {"send", "resolve"} => i = Len(p)
  /\ p[i][1] = "establish" => i + 1 = Len(p) /\ p[i + 1][1] = "send"
  /\ p[i][1] = "post" => p[i][2] \in {"CONNECTING", "CONNECTED"}
Proper(p) ==
  /\ \A i \in 1..Len(p) : Expected(p, i)
  /\ \A i, j \in 1..Len(p), k \in Kinds : Brings(p[i], k) /\ Brings(p[j], k) => i = j
  /\ \A i \in 1..Len(p) : p[i][1] = "getFd" => ~Ahead(p, "conn")
  /\ \A i, j \in 1..Len(p) : p[i] = <<"post", "CONNECTED">> /\ p[j][1] \in {"post", "resolve", "send"} => i = j
  /\ \A i, j \in 1..Len(p) : p[i] = <<"post", "CONNECTING">> /\ p[j] = <<"post", "CONNECTING">> => i = j

\* CONNECTED is posted or still to come.
Tells(s) == s[1] \in {"resolve", "send"} \/ s = <<"post", "CONNECTED">>
\* The states posted and those still to be posted are CONNECTING and CONNECTED.
Told(p) ==
  \/ \E i \in 1..Len(p) : p[i] = <<"post", "CONNECTING">>
  \/ /\ posts # <<>> /\ posts[Len(posts)] = "CONNECTING"
     /\ \E i \in 1..Len(p) : Tells(p[i])
  \/ /\ Len(posts) > 1 /\ posts[Len(posts)] = "CONNECTED" /\ posts[Len(posts) - 1] = "CONNECTING"
     /\ \A i \in 1..Len(p) : ~Tells(p[i]) /\ p[i][1] # "post"

\* The steps make what the Config calls for, and sendFd() has reached the child of
\* tun2socks or is still to do so.
Suits(p) ==
  /\ \A i \in 1..Len(p) : p[i][1] \in {"make", "register"} => p[i][2] \in Wanted
  /\ \/ \E i \in 1..Len(p) : p[i][1] \in {"resolve", "send"}
     \/ /\ <<"tun2socks", gen>> \notin childless
        /\ \A i \in 1..Len(p) : p[i][1] = "make" => p[i][2] # "tun2socks"

\* A kind of object as a start has it while its steps p are to be made.
Stands(p, k) == IF Ahead(p, k) \/ k \notin Wanted THEN Clean(k) ELSE Made(k)

\* A thread's steps are what is left of a start: there is what they do not make.
Starting(p) ==
  /\ p # <<>> /\ gen # 0 /\ Head(p)[1] \notin {"destroy", "clear"}
  /\ Proper(p) /\ Told(p) /\ Suits(p)
  /\ \A k \in Kinds : Stands(p, k)

\* A step further in the code of a start.
LEMMA ProperTail ==
  ASSUME NEW p \in Seq(Steps), p # <<>>, Proper(p)
  PROVE  /\ Tail(p) \in Seq(Steps) /\ Proper(Tail(p)) /\ Head(p) \in Steps /\ Head(p) = p[1]
         /\ Head(p)[1] = "test" => Tail(p) # <<>> /\ Head(Tail(p))[1] = "destroy"
         /\ Head(p)[1] = "destroy" => Tail(p) # <<>> /\ Head(Tail(p))[1] = "clear"
         /\ Head(p)[1] \notin {"test", "destroy"} => Tail(p) = <<>> \/ Head(Tail(p))[1] \notin {"destroy", "clear"}
         /\ \A k \in Kinds : Ahead(p, k) <=> Brings(Head(p), k) \/ Ahead(Tail(p), k)
         /\ \A k \in Kinds : Brings(Head(p), k) => ~Ahead(Tail(p), k)
         /\ Tail(p) # <<>> => Tail(p)[Len(Tail(p))] = p[Len(p)]
         /\ Tail(p) = <<>> => Len(p) = 1
         /\ Len(Tail(p)) = Len(p) - 1 /\ Len(p) \in Nat
         /\ \A i \in 1..(Len(p) - 1) : Tail(p)[i] = p[i + 1]
         /\ \A i \in 1..Len(p) : i = 1 \/ (i - 1 \in 1..Len(Tail(p)) /\ Tail(p)[i - 1] = p[i])
<1>. DEFINE b == Tail(p)
<1>1. /\ b \in Seq(Steps) /\ Len(b) = Len(p) - 1 /\ Len(p) \in Nat /\ Len(p) > 0
      /\ \A i \in 1..(Len(p) - 1) : b[i] = p[i + 1]
  BY Tails
<1>2. Head(p) = p[1] /\ p[1] \in Steps
  OBVIOUS
<1>. HIDE DEF b
<1>3. (b # <<>> => Head(b) = b[1] /\ Len(b) > 0) /\ (b = <<>> => Len(b) = 0)
  BY <1>1
<1>4. \A i \in 1..Len(p) : i = 1 \/ (i - 1 \in 1..Len(b) /\ b[i - 1] = p[i])
  BY <1>1
<1>5. \A i \in 1..Len(b) : i + 1 \in 1..Len(p) /\ b[i] = p[i + 1] /\ i + 1 > 1 /\ i + 1 - 1 = i
  BY <1>1
<1>6. \A k : Ahead(p, k) <=> Brings(Head(p), k) \/ Ahead(b, k)
  <2>1. ASSUME NEW k, Ahead(p, k) PROVE Brings(Head(p), k) \/ Ahead(b, k)
    BY <1>2, <1>4, <2>1 DEF Ahead
  <2>2. ASSUME NEW k, Ahead(b, k) PROVE Ahead(p, k)
    BY <1>5, <2>2 DEF Ahead
  <2>3. ASSUME NEW k, Brings(Head(p), k) PROVE Ahead(p, k)
    BY <1>1, <1>2, <2>3 DEF Ahead
  <2>. QED BY <2>1, <2>2, <2>3
<1>7. \A k \in Kinds : Brings(Head(p), k) => ~Ahead(b, k)
  <2>. SUFFICES ASSUME NEW k \in Kinds, Brings(p[1], k), NEW i \in 1..Len(b), Brings(p[i + 1], k) PROVE FALSE
    BY <1>2, <1>5 DEF Ahead
  <2>1. i + 1 \in 1..Len(p) /\ 1 \in 1..Len(p) /\ i + 1 # 1
    BY <1>1, <1>5
  <2>. QED BY <2>1 DEF Proper
<1>8. b # <<>> => b[Len(b)] = p[Len(p)]
  BY <1>1, <1>3
<1>9. ASSUME NEW i \in 1..Len(b) PROVE Expected(b, i)
  <2>1. Expected(p, i + 1)
    BY <1>5 DEF Proper
  <2>2. /\ b[i] = p[i + 1] /\ (i > 1 => b[i - 1] = p[i]) /\ (i < Len(b) => b[i + 1] = p[i + 1 + 1])
        /\ i + 1 > 1 /\ i + 1 - 1 = i /\ (i + 1 < Len(p) => i < Len(b)) /\ b[Len(b)] = p[Len(p)]
        /\ (i + 1 = Len(p) => i = Len(b)) /\ (i + 1 + 1 = Len(p) => i + 1 = Len(b) /\ i < Len(b))
    <3>1. /\ i > 1 => i - 1 \in 1..(Len(p) - 1) /\ i - 1 + 1 = i
          /\ i < Len(b) => i + 1 \in 1..(Len(p) - 1)
          /\ i \in 1..(Len(p) - 1)
      BY <1>1
    <3>2. /\ i + 1 > 1 /\ i + 1 - 1 = i /\ (i + 1 < Len(p) => i < Len(b)) /\ Len(b) # 0
          /\ (i + 1 = Len(p) => i = Len(b)) /\ (i + 1 + 1 = Len(p) => i + 1 = Len(b) /\ i < Len(b))
      BY <1>1
    <3>3. b[Len(b)] = p[Len(p)]
      BY <1>8, <3>2
    <3>4. b[i] = p[i + 1] /\ (i > 1 => b[i - 1] = p[i]) /\ (i < Len(b) => b[i + 1] = p[i + 1 + 1])
      BY <1>1, <3>1
    <3>. QED BY <3>2, <3>3, <3>4
  <2>. QED BY <2>1, <2>2 DEF Expected
<1>10. Proper(b)
  <2>1. \A i, j \in 1..Len(b), k \in Kinds : Brings(b[i], k) /\ Brings(b[j], k) => i = j
    <3>. SUFFICES ASSUME NEW i \in 1..Len(b), NEW j \in 1..Len(b), NEW k \in Kinds, Brings(b[i], k), Brings(b[j], k)
                  PROVE  i = j
      OBVIOUS
    <3>1. i + 1 = j + 1
      BY <1>5 DEF Proper
    <3>. QED BY <3>1
  <2>2. \A i \in 1..Len(b) : b[i][1] = "getFd" => ~Ahead(b, "conn")
    <3>. SUFFICES ASSUME NEW i \in 1..Len(b), b[i][1] = "getFd" PROVE ~Ahead(b, "conn")
      OBVIOUS
    <3>1. ~Ahead(p, "conn")
      BY <1>5 DEF Proper
    <3>. QED BY <1>6, <3>1
  <2>3. \A i, j \in 1..Len(b) : b[i] = <<"post", "CONNECTED">> /\ b[j][1] \in {"post", "resolve", "send"} => i = j
    <3>. SUFFICES ASSUME NEW i \in 1..Len(b), NEW j \in 1..Len(b),
                         b[i] = <<"post", "CONNECTED">>, b[j][1] \in {"post", "resolve", "send"}
                  PROVE  i = j
      OBVIOUS
    <3>1. i + 1 = j + 1
      BY <1>5 DEF Proper
    <3>. QED BY <3>1
  <2>4. \A i, j \in 1..Len(b) : b[i] = <<"post", "CONNECTING">> /\ b[j] = <<"post", "CONNECTING">> => i = j
    <3>. SUFFICES ASSUME NEW i \in 1..Len(b), NEW j \in 1..Len(b),
                         b[i] = <<"post", "CONNECTING">>, b[j] = <<"post", "CONNECTING">>
                  PROVE  i = j
      OBVIOUS
    <3>1. i + 1 = j + 1
      BY <1>5 DEF Proper
    <3>. QED BY <3>1
  <2>. QED BY <1>9, <2>1, <2>2, <2>3, <2>4 DEF Proper
<1>11. Expected(p, 1) /\ (Len(p) > 1 => Expected(p, 2) /\ b[1] = p[2])
  BY <1>1 DEF Proper
<1>12. /\ Head(p)[1] = "test" => b # <<>> /\ Head(b)[1] = "destroy"
       /\ Head(p)[1] = "destroy" => b # <<>> /\ Head(b)[1] = "clear"
       /\ Head(p)[1] \notin {"test", "destroy"} => b = <<>> \/ Head(b)[1] \notin {"destroy", "clear"}
  <2>1. (b # <<>> => Len(p) > 1) /\ (Len(p) > 1 => b # <<>>)
    BY <1>1, <1>3
  <2>. QED BY <1>1, <1>2, <1>3, <1>11, <2>1 DEF Expected
<1>. QED BY <1>1, <1>2, <1>3, <1>4, <1>6, <1>7, <1>8, <1>10, <1>12 DEF b

\* What follows begin ...
LEMMA StartProper ==
  ASSUME NEW c \in Configs
  PROVE  LET p == Tail(StartRunner(c)) IN
         /\ p \in Seq(Steps) /\ p # <<>> /\ Head(p)[1] \notin {"destroy", "clear"} /\ Proper(p)
         /\ \A k \in Kinds : Ahead(p, k)
         /\ \A i \in 1..Len(p) : p[i][1] \in {"make", "register"} => p[i][2] \in {"traffic", "closeReceiver", "protect"}
         /\ \E i \in 1..Len(p) : p[i][1] = "resolve"
         /\ \E i \in 1..Len(p) : p[i] = <<"post", "CONNECTING">>
<1>. DEFINE p == Tail(StartRunner(c))
<1>1. StartRunner(c) \in Seq(Steps) /\ StartRunner(c) # <<>>
  BY ProgramTypes DEF StartRunner, Make, Post, KillProcesses, Drop
<1>2. /\ Len(p) = 17
      /\ p[1] = <<"make", "traffic">> /\ p[2] = <<"register", "closeReceiver">> /\ p[3] = <<"make", "protect">>
      /\ p[4] = <<"post", "CONNECTING">> /\ p[5] = <<"test", "sslocal">> /\ p[6] = <<"destroy", "sslocal">>
      /\ p[7] = <<"clear", "sslocal">> /\ p[8] = <<"test", "sstunnel">> /\ p[9] = <<"destroy", "sstunnel">>
      /\ p[10] = <<"clear", "sstunnel">> /\ p[11] = <<"test", "tun2socks">> /\ p[12] = <<"destroy", "tun2socks">>
      /\ p[13] = <<"clear", "tun2socks">> /\ p[14] = <<"test", "pdnsd">> /\ p[15] = <<"destroy", "pdnsd">>
      /\ p[16] = <<"clear", "pdnsd">> /\ p[17] = <<"resolve", c.proxy>>
  <2>. DEFINE s == StartRunner(c)
  <2>1. /\ Len(s) = 18
        /\ s[2] = <<"make", "traffic">> /\ s[3] = <<"register", "closeReceiver">> /\ s[4] = <<"make", "protect">>
        /\ s[5] = <<"post", "CONNECTING">> /\ s[6] = <<"test", "sslocal">> /\ s[7] = <<"destroy", "sslocal">>
        /\ s[8] = <<"clear", "sslocal">> /\ s[9] = <<"test", "sstunnel">> /\ s[10] = <<"destroy", "sstunnel">>
        /\ s[11] = <<"clear", "sstunnel">> /\ s[12] = <<"test", "tun2socks">> /\ s[13] = <<"destroy", "tun2socks">>
        /\ s[14] = <<"clear", "tun2socks">> /\ s[15] = <<"test", "pdnsd">> /\ s[16] = <<"destroy", "pdnsd">>
        /\ s[17] = <<"clear", "pdnsd">> /\ s[18] = <<"resolve", c.proxy>>
    BY DEF StartRunner, KillProcesses, Drop, Post, Make
  <2>. HIDE DEF s
  <2>2. Len(p) = Len(s) - 1 /\ \A i \in 1..(Len(s) - 1) : p[i] = s[i + 1]
    BY <1>1, Tails DEF s
  <2>. HIDE DEF p
  <2>. QED BY <2>1, <2>2
<1>3. p \in Seq(Steps)
  BY <1>1, Tails
<1>. HIDE DEF p
<1>4. p # <<>> /\ Head(p) = p[1]
  BY <1>2, <1>3
<1>5. \A i \in 1..Len(p) : Expected(p, i)
  <2>. SUFFICES ASSUME NEW i \in 1..17 PROVE Expected(p, i)
    BY <1>2
  <2>. QED BY <1>2 DEF Expected, Processes
<1>6. \A i, j \in 1..Len(p), k \in Kinds : Brings(p[i], k) /\ Brings(p[j], k) => i = j
  <2>. SUFFICES ASSUME NEW i \in 1..17, NEW j \in 1..17, NEW k \in Kinds, Brings(p[i], k), Brings(p[j], k) PROVE i = j
    BY <1>2
  <2>1. i \in {1, 2, 3, 17} /\ j \in {1, 2, 3, 17}
    BY <1>2 DEF Brings
  <2>2. p[1][1] = "make" /\ p[1][2] = "traffic" /\ p[2][1] = "register" /\ p[2][2] = "closeReceiver"
        /\ p[3][1] = "make" /\ p[3][2] = "protect" /\ p[17][1] = "resolve"
    BY <1>2
  <2>3. /\ Brings(p[1], k) <=> k = "traffic"
        /\ Brings(p[2], k) <=> k = "closeReceiver"
        /\ Brings(p[3], k) <=> k = "protect"
        /\ Brings(p[17], k) => k \notin {"traffic", "closeReceiver", "protect"}
    BY <2>2 DEF Brings
  <2>4. \A x \in {1, 2, 3, 17} : Brings(p[x], k) =>
          /\ k = "traffic" <=> x = 1
          /\ k = "closeReceiver" <=> x = 2
          /\ k = "protect" <=> x = 3
    BY <2>3
  <2>. QED BY <2>1, <2>4
<1>7. /\ \A i \in 1..Len(p) : p[i][1] # "getFd" /\ p[i] # <<"post", "CONNECTED">>
      /\ \A i \in 1..Len(p) : p[i] = <<"post", "CONNECTING">> => i = 4
  BY <1>2
<1>8. Proper(p)
  BY <1>5, <1>6, <1>7 DEF Proper
<1>9. \A k \in Kinds : Ahead(p, k)
  <2>1. {1, 2, 3, 17} \subseteq 1..Len(p)
    BY <1>2
  <2>. QED BY <1>2, <2>1 DEF Ahead, Brings, Kinds, Processes, Receivers
<1>10. 4 \in 1..Len(p) /\ p[4] = <<"post", "CONNECTING">> /\ Head(p)[1] \notin {"destroy", "clear"}
  BY <1>2, <1>4
<1>11. \E i \in 1..Len(p) : p[i] = <<"post", "CONNECTING">>
  BY <1>10
<1>12. \A i \in 1..Len(p) : p[i][1] \in {"make", "register"} => p[i][2] \in {"traffic", "closeReceiver", "protect"}
  BY <1>2
<1>13. \E i \in 1..Len(p) : p[i][1] = "resolve"
  <2>1. 17 \in 1..Len(p) /\ p[17][1] = "resolve"
    BY <1>2
  <2>. QED BY <2>1
<1>. QED BY <1>3, <1>4, <1>8, <1>9, <1>10, <1>11, <1>12, <1>13 DEF p

\* ... and what takes the place of resolve ...
LEMMA ConnectProper ==
  /\ HandleConnection \in Seq(Steps) /\ HandleConnection # <<>> /\ Proper(HandleConnection)
  /\ Head(HandleConnection)[1] = "make"
  /\ \A k \in Wanted : Ahead(HandleConnection, k) <=> k \notin {"traffic", "closeReceiver", "protect"}
  /\ \A i \in 1..Len(HandleConnection) :
       HandleConnection[i][1] \in {"make", "register"} => HandleConnection[i][2] \in Wanted
  /\ \E i \in 1..Len(HandleConnection) : HandleConnection[i][1] = "send"
  /\ \A i \in 1..Len(HandleConnection) : HandleConnection[i] # <<"post", "CONNECTING">>
<1>. DEFINE p == HandleConnection
<1>3. p \in Seq(Steps)
  BY ProgramTypes
<1>1. CASE ~mConfig.isUdpDns
  <2>2. /\ Len(p) = 5 /\ p[1] = <<"make", "sslocal">> /\ p[2] = <<"make", "pdnsd">>
        /\ p[3] = <<"make", "sstunnel">> /\ p[4] = <<"establish", "conn">>
        /\ p[5] = <<"send", "tun2socks">> /\ p # <<>> /\ Head(p) = <<"make", "sslocal">>
    BY <1>1 DEF HandleConnection, Make
  <2>3. Wanted = Kinds
    BY <1>1 DEF Wanted
  <2>. HIDE DEF p
  <2>5. \A i \in 1..Len(p) : Expected(p, i)
    BY <2>2 DEF Expected
  <2>6. \A i, j \in 1..Len(p), k \in Kinds : Brings(p[i], k) /\ Brings(p[j], k) => i = j
    BY <2>2 DEF Brings
  <2>7. /\ \A i \in 1..Len(p) : p[i][1] # "getFd" /\ p[i] # <<"post", "CONNECTED">> /\ p[i] # <<"post", "CONNECTING">>
    BY <2>2
  <2>8. Proper(p)
    BY <2>5, <2>6, <2>7 DEF Proper
  <2>9. \A k \in Kinds : Ahead(p, k) <=> k \notin {"traffic", "closeReceiver", "protect"}
    BY <2>2 DEF Ahead, Brings, Kinds, Processes, Receivers
  <2>10. 5 \in 1..Len(p)
    BY <2>2
  <2>11. \A i \in 1..Len(p) : p[i][1] \in {"make", "register"} => p[i][2] \in Kinds
    BY <2>2 DEF Kinds, Processes
  <2>. QED BY <2>2, <2>3, <2>7, <1>3, <2>8, <2>9, <2>10, <2>11 DEF p
<1>2. CASE mConfig.isUdpDns
  <2>2. /\ Len(p) = 3 /\ p[1] = <<"make", "sslocal">> /\ p[2] = <<"establish", "conn">>
        /\ p[3] = <<"send", "tun2socks">> /\ p # <<>> /\ Head(p) = <<"make", "sslocal">>
    BY <1>2 DEF HandleConnection, Make
  <2>3. Wanted = Kinds \ {"sstunnel", "pdnsd"}
    BY <1>2 DEF Wanted
  <2>. HIDE DEF p
  <2>5. \A i \in 1..Len(p) : Expected(p, i)
    BY <2>2 DEF Expected
  <2>6. \A i, j \in 1..Len(p), k \in Kinds : Brings(p[i], k) /\ Brings(p[j], k) => i = j
    BY <2>2 DEF Brings
  <2>7. /\ \A i \in 1..Len(p) : p[i][1] # "getFd" /\ p[i] # <<"post", "CONNECTED">> /\ p[i] # <<"post", "CONNECTING">>
    BY <2>2
  <2>8. Proper(p)
    BY <2>5, <2>6, <2>7 DEF Proper
  <2>9. \A k \in Wanted : Ahead(p, k) <=> k \notin {"traffic", "closeReceiver", "protect"}
    BY <2>2, <2>3 DEF Ahead, Brings, Kinds, Processes, Receivers
  <2>10. 3 \in 1..Len(p)
    BY <2>2
  <2>11. \A i \in 1..Len(p) : p[i][1] \in {"make", "register"} => p[i][2] \in Wanted
    BY <2>2, <2>3 DEF Kinds, Processes
  <2>. QED BY <2>2, <2>7, <1>3, <2>8, <2>9, <2>10, <2>11 DEF p
<1>. QED BY <1>1, <1>2

\* ... of establish ...
LEMMA FdProper ==
  LET p == << <<"getFd", "conn">> >> \o Make("tun2socks") \o << <<"send", "tun2socks">> >> IN
  /\ p \in Seq(Steps) /\ p # <<>> /\ Proper(p) /\ Head(p)[1] = "getFd"
  /\ \A k \in Kinds : Ahead(p, k) <=> k \in {"tun2socks", "lockReceiver"}
  /\ \A i \in 1..Len(p) : p[i][1] \in {"make", "register"} => p[i][2] = "tun2socks"
  /\ \E i \in 1..Len(p) : p[i][1] = "send"
  /\ \A i \in 1..Len(p) : p[i] # <<"post", "CONNECTING">>
<1>. DEFINE p == << <<"getFd", "conn">> >> \o Make("tun2socks") \o << <<"send", "tun2socks">> >>
<1>2. /\ Len(p) = 3 /\ p[1] = <<"getFd", "conn">> /\ p[2] = <<"make", "tun2socks">>
      /\ p[3] = <<"send", "tun2socks">> /\ p # <<>> /\ Head(p) = <<"getFd", "conn">>
  BY DEF Make
<1>3. p \in Seq(Steps)
  BY DEF Make, Steps, Kinds, Processes
<1>. HIDE DEF p
<1>5. \A i \in 1..Len(p) : Expected(p, i)
  BY <1>2 DEF Expected
<1>6. \A i, j \in 1..Len(p), k \in Kinds : Brings(p[i], k) /\ Brings(p[j], k) => i = j
  BY <1>2 DEF Brings
<1>9. \A k \in Kinds : Ahead(p, k) <=> k \in {"tun2socks", "lockReceiver"}
  BY <1>2 DEF Ahead, Brings
<1>7. ~Ahead(p, "conn") /\ \A i \in 1..Len(p) : p[i] # <<"post", "CONNECTED">> /\ p[i] # <<"post", "CONNECTING">>
  BY <1>2 DEF Ahead, Brings
<1>8. Proper(p)
  BY <1>5, <1>6, <1>7 DEF Proper
<1>10. 3 \in 1..Len(p)
  BY <1>2
<1>11. \A i \in 1..Len(p) : p[i][1] \in {"make", "register"} => p[i][2] = "tun2socks"
  BY <1>2
<1>. QED BY <1>2, <1>7, <1>3, <1>8, <1>9, <1>10, <1>11 DEF p

\* ... and of send.
LEMMA SentProper ==
  LET p == Post("CONNECTED") \o Make("lockReceiver") IN
  /\ p \in Seq(Steps) /\ p # <<>> /\ Proper(p) /\ Head(p)[1] = "post"
  /\ \A k \in Kinds : Ahead(p, k) <=> k = "lockReceiver"
  /\ \A i \in 1..Len(p) : p[i][1] \in {"make", "register"} => p[i][2] = "lockReceiver"
  /\ \E i \in 1..Len(p) : p[i] = <<"post", "CONNECTED">>
  /\ \A i \in 1..Len(p) : p[i] # <<"post", "CONNECTING">>
<1>. DEFINE p == Post("CONNECTED") \o Make("lockReceiver")
<1>2. /\ Len(p) = 2 /\ p[1] = <<"post", "CONNECTED">> /\ p[2] = <<"make", "lockReceiver">>
      /\ p # <<>> /\ Head(p) = <<"post", "CONNECTED">>
  BY DEF Make, Post
<1>3. p \in Seq(Steps)
  BY DEF Make, Post, Steps, StopSteps, Kinds, Receivers, States
<1>. HIDE DEF p
<1>5. \A i \in 1..Len(p) : Expected(p, i)
  BY <1>2 DEF Expected
<1>6. \A i, j \in 1..Len(p), k \in Kinds : Brings(p[i], k) /\ Brings(p[j], k) => i = j
  BY <1>2 DEF Brings
<1>9. \A k \in Kinds : Ahead(p, k) <=> k = "lockReceiver"
  BY <1>2 DEF Ahead, Brings
<1>7. \A i, j \in 1..Len(p) : p[i] = <<"post", "CONNECTED">> /\ p[j][1] \in {"post", "resolve", "send"} => i = j
  BY <1>2
<1>11. \A i \in 1..Len(p) : p[i][1] # "getFd" /\ p[i] # <<"post", "CONNECTING">>
  BY <1>2
<1>8. Proper(p)
  BY <1>5, <1>6, <1>7, <1>11 DEF Proper
<1>10. 1 \in 1..Len(p)
  BY <1>2
<1>12. \A i \in 1..Len(p) : p[i][1] \in {"make", "register"} => p[i][2] = "lockReceiver"
  BY <1>2
<1>. QED BY <1>2, <1>11, <1>3, <1>8, <1>9, <1>10, <1>12 DEF p

-----------------------------------------------------------------------------
(* The invariant.                                                          *)

\* The state last announced.
Announced(s) == IF posts = <<>> THEN mState = s ELSE posts[Len(posts)] = s
\* No thread is in the service's code: there is nothing, or all of one session.
Resting ==
  \/ (\A k \in Kinds : Clean(k)) /\ Announced("STOPPED")
  \/ /\ gen # 0 /\ (\A k \in Kinds : IF k \in Wanted THEN Made(k) ELSE Clean(k))
     /\ <<"tun2socks", gen>> \notin childless /\ Announced("CONNECTED")
     /\ Len(posts) = 1 => mState = "CONNECTING"
     /\ Len(posts) > 1 => posts[Len(posts) - 1] = "CONNECTING"

\* Behind each STOPPED, run or posted, a CONNECTING is still to be run.
Behind ==
  /\ mState = "STOPPED" => \E j \in 1..Len(posts) : posts[j] = "CONNECTING"
  /\ \A i \in 1..Len(posts) : posts[i] = "STOPPED" => \E j \in (i + 1)..Len(posts) : posts[j] = "CONNECTING"

\* No thread is in the service's code, and a revocation was cut short; ...
Halted == CutShort /\ Announced("STOPPING") /\ Behind
\* ... whoever stops the service now does not get past the guard without a child.
Blocked(p, R) ==
  /\ "binder" \in thrown
  /\ \E k \in Processes : /\ Childless(k)
                          /\ \E a \in Seq(StopSteps), r \in R :
                               p = a \o r /\ Orderly(a) /\ Clears(a, k) /\ Head(a) # <<"clear", k>>

AtRest == Resting \/ Halted
Doing(p) == IF p = <<>> THEN AtRest ELSE Stopping(p, Rests) \/ Starting(p) \/ Blocked(p, Rests)

\* A stop posts STOPPED last, and STOPPING before it destroys a guard.
Heard(p) ==
  \A i \in 1..Len(p) :
    /\ p[i] = <<"post", "STOPPED">> => i = Len(p)
    /\ p[i][1] = "destroy" /\ p[i][2] \in Processes =>
         Announced("STOPPING") \/ \E j \in 1..(i - 1) : p[j] = <<"post", "STOPPING">>

\* What onRevoke() has still to do.
Revoking(p) ==
  /\ Heard(p) /\ Behind
  /\ Stopping(p, {<<>>}) \/ (Blocked(p, {<<>>}) /\ Announced("STOPPING"))

\* One thread stops or starts a session. An exception on the main thread is the end.
Mode == ~overlapped =>
  IF "main" \in thrown THEN Idle("main")
  ELSE \/ Idle("binder") /\ prog["main"] \in Seq(Steps) /\ Doing(prog["main"])
       \/ Idle("main") /\ Revoking(prog["binder"])

\* A stop suffices wherever it begins.
LEMMA StopBegins ==
  ASSUME Typed, NEW a \in {StopRunner, Refuse}, NEW R, NEW r \in R,
         \A k \in Kinds : Clean(k) \/ Made(k)
  PROVE  Stopping(a \o r, R) /\ a \o r # <<>>
<1>1. a \in Seq(StopSteps) /\ Orderly(a) /\ a # <<>> /\ Head(a)[1] \notin {"destroy", "clear"}
      /\ a[Len(a)] = <<"post", "STOPPED">> /\ \A k \in Kinds : Clears(a, k)
  BY StopWhole DEF Whole
<1>2. Stops(a) /\ Closed(a, r)
  BY <1>1 DEF Stops, Going, Closed
<1>3. Stopping(a \o r, R)
  BY <1>1, <1>2 DEF Stopping
<1>. QED BY <1>1, <1>3

LEMMA ToldTail ==
  ASSUME NEW p \in Seq(Steps), p # <<>>, Proper(p), Told(p), ~Tells(Head(p)), Head(p)[1] # "post"
  PROVE  Told(Tail(p))
<1>. DEFINE b == Tail(p)
<1>1. /\ Head(p) = p[1]
      /\ \A i \in 1..(Len(p) - 1) : b[i] = p[i + 1]
      /\ \A i \in 1..Len(p) : i = 1 \/ (i - 1 \in 1..Len(b) /\ b[i - 1] = p[i])
      /\ Len(b) = Len(p) - 1 /\ Len(p) \in Nat
  BY ProperTail
<1>. HIDE DEF b
<1>2. \A i \in 1..Len(b) : i + 1 \in 1..Len(p) /\ b[i] = p[i + 1]
  BY <1>1
<1>3. CASE \E i \in 1..Len(p) : p[i] = <<"post", "CONNECTING">>
  <2>1. PICK i \in 1..Len(p) : p[i] = <<"post", "CONNECTING">>
    BY <1>3
  <2>2. i # 1
    BY <1>1, <2>1
  <2>3. \E j \in 1..Len(b) : b[j] = <<"post", "CONNECTING">>
    BY <1>1, <2>1, <2>2
  <2>. QED BY <2>3 DEF Told, b
<1>4. CASE posts # <<>> /\ posts[Len(posts)] = "CONNECTING" /\ \E i \in 1..Len(p) : Tells(p[i])
  <2>1. PICK i \in 1..Len(p) : Tells(p[i])
    BY <1>4
  <2>2. i # 1
    BY <1>1, <2>1
  <2>3. \E j \in 1..Len(b) : Tells(b[j])
    BY <1>1, <2>1, <2>2
  <2>. QED BY <1>4, <2>3 DEF Told, b
<1>5. CASE /\ Len(posts) > 1 /\ posts[Len(posts)] = "CONNECTED" /\ posts[Len(posts) - 1] = "CONNECTING"
           /\ \A i \in 1..Len(p) : ~Tells(p[i]) /\ p[i][1] # "post"
  <2>1. \A j \in 1..Len(b) : ~Tells(b[j]) /\ b[j][1] # "post"
    BY <1>2, <1>5
  <2>. QED BY <1>5, <2>1 DEF Told, b
<1>. QED BY <1>3, <1>4, <1>5 DEF Told

LEMMA SuitsTail ==
  ASSUME NEW p \in Seq(Steps), p # <<>>, Suits(p), Head(p)[1] \notin {"resolve", "send"}
  PROVE  Suits(Tail(p))
<1>. DEFINE b == Tail(p)
<1>1. /\ Head(p) = p[1] /\ Len(p) \in Nat /\ Len(b) = Len(p) - 1
      /\ \A i \in 1..(Len(p) - 1) : b[i] = p[i + 1]
  BY Tails
<1>. HIDE DEF b
<1>2. \A i \in 1..Len(b) : i + 1 \in 1..Len(p) /\ b[i] = p[i + 1]
  BY <1>1
<1>3. \A i \in 1..Len(p) : i = 1 \/ (i - 1 \in 1..Len(b) /\ b[i - 1] = p[i])
  BY <1>1
<1>4. \A i \in 1..Len(b) : b[i][1] \in {"make", "register"} => b[i][2] \in Wanted
  BY <1>2 DEF Suits
<1>5. CASE \E i \in 1..Len(p) : p[i][1] \in {"resolve", "send"}
  BY <1>1, <1>3, <1>4, <1>5 DEF Suits, b
<1>6. CASE /\ <<"tun2socks", gen>> \notin childless
           /\ \A i \in 1..Len(p) : p[i][1] = "make" => p[i][2] # "tun2socks"
  BY <1>2, <1>4, <1>6 DEF Suits, b
<1>. QED BY <1>5, <1>6 DEF Suits

\* A step says no more of a start than was to be said, and CONNECTED only behind CONNECTING.
Announces(p, q) ==
  /\ Has(q, Connecting) => Has(p, Connecting)
  /\ \/ Hushed
     \/ posts' = Append(posts, "CONNECTING") /\ Has(p, Connecting) /\ ~Has(q, Connecting)
     \/ posts' = Append(posts, "CONNECTED") /\ posts # <<>> /\ posts[Len(posts)] = "CONNECTING" /\ gen # 0

\* A step of a start: the start goes on, ends, turns into a stop or is cut short.
LEMMA StartStep ==
  ASSUME Typed, NEW t \in Threads, NEW p \in Seq(Steps), NEW f \in Seq(ClientSteps), prog[t] = p \o f,
         Starting(p), Step(t)
  PROVE  /\ UNCHANGED overlapped
         /\ \/ /\ thrown' = thrown \union {t}
               /\ prog' = [prog EXCEPT ![t] = <<>>]
            \/ /\ thrown' = thrown
               /\ \E q \in Seq(Steps) : /\ prog' = [prog EXCEPT ![t] = q \o f]
                                      /\ Doing(q)' /\ Announces(p, q)
<1>. DEFINE b == Tail(p)
            h == Head(p)
            k0 == h[2]
            Goal == /\ UNCHANGED overlapped
                    /\ \/ /\ thrown' = thrown \union {t}
                          /\ prog' = [prog EXCEPT ![t] = <<>>]
                       \/ /\ thrown' = thrown
                          /\ \E q \in Seq(Steps) : /\ prog' = [prog EXCEPT ![t] = q \o f]
                                                 /\ Doing(q)' /\ Announces(p, q)
<1>1. /\ p # <<>> /\ gen # 0 /\ Proper(p) /\ Told(p) /\ Suits(p) /\ h[1] \notin {"destroy", "clear"}
      /\ \A k \in Kinds : /\ Ahead(p, k) \/ k \notin Wanted => Clean(k)
                          /\ ~Ahead(p, k) /\ k \in Wanted => Made(k)
  BY DEF Starting, Stands
<1>2. /\ b \in Seq(Steps) /\ Proper(b) /\ h \in Steps /\ h = p[1]
      /\ h[1] = "test" => b # <<>> /\ Head(b)[1] = "destroy"
      /\ h[1] \notin {"test", "destroy"} => b = <<>> \/ Head(b)[1] \notin {"destroy", "clear"}
      /\ \A k \in Kinds : Ahead(p, k) <=> Brings(h, k) \/ Ahead(b, k)
      /\ \A k \in Kinds : Brings(h, k) => ~Ahead(b, k)
      /\ b # <<>> => b[Len(b)] = p[Len(p)]
      /\ b = <<>> => Len(p) = 1
      /\ Len(b) = Len(p) - 1 /\ Len(p) \in Nat /\ Len(p) > 0
      /\ \A i \in 1..(Len(p) - 1) : b[i] = p[i + 1]
      /\ \A i \in 1..Len(p) : i = 1 \/ (i - 1 \in 1..Len(b) /\ b[i - 1] = p[i])
  <2>1. Len(p) > 0
    BY <1>1
  <2>. QED BY <1>1, <2>1, ProperTail
<1>3. /\ Expected(p, 1)
      /\ \A k \in Kinds : Stands(b, k) \/ (Brings(h, k) /\ k \in Wanted)
  BY <1>1, <1>2 DEF Proper, Stands
<1>4. \A s \in Seq(Steps) : <<>> \o s = s /\ s \o <<>> = s
  OBVIOUS
<1>5. /\ Goes(t, <<>>) => prog' = [prog EXCEPT ![t] = b \o f]
      /\ \A s \in Seq(Steps) : Goes(t, s) => prog' = [prog EXCEPT ![t] = (s \o b) \o f]
      /\ \A o : At(t, o) => h[1] = o
      /\ Arg(t) = k0
  <2>1. p \in Seq(AllSteps) /\ f \in Seq(AllSteps) /\ b \in Seq(AllSteps)
    BY <1>2 DEF AllSteps
  <2>2. Tail(prog[t]) = b \o f /\ Head(prog[t]) = h
    BY <1>1, <2>1, TailOfConcat
  <2>3. <<>> \o (b \o f) = b \o f /\ \A s \in Seq(Steps) : s \o (b \o f) = (s \o b) \o f
    <3>. HIDE DEF b
    <3>1. b \in Seq(Steps)
      BY <1>2
    <3>2. \A s \in Seq(Steps) : s \o (b \o f) = (s \o b) \o f
      BY <3>1, BeforeClient
    <3>3. b \o f \in Seq(AllSteps)
      BY <2>1
    <3>. QED BY <3>2, <3>3
  <2>. QED BY <2>2, <2>3 DEF Goes, At, Arg
<1>. HIDE DEF b, h, k0, Goal
<1>6. Told(p) /\ ~Tells(h) /\ h[1] # "post" => Told(b)
  BY <1>1, ToldTail DEF b, h
<1>d. h[1] \notin {"resolve", "send"} => Suits(b)
  BY <1>1, SuitsTail DEF b, h
<1>c. Has(b, Connecting) => Has(p, Connecting)
  <2>1. \A i \in 1..Len(b) : i + 1 \in 1..Len(p) /\ b[i] = p[i + 1]
    BY <1>2
  <2>. QED BY <2>1 DEF Has
<1>a. ASSUME prog' = [prog EXCEPT ![t] = b \o f], Announces(p, b), UNCHANGED <<gen, thrown, overlapped>>, h[1] \notin {"test", "destroy"},
             \A k \in Kinds : Stands(b, k)', Told(b)', Suits(b)'
      PROVE  Goal
  <2>1. CASE b = <<>>
    <3>1. \A k \in Kinds : ~Ahead(b, k)
      BY <2>1 DEF Ahead
    <3>2. Len(posts') > 1 /\ posts'[Len(posts')] = "CONNECTED" /\ posts'[Len(posts') - 1] = "CONNECTING"
      BY <1>a, <2>1 DEF Told
    <3>3. posts' # <<>> /\ Len(posts') # 1
      BY <3>2
    <3>4. Resting'
      <4>1. \A k \in Kinds : IF k \in Wanted' THEN Made(k)' ELSE Clean(k)'
        BY <1>a, <3>1 DEF Stands, Ahead
      <4>2. <<"tun2socks", gen'>> \notin childless'
        BY <1>a, <2>1 DEF Suits
      <4>. QED BY <1>1, <1>a, <3>2, <3>3, <4>1, <4>2 DEF Resting, Announced
    <3>. QED BY <1>2, <1>a, <2>1, <3>4 DEF Goal, Doing, AtRest
  <2>2. CASE b # <<>>
    <3>1. Head(b)[1] \notin {"destroy", "clear"}
      BY <1>2, <1>a, <2>2
    <3>2. Starting(b)'
      BY <1>1, <1>2, <1>a, <2>2, <3>1 DEF Starting
    <3>. QED BY <1>2, <1>a, <2>2, <3>2 DEF Goal, Doing
  <2>. QED BY <2>1, <2>2
<1>b. ASSUME UNCHANGED <<field, live, gen, posts, thrown, overlapped>>, NEW q \in {StopRunner, Refuse},
             \A k \in Kinds : Clean(k) \/ Made(k), b \in Rests, Goes(t, q)
      PROVE  Goal
  <2>1. Stopping(q \o b, Rests) /\ q \o b # <<>>
    BY <1>b, StopBegins
  <2>2. Stopping(q \o b, Rests)'
    BY <1>b, <2>1 DEF Stopping, Stops, Clean, Going, Made, Cut, Held
  <2>3. q \in Seq(Steps) /\ q \in Seq(StopSteps) /\ q \o b \in Seq(Steps)
    <3>1. q \in Seq(Steps) /\ q \in Seq(StopSteps)
      BY ProgramTypes, StopWhole
    <3>. QED BY <1>2, <3>1
  <2>4. Announces(p, q \o b)
    <3>1. Has(q \o b, Connecting) => Has(b, Connecting)
      BY <1>2, <2>3, HasConcat, StopsAreSilent
    <3>. QED BY <1>b, <1>c, <3>1 DEF Announces, Hushed
  <2>5. prog' = [prog EXCEPT ![t] = (q \o b) \o f]
    BY <1>5, <1>b, <2>3
  <2>6. Doing(q \o b)'
    BY <2>1, <2>2 DEF Doing
  <2>. QED BY <1>b, <2>3, <2>4, <2>5, <2>6 DEF Goal
<1>7. \A k \in Kinds : Clean(k) \/ Made(k)
  BY <1>1
<1>8. CASE h[1] \in {"make", "register"}
  <2>1. k0 \in Kinds /\ (\A k \in Kinds : Brings(h, k) <=> k = k0) /\ (h[1] = "register" => k0 = "closeReceiver")
    BY <1>2, <1>8 DEF Brings, Steps, StopSteps, k0, Kinds, Receivers
  <2>2. Clean(k0) /\ k0 \in Wanted
    <3>1. 1 \in 1..Len(p)
      BY <1>2
    <3>2. k0 \in Wanted
      BY <1>1, <1>2, <1>8, <3>1 DEF Suits, k0
    <3>. QED BY <1>1, <1>2, <2>1, <3>2
  <2>3. MakeObject(t) \/ MakeThrows(t)
    BY <1>5, <1>8, <2>2 DEF Step, Begin, AlreadyRegistered, TestField, DestroyObject, PostState, ClearField, Resolve,
         ResolveThrows, Establish, EstablishFails, GetFd, Send, SendFails, Clean
  <2>10. CASE MakeThrows(t)
    <3>1. Goal
      BY <2>10 DEF MakeThrows, Throws, revoking, Goal
    <3>. QED BY <3>1 DEF Goal
  <2>11. CASE MakeObject(t)
    <3>4. /\ UNCHANGED <<posts, gen, mConfig, thrown, overlapped>> /\ Goes(t, <<>>)
          /\ field' = [field EXCEPT ![k0] = gen] /\ live' = live \union {<<k0, gen>>}
          /\ childless' \subseteq childless \union {<<k0, gen>>}
      BY <1>5, <2>11 DEF MakeObject, revoking, started
    <3>5. Made(k0)' /\ \A x \in Kinds \ {k0} : field'[x] = field[x] /\ Held(x)' = Held(x)
      BY <1>1, <2>1, <2>2, <3>4 DEF Made, Clean, Held, Typed
    <3>6. \A x \in Kinds \ {k0} : (Clean(x) => Clean(x)') /\ (Made(x) => Made(x)')
      BY <3>4, <3>5 DEF Made, Clean
    <3>7. \A k \in Kinds : Stands(b, k)'
      <4>1. Wanted' = Wanted /\ \A k : Ahead(b, k)' <=> Ahead(b, k)
        BY <3>4 DEF Wanted, Ahead, Brings
      <4>2. \A k \in Kinds \ {k0} : Stands(b, k)
        BY <1>3, <2>1
      <4>3. ~Ahead(b, k0)
        BY <1>2, <2>1
      <4>4. Stands(b, k0)'
        BY <2>2, <3>5, <4>1, <4>3 DEF Stands
      <4>5. \A k \in Kinds \ {k0} : Stands(b, k)'
        BY <3>6, <4>1, <4>2 DEF Stands
      <4>. QED BY <4>4, <4>5
    <3>9. Suits(b)'
      <4>1. Suits(b) /\ Wanted' = Wanted
        BY <1>8, <1>d, <3>4 DEF Wanted
      <4>2. CASE \E i \in 1..Len(b) : b[i][1] \in {"resolve", "send"}
        BY <4>1, <4>2 DEF Suits
      <4>3. CASE ~\E i \in 1..Len(b) : b[i][1] \in {"resolve", "send"}
        <5>1. ~\E i \in 1..Len(p) : p[i][1] \in {"resolve", "send"}
          BY <1>2, <1>8, <4>3
        <5>2. 1 \in 1..Len(p) /\ (h[1] = "make" => k0 # "tun2socks")
          <6>1. 1 \in 1..Len(p)
            BY <1>2
          <6>. QED BY <1>1, <1>2, <5>1, <6>1 DEF Suits, k0
        <5>3. k0 # "tun2socks"
          BY <1>8, <2>1, <5>2
        <5>4. <<"tun2socks", gen>> # <<k0, gen>>
          BY <5>3
        <5>. QED BY <3>4, <4>1, <4>3, <5>4 DEF Suits
      <4>4. \A m \in Nat : m > 0 /\ m # 1 => m > 1
        OBVIOUS
      <4>. QED BY <4>2, <4>3, <4>4
    <3>8. Told(b)'
      <4>1. Told(b)
        BY <1>1, <1>6, <1>8 DEF Tells
      <4>. QED BY <3>4, <4>1 DEF Told
    <3>10. Goal
      BY <1>5, <1>8, <1>a, <1>c, <3>4, <3>7, <3>8, <3>9 DEF Announces, Hushed
    <3>. QED BY <3>10 DEF Goal
  <2>. QED BY <2>3, <2>10, <2>11
<1>9. CASE h[1] = "post"
  <2>1. PostState(t)
    BY <1>5, <1>9 DEF Step, Begin, MakeThrows, MakeObject, AlreadyRegistered, TestField, DestroyObject, ClearField, Resolve,
         ResolveThrows, Establish, EstablishFails, GetFd, Send, SendFails
  <2>2. /\ UNCHANGED <<field, live, gen, mConfig, childless, thrown, overlapped>> /\ Goes(t, <<>>)
        /\ posts' = Append(posts, k0)
    BY <1>5, <2>1 DEF PostState, sessions, started, revoking
  <2>3. /\ k0 \in {"CONNECTING", "CONNECTED"} /\ h = <<"post", k0>> /\ \A k : ~Brings(h, k)
    BY <1>2, <1>3, <1>9 DEF Expected, Brings, k0, Steps, StopSteps
  <2>4. (\A k \in Kinds : Stands(b, k)') /\ Suits(b)'
    BY <1>3, <1>9, <1>d, <2>2, <2>3 DEF Stands, Wanted, Suits, Clean, Made, Held
  <2>5. /\ posts \in Seq(States) /\ Len(posts') = Len(posts) + 1 /\ posts'[Len(posts')] = k0 /\ posts' # <<>>
        /\ \A i \in 1..Len(posts) : posts'[i] = posts[i]
        /\ Len(posts) \in Nat
    <3>1. posts \in Seq(States) /\ k0 \in States
      BY <2>3 DEF Typed, States
    <3>. QED BY <2>2, <3>1, AppendProperties
  <2>7. ASSUME k0 = "CONNECTED" PROVE posts # <<>> /\ posts[Len(posts)] = "CONNECTING"
    <3>1. p[1] = <<"post", "CONNECTED">> /\ 1 \in 1..Len(p)
      BY <1>2, <2>3, <2>7
    <3>2. \A j \in 1..Len(p) : p[j][1] \in {"post", "resolve", "send"} => j = 1
      BY <1>1, <3>1 DEF Proper
    <3>. QED BY <1>1, <3>1, <3>2 DEF Told
  <2>6. Told(b)'
    <3>1. CASE k0 = "CONNECTING"
      <4>1. p[Len(p)][1] = "resolve" /\ Len(p) # 1
        BY <1>2, <1>3, <1>9, <2>3, <3>1 DEF Expected
      <4>2. Tells(b[Len(b)]) /\ Len(b) \in 1..Len(b)
        BY <1>2, <4>1 DEF Tells
      <4>. QED BY <2>5, <3>1, <4>2 DEF Told
    <3>2. CASE k0 = "CONNECTED"
      <4>1. p[1] = <<"post", "CONNECTED">> /\ 1 \in 1..Len(p)
        BY <1>2, <2>3, <3>2
      <4>2. \A j \in 1..Len(p) : p[j][1] \in {"post", "resolve", "send"} => j = 1
        BY <1>1, <4>1 DEF Proper
      <4>3. \A j \in 1..Len(b) : b[j][1] \notin {"post", "resolve", "send"}
        <5>1. \A j \in 1..Len(b) : j + 1 \in 1..Len(p) /\ j + 1 # 1 /\ b[j] = p[j + 1]
          BY <1>2
        <5>. QED BY <4>2, <5>1
      <4>4. posts # <<>> /\ posts[Len(posts)] = "CONNECTING"
        BY <2>7, <3>2
      <4>5. \A j \in 1..Len(b) : ~Tells(b[j]) /\ b[j][1] # "post"
        BY <4>3 DEF Tells
      <4>6. Len(posts) \in 1..Len(posts) /\ Len(posts') - 1 = Len(posts) /\ Len(posts') > 1
        BY <2>5, <4>4
      <4>. QED BY <2>5, <3>2, <4>4, <4>5, <4>6 DEF Told
    <3>. QED BY <2>3, <3>1, <3>2
  <2>9. Goal
    <3>1. CASE k0 = "CONNECTING"
      <4>1. Has(p, Connecting) /\ p[1] = Connecting
        <5>1. 1 \in 1..Len(p) /\ p[1] = Connecting
          BY <1>2, <2>3, <3>1 DEF Connecting
        <5>. QED BY <5>1 DEF Has
      <4>2. ~Has(b, Connecting)
        <5>1. \A j \in 1..Len(b) : j + 1 \in 1..Len(p) /\ j + 1 # 1 /\ b[j] = p[j + 1] /\ 1 \in 1..Len(p)
          BY <1>2
        <5>. QED BY <1>1, <4>1, <5>1 DEF Proper, Has, Connecting
      <4>3. Announces(p, b)
        BY <2>2, <3>1, <4>1, <4>2 DEF Announces
      <4>. QED BY <1>5, <1>9, <1>a, <2>2, <2>4, <2>6, <4>3
    <3>2. CASE k0 = "CONNECTED"
      <4>2. gen # 0
        BY DEF Starting
      <4>1. Announces(p, b)
        BY <1>c, <2>2, <2>7, <3>2, <4>2 DEF Announces
      <4>. QED BY <1>5, <1>9, <1>a, <2>2, <2>4, <2>6, <4>1
    <3>. QED BY <2>3, <3>1, <3>2
  <2>. QED BY <2>9 DEF Goal
<1>10. CASE h[1] = "test"
  <2>. DEFINE c == Tail(b)
              d == Tail(c)
  <2>1. TestField(t)
    BY <1>5, <1>10 DEF Step, Begin, MakeThrows, MakeObject, AlreadyRegistered, PostState, DestroyObject, ClearField, Resolve,
         ResolveThrows, Establish, EstablishFails, GetFd, Send, SendFails
  <2>2. UNCHANGED <<posts, field, live, gen, mConfig, childless, thrown, overlapped>>
    BY <2>1 DEF TestField, sessions, started, revoking
  <2>3. k0 \in Processes /\ 1 < Len(p) /\ p[2][1] = "destroy" /\ p[Len(p)][1] = "resolve"
    BY <1>2, <1>3, <1>10 DEF Expected, k0
  <2>4. p[3][1] = "clear" /\ 2 < Len(p)
    <3>1. Expected(p, 2)
      BY <1>1, <1>2, <2>3 DEF Proper
    <3>. QED BY <2>3, <3>1 DEF Expected
  <2>5. 3 < Len(p)
    <3>1. Expected(p, 3)
      BY <1>1, <1>2, <2>4 DEF Proper
    <3>. QED BY <2>4, <3>1 DEF Expected
  <2>6. b \in Seq(Steps) /\ b # <<>> /\ Len(b) = Len(p) - 1 /\ Head(b)[1] = "destroy" /\ Proper(b)
        /\ \A k \in Kinds : Ahead(p, k) <=> Ahead(b, k)
    BY <1>2, <1>10 DEF Brings
  <2>7. /\ c \in Seq(Steps) /\ c # <<>> /\ Len(c) = Len(b) - 1 /\ Head(c)[1] = "clear" /\ Proper(c)
        /\ \A k \in Kinds : Ahead(b, k) <=> Ahead(c, k)
    BY <2>6, ProperTail DEF Brings
  <2>8. Told(c) /\ Suits(c)
    <3>1. Told(b)
      BY <1>1, <1>6, <1>10 DEF Tells
    <3>3. Suits(c)
      BY <1>10, <1>d, <2>6, SuitsTail
    <3>2. ~Tells(Head(b)) /\ Head(b)[1] # "post"
      BY <2>6 DEF Tells
    <3>. QED BY <2>6, <3>1, <3>2, <3>3, ToldTail
  <2>9. d = SubSeq(p, 4, Len(p))
    <3>1. Len(p) > 2
      BY <1>2, <2>5
    <3>. QED BY <3>1, SkipIsTails DEF b
  <2>. HIDE DEF c
  <2>10. /\ d \in Seq(Steps) /\ Len(d) = Len(c) - 1 /\ Proper(d)
         /\ d = <<>> \/ Head(d)[1] \notin {"destroy", "clear"}
         /\ \A k \in Kinds : Ahead(c, k) <=> Ahead(d, k)
    BY <2>7, ProperTail DEF Brings
  <2>11. Told(d) /\ Suits(d)
    <3>1. ~Tells(Head(c)) /\ Head(c)[1] # "post"
      BY <2>7 DEF Tells
    <3>2. Suits(d)
      BY <2>7, <2>8, SuitsTail
    <3>. QED BY <2>7, <2>8, <3>1, <3>2, ToldTail
  <2>. HIDE DEF d
  <2>12. d # <<>>
    BY <1>2, <2>5, <2>6, <2>7, <2>10
  <2>13. Starting(d)
    <3>1. \A k \in Kinds : Stands(d, k)
      BY <1>1, <2>6, <2>7, <2>10 DEF Stands
    <3>. QED BY <1>1, <2>10, <2>11, <2>12, <3>1 DEF Starting
  <2>14. Starting(d)'
    BY <2>2, <2>13 DEF Starting, Stands, Suits, Wanted, Told, Clean, Made, Held
  <2>15. field[k0] = 0
    <3>1. Len(p) \in 1..Len(p)
      BY <1>2
    <3>2. k0 \in Kinds /\ Brings(p[Len(p)], k0)
      BY <2>3 DEF Processes, Kinds, Brings
    <3>3. Ahead(p, k0)
      BY <3>1, <3>2 DEF Ahead
    <3>. QED BY <1>1, <3>2, <3>3 DEF Clean
  <2>16. prog' = [prog EXCEPT ![t] = d \o f]
    <3>1. p \in Seq(AllSteps) /\ f \in Seq(AllSteps) /\ Len(p) > 2
      BY <1>2, <2>5 DEF AllSteps
    <3>2. SubSeq(prog[t], 4, Len(prog[t])) = d \o f
      BY <2>9, <3>1, SkipOfConcat
    <3>. QED BY <1>5, <2>1, <2>15, <3>2 DEF TestField
  <2>17. Announces(p, d)
    <3>1. d \in Seq(Steps) /\ Len(d) = Len(p) - 3 /\ \A i \in 1..Len(d) : d[i] = p[i + 3]
      <4>1. Len(c) \in Nat /\ Len(b) \in Nat
        BY <2>6, <2>7
      <4>2. /\ \A i \in 1..(Len(b) - 1) : c[i] = b[i + 1]
            /\ \A i \in 1..(Len(c) - 1) : d[i] = c[i + 1]
        BY <2>6, <2>7, Tails DEF c, d
      <4>3. Len(d) = Len(p) - 3
        BY <1>2, <2>6, <2>7, <2>10
      <4>4. ASSUME NEW i \in 1..Len(d) PROVE d[i] = p[i + 3]
        <5>1. /\ i \in 1..(Len(c) - 1) /\ i + 1 \in 1..(Len(b) - 1) /\ i + 2 \in 1..(Len(p) - 1)
              /\ i + 1 + 1 = i + 2 /\ i + 2 + 1 = i + 3
          BY <1>2, <2>6, <2>7, <2>10
        <5>2. d[i] = c[i + 1] /\ c[i + 1] = b[i + 2] /\ b[i + 2] = p[i + 3]
          BY <1>2, <4>2, <5>1
        <5>. QED BY <5>2
      <4>. QED BY <2>10, <4>3, <4>4
    <3>2. \A i \in 1..Len(d) : i + 3 \in 1..Len(p)
      BY <1>2, <3>1
    <3>. QED BY <2>2, <3>1, <3>2 DEF Announces, Hushed, Has
  <2>18. Doing(d)'
    BY <2>12, <2>14 DEF Doing
  <2>. QED BY <2>2, <2>10, <2>16, <2>17, <2>18
<1>11. CASE h[1] = "resolve"
  <2>1. Len(p) = 1 /\ b = <<>>
    BY <1>2, <1>3, <1>11 DEF Expected
  <2>2. \A i \in 1..Len(p) : p[i] = h
    BY <1>2, <2>1
  <2>3. posts # <<>> /\ posts[Len(posts)] = "CONNECTING"
    <3>1. Tells(h) /\ h # <<"post", "CONNECTING">> /\ 1 \in 1..Len(p)
      BY <1>11, <2>1 DEF Tells
    <3>. QED BY <1>1, <2>2, <3>1 DEF Told
  <2>4. Resolve(t) \/ ResolveThrows(t)
    BY <1>5, <1>11 DEF Step, Begin, MakeThrows, MakeObject, AlreadyRegistered, PostState, TestField, DestroyObject, ClearField,
         Establish, EstablishFails, GetFd, Send, SendFails
  <2>5. UNCHANGED <<posts, field, live, gen, mConfig, childless, overlapped>>
    BY <2>4 DEF Resolve, ResolveThrows, sessions, started, revoking
  <2>6. CASE ResolveThrows(t)
    BY <2>5, <2>6 DEF ResolveThrows, Throws
  <2>7. CASE Resolve(t) /\ k0 # "numeric"
    <3>1. Goes(t, Refuse) /\ thrown' = thrown
      BY <1>5, <2>7 DEF Resolve
    <3>2. b \in Rests
      BY <2>1 DEF Rests
    <3>3. Goal
      BY <1>b, <1>7, <2>5, <3>1, <3>2
    <3>. QED BY <3>3 DEF Goal
  <2>8. CASE Resolve(t) /\ k0 = "numeric"
    <3>1. Goes(t, HandleConnection) /\ thrown' = thrown
      BY <1>5, <2>8 DEF Resolve
    <3>0. PICK q : q = HandleConnection
      OBVIOUS
    <3>9. /\ q \in Seq(Steps) /\ q # <<>> /\ Proper(q) /\ Head(q)[1] = "make"
          /\ \A k \in Wanted : Ahead(q, k) <=> k \notin {"traffic", "closeReceiver", "protect"}
          /\ \A i \in 1..Len(q) : q[i][1] \in {"make", "register"} => q[i][2] \in Wanted
          /\ \E i \in 1..Len(q) : q[i][1] = "send"
          /\ \A i \in 1..Len(q) : q[i] # <<"post", "CONNECTING">>
      BY <3>0, ConnectProper
    <3>2. prog' = [prog EXCEPT ![t] = q \o f]
      BY <1>4, <1>5, <2>1, <3>0, <3>1, <3>9
    <3>7. Announces(p, q)
      BY <2>5, <3>9 DEF Announces, Hushed, Has, Connecting
    <3>3. \A k \in Kinds : Ahead(p, k) <=> k \notin {"traffic", "closeReceiver", "protect"}
      <4>1. \A k : ~Ahead(b, k)
        BY <2>1 DEF Ahead
      <4>. QED BY <1>2, <1>11, <4>1 DEF Brings, Kinds, Processes, Receivers
    <3>4. Told(q)
      <4>1. \E i \in 1..Len(q) : Tells(q[i])
        BY <3>9 DEF Tells
      <4>. QED BY <2>3, <4>1 DEF Told
    <3>10. Suits(q) /\ \A k \in Kinds : Stands(q, k)
      BY <1>1, <3>3, <3>9 DEF Suits, Stands
    <3>5. Starting(q)
      BY <1>1, <3>4, <3>9, <3>10 DEF Starting
    <3>6. Starting(q)'
      BY <2>5, <3>5 DEF Starting, Stands, Suits, Wanted, Told, Clean, Made, Held
    <3>8. Doing(q)'
      BY <3>6, <3>9 DEF Doing
    <3>. QED BY <2>5, <3>1, <3>2, <3>7, <3>8, <3>9
  <2>. QED BY <2>4, <2>6, <2>7, <2>8
<1>12. CASE h[1] = "establish"
  <2>1. Len(p) = 2 /\ p[2] = <<"send", "tun2socks">> /\ Len(b) = 1 /\ b[1] = p[2]
    <3>0. 1 + 1 = Len(p) /\ p[1 + 1][1] = "send"
      BY <1>2, <1>3, <1>12 DEF Expected
    <3>1. Len(p) = 2 /\ p[2][1] = "send"
      BY <3>0
    <3>2. p[2] \in Steps
      <4>1. 2 \in 1..Len(p)
        BY <3>1
      <4>. QED BY <4>1
    <3>3. p[2] = <<"send", "tun2socks">>
      BY <3>1, <3>2 DEF Steps, StopSteps
    <3>. QED BY <1>2, <3>1, <3>3
  <2>2. b = << <<"send", "tun2socks">> >>
    BY <1>2, <2>1
  <2>3. posts # <<>> /\ posts[Len(posts)] = "CONNECTING"
    <3>1. Tells(p[2]) /\ p[2] # <<"post", "CONNECTING">> /\ p[1] # <<"post", "CONNECTING">> /\ 2 \in 1..Len(p)
      BY <1>2, <1>12, <2>1 DEF Tells
    <3>2. \A i \in 1..Len(p) : i = 1 \/ i = 2
      BY <2>1
    <3>. QED BY <1>1, <3>1, <3>2 DEF Told
  <2>4. Establish(t) \/ EstablishFails(t)
    BY <1>5, <1>12 DEF Step, Begin, MakeThrows, MakeObject, AlreadyRegistered, PostState, TestField, DestroyObject, ClearField,
         Resolve, ResolveThrows, GetFd, Send, SendFails
  <2>5. UNCHANGED <<posts, gen, mConfig, childless, thrown, overlapped>>
    BY <2>4 DEF Establish, EstablishFails, revoking, started
  <2>6. /\ Clean("conn")
        /\ \A k \in Kinds : Ahead(p, k) <=> k \in {"conn", "tun2socks", "lockReceiver"}
    <3>1. \A k : Ahead(b, k) <=> k = "lockReceiver"
      BY <2>1 DEF Ahead, Brings
    <3>2. \A k : Brings(h, k) <=> k \in {"conn", "tun2socks"}
      BY <1>12 DEF Brings
    <3>3. "conn" \in Kinds
      BY DEF Kinds
    <3>. QED BY <1>1, <1>2, <3>1, <3>2, <3>3
  <2>7. CASE EstablishFails(t)
    <3>1. field' = field /\ live' = live
      BY <2>6, <2>7 DEF EstablishFails, Clean, Typed
    <3>2. \E q \in {StopRunner, Refuse} : Goes(t, q)
      BY <2>7 DEF EstablishFails
    <3>3. b \in Rests
      BY <2>2 DEF Rests
    <3>4. Goal
      BY <1>b, <1>7, <2>5, <3>1, <3>2, <3>3
    <3>. QED BY <3>4 DEF Goal
  <2>8. CASE Establish(t)
    <3>. DEFINE q == << <<"getFd", "conn">> >> \o Make("tun2socks") \o << <<"send", "tun2socks">> >>
    <3>1. /\ field' = [field EXCEPT !["conn"] = gen] /\ live' = live \union {<<"conn", gen>>}
          /\ prog' = [prog EXCEPT ![t] = q \o f]
      <4>1. << <<"getFd", "conn">> >> \o Make("tun2socks") \in Seq(Steps)
        BY DEF Make, Steps, Kinds, Processes
      <4>. QED BY <1>5, <2>2, <2>8, <4>1 DEF Establish
    <3>2. /\ q \in Seq(Steps) /\ q # <<>> /\ Proper(q) /\ Head(q)[1] = "getFd"
          /\ \A k \in Kinds : Ahead(q, k) <=> k \in {"tun2socks", "lockReceiver"}
          /\ \A i \in 1..Len(q) : q[i][1] \in {"make", "register"} => q[i][2] = "tun2socks"
          /\ \E i \in 1..Len(q) : q[i][1] = "send"
          /\ \A i \in 1..Len(q) : q[i] # <<"post", "CONNECTING">>
      BY FdProper
    <3>. HIDE DEF q
    <3>3. Made("conn")' /\ \A x \in Kinds \ {"conn"} : field'[x] = field[x] /\ Held(x)' = Held(x)
      BY <1>1, <2>5, <2>6, <3>1 DEF Made, Clean, Held, Typed, Kinds
    <3>4. \A x \in Kinds \ {"conn"} : (Clean(x) => Clean(x)') /\ (Made(x) => Made(x)')
      BY <2>5, <3>3 DEF Made, Clean
    <3>9. Wanted' = Wanted /\ {"conn", "tun2socks", "lockReceiver"} \subseteq Wanted
      BY <2>5 DEF Wanted, Kinds, Processes, Receivers
    <3>5. (\A k \in Kinds : Stands(q, k)') /\ Suits(q)'
      <4>1. \A k \in Kinds : Stands(q, k)'
        <5>1. \A k : Ahead(q, k)' <=> Ahead(q, k)
          BY DEF Ahead, Brings
        <5>2. ASSUME NEW k \in Kinds, k # "conn" PROVE Stands(q, k)'
          <6>1. Ahead(q, k) <=> Ahead(p, k)
            BY <2>6, <3>2, <5>2
          <6>. QED BY <1>1, <3>4, <3>9, <5>1, <5>2, <6>1 DEF Stands
        <5>3. ~Ahead(q, "conn")
          BY <3>2 DEF Kinds
        <5>4. Stands(q, "conn")'
          BY <3>3, <3>9, <5>1, <5>3 DEF Stands
        <5>. QED BY <5>2, <5>4
      <4>. QED BY <3>2, <3>9, <4>1 DEF Suits
    <3>6. Told(q)'
      <4>1. \E i \in 1..Len(q) : Tells(q[i])
        BY <3>2 DEF Tells
      <4>. QED BY <2>3, <2>5, <4>1 DEF Told
    <3>7. Starting(q)'
      BY <1>1, <2>5, <3>2, <3>5, <3>6 DEF Starting
    <3>8. Announces(p, q)
      BY <2>5, <3>2 DEF Announces, Hushed, Has, Connecting
    <3>. QED BY <2>5, <3>1, <3>2, <3>7, <3>8 DEF Doing
  <2>. QED BY <2>4, <2>7, <2>8
<1>13. CASE h[1] = "getFd"
  <2>1. Made("conn") /\ \A k \in Kinds : ~Brings(h, k)
    <3>1. "conn" \in Kinds /\ "conn" \in Wanted /\ 1 \in 1..Len(p)
      BY <1>2 DEF Kinds, Wanted
    <3>2. ~Ahead(p, "conn")
      BY <1>1, <1>2, <1>13, <3>1 DEF Proper
    <3>. QED BY <1>1, <1>13, <3>1, <3>2 DEF Brings
  <2>2. GetFd(t)
    BY <1>5, <1>13 DEF Step, Begin, MakeThrows, MakeObject, AlreadyRegistered, PostState, TestField, DestroyObject, ClearField,
         Resolve, ResolveThrows, Establish, EstablishFails, Send, SendFails
  <2>3. Goes(t, <<>>) /\ UNCHANGED <<posts, field, live, gen, mConfig, childless, thrown, overlapped>>
    BY <2>1, <2>2 DEF GetFd, Made, sessions, started, revoking
  <2>4. (\A k \in Kinds : Stands(b, k)') /\ Suits(b)'
    BY <1>3, <1>13, <1>d, <2>1, <2>3 DEF Stands, Wanted, Suits, Clean, Made, Held
  <2>5. Told(b)'
    <3>1. Told(b)
      BY <1>1, <1>6, <1>13 DEF Tells
    <3>. QED BY <2>3, <3>1 DEF Told
  <2>9. Goal
    BY <1>5, <1>13, <1>a, <1>c, <2>3, <2>4, <2>5 DEF Announces, Hushed
  <2>. QED BY <2>9 DEF Goal
<1>14. CASE h[1] = "send"
  <2>1. Len(p) = 1 /\ b = <<>>
    BY <1>2, <1>3, <1>14 DEF Expected
  <2>2. \A i \in 1..Len(p) : p[i] = h
    BY <1>2, <2>1
  <2>3. posts # <<>> /\ posts[Len(posts)] = "CONNECTING"
    <3>1. Tells(h) /\ h # <<"post", "CONNECTING">> /\ 1 \in 1..Len(p)
      BY <1>14, <2>1 DEF Tells
    <3>. QED BY <1>1, <2>2, <3>1 DEF Told
  <2>4. Send(t) \/ SendFails(t)
    BY <1>5, <1>14 DEF Step, Begin, MakeThrows, MakeObject, AlreadyRegistered, PostState, TestField, DestroyObject, ClearField,
         Resolve, ResolveThrows, Establish, EstablishFails, GetFd
  <2>5. UNCHANGED <<posts, field, live, gen, mConfig, childless, thrown, overlapped>>
    BY <2>4 DEF Send, SendFails, sessions, started, revoking
  <2>6. CASE SendFails(t)
    <3>1. Goes(t, Refuse)
      BY <2>6 DEF SendFails
    <3>2. b \in Rests
      BY <2>1 DEF Rests
    <3>3. Goal
      BY <1>b, <1>7, <2>5, <3>1, <3>2
    <3>. QED BY <3>3 DEF Goal
  <2>7. CASE Send(t)
    <3>. DEFINE q == Post("CONNECTED") \o Make("lockReceiver")
    <3>1. /\ q \in Seq(Steps) /\ q # <<>> /\ Proper(q) /\ Head(q)[1] = "post"
          /\ \A k \in Kinds : Ahead(q, k) <=> k = "lockReceiver"
          /\ \A i \in 1..Len(q) : q[i][1] \in {"make", "register"} => q[i][2] = "lockReceiver"
          /\ \E i \in 1..Len(q) : q[i] = <<"post", "CONNECTED">>
          /\ \A i \in 1..Len(q) : q[i] # <<"post", "CONNECTING">>
      BY SentProper
    <3>2. Goes(t, q)
      BY <2>7 DEF Send
    <3>. HIDE DEF q
    <3>3. prog' = [prog EXCEPT ![t] = q \o f]
      BY <1>4, <1>5, <2>1, <3>1, <3>2
    <3>8. Announces(p, q)
      BY <2>5, <3>1 DEF Announces, Hushed, Has, Connecting
    <3>4. \A k \in Kinds : Ahead(p, k) <=> k = "lockReceiver"
      <4>1. \A k : ~Ahead(b, k)
        BY <2>1 DEF Ahead
      <4>. QED BY <1>2, <1>14, <4>1 DEF Brings
    <3>5. Told(q)
      <4>1. \E i \in 1..Len(q) : Tells(q[i])
        BY <3>1 DEF Tells
      <4>. QED BY <2>3, <4>1 DEF Told
    <3>9. Suits(q) /\ \A k \in Kinds : Stands(q, k)
      <4>1. <<"tun2socks", gen>> \notin childless
        BY <2>7 DEF Send
      <4>2. "lockReceiver" \in Wanted
        BY DEF Wanted, Kinds, Receivers
      <4>3. Suits(q)
        BY <3>1, <4>1, <4>2 DEF Suits
      <4>. QED BY <1>1, <3>1, <3>4, <4>3 DEF Stands
    <3>6. Starting(q)
      BY <1>1, <3>1, <3>5, <3>9 DEF Starting
    <3>7. Starting(q)'
      BY <2>5, <3>6 DEF Starting, Stands, Suits, Wanted, Told, Clean, Made, Held
    <3>. QED BY <2>5, <3>1, <3>3, <3>7, <3>8 DEF Doing
  <2>. QED BY <2>4, <2>6, <2>7
<1>15. h[1] \in {"make", "register", "post", "test", "resolve", "establish", "getFd", "send"}
  BY <1>1, <1>2, <1>3 DEF Expected, Steps, StopSteps
<1>. QED BY <1>8, <1>9, <1>10, <1>11, <1>12, <1>13, <1>14, <1>15

\* A step of a stop: the stop goes on, ends, turns into a start or is cut short.
LEMMA StopStep ==
  ASSUME Typed, NEW t \in Threads, NEW R \in {Rests, {<<>>}}, NEW p, NEW f \in Seq(ClientSteps), prog[t] = p \o f,
         Stopping(p, R), Step(t)
  PROVE  /\ UNCHANGED overlapped /\ Hushed
         /\ \/ Snags(t, p)
            \/ /\ UNCHANGED thrown
               /\ \E q \in Seq(Steps) :
                    /\ prog' = [prog EXCEPT ![t] = q \o f] /\ Announces(p, q)
                    /\ IF q = <<>> THEN Resting' ELSE Stopping(q, R)' \/ (R = Rests /\ Starting(q)')
<1>. DEFINE Goal == /\ UNCHANGED <<thrown, overlapped>> /\ Hushed
                    /\ \E q \in Seq(Steps) :
                         /\ prog' = [prog EXCEPT ![t] = q \o f] /\ Announces(p, q)
                         /\ IF q = <<>> THEN Resting' ELSE Stopping(q, R)' \/ (R = Rests /\ Starting(q)')
<1>1. PICK a \in Seq(StopSteps), r \in R : p = a \o r /\ Orderly(a) /\ Closed(a, r) /\ Stops(a)
  BY DEF Stopping
<1>2. r \in Rests /\ <<>> \in R /\ a \in Seq(Steps) /\ r \in Seq(Steps) /\ p \in Seq(Steps)
  <2>1. r \in Rests /\ <<>> \in R
    BY DEF Rests
  <2>2. a \in Seq(Steps) /\ r \in Seq(Steps)
    BY <2>1, RestTypes DEF Steps
  <2>. QED BY <1>1, <2>1, <2>2
<1>5. \A x \in Seq(Steps) : x \in Seq(AllSteps)
  BY DEF AllSteps
<1>6. \A x, y \in Seq(Steps) : x \o (y \o f) = (x \o y) \o f
  BY BeforeClient
<1>. HIDE DEF Goal
<1>3. CASE a # <<>>
  <2>. DEFINE s == r \o f
  <2>0. s \in Seq(AllSteps) /\ prog[t] = a \o s
    <3>1. f \in Seq(AllSteps)
      BY DEF AllSteps
    <3>. QED BY <1>1, <1>2, <1>5, <1>6, <3>1
  <2>. HIDE DEF s
  <2>7. s \in Seq(AllSteps)
    BY <2>0
  <2>8. prog[t] = a \o s
    BY <2>0
  <2>9. Orderly(a) /\ Stops(a)
    BY <1>1
  <2>1. UNCHANGED <<mState, gen, mConfig, revoking>> /\ Hushed /\ (Snags(t, a) \/ (UNCHANGED thrown /\ Leaves(t, a, s)))
    BY <1>3, <2>7, <2>8, <2>9, StopHead
  <2>11. CASE Snags(t, a)
    <3>1. p # <<>> /\ Head(p) = Head(a)
      BY <1>1, <1>2, <1>3, TailOfConcat
    <3>. QED BY <2>1, <2>11, <3>1 DEF Snags, revoking
  <2>12. CASE UNCHANGED thrown /\ Leaves(t, a, s)
    <3>2. PICK b \in Seq(StopSteps) :
            /\ prog' = [prog EXCEPT ![t] = b \o s]
            /\ Orderly(b) /\ Stops(b)'
            /\ b # <<>> => b[Len(b)] = a[Len(a)]
            /\ b = <<>> /\ a[Len(a)] = <<"post", "STOPPED">> => posts' = Append(posts, "STOPPED")
      BY <2>12 DEF Leaves
    <3>3. b \in Seq(Steps) /\ b \o r \in Seq(Steps) /\ b \o s = (b \o r) \o f
      <4>1. b \in Seq(Steps)
        BY DEF Steps
      <4>2. b \o r \in Seq(Steps)
        BY <1>2, <4>1
      <4>3. b \o (r \o f) = (b \o r) \o f
        BY <1>2, <1>6, <4>1
      <4>. QED BY <4>1, <4>2, <4>3 DEF s
    <3>6. Announces(p, b \o r)
      <4>1. Has(b \o r, Connecting) => Has(a \o r, Connecting)
        BY <1>2, <3>3, HasConcat, StopsAreSilent
      <4>. QED BY <1>1, <2>1, <4>1 DEF Announces
    <3>4. CASE b = <<>> /\ r = <<>>
      <4>1. posts' = Append(posts, "STOPPED")
        BY <1>1, <3>2, <3>4 DEF Closed
      <4>2. posts' # <<>> /\ posts'[Len(posts')] = "STOPPED"
        <5>1. posts \in Seq(States) /\ "STOPPED" \in States
          BY DEF Typed, States
        <5>. QED BY <4>1, <5>1
      <4>3. \A k \in Kinds : Clean(k)'
        BY <3>2, <3>4 DEF Stops, Clears
      <4>4. Resting'
        BY <4>2, <4>3 DEF Resting, Announced
      <4>5. b \o r = <<>>
        BY <3>4
      <4>. QED BY <2>1, <2>12, <3>2, <3>3, <3>6, <4>4, <4>5 DEF revoking, Goal
    <3>5. CASE ~(b = <<>> /\ r = <<>>)
      <4>1. Closed(b, r)
        BY <1>1, <3>2, <3>5 DEF Closed
      <4>2. Stopping(b \o r, R)'
        BY <3>2, <4>1 DEF Stopping
      <4>3. b \o r # <<>>
        BY <1>2, <3>3, <3>5
      <4>. QED BY <2>1, <2>12, <3>2, <3>3, <3>6, <4>2, <4>3 DEF revoking, Goal
    <3>. QED BY <3>4, <3>5
  <2>. QED BY <2>1, <2>11, <2>12
<1>4. CASE a = <<>>
  <2>1. p = r /\ r # <<>> /\ \A k \in Kinds : Clean(k)
    BY <1>1, <1>2, <1>4 DEF Closed, Stops, Clears
  <2>2. R = Rests
    BY <2>1
  <2>5. Head(prog[t]) = Head(r) /\ Tail(prog[t]) = Tail(r) \o f
    <3>1. r \in Seq(AllSteps) /\ f \in Seq(AllSteps)
      BY <1>2, <1>5 DEF AllSteps
    <3>. QED BY <2>1, <3>1, TailOfConcat
  <2>3. ASSUME r = << <<"send", "tun2socks">> >> PROVE Goal
    <3>1. "conn" \in Kinds /\ Head(r) = <<"send", "tun2socks">> /\ Tail(r) = <<>>
      BY <2>3 DEF Kinds
    <3>0. Head(prog[t])[1] = "send"
      <4>1. \A x : x = <<"send", "tun2socks">> => x[1] = "send"
        OBVIOUS
      <4>. QED BY <2>5, <3>1, <4>1
    <3>2. SendFails(t) \/ Send(t)
      BY <3>0 DEF Step, At, Begin, MakeThrows, MakeObject, AlreadyRegistered, PostState, TestField, DestroyObject, ClearField,
         Resolve, ResolveThrows, Establish, EstablishFails, GetFd
    <3>3. ~Send(t)
      BY <2>1, <3>1 DEF Send, Clean, Held
    <3>4. UNCHANGED <<posts, field, live, gen, thrown, overlapped>> /\ Goes(t, Refuse)
      BY <3>2, <3>3 DEF SendFails, sessions, started, revoking
    <3>7. Refuse \in Seq(Steps) /\ Refuse \in Seq(StopSteps) /\ Refuse \o <<>> = Refuse /\ <<>> \in Seq(Steps)
      BY ProgramTypes, StopWhole
    <3>8. prog' = [prog EXCEPT ![t] = (Refuse \o <<>>) \o f]
      <4>1. Tail(prog[t]) = <<>> \o f
        BY <2>5, <3>1
      <4>2. Refuse \o (<<>> \o f) = (Refuse \o <<>>) \o f
        BY <1>6, <3>7
      <4>. QED BY <3>4, <4>1, <4>2 DEF Goes
    <3>5. Stopping(Refuse \o <<>>, R) /\ Refuse \o <<>> # <<>>
      BY <1>2, <2>1, StopBegins
    <3>6. Stopping(Refuse \o <<>>, R)'
      BY <3>4, <3>5 DEF Stopping, Stops, Clean, Going, Made, Cut, Held
    <3>9. Announces(p, Refuse \o <<>>)
      BY <3>4, <3>7, StopsAreSilent DEF Announces, Hushed
    <3>. QED BY <3>4, <3>5, <3>6, <3>7, <3>8, <3>9 DEF Goal, Hushed
  <2>4. ASSUME NEW c \in Configs, r = StartRunner(c) PROVE Goal
    <3>. DEFINE q == Tail(StartRunner(c))
    <3>1. /\ q \in Seq(Steps) /\ q # <<>> /\ Head(q)[1] \notin {"destroy", "clear"} /\ Proper(q)
          /\ \A k \in Kinds : Ahead(q, k)
          /\ \A i \in 1..Len(q) : q[i][1] \in {"make", "register"} => q[i][2] \in {"traffic", "closeReceiver", "protect"}
          /\ \E i \in 1..Len(q) : q[i][1] = "resolve"
          /\ \E i \in 1..Len(q) : q[i] = <<"post", "CONNECTING">>
      BY StartProper
    <3>2. Head(r)[1] = "begin"
      BY <2>4 DEF StartRunner, Make, Post, KillProcesses, Drop
    <3>3. Tail(prog[t]) = q \o f /\ <<>> \o (q \o f) = q \o f
      <4>1. q \o f \in Seq(AllSteps)
        <5>. HIDE DEF q
        <5>1. f \in Seq(AllSteps)
          BY DEF AllSteps
        <5>. QED BY <1>5, <3>1, <5>1
      <4>2. \A x \in Seq(AllSteps) : <<>> \o x = x
        OBVIOUS
      <4>3. Tail(r) = q
        BY <2>4
      <4>. HIDE DEF q
      <4>. QED BY <2>5, <4>1, <4>2, <4>3
    <3>9. Has(p, Connecting)
      <4>1. /\ \A i \in 1..Len(q) : i + 1 \in 1..Len(r) /\ q[i] = r[i + 1]
        <5>1. Len(r) \in Nat /\ Len(q) = Len(r) - 1 /\ \A i \in 1..(Len(r) - 1) : q[i] = r[i + 1]
          BY <1>2, <2>1, <2>4, Tails
        <5>. QED BY <5>1
      <4>. QED BY <2>1, <3>1, <4>1 DEF Has, Connecting
    <3>. HIDE DEF q
    <3>4. Begin(t)
      BY <2>5, <3>2 DEF Step, At, MakeThrows, MakeObject, AlreadyRegistered, PostState, TestField, DestroyObject, ClearField,
         Resolve, ResolveThrows, Establish, EstablishFails, GetFd, Send, SendFails
    <3>5. /\ UNCHANGED <<posts, field, live, thrown, overlapped>> /\ gen' = gen + 1
          /\ prog' = [prog EXCEPT ![t] = q \o f]
      BY <3>3, <3>4 DEF Begin, Goes, revoking
    <3>6. gen' # 0
      BY <3>5 DEF Typed
    <3>7. \A k \in Kinds : Stands(q, k)'
      BY <2>1, <3>1, <3>5 DEF Stands, Ahead, Brings, Clean, Held
    <3>11. Suits(q)'
      <4>1. {"traffic", "closeReceiver", "protect"} \subseteq Wanted'
        BY DEF Wanted, Kinds, Receivers
      <4>. QED BY <3>1, <4>1 DEF Suits
    <3>8. Starting(q)'
      BY <3>1, <3>6, <3>7, <3>11 DEF Starting, Told
    <3>10. Announces(p, q)
      BY <3>5, <3>9 DEF Announces, Hushed
    <3>. QED BY <2>2, <3>1, <3>5, <3>8, <3>10 DEF Goal, Hushed
  <2>6. Goal
    BY <1>2, <2>1, <2>3, <2>4 DEF Rests
  <2>. QED BY <2>6 DEF Goal
<1>. QED BY <1>3, <1>4

\* What a step of a stop does, whatever there is to stop.
Moves(t, a, s, b) ==
  LET h == Head(a) IN
  /\ prog' = [prog EXCEPT ![t] = b \o s] /\ UNCHANGED thrown
  /\ \/ /\ b = Tail(a) /\ h[1] = "post" /\ posts' = Append(posts, h[2]) /\ UNCHANGED field
     \/ /\ b = Tail(a) /\ h[1] = "test" /\ UNCHANGED <<posts, field>>
     \/ /\ b = Tail(Tail(Tail(a))) /\ h[1] = "test" /\ field[h[2]] = 0 /\ UNCHANGED <<posts, field>>
     \/ /\ b = Tail(a) /\ h[1] = "destroy" /\ ~Childless(h[2]) /\ UNCHANGED <<posts, field>>
     \/ /\ b = Tail(a) /\ h[1] = "clear" /\ field' = [field EXCEPT ![h[2]] = 0] /\ UNCHANGED posts

LEMMA StopMoves ==
  ASSUME Typed, NEW t \in Threads, NEW a \in Seq(StopSteps), NEW s \in Seq(AllSteps),
         prog[t] = a \o s, a # <<>>, Orderly(a), Step(t)
  PROVE  /\ UNCHANGED <<mState, gen, mConfig, childless, overlapped>> /\ Hushed
         /\ \/ /\ thrown' = thrown \union {t} /\ prog' = [prog EXCEPT ![t] = <<>>]
               /\ UNCHANGED <<posts, field, live>> /\ Head(a)[1] = "destroy"
            \/ \E b \in Seq(StopSteps) : Moves(t, a, s, b)
<1>. DEFINE h == Head(a)
            k == h[2]
            Goal == /\ UNCHANGED <<mState, gen, mConfig, childless, overlapped>> /\ Hushed
                    /\ \/ /\ thrown' = thrown \union {t} /\ prog' = [prog EXCEPT ![t] = <<>>]
                          /\ UNCHANGED <<posts, field, live>> /\ Head(a)[1] = "destroy"
                       \/ \E b \in Seq(StopSteps) : Moves(t, a, s, b)
<1>1. a \in Seq(AllSteps) /\ prog[t] \in Seq(AllSteps)
  BY DEF Typed, AllSteps, Steps
<1>2. /\ prog[t] # <<>> /\ Head(prog[t]) = h /\ Tail(prog[t]) = Tail(a) \o s
  BY <1>1, TailOfConcat
<1>3. /\ Tail(a) \in Seq(StopSteps) /\ Orderly(Tail(a)) /\ h \in StopSteps
      /\ h[1] = "test" => Tail(a) # <<>> /\ Head(Tail(a)) = <<"destroy", k>>
  BY OnTail
<1>4. Tail(a) \o s \in Seq(AllSteps) /\ \A x \in Seq(AllSteps) : <<>> \o x = x
  <2>1. Tail(a) \in Seq(AllSteps)
    BY <1>3 DEF AllSteps, Steps
  <2>. QED BY <2>1
<1>5. /\ Goes(t, <<>>) => prog' = [prog EXCEPT ![t] = Tail(a) \o s]
      /\ \A o : At(t, o) => h[1] = o
      /\ Arg(t) = k
  BY <1>2, <1>4 DEF Goes, At, Arg
<1>7. /\ h[1] \in {"test", "destroy", "clear", "post"}
      /\ h[1] = "post" => k \in {"STOPPING", "STOPPED"}
  BY <1>3 DEF StopSteps
<1>. HIDE DEF h, k, Goal
<1>8. CASE h[1] = "post"
  <2>1. PostState(t)
    BY <1>5, <1>8 DEF Step, Begin, MakeThrows, MakeObject, AlreadyRegistered, TestField, DestroyObject, ClearField, Resolve,
         ResolveThrows, Establish, EstablishFails, GetFd, Send, SendFails
  <2>2. UNCHANGED <<mState, gen, mConfig, childless, overlapped, thrown, field>> /\ Goes(t, <<>>) /\ posts' = Append(posts, k)
    BY <1>5, <2>1 DEF PostState, sessions, started, revoking
  <2>3. Moves(t, a, s, Tail(a))
    BY <1>5, <1>8, <2>2 DEF Moves, h, k
  <2>4. Goal
    BY <1>3, <1>7, <1>8, <2>2, <2>3 DEF Goal, Hushed
  <2>. QED BY <2>4 DEF Goal
<1>9. CASE h[1] = "test"
  <2>1. TestField(t)
    BY <1>5, <1>9 DEF Step, Begin, MakeThrows, MakeObject, AlreadyRegistered, PostState, DestroyObject, ClearField, Resolve,
         ResolveThrows, Establish, EstablishFails, GetFd, Send, SendFails
  <2>2. UNCHANGED <<mState, gen, mConfig, childless, overlapped, thrown, field, posts>>
    BY <2>1 DEF TestField, sessions, started, revoking
  <2>3. CASE field[k] # 0
    <3>1. Goes(t, <<>>)
      BY <1>5, <2>1, <2>3 DEF TestField
    <3>2. Moves(t, a, s, Tail(a))
      BY <1>5, <1>9, <2>2, <3>1 DEF Moves, h
    <3>3. Goal
      BY <1>3, <2>2, <3>2 DEF Goal, Hushed
    <3>. QED BY <3>3 DEF Goal
  <2>4. CASE field[k] = 0
    <3>. DEFINE b == Tail(a)
                c == Tail(b)
                d == Tail(c)
    <3>1. b \in Seq(StopSteps) /\ Orderly(b) /\ b # <<>> /\ Head(b) = <<"destroy", k>> /\ Len(b) = Len(a) - 1
      BY <1>3, <1>9, Tails
    <3>. HIDE DEF b
    <3>2. c \in Seq(StopSteps) /\ Orderly(c) /\ c # <<>> /\ Len(c) = Len(b) - 1
      BY <3>1, OnTail, Tails
    <3>. HIDE DEF c
    <3>3. d \in Seq(StopSteps)
      BY <3>2, OnTail
    <3>4. Len(a) > 2
      <4>1. Len(c) > 0 /\ Len(c) \in Nat /\ Len(b) \in Nat /\ Len(a) \in Nat
        BY <3>1, <3>2
      <4>. QED BY <3>1, <3>2, <4>1
    <3>5. SubSeq(prog[t], 4, Len(prog[t])) = d \o s
      <4>1. SubSeq(a \o s, 4, Len(a \o s)) = SubSeq(a, 4, Len(a)) \o s
        BY <1>1, <3>4, SkipOfConcat
      <4>2. SubSeq(a, 4, Len(a)) = d
        BY <3>4, SkipIsTails DEF b, c
      <4>. QED BY <4>1, <4>2
    <3>6. prog' = [prog EXCEPT ![t] = d \o s]
      BY <1>5, <2>1, <2>4, <3>5 DEF TestField
    <3>7. Moves(t, a, s, d)
      BY <1>9, <2>2, <2>4, <3>6 DEF Moves, h, k, b, c
    <3>8. Goal
      BY <2>2, <3>3, <3>7 DEF Goal, Hushed
    <3>. QED BY <3>8 DEF Goal
  <2>. QED BY <2>3, <2>4
<1>10. CASE h[1] = "destroy"
  <2>1. DestroyObject(t)
    BY <1>5, <1>10 DEF Step, Begin, MakeThrows, MakeObject, AlreadyRegistered, PostState, TestField, ClearField, Resolve,
         ResolveThrows, Establish, EstablishFails, GetFd, Send, SendFails
  <2>2. UNCHANGED <<mState, posts, field, gen, mConfig, childless, overlapped>>
    BY <2>1 DEF DestroyObject, started, revoking
  <2>3. CASE ~CanDestroy(k)
    <3>1. Throws(t) /\ UNCHANGED live
      BY <1>5, <2>1, <2>3 DEF DestroyObject
    <3>2. Goal
      BY <1>10, <2>2, <3>1 DEF Throws, Goal, Hushed, h
    <3>. QED BY <3>2 DEF Goal
  <2>4. CASE CanDestroy(k)
    <3>1. Goes(t, <<>>) /\ UNCHANGED thrown /\ ~Childless(k)
      BY <1>5, <2>1, <2>4 DEF DestroyObject, CanDestroy
    <3>2. Moves(t, a, s, Tail(a))
      BY <1>5, <1>10, <2>2, <3>1 DEF Moves, h, k
    <3>3. Goal
      BY <1>3, <2>2, <3>2 DEF Goal, Hushed
    <3>. QED BY <3>3 DEF Goal
  <2>. QED BY <2>3, <2>4
<1>11. CASE h[1] = "clear"
  <2>1. ClearField(t)
    BY <1>5, <1>11 DEF Step, Begin, MakeThrows, MakeObject, AlreadyRegistered, PostState, TestField, DestroyObject, Resolve,
         ResolveThrows, Establish, EstablishFails, GetFd, Send, SendFails
  <2>2. /\ UNCHANGED <<mState, posts, gen, mConfig, childless, overlapped, thrown>> /\ Goes(t, <<>>)
        /\ field' = [field EXCEPT ![k] = 0]
    BY <1>5, <2>1 DEF ClearField, started, revoking
  <2>3. Moves(t, a, s, Tail(a))
    BY <1>5, <1>11, <2>2 DEF Moves, h, k
  <2>4. Goal
    BY <1>3, <2>2, <2>3 DEF Goal, Hushed
  <2>. QED BY <2>4 DEF Goal
<1>. QED BY <1>7, <1>8, <1>9, <1>10, <1>11

\* A guard without a child that the steps a are still to destroy.
Meets(a, k) == Childless(k) /\ Orderly(a) /\ Clears(a, k) /\ Head(a) # <<"clear", k>>

LEMMA ClearsSome == \A a, k : Clears(a, k) => a # <<>>
<1>. SUFFICES ASSUME NEW k, Clears(<<>>, k) PROVE FALSE
  OBVIOUS
<1>1. Len(<<>>) = 0
  OBVIOUS
<1>. QED BY <1>1 DEF Clears

LEMMA MeetsOn ==
  ASSUME Typed, NEW t \in Threads, NEW a \in Seq(StopSteps), NEW s \in Seq(AllSteps), NEW k \in Kinds, Meets(a, k),
         UNCHANGED childless, NEW b \in Seq(StopSteps), Moves(t, a, s, b)
  PROVE  Meets(b, k)'
<1>1. a # <<>> /\ Childless(k) /\ Orderly(a) /\ Clears(a, k) /\ Head(a) # <<"clear", k>>
  BY DEF Meets, Clears
<1>2. /\ Tail(a) \in Seq(StopSteps) /\ Orderly(Tail(a)) /\ Head(a) \in StopSteps
      /\ Head(a)[1] = "test" => Tail(a) # <<>> /\ Head(Tail(a)) = <<"destroy", Head(a)[2]>>
      /\ Head(a)[1] = "destroy" => Tail(a) # <<>> /\ Head(Tail(a)) = <<"clear", Head(a)[2]>>
      /\ Head(a)[1] \in {"clear", "post"} => Tail(a) = <<>> \/ Head(Tail(a))[1] \notin {"destroy", "clear"}
      /\ Clears(Tail(a), k)
  BY <1>1, OnTail
<1>3. Tail(a) # <<>>
  BY <1>2, ClearsSome
<1>4. ASSUME Head(a)[2] # k, field' = [field EXCEPT ![Head(a)[2]] = 0] PROVE field'[k] = field[k]
  BY <1>4 DEF Typed
<1>5. field'[k] = field[k] => Childless(k)'
  BY <1>1 DEF Childless
<1>6. CASE b = Tail(a) /\ Head(a)[1] \in {"post", "clear"} /\ (UNCHANGED field \/ (Head(a)[1] = "clear" /\ field' = [field EXCEPT ![Head(a)[2]] = 0]))
  <2>1. Head(a)[1] = "clear" => Head(a)[2] # k
    BY <1>1, <1>2 DEF StopSteps
  <2>2. Head(b) # <<"clear", k>>
    BY <1>2, <1>3, <1>6
  <2>. QED BY <1>2, <1>4, <1>5, <1>6, <2>1, <2>2 DEF Meets, Clears, Orderly, InPlace
<1>7. CASE b = Tail(a) /\ Head(a)[1] = "test" /\ UNCHANGED field
  <2>1. Head(b) # <<"clear", k>>
    BY <1>2, <1>7
  <2>. QED BY <1>2, <1>5, <1>7, <2>1 DEF Meets, Clears, Orderly, InPlace
<1>8. CASE b = Tail(a) /\ Head(a)[1] = "destroy" /\ ~Childless(Head(a)[2]) /\ UNCHANGED field
  <2>1. Head(b) # <<"clear", k>>
    BY <1>1, <1>2, <1>8
  <2>. QED BY <1>2, <1>5, <1>8, <2>1 DEF Meets, Clears, Orderly, InPlace
<1>9. CASE b = Tail(Tail(Tail(a))) /\ Head(a)[1] = "test" /\ field[Head(a)[2]] = 0 /\ UNCHANGED field
  <2>. DEFINE c == Tail(a)
              d == Tail(c)
  <2>1. c # <<>> /\ c \in Seq(StopSteps) /\ Orderly(c) /\ Head(c) = <<"destroy", Head(a)[2]>> /\ Clears(c, k)
        /\ Head(a)[2] # k
    BY <1>1, <1>2, <1>3, <1>9 DEF Childless
  <2>. HIDE DEF c
  <2>2. d # <<>> /\ d \in Seq(StopSteps) /\ Orderly(d) /\ Head(d) = <<"clear", Head(a)[2]>> /\ Clears(d, k)
    BY <2>1, OnTail
  <2>. HIDE DEF d
  <2>3. Orderly(Tail(d)) /\ Clears(Tail(d), k) /\ (Tail(d) = <<>> \/ Head(Tail(d))[1] \notin {"destroy", "clear"})
    <3>1. Head(d)[1] \in {"clear", "post"} /\ Head(d) # <<"clear", k>>
      BY <2>1, <2>2
    <3>. QED BY <2>2, <3>1, OnTail
  <2>4. b = Tail(d)
    BY <1>9 DEF c, d
  <2>6. b # <<>> /\ Head(b)[1] # "clear"
    BY <2>3, <2>4, ClearsSome
  <2>5. Head(b) # <<"clear", k>>
    BY <2>6
  <2>. QED BY <1>5, <1>9, <2>3, <2>4, <2>5 DEF Meets, Clears, Orderly, InPlace
<1>. QED BY <1>6, <1>7, <1>8, <1>9 DEF Moves

\* A step of a stop that will not get past a guard without a child: it goes on, or is the last.
LEMMA BlockedStep ==
  ASSUME Typed, NEW t \in Threads, NEW R \in {Rests, {<<>>}}, NEW p, NEW f \in Seq(ClientSteps), prog[t] = p \o f,
         Blocked(p, R), Step(t)
  PROVE  /\ UNCHANGED <<mState, overlapped>> /\ Hushed
         /\ \/ /\ thrown' = thrown \union {t} /\ prog' = [prog EXCEPT ![t] = <<>>]
               /\ posts' = posts /\ CutShort'
            \/ /\ UNCHANGED thrown
               /\ \E q \in Seq(Steps) :
                    prog' = [prog EXCEPT ![t] = q \o f] /\ q # <<>> /\ Blocked(q, R)' /\ Announces(p, q)
<1>1. PICK k \in Processes, a \in Seq(StopSteps), r \in R : p = a \o r /\ Meets(a, k)
  BY DEF Blocked, Meets
<1>2. /\ r \in Rests /\ a \in Seq(Steps) /\ r \in Seq(Steps) /\ p \in Seq(Steps) /\ a # <<>> /\ k \in Kinds
      /\ "binder" \in thrown /\ Orderly(a) /\ Childless(k)
  <2>1. r \in Rests
    BY DEF Rests
  <2>2. a \in Seq(Steps) /\ r \in Seq(Steps)
    BY <2>1, RestTypes DEF Steps
  <2>. QED BY <1>1, <2>1, <2>2 DEF Meets, Clears, Kinds, Blocked
<1>. DEFINE s == r \o f
<1>3. s \in Seq(AllSteps) /\ prog[t] = a \o s /\ \A b \in Seq(Steps) : b \o s = (b \o r) \o f
  <2>1. f \in Seq(AllSteps) /\ \A x \in Seq(Steps) : x \in Seq(AllSteps)
    BY DEF AllSteps
  <2>2. \A x, y \in Seq(Steps) : x \o (y \o f) = (x \o y) \o f
    BY BeforeClient
  <2>3. s \in Seq(AllSteps)
    BY <1>2, <2>1, ConcatProperties
  <2>4. prog[t] = a \o s
    BY <1>1, <1>2, <2>2
  <2>. QED BY <1>2, <2>2, <2>3, <2>4
<1>. HIDE DEF s
<1>4. /\ UNCHANGED <<mState, gen, mConfig, childless, overlapped>> /\ Hushed
      /\ \/ /\ thrown' = thrown \union {t} /\ prog' = [prog EXCEPT ![t] = <<>>]
            /\ UNCHANGED <<posts, field, live>> /\ Head(a)[1] = "destroy"
         \/ \E b \in Seq(StopSteps) : Moves(t, a, s, b)
  BY <1>2, <1>3, StopMoves
<1>5. CASE /\ thrown' = thrown \union {t} /\ prog' = [prog EXCEPT ![t] = <<>>]
           /\ UNCHANGED <<posts, field, live>>
  BY <1>2, <1>4, <1>5 DEF CutShort, Childless
<1>6. ASSUME NEW b \in Seq(StopSteps), Moves(t, a, s, b)
      PROVE  /\ UNCHANGED thrown
             /\ \E q \in Seq(Steps) :
                  prog' = [prog EXCEPT ![t] = q \o f] /\ q # <<>> /\ Blocked(q, R)' /\ Announces(p, q)
  <2>1. UNCHANGED thrown /\ prog' = [prog EXCEPT ![t] = b \o s]
    BY <1>6 DEF Moves
  <2>2. b \in Seq(Steps) /\ b \o r \in Seq(Steps) /\ b \o s = (b \o r) \o f
    <3>1. b \in Seq(Steps)
      BY DEF Steps
    <3>. QED BY <1>2, <1>3, <3>1
  <2>3. Meets(b, k)'
    BY <1>1, <1>2, <1>3, <1>4, <1>6, MeetsOn
  <2>4. b \o r # <<>>
    <3>1. b # <<>>
      BY <2>3 DEF Meets, Clears
    <3>. QED BY <1>2, <2>2, <3>1
  <2>5. Blocked(b \o r, R)'
    BY <1>2, <2>1, <2>3 DEF Blocked, Meets
  <2>6. Announces(p, b \o r)
    <3>1. Has(b \o r, Connecting) => Has(a \o r, Connecting)
      BY <1>2, <2>2, HasConcat, StopsAreSilent
    <3>. QED BY <1>1, <1>4, <3>1 DEF Announces
  <2>. QED BY <2>1, <2>2, <2>4, <2>5, <2>6
<1>. QED BY <1>4, <1>5, <1>6

\* A step that posts nothing leaves a stop that posts all it did.
LEMMA HeardTail ==
  ASSUME NEW a \in Seq(StopSteps), a # <<>>, Heard(a), Head(a)[1] # "post"
  PROVE  Heard(Tail(a))
<1>. DEFINE b == Tail(a)
<1>1. /\ Len(b) = Len(a) - 1 /\ Len(a) \in Nat /\ \A i \in 1..(Len(a) - 1) : b[i] = a[i + 1]
      /\ Head(a) = a[1]
  BY Tails
<1>. HIDE DEF b
<1>2. \A i \in 1..Len(b) : i + 1 \in 1..Len(a) /\ b[i] = a[i + 1]
  BY <1>1
<1>3. \A j \in 1..Len(a) : a[j] = <<"post", "STOPPING">> => j - 1 \in 1..Len(b) /\ b[j - 1] = a[j]
  <2>. SUFFICES ASSUME NEW j \in 1..Len(a), a[j] = <<"post", "STOPPING">>
                PROVE  j - 1 \in 1..Len(b) /\ b[j - 1] = a[j]
    OBVIOUS
  <2>1. j # 1
    BY <1>1
  <2>. QED BY <1>1, <2>1
<1>4. ASSUME NEW i \in 1..Len(b), b[i] = <<"post", "STOPPED">> PROVE i = Len(b)
  BY <1>1, <1>2, <1>4 DEF Heard
<1>5. ASSUME NEW i \in 1..Len(b), b[i][1] = "destroy", b[i][2] \in Processes, ~Announced("STOPPING")
      PROVE  \E j \in 1..(i - 1) : b[j] = <<"post", "STOPPING">>
  <2>1. PICK m \in 1..Len(a) : m = i + 1 /\ a[m] = b[i]
    BY <1>2
  <2>2. PICK j \in 1..(m - 1) : a[j] = <<"post", "STOPPING">>
    BY <1>5, <2>1 DEF Heard
  <2>3. j \in 1..Len(a) /\ m - 1 = i
    BY <1>1, <2>1, <2>2
  <2>4. j - 1 \in 1..Len(b) /\ b[j - 1] = a[j]
    BY <1>3, <2>2, <2>3
  <2>5. j - 1 \in 1..(i - 1)
    BY <2>2, <2>3, <2>4
  <2>. QED BY <2>2, <2>4, <2>5
<1>6. Heard(b)
  BY <1>4, <1>5 DEF Heard
<1>. QED BY <1>6 DEF b

LEMMA HeardStep ==
  ASSUME Typed, NEW t \in Threads, NEW a \in Seq(StopSteps), a # <<>>, Orderly(a), Heard(a), Behind, Step(t),
         UNCHANGED mState, NEW s, NEW b \in Seq(StopSteps), Moves(t, a, s, b), b # <<>>
  PROVE  Heard(b)' /\ Behind' /\ (Announced("STOPPING") => Announced("STOPPING")')
<1>1. /\ Tail(a) \in Seq(StopSteps) /\ Orderly(Tail(a)) /\ Head(a) \in StopSteps
      /\ Head(a)[1] = "test" => Tail(a) # <<>> /\ Head(Tail(a)) = <<"destroy", Head(a)[2]>>
  BY OnTail
<1>2. posts \in Seq(States)
  BY DEF Typed
<1>3. ASSUME Head(a)[1] # "post" PROVE Heard(b) /\ UNCHANGED posts
  <2>1. UNCHANGED posts /\ (b = Tail(a) \/ (b = Tail(Tail(Tail(a))) /\ Head(a)[1] = "test"))
    BY <1>3 DEF Moves
  <2>2. Heard(Tail(a))
    BY <1>3, HeardTail
  <2>3. CASE b = Tail(Tail(Tail(a))) /\ Head(a)[1] = "test"
    <3>. DEFINE c == Tail(a)
                d == Tail(c)
    <3>1. c \in Seq(StopSteps) /\ Orderly(c) /\ c # <<>> /\ Head(c) = <<"destroy", Head(a)[2]>> /\ Heard(c)
      BY <1>1, <2>2, <2>3
    <3>. HIDE DEF c
    <3>2. d \in Seq(StopSteps) /\ d # <<>> /\ Head(d) = <<"clear", Head(a)[2]>> /\ Heard(d)
      BY <3>1, OnTail, HeardTail
    <3>. HIDE DEF d
    <3>3. Heard(Tail(d))
      BY <3>2, HeardTail
    <3>4. b = Tail(d)
      BY <2>3 DEF c, d
    <3>. QED BY <2>1, <3>3, <3>4
  <2>. QED BY <2>1, <2>2, <2>3
<1>4. CASE Head(a)[1] # "post"
  BY <1>3, <1>4 DEF Heard, Behind, Announced
<1>5. CASE Head(a)[1] = "post"
  <2>1. b = Tail(a) /\ posts' = Append(posts, Head(a)[2]) /\ Head(a) = <<"post", Head(a)[2]>>
        /\ Head(a)[2] \in {"STOPPING", "STOPPED"}
    BY <1>1, <1>5 DEF Moves, StopSteps
  <2>2. /\ Len(b) = Len(a) - 1 /\ Len(a) \in Nat /\ \A i \in 1..(Len(a) - 1) : b[i] = a[i + 1]
        /\ Head(a) = a[1] /\ Len(b) > 0 /\ Len(b) \in Nat
    BY <2>1, Tails
  <2>3. posts' = Append(posts, "STOPPING")
    <3>1. 1 \in 1..Len(a) /\ Len(a) # 1
      BY <2>2
    <3>2. a[1] # <<"post", "STOPPED">>
      BY <3>1 DEF Heard
    <3>. QED BY <2>1, <2>2, <3>2
  <2>4. /\ Len(posts') = Len(posts) + 1 /\ Len(posts) \in Nat /\ posts'[Len(posts) + 1] = "STOPPING"
        /\ \A i \in 1..Len(posts) : posts'[i] = posts[i]
        /\ posts' # <<>>
    BY <1>2, <2>3
  <2>5. Announced("STOPPING")'
    BY <2>4 DEF Announced
  <2>6. Heard(b)'
    <3>1. \A i \in 1..Len(b) : b[i] = <<"post", "STOPPED">> => i = Len(b)
      <4>1. \A i \in 1..Len(b) : i + 1 \in 1..Len(a) /\ b[i] = a[i + 1]
        BY <2>2
      <4>. QED BY <2>2, <4>1 DEF Heard
    <3>. QED BY <2>5, <3>1 DEF Heard
  <2>7. Behind'
    <3>1. \A j \in 1..Len(posts) : j \in 1..Len(posts')
      BY <2>4
    <3>2. mState' = "STOPPED" => \E j \in 1..Len(posts') : posts'[j] = "CONNECTING"
      BY <2>4, <3>1 DEF Behind
    <3>3. ASSUME NEW i \in 1..Len(posts'), posts'[i] = "STOPPED"
          PROVE  \E j \in (i + 1)..Len(posts') : posts'[j] = "CONNECTING"
      <4>1. i \in 1..Len(posts) /\ posts[i] = "STOPPED"
        BY <2>4, <3>3
      <4>2. PICK j \in (i + 1)..Len(posts) : posts[j] = "CONNECTING"
        BY <4>1 DEF Behind
      <4>3. j \in 1..Len(posts) /\ j \in (i + 1)..Len(posts')
        BY <2>4, <4>1, <4>2
      <4>. QED BY <2>4, <4>2, <4>3
    <3>. QED BY <3>2, <3>3 DEF Behind
  <2>. QED BY <2>5, <2>6, <2>7
<1>. QED BY <1>4, <1>5

LEMMA CodeTypes ==
  /\ StopRunner \in Seq(AllSteps) /\ Refuse \in Seq(AllSteps) /\ HandleConnection \in Seq(AllSteps)
  /\ \A c \in Configs : StartRunner(c) \in Seq(AllSteps)
<1>1. \A x \in Seq(Steps) : x \in Seq(AllSteps)
  BY DEF AllSteps
<1>. QED BY <1>1, ProgramTypes

LEMMA TypedInit == Init => Typed
<1>. SUFFICES ASSUME Init PROVE Typed
  OBVIOUS
<1>1. <<>> \in Seq(States) /\ <<>> \in Seq(AllSteps)
  OBVIOUS
<1>2. prog \in [Threads -> Seq(AllSteps)]
  BY <1>1 DEF Init
<1>3. mState \in States /\ posts \in Seq(States)
  BY <1>1 DEF Init, States
<1>. QED BY <1>2, <1>3 DEF Init, Typed

LEMMA TypedStep == ASSUME Typed, NEW t \in Threads, Step(t) PROVE Typed'
<1>. DEFINE h == Head(prog[t])
            k == h[2]
<1>1. /\ prog[t] \in Seq(AllSteps) /\ prog[t] # <<>> /\ h \in AllSteps /\ Tail(prog[t]) \in Seq(AllSteps)
      /\ Len(prog[t]) \in Nat
  <2>1. prog[t] \in Seq(AllSteps) /\ prog[t] # <<>>
    BY DEF Typed, Step, At, Idle, Begin, MakeThrows, MakeObject, AlreadyRegistered, PostState, TestField, DestroyObject,
       ClearField, Resolve, ResolveThrows, Establish, EstablishFails, GetFd, Send, SendFails
  <2>2. Tail(prog[t]) \in Seq(AllSteps) /\ Len(prog[t]) \in Nat
    BY <2>1, Tails
  <2>3. h \in AllSteps
    BY <2>1, HeadTailProperties
  <2>. QED BY <2>1, <2>2, <2>3
<1>2. \A s \in Seq(AllSteps) : Goes(t, s) => prog' \in [Threads -> Seq(AllSteps)]
  <2>. SUFFICES ASSUME NEW s \in Seq(AllSteps), Goes(t, s) PROVE prog' \in [Threads -> Seq(AllSteps)]
    OBVIOUS
  <2>1. s \o Tail(prog[t]) \in Seq(AllSteps)
    BY <1>1
  <2>. QED BY <2>1 DEF Goes, Typed
<1>3. Throws(t) => prog' \in [Threads -> Seq(AllSteps)]
  <2>1. <<>> \in Seq(AllSteps)
    OBVIOUS
  <2>. QED BY <2>1 DEF Throws, Typed
<1>4. <<>> \in Seq(AllSteps)
  OBVIOUS
<1>5. /\ h[1] \in {"make", "register", "test", "destroy", "clear"} => k \in Kinds
      /\ h[1] = "post" => k \in States
  <2>1. h \in Steps \/ h[1] \in {"load", "reload", "switch", "update"}
    BY <1>1, ClientNames DEF AllSteps
  <2>2. h \in Steps =>
          /\ h[1] \in {"make", "register", "test", "destroy", "clear"} => k \in Kinds
          /\ h[1] = "post" => k \in States
    BY DEF Steps, StopSteps, Kinds, Receivers, States
  <2>. QED BY <2>1, <2>2
<1>6. "conn" \in Kinds
  BY DEF Kinds
<1>7. /\ \A o : At(t, o) => h[1] = o
      /\ Arg(t) = k
  BY DEF At, Arg
<1>. HIDE DEF h, k
<1>8. CASE Begin(t)
  <2>1. prog' \in [Threads -> Seq(AllSteps)]
    BY <1>2, <1>4, <1>8 DEF Begin
  <2>2. gen' \in Nat /\ UNCHANGED <<mState, posts, field, live, childless, overlapped>>
    BY <1>8 DEF Begin, Typed, revoking
  <2>. QED BY <2>1, <2>2 DEF Typed
<1>9. CASE MakeObject(t)
  <2>1. k \in Kinds
    BY <1>5, <1>7, <1>9 DEF MakeObject
  <2>2. prog' \in [Threads -> Seq(AllSteps)]
    BY <1>2, <1>4, <1>9 DEF MakeObject
  <2>3. /\ field' = [field EXCEPT ![k] = gen] /\ live' = live \union {<<k, gen>>}
        /\ UNCHANGED <<mState, posts, gen, overlapped>>
        /\ childless' = childless \/ (k \in Processes /\ childless' = childless \union {<<k, gen>>})
    BY <1>7, <1>9 DEF MakeObject, started, revoking
  <2>. QED BY <2>1, <2>2, <2>3 DEF Typed
<1>22. CASE MakeThrows(t)
  BY <1>3, <1>22 DEF MakeThrows, Typed, sessions, started, revoking
<1>10. CASE AlreadyRegistered(t)
  BY <1>2, <1>4, <1>10 DEF AlreadyRegistered, Typed, sessions, started, revoking
<1>11. CASE TestField(t)
  <2>1. CASE field[Arg(t)] = 0
    <3>1. SubSeq(prog[t], 4, Len(prog[t])) \in Seq(AllSteps)
      BY <1>1, SubSeqProperties
    <3>. QED BY <1>11, <2>1, <3>1 DEF TestField, Typed, sessions, started, revoking
  <2>2. CASE field[Arg(t)] # 0
    BY <1>2, <1>4, <1>11, <2>2 DEF TestField, Typed, sessions, started, revoking
  <2>. QED BY <2>1, <2>2
<1>12. CASE DestroyObject(t)
  <2>1. prog' \in [Threads -> Seq(AllSteps)]
    BY <1>2, <1>3, <1>4, <1>12 DEF DestroyObject
  <2>2. live' \subseteq live
    BY <1>12 DEF DestroyObject
  <2>. QED BY <1>12, <2>1, <2>2 DEF DestroyObject, Typed, started, revoking
<1>13. CASE ClearField(t)
  BY <1>2, <1>4, <1>13 DEF ClearField, Typed, started, revoking
<1>14. CASE PostState(t)
  <2>1. k \in States
    BY <1>5, <1>7, <1>14 DEF PostState
  <2>2. prog' \in [Threads -> Seq(AllSteps)]
    BY <1>2, <1>4, <1>14 DEF PostState
  <2>3. posts' = Append(posts, k) /\ UNCHANGED <<mState, field, live, childless, gen, overlapped>>
    BY <1>7, <1>14 DEF PostState, sessions, started, revoking
  <2>4. posts' \in Seq(States)
    BY <2>1, <2>3 DEF Typed
  <2>. QED BY <2>2, <2>3, <2>4 DEF Typed
<1>15. CASE Resolve(t)
  <2>1. (IF Arg(t) = "numeric" THEN HandleConnection ELSE Refuse) \in Seq(AllSteps)
    BY CodeTypes
  <2>. QED BY <1>2, <1>15, <2>1 DEF Resolve, Typed, sessions, started, revoking
<1>16. CASE ResolveThrows(t)
  BY <1>3, <1>16 DEF ResolveThrows, Typed, sessions, started, revoking
<1>17. CASE Establish(t)
  <2>1. << <<"getFd", "conn">> >> \o Make("tun2socks") \in Seq(AllSteps)
    BY DEF Make, AllSteps, Steps, Kinds, Processes
  <2>2. prog' \in [Threads -> Seq(AllSteps)]
    BY <1>2, <1>17, <2>1 DEF Establish
  <2>. QED BY <1>6, <1>17, <2>2 DEF Establish, Typed, started, revoking
<1>18. CASE EstablishFails(t)
  <2>1. prog' \in [Threads -> Seq(AllSteps)]
    BY <1>2, <1>18, CodeTypes DEF EstablishFails
  <2>. QED BY <1>6, <1>18, <2>1 DEF EstablishFails, Typed, started, revoking
<1>19. CASE GetFd(t)
  <2>1. prog' \in [Threads -> Seq(AllSteps)]
    BY <1>2, <1>3, <1>4, <1>19 DEF GetFd
  <2>. QED BY <1>19, <2>1 DEF GetFd, Typed, sessions, started, revoking
<1>20. CASE Send(t)
  <2>1. Post("CONNECTED") \o Make("lockReceiver") \in Seq(AllSteps)
    BY SentProper DEF AllSteps
  <2>. QED BY <1>2, <1>20, <2>1 DEF Send, Typed, sessions, started, revoking
<1>21. CASE SendFails(t)
  BY <1>2, <1>21, CodeTypes DEF SendFails, Typed, sessions, started, revoking
<1>. QED BY <1>8, <1>9, <1>10, <1>11, <1>12, <1>13, <1>14, <1>15, <1>16, <1>17, <1>18, <1>19, <1>20, <1>21, <1>22 DEF Step

LEMMA TypedRuns ==
  ASSUME Typed, NEW t \in Threads, NEW s \in Seq(AllSteps), Runs(t, s), UNCHANGED <<mState, posts, sessions>>
  PROVE  Typed'
BY DEF Runs, Typed, sessions, started

LEMMA TypedPost == ASSUME Typed, RunPost PROVE Typed'
<1>1. Head(posts) \in States /\ Tail(posts) \in Seq(States)
  BY DEF RunPost, Typed
<1>. QED BY <1>1 DEF RunPost, Typed, sessions, started, revoking

LEMMA UseTypes == UseNull \in Seq(Steps) /\ \A c \in Configs : UseConfig(c) \in Seq(Steps)
<1>1. <<>> \in Seq(Steps) /\ UseNull \in Seq(Steps)
  BY ProgramTypes DEF UseNull
<1>2. ASSUME NEW c \in Configs PROVE UseConfig(c) \in Seq(Steps)
  <2>1. StopRunner \o StartRunner(c) \in Seq(Steps)
    BY ProgramTypes
  <2>. QED BY <1>1, <2>1, ProgramTypes DEF UseConfig
<1>. QED BY <1>1, <1>2

LEMMA TypedUses == UseNull \in Seq(AllSteps) /\ \A c \in Configs : UseConfig(c) \in Seq(AllSteps)
<1>1. \A x \in Seq(Steps) : x \in Seq(AllSteps)
  BY DEF AllSteps
<1>. QED BY <1>1, UseTypes

LEMMA TypedNext == Typed /\ [Next]_svcVars => Typed'
<1>. SUFFICES ASSUME Typed, [Next]_svcVars PROVE Typed'
  OBVIOUS
<1>1. CASE UNCHANGED svcVars
  BY <1>1 DEF Typed, svcVars
<1>2. CASE CloseBroadcast
  BY <1>2, TypedRuns, CodeTypes DEF CloseBroadcast, Calls, Threads
<1>3. CASE Revoke
  BY <1>3, TypedRuns, CodeTypes DEF Revoke, Threads
<1>4. CASE CallUse
  BY <1>4, TypedRuns, TypedUses DEF CallUse, Calls, Threads
<1>. QED BY <1>1, <1>2, <1>3, <1>4, TypedStep, TypedPost DEF Next

-----------------------------------------------------------------------------
\* A thread that makes a step has one to make.
LEMMA StepsAreThere == \A t : Step(t) => prog[t] # <<>>
BY DEF Step, At, Idle, Begin, MakeThrows, MakeObject, AlreadyRegistered, PostState, TestField, DestroyObject,
   ClearField, Resolve, ResolveThrows, Establish, EstablishFails, GetFd, Send, SendFails

\* Calls that have overlapped stay so.
LEMMA Overlaps ==
  ~overlapped' /\ ((\E t \in Threads : Step(t)) \/ RunPost \/ CloseBroadcast \/ Revoke \/ CallUse) => ~overlapped
BY DEF Step, Begin, MakeThrows, MakeObject, AlreadyRegistered, PostState, TestField, DestroyObject,
   ClearField, Resolve, ResolveThrows, Establish, EstablishFails, GetFd, Send, SendFails, RunPost,
   CloseBroadcast, Revoke, CallUse, Calls, Runs, revoking

LEMMA ModeInit == Init => Mode
BY DEF Init, Mode, Idle, Doing, AtRest, Resting, Announced, Clean, Held, Threads, Kinds

\* What a thread begins to do while the other one is idle: when there is nothing or all of one
\* session, ...
LEMMA RestingStops ==
  ASSUME Typed, Resting
  PROVE  /\ Doing(StopRunner) /\ Doing(Refuse) /\ Stopping(StopRunner, {<<>>})
         /\ \A c \in Configs : Doing(StopRunner \o StartRunner(c))
         /\ \A c \in Configs : mState = "STOPPED" /\ (\A i \in DOMAIN posts : posts[i] # "CONNECTING") =>
              Doing(StartRunner(c))
<1>1. \A k \in Kinds : Clean(k) \/ Made(k)
  BY DEF Resting
<1>2. <<>> \in Rests /\ StopRunner \o <<>> = StopRunner /\ Refuse \o <<>> = Refuse
      /\ \A c \in Configs : StartRunner(c) \in Rests
  BY StopWhole DEF Rests
<1>3. /\ Stopping(StopRunner \o <<>>, Rests) /\ Stopping(Refuse \o <<>>, Rests)
      /\ StopRunner \o <<>> # <<>> /\ Refuse \o <<>> # <<>>
      /\ \A c \in Configs : Stopping(StopRunner \o StartRunner(c), Rests) /\ StopRunner \o StartRunner(c) # <<>>
  BY <1>1, <1>2, StopBegins
<1>4. Stopping(StopRunner \o <<>>, {<<>>})
  BY <1>1, StopBegins
<1>5. ASSUME NEW c \in Configs, mState = "STOPPED", \A i \in DOMAIN posts : posts[i] # "CONNECTING"
      PROVE  Doing(StartRunner(c))
  <2>1. \A k \in Kinds : Clean(k)
    <3>. SUFFICES ASSUME Announced("CONNECTED"), Len(posts) = 1 => mState = "CONNECTING",
                         Len(posts) > 1 => posts[Len(posts) - 1] = "CONNECTING"
                  PROVE  FALSE
      BY DEF Resting
    <3>1. posts # <<>>
      BY <1>5 DEF Announced
    <3>2. Len(posts) \in Nat /\ Len(posts) # 0 /\ Len(posts) # 1 /\ DOMAIN posts = 1..Len(posts)
      BY <1>5, <3>1 DEF Typed
    <3>3. Len(posts) > 1 /\ Len(posts) - 1 \in DOMAIN posts
      BY <3>2
    <3>. QED BY <1>5, <3>3
  <2>2. StartRunner(c) \in Seq(Steps) /\ StartRunner(c) # <<>> /\ <<>> \o StartRunner(c) = StartRunner(c)
    <3>1. StartRunner(c) \in Seq(Steps)
      BY ProgramTypes
    <3>2. StartRunner(c) # <<>>
      BY DEF StartRunner, Make, Post, KillProcesses, Drop
    <3>. QED BY <3>1, <3>2
  <2>3. Orderly(<<>>) /\ <<>> \in Seq(StopSteps) /\ Closed(<<>>, StartRunner(c)) /\ Stops(<<>>)
    BY <2>1, <2>2 DEF Orderly, Closed, Stops
  <2>4. Stopping(<<>> \o StartRunner(c), Rests)
    BY <1>2, <2>3 DEF Stopping
  <2>. QED BY <2>2, <2>4 DEF Doing
<1>. QED BY <1>2, <1>3, <1>4, <1>5 DEF Doing

\* ... and when a revocation was cut short.
LEMMA HaltedStops ==
  ASSUME Typed, Halted
  PROVE  /\ Doing(StopRunner) /\ Doing(Refuse) /\ Blocked(StopRunner, {<<>>})
         /\ \A c \in Configs : Doing(StopRunner \o StartRunner(c))
         /\ \A c \in Configs : mState = "STOPPED" => \E i \in DOMAIN posts : posts[i] = "CONNECTING"
<1>1. PICK k \in Processes : Childless(k)
  BY DEF Halted, CutShort
<1>2. "binder" \in thrown /\ k \in Kinds /\ {<<>>, StopRunner, Refuse} \subseteq Seq(Steps)
  BY ProgramTypes DEF Halted, CutShort, Kinds
<1>3. ASSUME NEW a \in {StopRunner, Refuse}, NEW R, NEW r \in R PROVE Blocked(a \o r, R) /\ a # <<>>
  <2>1. /\ a \in Seq(StopSteps) /\ Orderly(a) /\ Clears(a, k) /\ a # <<>>
        /\ Head(a)[1] \notin {"destroy", "clear"}
    BY <1>2, StopWhole DEF Whole
  <2>2. Head(a) # <<"clear", k>>
    BY <2>1
  <2>. QED BY <1>1, <1>2, <2>1, <2>2 DEF Blocked
<1>4. \A a \in {StopRunner, Refuse} : a \o <<>> = a
  BY <1>2
<1>5. <<>> \in Rests /\ \A c \in Configs : StartRunner(c) \in Rests
  BY DEF Rests
<1>6. Doing(StopRunner) /\ Doing(Refuse)
  BY <1>3, <1>4, <1>5 DEF Doing
<1>7. Blocked(StopRunner, {<<>>})
  BY <1>3, <1>4
<1>8. ASSUME NEW c \in Configs PROVE Doing(StopRunner \o StartRunner(c))
  <2>1. StopRunner \o StartRunner(c) # <<>>
    BY <1>2, <1>3, ProgramTypes
  <2>. QED BY <1>3, <1>5, <2>1 DEF Doing
<1>9. mState = "STOPPED" => \E i \in DOMAIN posts : posts[i] = "CONNECTING"
  BY DEF Halted, Behind, Typed
<1>. QED BY <1>6, <1>7, <1>8, <1>9

\* stopRunner() posts STOPPING before it kills the processes, and STOPPED at its end.
LEMMA StopIsHeard == Heard(StopRunner)
<1>1. /\ Len(StopRunner) = 29 /\ StopRunner[7] = <<"post", "STOPPING">>
      /\ \A i \in 1..28 : StopRunner[i] # <<"post", "STOPPED">>
      /\ \A i \in 1..6 : StopRunner[i][2] \in {"protect", "lockReceiver"}
  BY DEF StopRunner, KillProcesses, Drop, Post
<1>2. {"protect", "lockReceiver"} \intersect Processes = {}
  BY DEF Processes
<1>3. StopRunner[7][1] # "destroy"
  BY <1>1
<1>. QED BY <1>1, <1>2, <1>3 DEF Heard

\* A revocation stops a session that is all there, or meets the guard without a child.
LEMMA RevokeBegins ==
  ASSUME Typed, AtRest, NEW n, <<"conn", n>> \in live
  PROVE  Revoking(StopRunner)
<1>1. CASE Halted
  BY <1>1, StopIsHeard, HaltedStops DEF Halted, Revoking
<1>2. CASE Resting
  <2>1. ~Clean("conn") /\ "conn" \in Kinds
    BY DEF Clean, Held, Kinds
  <2>2. /\ Announced("CONNECTED")
        /\ Len(posts) = 1 => mState = "CONNECTING"
        /\ Len(posts) > 1 => posts[Len(posts) - 1] = "CONNECTING"
    BY <1>2, <2>1 DEF Resting
  <2>3. Len(posts) \in Nat /\ (posts # <<>> => Len(posts) > 0)
    BY DEF Typed
  <2>4. mState = "STOPPED" => \E j \in 1..Len(posts) : posts[j] = "CONNECTING"
    <3>. SUFFICES ASSUME mState = "STOPPED" PROVE \E j \in 1..Len(posts) : posts[j] = "CONNECTING"
      OBVIOUS
    <3>1. posts # <<>>
      BY <2>2 DEF Announced
    <3>2. Len(posts) > 1
      <4>1. mState # "CONNECTING"
        OBVIOUS
      <4>2. Len(posts) # 1
        BY <2>2, <4>1
      <4>3. Len(posts) \in Nat /\ Len(posts) > 0
        BY <2>3, <3>1
      <4>4. \A m \in Nat : m > 0 /\ m # 1 => m > 1
        OBVIOUS
      <4>. QED BY <4>2, <4>3, <4>4
    <3>3. Len(posts) - 1 \in 1..Len(posts)
      BY <2>3, <3>2
    <3>. QED BY <2>2, <3>2, <3>3
  <2>5. ASSUME NEW i \in 1..Len(posts), posts[i] = "STOPPED"
        PROVE  \E j \in (i + 1)..Len(posts) : posts[j] = "CONNECTING"
    <3>1. Len(posts) > 0 /\ posts[Len(posts)] = "CONNECTED"
      <4>1. posts # <<>>
        BY <2>3, <2>5
      <4>. QED BY <2>2, <2>3, <4>1 DEF Announced
    <3>2. i # Len(posts) /\ Len(posts) > 1
      BY <2>3, <2>5, <3>1
    <3>3. posts[Len(posts) - 1] = "CONNECTING"
      BY <2>2, <3>2
    <3>4. Len(posts) - 1 \in (i + 1)..Len(posts)
      BY <2>3, <2>5, <3>2, <3>3
    <3>. QED BY <3>3, <3>4
  <2>6. Behind
    BY <2>4, <2>5 DEF Behind
  <2>. QED BY <1>2, <2>6, StopIsHeard, RestingStops DEF Revoking
<1>. QED BY <1>1, <1>2 DEF AtRest

\* What neither a field, an object nor a posted state is touched by.
LEMMA Still ==
  ASSUME UNCHANGED <<mState, posts, field, live, childless, gen, mConfig, thrown>>
  PROVE  /\ \A p : Revoking(p) => Revoking(p)'
         /\ \A p : Doing(p) => Doing(p)'
<1>1. \A k : /\ Clean(k)' <=> Clean(k)
             /\ Made(k)' <=> Made(k)
             /\ Cut(k)' <=> Cut(k)
             /\ Childless(k)' <=> Childless(k)
  BY DEF Clean, Made, Cut, Held, Childless
<1>2. \A p, R : Stopping(p, R)' <=> Stopping(p, R)
  BY <1>1 DEF Stopping, Stops, Going
<1>3. \A p : Starting(p)' <=> Starting(p)
  BY <1>1 DEF Starting, Stands, Told, Suits, Wanted
<1>4. Resting' <=> Resting
  BY <1>1 DEF Resting, Announced, Wanted
<1>5. \A p, R : Blocked(p, R)' <=> Blocked(p, R)
  BY <1>1 DEF Blocked
<1>6. Behind' <=> Behind
  BY DEF Behind
<1>7. Halted' <=> Halted
  BY <1>1, <1>6 DEF Halted, CutShort, Announced
<1>8. \A p : Heard(p)' <=> Heard(p)
  BY DEF Heard, Announced
<1>9. \A p : Doing(p) => Doing(p)'
  BY <1>2, <1>3, <1>4, <1>5, <1>7 DEF Doing, AtRest
<1>10. Announced("STOPPING")' <=> Announced("STOPPING")
  BY DEF Announced
<1>11. \A p : Revoking(p) => Revoking(p)'
  BY <1>2, <1>5, <1>6, <1>8, <1>10 DEF Revoking
<1>. QED BY <1>9, <1>11

\* A step of the main thread, with steps of the fragment behind those of the service.
LEMMA MainStep ==
  ASSUME Typed, NEW q \in Seq(Steps), NEW f \in Seq(ClientSteps), prog["main"] = q \o f,
         q # <<>>, Doing(q), Step("main")
  PROVE  /\ UNCHANGED overlapped
         /\ \/ /\ thrown' = thrown \union {"main"}
               /\ prog' = [prog EXCEPT !["main"] = <<>>]
            \/ /\ thrown' = thrown
               /\ \E b \in Seq(Steps) : /\ prog' = [prog EXCEPT !["main"] = b \o f]
                                      /\ Doing(b)' /\ Announces(q, b)
<1>1. "main" \in Threads
  BY DEF Threads
<1>2. CASE Stopping(q, Rests)
  <2>1. /\ UNCHANGED overlapped /\ Hushed
        /\ \/ Snags("main", q)
           \/ /\ UNCHANGED thrown
              /\ \E b \in Seq(Steps) :
                   /\ prog' = [prog EXCEPT !["main"] = b \o f] /\ Announces(q, b)
                   /\ IF b = <<>> THEN Resting' ELSE Stopping(b, Rests)' \/ (Rests = Rests /\ Starting(b)')
    BY <1>1, <1>2, StopStep
  <2>. QED BY <2>1 DEF Doing, AtRest, Snags
<1>3. CASE Starting(q)
  BY <1>1, <1>3, StartStep
<1>4. CASE Blocked(q, Rests)
  <2>1. /\ UNCHANGED <<mState, overlapped>> /\ Hushed
        /\ \/ /\ thrown' = thrown \union {"main"} /\ prog' = [prog EXCEPT !["main"] = <<>>]
              /\ posts' = posts /\ CutShort'
           \/ /\ UNCHANGED thrown
              /\ \E b \in Seq(Steps) :
                   prog' = [prog EXCEPT !["main"] = b \o f] /\ b # <<>> /\ Blocked(b, Rests)' /\ Announces(q, b)
    BY <1>1, <1>4, BlockedStep
  <2>. QED BY <2>1 DEF Doing
<1>. QED BY <1>2, <1>3, <1>4 DEF Doing

\* The fragment's steps are none of the service's.
LEMMA ClientStops ==
  ASSUME NEW f \in Seq(ClientSteps), prog["main"] = f
  PROVE  ~Step("main")
<1>. SUFFICES ASSUME Step("main") PROVE FALSE
  OBVIOUS
<1>1. f # <<>>
  BY DEF Step, At, Idle, Begin, MakeThrows, MakeObject, AlreadyRegistered, PostState, TestField, DestroyObject,
     ClearField, Resolve, ResolveThrows, Establish, EstablishFails, GetFd, Send, SendFails
<1>2. Head(f) \in ClientSteps
  BY <1>1, HeadTailProperties
<1>3. Head(prog["main"])[1] \in {"load", "reload", "switch", "update"}
  BY <1>2, ClientNames
<1>. QED BY <1>3 DEF Step, At, Begin, MakeThrows, MakeObject, AlreadyRegistered, PostState, TestField, DestroyObject,
     ClearField, Resolve, ResolveThrows, Establish, EstablishFails, GetFd, Send, SendFails

\* A step of a revocation: it goes on, ends, or is cut short.
LEMMA BinderStep ==
  ASSUME Typed, Revoking(prog["binder"]), Step("binder")
  PROVE  /\ UNCHANGED overlapped /\ Hushed
         /\ \/ /\ thrown' = thrown \union {"binder"} /\ prog' = [prog EXCEPT !["binder"] = <<>>]
               /\ Halted'
            \/ /\ UNCHANGED thrown
               /\ \E b : /\ prog' = [prog EXCEPT !["binder"] = b]
                         /\ IF b = <<>> THEN Resting' ELSE Revoking(b)'
<1>. DEFINE p == prog["binder"]
<1>1. "binder" \in Threads /\ <<>> \in Seq(ClientSteps) /\ <<>> \in Seq(AllSteps) /\ {<<>>} # Rests
      /\ \A b \in Seq(Steps) : b \o <<>> = b
  <2>1. << <<"send", "tun2socks">> >> \in Rests
    BY DEF Rests
  <2>. QED BY <2>1 DEF Threads
<1>2. p = p \o <<>>
  BY <1>1 DEF Typed
<1>3. p \in Seq(StopSteps) /\ Orderly(p) /\ p # <<>> /\ Heard(p) /\ Behind
  <2>1. Heard(p) /\ Behind
    BY DEF Revoking
  <2>2. PICK a \in Seq(StopSteps), r \in {<<>>} :
          p = a \o r /\ Orderly(a) /\ (Closed(a, r) \/ \E k : Clears(a, k))
    BY DEF Revoking, Stopping, Blocked
  <2>3. p = a /\ a # <<>>
    BY <2>2, ClearsSome DEF Closed
  <2>. QED BY <2>1, <2>2, <2>3
<1>4. /\ UNCHANGED <<mState, gen, mConfig, childless, overlapped>> /\ Hushed
      /\ \/ /\ thrown' = thrown \union {"binder"} /\ prog' = [prog EXCEPT !["binder"] = <<>>]
            /\ UNCHANGED <<posts, field, live>> /\ Head(p)[1] = "destroy"
         \/ \E b \in Seq(StopSteps) : Moves("binder", p, <<>>, b)
  BY <1>1, <1>2, <1>3, StopMoves
<1>5. \A b \in Seq(StopSteps) : Moves("binder", p, <<>>, b) =>
        /\ prog' = [prog EXCEPT !["binder"] = b] /\ UNCHANGED thrown
        /\ b # <<>> => Heard(b)' /\ Behind' /\ (Announced("STOPPING") => Announced("STOPPING")')
  <2>. SUFFICES ASSUME NEW b \in Seq(StopSteps), Moves("binder", p, <<>>, b)
                PROVE  /\ prog' = [prog EXCEPT !["binder"] = b] /\ UNCHANGED thrown
                       /\ b # <<>> => Heard(b)' /\ Behind' /\ (Announced("STOPPING") => Announced("STOPPING")')
    OBVIOUS
  <2>1. prog' = [prog EXCEPT !["binder"] = b] /\ UNCHANGED thrown
    BY DEF Moves
  <2>. HIDE DEF p
  <2>. QED BY <1>1, <1>3, <1>4, <2>1, HeardStep
<1>. HIDE DEF p
<1>6. ASSUME NEW q \in Seq(Steps), prog' = [prog EXCEPT !["binder"] = q], q # <<>>, UNCHANGED thrown
      PROVE  Heard(q)' /\ Behind' /\ (Announced("STOPPING") => Announced("STOPPING")')
  <2>1. prog'["binder"] = q
    BY <1>1, <1>6 DEF Typed
  <2>2. PICK b \in Seq(StopSteps) : Moves("binder", p, <<>>, b)
    BY <1>1, <1>4, <1>6, <2>1 DEF Typed
  <2>3. prog'["binder"] = b
    BY <1>1, <1>5, <2>2 DEF Typed
  <2>. QED BY <1>5, <1>6, <2>1, <2>2, <2>3
<1>7. CASE Stopping(p, {<<>>})
  <2>1. /\ UNCHANGED overlapped /\ Hushed
        /\ \/ Snags("binder", p)
           \/ /\ UNCHANGED thrown
              /\ \E q \in Seq(Steps) :
                   /\ prog' = [prog EXCEPT !["binder"] = q \o <<>>] /\ Announces(p, q)
                   /\ IF q = <<>> THEN Resting' ELSE Stopping(q, {<<>>})' \/ ({<<>>} = Rests /\ Starting(q)')
    BY <1>1, <1>2, <1>7, StopStep DEF p
  <2>2. CASE Snags("binder", p)
    <3>1. /\ thrown' = thrown \union {"binder"} /\ prog' = [prog EXCEPT !["binder"] = <<>>]
          /\ UNCHANGED <<mState, posts, field, childless>>
          /\ Head(p)[1] = "destroy" /\ Head(p)[2] \in Processes /\ Childless(Head(p)[2])
      BY <2>2 DEF Snags, sessions
    <3>2. CutShort'
      BY <3>1 DEF CutShort, Childless
    <3>3. Announced("STOPPING")
      <4>1. 1 \in 1..Len(p) /\ Head(p) = p[1] /\ 1..(1 - 1) = {}
        BY <1>3
      <4>. QED BY <1>3, <3>1, <4>1 DEF Heard
    <3>4. Halted'
      BY <1>3, <3>1, <3>2, <3>3 DEF Halted, Announced, Behind
    <3>. QED BY <2>1, <3>1, <3>4
  <2>3. CASE ~Snags("binder", p)
    <3>1. PICK q \in Seq(Steps) :
            /\ UNCHANGED thrown /\ prog' = [prog EXCEPT !["binder"] = q]
            /\ IF q = <<>> THEN Resting' ELSE Stopping(q, {<<>>})'
      BY <1>1, <2>1, <2>3
    <3>2. q # <<>> => Revoking(q)'
      BY <1>6, <3>1 DEF Revoking
    <3>. QED BY <2>1, <3>1, <3>2
  <2>. QED BY <2>2, <2>3
<1>8. CASE Blocked(p, {<<>>}) /\ Announced("STOPPING")
  <2>1. /\ UNCHANGED <<mState, overlapped>> /\ Hushed
        /\ \/ /\ thrown' = thrown \union {"binder"} /\ prog' = [prog EXCEPT !["binder"] = <<>>]
              /\ posts' = posts /\ CutShort'
           \/ /\ UNCHANGED thrown
              /\ \E q \in Seq(Steps) :
                   prog' = [prog EXCEPT !["binder"] = q \o <<>>] /\ q # <<>> /\ Blocked(q, {<<>>})' /\ Announces(p, q)
    BY <1>1, <1>2, <1>8, BlockedStep DEF p
  <2>2. CASE /\ thrown' = thrown \union {"binder"} /\ prog' = [prog EXCEPT !["binder"] = <<>>]
             /\ posts' = posts /\ CutShort'
    <3>1. Halted'
      BY <1>3, <1>8, <2>1, <2>2 DEF Halted, Announced, Behind
    <3>. QED BY <2>1, <2>2, <3>1
  <2>3. ASSUME UNCHANGED thrown, NEW q \in Seq(Steps), prog' = [prog EXCEPT !["binder"] = q \o <<>>],
               q # <<>>, Blocked(q, {<<>>})'
        PROVE  prog' = [prog EXCEPT !["binder"] = q] /\ Revoking(q)'
    BY <1>1, <1>6, <1>8, <2>3 DEF Revoking
  <2>. QED BY <2>1, <2>2, <2>3
<1>. QED BY <1>7, <1>8 DEF Revoking, p

\* A state that is run leaves what was announced.
LEMMA RunPosts ==
  ASSUME Typed, RunPost
  PROVE  /\ Idle("main") /\ posts # <<>> /\ mState' = Head(posts) /\ posts' = Tail(posts)
         /\ UNCHANGED <<prog, field, live, childless, gen, mConfig, thrown, overlapped>>
         /\ Len(posts) \in Nat /\ Len(posts) > 0 /\ Head(posts) = posts[1]
         /\ Len(posts') = Len(posts) - 1 /\ \A i \in 1..(Len(posts) - 1) : posts'[i] = posts[i + 1]
         /\ posts' = <<>> <=> Len(posts) = 1
         /\ \A s \in States : Announced(s) => Announced(s)'
<1>1. /\ Idle("main") /\ posts # <<>> /\ mState' = Head(posts) /\ posts' = Tail(posts)
      /\ UNCHANGED <<prog, field, live, childless, gen, mConfig, thrown, overlapped>>
  BY DEF RunPost, sessions, started, revoking
<1>2. /\ Len(posts) \in Nat /\ Len(posts) > 0 /\ Head(posts) = posts[1]
      /\ Len(posts') = Len(posts) - 1 /\ \A i \in 1..(Len(posts) - 1) : posts'[i] = posts[i + 1]
      /\ posts' = <<>> <=> Len(posts) = 1
  <2>1. posts \in Seq(States) /\ posts # <<>>
    BY <1>1 DEF Typed
  <2>2. /\ Tail(posts) \in Seq(States) /\ Len(Tail(posts)) = Len(posts) - 1 /\ Len(posts) \in Nat /\ Len(posts) > 0
        /\ \A i \in 1..(Len(posts) - 1) : Tail(posts)[i] = posts[i + 1]
    BY <2>1, Tails
  <2>3. posts' = <<>> <=> Len(posts') = 0
    <3>1. posts' \in Seq(States)
      BY <1>1, <2>2
    <3>. QED BY <3>1
  <2>. QED BY <1>1, <2>1, <2>2, <2>3
<1>3. \A s \in States : Announced(s) => Announced(s)'
  <2>. SUFFICES ASSUME NEW s \in States, posts[Len(posts)] = s PROVE Announced(s)'
    BY <1>1 DEF Announced
  <2>1. CASE Len(posts) = 1
    BY <1>1, <1>2, <2>1 DEF Announced
  <2>2. CASE Len(posts) # 1
    <3>1. Len(posts') \in 1..(Len(posts) - 1) /\ Len(posts') + 1 = Len(posts)
      BY <1>2, <2>2
    <3>. QED BY <1>2, <2>2, <3>1 DEF Announced
  <2>. QED BY <2>1, <2>2
<1>. QED BY <1>1, <1>2, <1>3

LEMMA BehindPost == ASSUME Typed, Behind, RunPost PROVE Behind'
<1>1. /\ mState' = posts[1] /\ Len(posts) \in Nat /\ Len(posts) > 0 /\ Len(posts') = Len(posts) - 1
      /\ \A i \in 1..(Len(posts) - 1) : posts'[i] = posts[i + 1]
  BY RunPosts
<1>2. ASSUME NEW i \in 1..Len(posts), posts[i] = "STOPPED"
      PROVE  \E j \in i..Len(posts') : posts'[j] = "CONNECTING"
  <2>1. PICK j \in (i + 1)..Len(posts) : posts[j] = "CONNECTING"
    BY <1>2 DEF Behind
  <2>2. j - 1 \in i..Len(posts') /\ j - 1 \in 1..(Len(posts) - 1) /\ j - 1 + 1 = j
    BY <1>1, <2>1
  <2>. QED BY <1>1, <2>1, <2>2
<1>3. mState' = "STOPPED" => \E j \in 1..Len(posts') : posts'[j] = "CONNECTING"
  <2>1. 1 \in 1..Len(posts)
    BY <1>1
  <2>. QED BY <1>1, <1>2, <2>1
<1>4. ASSUME NEW i \in 1..Len(posts'), posts'[i] = "STOPPED"
      PROVE  \E j \in (i + 1)..Len(posts') : posts'[j] = "CONNECTING"
  <2>1. i + 1 \in 1..Len(posts) /\ posts[i + 1] = "STOPPED"
    BY <1>1, <1>4
  <2>. QED BY <1>2, <2>1
<1>. QED BY <1>3, <1>4 DEF Behind

LEMMA RestingPost == ASSUME Typed, AtRest, RunPost PROVE AtRest'
<1>1. /\ Idle("main") /\ posts # <<>> /\ mState' = Head(posts) /\ posts' = Tail(posts)
      /\ UNCHANGED <<prog, field, live, childless, gen, mConfig, thrown, overlapped>>
      /\ \A s \in States : Announced(s) => Announced(s)'
  BY RunPosts
<1>2. /\ Len(posts) \in Nat /\ Len(posts) > 0 /\ Head(posts) = posts[1]
      /\ Len(posts') = Len(posts) - 1 /\ \A i \in 1..(Len(posts) - 1) : posts'[i] = posts[i + 1]
      /\ posts' = <<>> <=> Len(posts) = 1
  BY RunPosts
<1>4. ASSUME Len(posts) > 1, posts[Len(posts) - 1] = "CONNECTING"
      PROVE  /\ Len(posts') = 1 => mState' = "CONNECTING"
             /\ Len(posts') > 1 => posts'[Len(posts') - 1] = "CONNECTING"
  <2>1. Len(posts') = 1 => Len(posts) - 1 = 1
    BY <1>2
  <2>2. Len(posts') > 1 => Len(posts') - 1 \in 1..(Len(posts) - 1) /\ Len(posts') - 1 + 1 = Len(posts) - 1
    BY <1>2
  <2>. QED BY <1>1, <1>2, <1>4, <2>1, <2>2
<1>5. CASE Resting
  <2>1. CASE (\A k \in Kinds : Clean(k)) /\ Announced("STOPPED")
    <3>1. \A k \in Kinds : Clean(k)'
      BY <1>1, <2>1 DEF Clean, Held
    <3>2. Announced("STOPPED")'
      BY <1>1, <2>1 DEF States
    <3>. QED BY <3>1, <3>2 DEF Resting, AtRest
  <2>2. CASE /\ gen # 0 /\ (\A k \in Kinds : IF k \in Wanted THEN Made(k) ELSE Clean(k))
             /\ <<"tun2socks", gen>> \notin childless /\ Announced("CONNECTED")
             /\ Len(posts) > 1 => posts[Len(posts) - 1] = "CONNECTING"
    <3>1. /\ gen' # 0 /\ <<"tun2socks", gen'>> \notin childless'
          /\ \A k \in Kinds : IF k \in Wanted' THEN Made(k)' ELSE Clean(k)'
      BY <1>1, <2>2 DEF Made, Clean, Held, Wanted
    <3>2. Announced("CONNECTED")'
      BY <1>1, <2>2 DEF States
    <3>3. Len(posts) = 1 => ~(Len(posts') = 1) /\ ~(Len(posts') > 1)
      BY <1>2
    <3>4. Len(posts) = 1 \/ Len(posts) > 1
      BY <1>2
    <3>5. /\ Len(posts') = 1 => mState' = "CONNECTING"
          /\ Len(posts') > 1 => posts'[Len(posts') - 1] = "CONNECTING"
      BY <1>4, <2>2, <3>3, <3>4
    <3>. QED BY <3>1, <3>2, <3>5 DEF Resting, AtRest
  <2>. QED BY <1>1, <1>5, <2>1, <2>2 DEF Resting
<1>6. CASE Halted
  <2>1. CutShort' /\ Announced("STOPPING")'
    BY <1>1, <1>6 DEF Halted, CutShort, Childless, States
  <2>. QED BY <1>6, <2>1, BehindPost DEF Halted, AtRest
<1>. QED BY <1>5, <1>6 DEF AtRest

LEMMA RevokingPost == ASSUME Typed, NEW p, Revoking(p), RunPost PROVE Revoking(p)'
<1>1. /\ UNCHANGED <<prog, field, live, childless, gen, mConfig, thrown, overlapped>>
      /\ Announced("STOPPING") => Announced("STOPPING")'
  BY RunPosts DEF States
<1>2. Heard(p)' /\ Behind'
  BY <1>1, BehindPost DEF Revoking, Heard
<1>3. Stopping(p, {<<>>}) => Stopping(p, {<<>>})'
  BY <1>1 DEF Stopping, Stops, Clean, Going, Made, Cut, Held
<1>4. Blocked(p, {<<>>}) => Blocked(p, {<<>>})'
  BY <1>1 DEF Blocked, Childless
<1>. QED BY <1>1, <1>2, <1>3, <1>4 DEF Revoking

LEMMA StopsInSteps == \A p, R : R \in {Rests, {<<>>}} /\ Stopping(p, R) => p \in Seq(Steps) /\ p # <<>>
<1>. SUFFICES ASSUME NEW R \in {Rests, {<<>>}}, NEW a \in Seq(StopSteps), NEW r \in R, Closed(a, r)
              PROVE  a \o r \in Seq(Steps) /\ a \o r # <<>>
  BY DEF Stopping
<1>1. r \in Seq(Steps) /\ a \in Seq(Steps)
  <2>1. r \in Rests
    BY DEF Rests
  <2>. QED BY <2>1, RestTypes DEF Steps
<1>. QED BY <1>1 DEF Closed

LEMMA NotRevoked == ~Revoking(<<>>)
<1>1. ~Stopping(<<>>, {<<>>})
  <2>. SUFFICES ASSUME NEW a \in Seq(StopSteps), <<>> = a \o <<>>, a # <<>> PROVE FALSE
    BY DEF Stopping, Closed
  <2>. QED OBVIOUS
<1>2. ~Blocked(<<>>, {<<>>})
  <2>. SUFFICES ASSUME NEW a \in Seq(StopSteps), <<>> = a \o <<>>, a # <<>> PROVE FALSE
    BY ClearsSome DEF Blocked
  <2>. QED OBVIOUS
<1>. QED BY <1>1, <1>2 DEF Revoking

LEMMA ModeNext == Typed /\ Mode /\ [Next]_svcVars => Mode'
<1>. SUFFICES ASSUME Typed, Mode, [Next]_svcVars, ~overlapped' PROVE Mode'
  BY DEF Mode
<1>1. CASE UNCHANGED svcVars
  BY <1>1, Still DEF svcVars, Mode, Idle
<1>2. CASE Next
  <2>1. ~overlapped
    BY <1>2, Overlaps DEF Next
  <2>2. /\ "main" \notin thrown
        /\ \/ Idle("binder") /\ prog["main"] \in Seq(Steps) /\ Doing(prog["main"])
           \/ Idle("main") /\ Revoking(prog["binder"])
    BY <1>2, <2>1 DEF Mode, Next
  <2>11. Idle("main") /\ Idle("binder") => AtRest
    BY <2>2, NotRevoked DEF Doing, Idle
  <2>3. "main" \in Threads /\ "binder" \in Threads /\ \A t \in Threads : t = "main" \/ t = "binder"
    BY DEF Threads
  <2>4. ASSUME Step("main") PROVE Mode'
    <3>1. prog["main"] # <<>> /\ <<>> \in Seq(ClientSteps)
      BY <2>4, StepsAreThere
    <3>2. Idle("binder") /\ prog["main"] \in Seq(Steps) /\ Doing(prog["main"])
      BY <2>2, <3>1 DEF Idle
    <3>3. prog["main"] = prog["main"] \o <<>> /\ \A b \in Seq(Steps) : b \o <<>> = b
      BY <3>2
    <3>4. \/ /\ thrown' = thrown \union {"main"}
             /\ prog' = [prog EXCEPT !["main"] = <<>>]
          \/ /\ thrown' = thrown
             /\ \E b \in Seq(Steps) : /\ prog' = [prog EXCEPT !["main"] = b \o <<>>]
                                    /\ Doing(b)' /\ Announces(prog["main"], b)
      BY <2>4, <3>1, <3>2, <3>3, MainStep
    <3>5. CASE /\ thrown' = thrown \union {"main"}
               /\ prog' = [prog EXCEPT !["main"] = <<>>]
      BY <2>3, <3>5 DEF Mode, Idle, Typed
    <3>6. ASSUME thrown' = thrown, NEW b \in Seq(Steps), prog' = [prog EXCEPT !["main"] = b], Doing(b)'
          PROVE  Mode'
      <4>1. Idle("binder")' /\ prog'["main"] = b
        BY <2>3, <3>2, <3>6 DEF Idle, Typed
      <4>2. Doing(prog["main"])'
        BY <3>6, <4>1
      <4>. QED BY <2>2, <3>6, <4>1, <4>2 DEF Mode
    <3>. QED BY <3>3, <3>4, <3>5, <3>6
  <2>5. ASSUME Step("binder") PROVE Mode'
    <3>1. prog["binder"] # <<>>
      BY <2>5, StepsAreThere
    <3>2. Idle("main") /\ Revoking(prog["binder"])
      BY <2>2, <3>1 DEF Idle
    <3>3. \/ /\ thrown' = thrown \union {"binder"} /\ prog' = [prog EXCEPT !["binder"] = <<>>]
             /\ Halted'
          \/ /\ UNCHANGED thrown
             /\ \E b : /\ prog' = [prog EXCEPT !["binder"] = b]
                       /\ IF b = <<>> THEN Resting' ELSE Revoking(b)'
      BY <2>5, <3>2, BinderStep
    <3>4. "main" \notin thrown'
      BY <2>2, <3>3
    <3>5. ASSUME NEW q, prog' = [prog EXCEPT !["binder"] = q], IF q = <<>> THEN AtRest' ELSE Revoking(q)'
          PROVE  Mode'
      <4>1. Idle("main")' /\ prog'["binder"] = q /\ prog'["main"] = <<>>
        BY <2>3, <3>2, <3>5 DEF Idle, Typed
      <4>2. CASE q = <<>>
        <5>1. Doing(prog["main"])'
          BY <3>5, <4>1, <4>2 DEF Doing
        <5>2. (prog["main"] \in Seq(Steps))'
          BY <4>1
        <5>. QED BY <3>4, <4>1, <4>2, <5>1, <5>2 DEF Mode, Idle
      <4>3. CASE q # <<>>
        <5>1. Revoking(prog["binder"])'
          BY <3>5, <4>1, <4>3
        <5>. QED BY <3>4, <4>1, <5>1 DEF Mode
      <4>4. \A m \in Nat : m > 0 /\ m # 1 => m > 1
        OBVIOUS
      <4>. QED BY <4>2, <4>3, <4>4
    <3>. QED BY <3>3, <3>5 DEF AtRest
  <2>6. CASE RunPost
    <3>1. Idle("main") /\ UNCHANGED <<prog, thrown>>
      BY <2>6, RunPosts
    <3>2. CASE Revoking(prog["binder"])
      <4>1. Revoking(prog["binder"])'
        BY <2>6, <3>1, <3>2, RevokingPost
      <4>. QED BY <2>2, <3>1, <4>1 DEF Mode, Idle
    <3>3. CASE Idle("binder")
      <4>1. AtRest'
        BY <2>6, <2>11, <3>1, <3>3, RestingPost
      <4>2. Doing(prog["main"])' /\ (prog["main"] \in Seq(Steps))'
        <5>1. prog["main"] = <<>> /\ prog'["main"] = <<>>
          BY <3>1 DEF Idle
        <5>2. <<>> \in Seq(Steps)
          OBVIOUS
        <5>. QED BY <4>1, <5>1, <5>2 DEF Doing
      <4>. QED BY <2>2, <3>1, <3>3, <4>2 DEF Mode, Idle
    <3>. QED BY <2>2, <3>2, <3>3
  <2>7. ASSUME NEW s \in Seq(Steps), Runs("main", s), UNCHANGED <<mState, posts, sessions, thrown>>, AtRest => Doing(s)
        PROVE  Mode'
    <3>1. Idle("main") /\ Idle("binder")
      BY <2>3, <2>7 DEF Runs
    <3>2. Doing(s)
      BY <2>7, <2>11, <3>1
    <3>3. prog' = [prog EXCEPT !["main"] = s] /\ UNCHANGED <<mState, posts, field, live, childless, gen, mConfig, thrown>>
      BY <2>7 DEF Runs, sessions, started
    <3>4. prog'["main"] = s /\ prog'["binder"] = prog["binder"]
      BY <2>3, <3>3 DEF Typed
    <3>5. Doing(prog["main"])'
      BY <3>2, <3>3, <3>4, Still
    <3>. QED BY <2>2, <3>1, <3>3, <3>4, <3>5 DEF Mode, Idle
  <2>8. CASE CloseBroadcast
    <3>1. Runs("main", StopRunner) /\ UNCHANGED <<mState, posts, sessions, thrown>>
      BY <2>8 DEF CloseBroadcast, Calls
    <3>. QED BY <2>7, <3>1, RestingStops, HaltedStops, ProgramTypes DEF AtRest
  <2>9. CASE CallUse
    <3>1. UNCHANGED <<mState, posts, sessions, thrown>> /\ \A i \in DOMAIN posts : posts[i] # "CONNECTING"
      BY <2>9 DEF CallUse
    <3>2. AtRest => Doing(<<>>)
      BY DEF Doing
    <3>3. CASE Calls(UseNull)
      <4>1. Runs("main", UseNull)
        BY <3>3 DEF Calls
      <4>2. AtRest => Doing(UseNull)
        BY <3>2, RestingStops, HaltedStops DEF UseNull, AtRest
      <4>. QED BY <2>7, <3>1, <4>1, <4>2, UseTypes
    <3>4. ASSUME NEW c \in Configs, Calls(UseConfig(c)) PROVE Mode'
      <4>1. Runs("main", UseConfig(c))
        BY <3>4 DEF Calls
      <4>2. AtRest => Doing(UseConfig(c))
        BY <3>1, <3>2, RestingStops, HaltedStops DEF UseConfig, AtRest
      <4>. QED BY <2>7, <3>1, <4>1, <4>2, UseTypes
    <3>. QED BY <2>9, <3>3, <3>4 DEF CallUse
  <2>10. CASE Revoke
    <3>1. Idle("main") /\ Idle("binder")
      BY <2>3, <2>10 DEF Revoke, Runs
    <3>2. AtRest /\ \E n \in 1..gen : <<"conn", n>> \in live
      BY <2>10, <2>11, <3>1 DEF Revoke
    <3>3. Revoking(StopRunner)
      BY <3>2, RevokeBegins
    <3>4. prog' = [prog EXCEPT !["binder"] = StopRunner] /\ UNCHANGED <<mState, posts, field, live, childless, gen, mConfig, thrown>>
      BY <2>10 DEF Revoke, Runs, sessions, started
    <3>5. prog'["binder"] = StopRunner /\ prog'["main"] = prog["main"]
      BY <2>3, <3>4 DEF Typed
    <3>6. Revoking(prog["binder"])'
      BY <3>3, <3>4, <3>5, Still
    <3>. QED BY <2>2, <3>1, <3>4, <3>5, <3>6 DEF Mode, Idle
  <2>. QED BY <1>2, <2>3, <2>4, <2>5, <2>6, <2>8, <2>9, <2>10 DEF Next
<1>. QED BY <1>1, <1>2

LEMMA Inductive == Spec => [](Typed /\ Mode)
<1>1. Init => Typed /\ Mode
  BY TypedInit, ModeInit
<1>2. Typed /\ Mode /\ [Next]_svcVars => (Typed /\ Mode)'
  BY TypedNext, ModeNext
<1>. QED BY <1>1, <1>2, PTL DEF Spec

LEMMA WholeFromMode == Typed /\ Mode => SessionsWhole
<1>. DEFINE Complete == /\ live = Wanted \X {gen}
                        /\ field = [k \in Kinds |-> IF k \in Wanted THEN gen ELSE 0]
                        /\ <<"tun2socks", gen>> \notin childless
<1>. SUFFICES ASSUME Typed, Mode, ~overlapped, Quiet
              PROVE  /\ mState = "STOPPED" => live = {}
                     /\ mState = "CONNECTED" => Complete
                     /\ mState \notin {"STOPPED", "CONNECTED"} => mState = "STOPPING" /\ CutShort
  BY DEF SessionsWhole, StoppedIsClean, ConnectedIsComplete, StoppingIsCutShort
<1>. HIDE DEF Complete
<1>1. posts = <<>> /\ Idle("main") /\ Idle("binder") /\ "main" \notin thrown
  BY DEF Quiet, Threads
<1>2. AtRest
  BY <1>1, NotRevoked DEF Mode, Doing, Idle
<1>3. \A o \in live : o[1] \in Kinds /\ o = <<o[1], o[2]>> /\ o \in Held(o[1])
  BY DEF Typed, Held
<1>4. CASE Halted
  BY <1>1, <1>4 DEF Halted, Announced
<1>5. CASE Resting
  <2>1. mState \in {"STOPPED", "CONNECTED"}
    BY <1>1, <1>5 DEF Resting, Announced
  <2>2. ASSUME mState = "STOPPED" PROVE live = {}
    <3>1. \A k \in Kinds : Clean(k)
      BY <1>1, <1>5, <2>2 DEF Resting, Announced
    <3>. QED BY <1>3, <3>1 DEF Clean
  <2>3. ASSUME mState = "CONNECTED" PROVE Complete
    <3>1. /\ \A k \in Kinds : IF k \in Wanted THEN field[k] = gen /\ Held(k) = {<<k, gen>>}
                                             ELSE field[k] = 0 /\ Held(k) = {}
          /\ <<"tun2socks", gen>> \notin childless
      BY <1>1, <1>5, <2>3 DEF Resting, Announced, Made, Clean
    <3>2. field = [k \in Kinds |-> IF k \in Wanted THEN gen ELSE 0]
      BY <3>1 DEF Typed
    <3>3. live \subseteq Wanted \X {gen}
      BY <1>3, <3>1
    <3>4. \A k \in Wanted : k \in Kinds
      BY DEF Wanted
    <3>5. \A k \in Wanted : <<k, gen>> \in live
      BY <3>1, <3>4 DEF Held
    <3>6. live = Wanted \X {gen}
      BY <3>3, <3>5
    <3>. QED BY <3>1, <3>2, <3>6 DEF Complete
  <2>. QED BY <2>1, <2>2, <2>3
<1>. QED BY <1>2, <1>4, <1>5 DEF AtRest

LEMMA ResetFromMode == Typed /\ Mode => ContextResetAlone
<1>. SUFFICES ASSUME Typed, Mode, ~overlapped, At("main", "resolve"), NEW o \in live PROVE o[2] = gen
  BY DEF ContextResetAlone, ContextReset
<1>1. prog["main"] # <<>> /\ Head(prog["main"])[1] = "resolve"
  BY DEF At, Idle
<1>2. ~Stopping(prog["main"], Rests)
  <2>. SUFFICES ASSUME NEW a \in Seq(StopSteps), NEW r \in Rests, prog["main"] = a \o r, Closed(a, r) PROVE FALSE
    BY DEF Stopping
  <2>1. CASE a # <<>>
    <3>1. Head(a) \in StopSteps /\ a \in Seq(Steps) /\ r \in Seq(Steps)
      BY <2>1, RestTypes DEF Steps
    <3>2. Head(prog["main"]) = Head(a)
      BY <2>1, <3>1, TailOfConcat
    <3>. QED BY <1>1, <3>1, <3>2 DEF StopSteps
  <2>2. CASE a = <<>>
    <3>1. prog["main"] = r /\ r # <<>>
      BY <2>2, RestTypes DEF Closed
    <3>2. ASSUME NEW c \in Configs PROVE Head(StartRunner(c))[1] = "begin"
      BY DEF StartRunner, Make, Post, KillProcesses, Drop
    <3>3. r # << <<"send", "tun2socks">> >>
      BY <1>1, <3>1
    <3>. QED BY <1>1, <3>1, <3>2, <3>3 DEF Rests
  <2>. QED BY <2>1, <2>2
<1>6. ~Blocked(prog["main"], Rests)
  <2>. SUFFICES ASSUME NEW k, NEW a \in Seq(StopSteps), NEW r \in Rests, prog["main"] = a \o r, Clears(a, k) PROVE FALSE
    BY DEF Blocked
  <2>1. a # <<>>
    BY ClearsSome
  <2>2. Head(a) \in StopSteps /\ a \in Seq(Steps) /\ r \in Seq(Steps)
    BY <2>1, RestTypes DEF Steps
  <2>3. Head(prog["main"]) = Head(a)
    BY <2>1, <2>2, TailOfConcat
  <2>. QED BY <1>1, <2>2, <2>3 DEF StopSteps
<1>3. Starting(prog["main"])
  BY <1>1, <1>2, <1>6 DEF Mode, Doing, Idle
<1>4. o[1] \in Kinds /\ o \in Held(o[1])
  BY DEF Typed, Held
<1>5. o = <<o[1], gen>>
  BY <1>3, <1>4 DEF Starting, Stands, Clean, Made
<1>. QED BY <1>5

-----------------------------------------------------------------------------
(* The fragment.                                                           *)

\* What the fragment has still to do: its steps of a start, and those of onResume().
Switch == <<"switch", "">>
Update == <<"update", "">>
Loads == {Load(p) : p \in Proxies}
Fore == {<<>>, <<Switch>>} \union Loads
Aft == {<<>>, <<Update>>} \union {Resume(p) : p \in Proxies}

\* A CONNECTING is still to be run, or to be posted.
Pending == \E i \in 1..Len(posts) : posts[i] = "CONNECTING"
Starts(q) == Pending \/ Has(q, Connecting)

\* A CONNECTED stands right behind its CONNECTING, one session starts at a time, and only
\* once the service is stopped.
Ordered(q) ==
  /\ \A i \in 1..Len(posts) : posts[i] = "CONNECTED" =>
       IF i = 1 THEN mState = "CONNECTING" ELSE posts[i - 1] = "CONNECTING"
  /\ \A i \in 1..Len(posts) : posts[i] = "CONNECTING" =>
       mState # "CONNECTED" /\ \A j \in 1..(i - 1) : posts[j] \notin {"CONNECTING", "CONNECTED"}
  /\ Has(q, Connecting) =>
       mState = "STOPPED" /\ \A i \in 1..Len(posts) : posts[i] \notin {"CONNECTING", "CONNECTED"}
  /\ gen # 0 => mConfig.profileId \in Profiles
  /\ mState = "CONNECTED" \/ (\E i \in 1..Len(posts) : posts[i] = "CONNECTED") => gen # 0

\* The fragment's copy of the state, and the side its button is on.
Shows ==
  /\ uiState = mState
  /\ mState = "CONNECTED" => isServiceStarted
  /\ mState = "STOPPED" => ~isServiceStarted

\* Whatever lets the fragment ask for a session (a load, a button that says connected, an
\* accepted click, an open dialog) stands against a start under way, or behind it.
Fragment(q, x, y) ==
  /\ q # <<>> => x \notin Loads /\ (x = <<>> => y = <<>>)
  /\ x \in Loads \/ (isServiceStarted /\ x = <<>>) => ~Starts(q)
  /\ clicks # <<>> =>
       /\ Len(clicks) = 1 /\ x = <<>> /\ y = <<>> /\ ~Has(q, Connecting)
       /\ \A i \in 1..Len(posts) : posts[i] = "CONNECTING" => i =< clicks[1]
  /\ dialogs # 0 => dialogs = 1 /\ ~consent /\ x \notin Loads /\ y = <<>> /\ ~Starts(q)
  /\ registered => bound /\ (y = <<>> => Shows) /\ (x # <<>> => y # <<>> \/ mState # "CONNECTED")

\* The main thread does its service's steps, or the binder thread revokes a session.
Served(q) ==
  \/ Idle("binder") /\ Doing(q)
  \/ Idle("main") /\ Revoking(prog["binder"])

Now(q, x, y) == prog["main"] = q \o (x \o y) /\ Served(q) /\ Ordered(q) /\ Fragment(q, x, y)

\* The service's invariant, with the fragment's steps behind the service's.
AppMode == ~overlapped =>
  IF "main" \in thrown THEN Idle("main")
  ELSE \E q \in Seq(Steps), x \in Fore, y \in Aft : Now(q, x, y)

\* The fragment's types; a fragment without a view gets no callbacks.
AppTyped ==
  /\ Typed
  /\ uiState \in States /\ clicks \in Seq(Nat) /\ dialogs \in Nat
  /\ {isServiceStarted, registered, bound, consent} \subseteq BOOLEAN
  /\ view = "none" => ~registered

\* What the screens do: every Config has the profile -1, and a dialog covers the button.
OneProfile == \A p, r \in Profiles : p = r
OneDialog == MaxDialogs =< 1

LEMMA FragmentSteps ==
  ASSUME NEW x \in Fore, NEW y \in Aft
  PROVE  /\ x \in Seq(ClientSteps) /\ y \in Seq(ClientSteps) /\ x \o y \in Seq(ClientSteps)
         /\ x \o y = <<>> => x = <<>> /\ y = <<>>
         /\ x = <<>> => x \o y = y
         /\ x # <<>> => x \o y # <<>> /\ Head(x \o y) = Head(x) /\ Tail(x \o y) = Tail(x) \o y
<1>1. Switch \in ClientSteps /\ Update \in ClientSteps
      /\ \A p \in Proxies : <<"load", p>> \in ClientSteps /\ <<"reload", p>> \in ClientSteps
  BY DEF Switch, Update, ClientSteps
<1>6. \A a, b \in ClientSteps : <<a, b>> \in Seq(ClientSteps)
  OBVIOUS
<1>2. x \in Seq(ClientSteps)
  <2>1. \A p \in Proxies : Load(p) \in Seq(ClientSteps)
    BY <1>1, <1>6 DEF Load, Switch
  <2>2. <<>> \in Seq(ClientSteps) /\ <<Switch>> \in Seq(ClientSteps)
    BY <1>1
  <2>. QED BY <2>1, <2>2 DEF Fore, Loads
<1>3. y \in Seq(ClientSteps)
  <2>1. \A p \in Proxies : Resume(p) \in Seq(ClientSteps)
    BY <1>1, <1>6 DEF Resume, Update
  <2>2. <<>> \in Seq(ClientSteps) /\ <<Update>> \in Seq(ClientSteps)
    BY <1>1
  <2>. QED BY <2>1, <2>2 DEF Aft
<1>4. x \o y \in Seq(ClientSteps) /\ (x \o y = <<>> => x = <<>> /\ y = <<>>) /\ (x = <<>> => x \o y = y)
  BY <1>2, <1>3
<1>5. x # <<>> => x \o y # <<>> /\ Head(x \o y) = Head(x) /\ Tail(x \o y) = Tail(x) \o y
  BY <1>2, <1>3, TailOfConcat
<1>. QED BY <1>2, <1>3, <1>4, <1>5

\* A step shows no state, and a session that begins is of a profile there is.
LEMMA StepKeeps ==
  ASSUME Typed, NEW t \in Threads, Step(t)
  PROVE  /\ mState' = mState
         /\ UNCHANGED <<gen, mConfig>> \/ (gen' = gen + 1 /\ (mConfig.profileId)' \in Profiles)
<1>1. CASE Begin(t)
  <2>1. prog[t] # <<>> /\ Head(prog[t])[1] = "begin" /\ prog[t] \in Seq(AllSteps)
    BY <1>1 DEF Begin, At, Idle, Typed
  <2>2. Head(prog[t]) \in AllSteps
    BY <2>1
  <2>3. Head(prog[t]) \in Steps
    BY <2>1, <2>2, ClientNames DEF AllSteps
  <2>4. Head(prog[t])[2] \in Configs
    BY <2>1, <2>3 DEF Steps, StopSteps
  <2>5. Head(prog[t])[2].profileId \in Profiles
    BY <2>4 DEF Configs
  <2>. QED BY <1>1, <2>5 DEF Begin, Arg
<1>2. CASE ~Begin(t)
  BY <1>2 DEF Step, MakeThrows, MakeObject, AlreadyRegistered, TestField, DestroyObject, ClearField, PostState, Resolve,
     ResolveThrows, Establish, EstablishFails, GetFd, Send, SendFails, sessions, started
<1>. QED BY <1>1, <1>2

\* What a step announces: no start but one that was to come.
LEMMA AnnouncesStart ==
  ASSUME Typed, NEW q, NEW b, Announces(q, b)
  PROVE  /\ Starts(b)' => Starts(q)
         /\ ~Has(q, Connecting) =>
              \A i \in 1..Len(posts') : posts'[i] = "CONNECTING" => i \in 1..Len(posts) /\ posts[i] = "CONNECTING"
<1>1. posts \in Seq(States) /\ Len(posts) \in Nat
  BY DEF Typed
<1>2. ASSUME NEW s, posts' = Append(posts, s), s \in States
      PROVE  /\ Len(posts') = Len(posts) + 1 /\ posts'[Len(posts) + 1] = s
             /\ \A i \in 1..Len(posts) : posts'[i] = posts[i]
  BY <1>1, <1>2, AppendProperties
<1>3. ASSUME NEW s \in {"STOPPING", "STOPPED", "CONNECTED"}, posts' = Append(posts, s),
             NEW i \in 1..Len(posts'), posts'[i] = "CONNECTING"
      PROVE  i \in 1..Len(posts) /\ posts[i] = "CONNECTING"
  <2>1. s \in States
    BY DEF States
  <2>2. /\ Len(posts') = Len(posts) + 1 /\ posts'[Len(posts) + 1] = s
        /\ \A j \in 1..Len(posts) : posts'[j] = posts[j]
    BY <1>2, <1>3, <2>1
  <2>3. i # Len(posts) + 1
    BY <1>3, <2>2
  <2>. QED BY <1>1, <1>3, <2>2, <2>3
<1>4. CASE posts' = posts
  BY <1>4 DEF Starts, Pending, Announces, Has
<1>5. CASE posts' = Append(posts, "CONNECTING") /\ Has(q, Connecting)
  BY <1>5 DEF Starts
<1>6. ASSUME NEW s \in {"STOPPING", "STOPPED", "CONNECTED"}, posts' = Append(posts, s)
      PROVE  /\ Starts(b)' => Starts(q)
             /\ \A i \in 1..Len(posts') : posts'[i] = "CONNECTING" => i \in 1..Len(posts) /\ posts[i] = "CONNECTING"
  <2>1. \A i \in 1..Len(posts') : posts'[i] = "CONNECTING" => i \in 1..Len(posts) /\ posts[i] = "CONNECTING"
    BY <1>3, <1>6
  <2>. QED BY <2>1 DEF Starts, Pending, Announces, Has
<1>. QED BY <1>4, <1>5, <1>6 DEF Announces, Hushed

LEMMA OrderedStep ==
  ASSUME Typed, NEW q, NEW b, Ordered(q), Announces(q, b), mState' = mState,
         UNCHANGED <<gen, mConfig>> \/ (gen' = gen + 1 /\ (mConfig.profileId)' \in Profiles)
  PROVE  Ordered(b)'
<1>1. posts \in Seq(States) /\ Len(posts) \in Nat /\ gen \in Nat
  BY DEF Typed
<1>2. ASSUME NEW s, posts' = Append(posts, s), s \in States
      PROVE  /\ Len(posts') = Len(posts) + 1 /\ posts'[Len(posts) + 1] = s
             /\ \A i \in 1..Len(posts) : posts'[i] = posts[i]
             /\ \A i \in 1..Len(posts') : i = Len(posts) + 1 \/ i \in 1..Len(posts)
             /\ \A i \in 1..Len(posts') : \A j \in 1..(i - 1) : j \in 1..Len(posts)
  <2>1. Len(posts') = Len(posts) + 1
    BY <1>1, <1>2, AppendProperties
  <2>. QED BY <1>1, <1>2, <2>1, AppendProperties
<1>3. (gen # 0 => gen' # 0) /\ (gen' # 0 => (mConfig.profileId)' \in Profiles)
  BY <1>1 DEF Ordered
<1>4. CASE posts' = posts
  BY <1>3, <1>4 DEF Ordered, Announces, Has
<1>5. ASSUME NEW s \in {"STOPPING", "STOPPED"}, posts' = Append(posts, s) PROVE Ordered(b)'
  <2>1. /\ Len(posts') = Len(posts) + 1 /\ posts'[Len(posts) + 1] = s
        /\ \A i \in 1..Len(posts) : posts'[i] = posts[i]
        /\ \A i \in 1..Len(posts') : i = Len(posts) + 1 \/ i \in 1..Len(posts)
        /\ \A i \in 1..Len(posts') : \A j \in 1..(i - 1) : j \in 1..Len(posts)
    BY <1>2, <1>5 DEF States
  <2>2. ASSUME NEW i \in 1..Len(posts'), posts'[i] \in {"CONNECTED", "CONNECTING"}
        PROVE  /\ i \in 1..Len(posts) /\ posts[i] = posts'[i]
               /\ i # 1 => posts'[i - 1] = posts[i - 1]
    <3>1. i \in 1..Len(posts)
      BY <2>1, <2>2
    <3>2. i # 1 => i - 1 \in 1..Len(posts)
      BY <1>1, <3>1
    <3>. QED BY <2>1, <3>1, <3>2
  <2>3. \A i \in 1..Len(posts') : posts'[i] = "CONNECTED" =>
          IF i = 1 THEN mState' = "CONNECTING" ELSE posts'[i - 1] = "CONNECTING"
    BY <2>2 DEF Ordered
  <2>4. \A i \in 1..Len(posts') : posts'[i] = "CONNECTING" =>
          mState' # "CONNECTED" /\ \A j \in 1..(i - 1) : posts'[j] \notin {"CONNECTING", "CONNECTED"}
    BY <2>1, <2>2 DEF Ordered
  <2>5. Has(b, Connecting) => mState' = "STOPPED" /\ \A i \in 1..Len(posts') : posts'[i] \notin {"CONNECTING", "CONNECTED"}
    BY <2>2 DEF Ordered, Announces
  <2>6. mState' = "CONNECTED" \/ (\E i \in 1..Len(posts') : posts'[i] = "CONNECTED") => gen' # 0
    BY <1>3, <2>2 DEF Ordered
  <2>. QED BY <1>3, <2>3, <2>4, <2>5, <2>6 DEF Ordered, Has
<1>6. CASE posts' = Append(posts, "CONNECTING") /\ Has(q, Connecting) /\ ~Has(b, Connecting)
  <2>1. /\ Len(posts') = Len(posts) + 1 /\ posts'[Len(posts) + 1] = "CONNECTING"
        /\ \A i \in 1..Len(posts) : posts'[i] = posts[i]
        /\ \A i \in 1..Len(posts') : i = Len(posts) + 1 \/ i \in 1..Len(posts)
        /\ \A i \in 1..Len(posts') : \A j \in 1..(i - 1) : j \in 1..Len(posts)
    BY <1>2, <1>6 DEF States
  <2>2. mState = "STOPPED" /\ \A i \in 1..Len(posts) : posts[i] \notin {"CONNECTING", "CONNECTED"}
    BY <1>6 DEF Ordered
  <2>. QED BY <1>3, <1>6, <2>1, <2>2 DEF Ordered, Has
<1>7. CASE posts' = Append(posts, "CONNECTED") /\ posts # <<>> /\ posts[Len(posts)] = "CONNECTING" /\ gen # 0
  <2>1. /\ Len(posts') = Len(posts) + 1 /\ posts'[Len(posts) + 1] = "CONNECTED"
        /\ \A i \in 1..Len(posts) : posts'[i] = posts[i]
        /\ \A i \in 1..Len(posts') : i = Len(posts) + 1 \/ i \in 1..Len(posts)
        /\ \A i \in 1..Len(posts') : \A j \in 1..(i - 1) : j \in 1..Len(posts)
    BY <1>2, <1>7 DEF States
  <2>2. Len(posts) \in 1..Len(posts) /\ Len(posts) # 0 /\ Len(posts) + 1 - 1 = Len(posts) /\ Len(posts) + 1 # 1
    BY <1>1, <1>7
  <2>3. ~Has(b, Connecting)
    BY <1>7, <2>2 DEF Ordered, Announces
  <2>4. ASSUME NEW i \in 1..Len(posts'), posts'[i] = "CONNECTED"
        PROVE  IF i = 1 THEN mState' = "CONNECTING" ELSE posts'[i - 1] = "CONNECTING"
    <3>1. CASE i = Len(posts) + 1
      BY <1>7, <2>1, <2>2, <3>1
    <3>2. CASE i \in 1..Len(posts)
      <4>1. i # 1 => i - 1 \in 1..Len(posts)
        BY <1>1, <3>2
      <4>2. posts[i] = "CONNECTED"
        BY <2>1, <2>4, <3>2
      <4>. QED BY <2>1, <3>2, <4>1, <4>2 DEF Ordered
    <3>. QED BY <2>1, <3>1, <3>2
  <2>5. \A i \in 1..Len(posts') : posts'[i] = "CONNECTING" =>
          mState' # "CONNECTED" /\ \A j \in 1..(i - 1) : posts'[j] \notin {"CONNECTING", "CONNECTED"}
    BY <2>1 DEF Ordered
  <2>. QED BY <1>3, <1>7, <2>3, <2>4, <2>5 DEF Ordered, Has
<1>. QED BY <1>4, <1>5, <1>6, <1>7 DEF Announces, Hushed

\* The posts left when the first one is run.
LEMMA PostsLeft ==
  ASSUME Typed, posts # <<>>, posts' = Tail(posts)
  PROVE  /\ Head(posts) = posts[1] /\ 1 \in 1..Len(posts) /\ posts[1] \in States
         /\ \A i \in 1..Len(posts') : i + 1 \in 1..Len(posts) /\ posts'[i] = posts[i + 1] /\ i + 1 - 1 = i /\ i + 1 # 1
<1>1. /\ posts \in Seq(States)
      /\ posts' \in Seq(States) /\ Len(posts') = Len(posts) - 1 /\ Len(posts) \in Nat /\ Len(posts) > 0
      /\ \A i \in 1..(Len(posts) - 1) : posts'[i] = posts[i + 1]
  BY Tails DEF Typed
<1>. QED BY <1>1

LEMMA OrderedPost ==
  ASSUME Typed, Ordered(<<>>), posts # <<>>, posts' = Tail(posts), mState' = Head(posts), UNCHANGED <<gen, mConfig>>
  PROVE  Ordered(<<>>)' /\ (Pending' => Pending) /\ (mState' = "CONNECTED" => ~Pending')
<1>1. /\ Head(posts) = posts[1] /\ 1 \in 1..Len(posts) /\ posts[1] \in States
      /\ \A i \in 1..Len(posts') : i + 1 \in 1..Len(posts) /\ posts'[i] = posts[i + 1] /\ i + 1 - 1 = i /\ i + 1 # 1
  BY PostsLeft
<1>2. ASSUME NEW i \in 1..Len(posts'), posts'[i] = "CONNECTED"
      PROVE  IF i = 1 THEN mState' = "CONNECTING" ELSE posts'[i - 1] = "CONNECTING"
  <2>1. posts[i] = "CONNECTING"
    BY <1>1, <1>2 DEF Ordered
  <2>2. i # 1 => i - 1 \in 1..Len(posts') /\ i - 1 + 1 = i
    BY <1>1
  <2>. QED BY <1>1, <2>1, <2>2
<1>3. ASSUME NEW i \in 1..Len(posts'), posts'[i] = "CONNECTING"
      PROVE  mState' # "CONNECTED" /\ \A j \in 1..(i - 1) : posts'[j] \notin {"CONNECTING", "CONNECTED"}
  <2>1. \A j \in 1..i : posts[j] \notin {"CONNECTING", "CONNECTED"}
    BY <1>1, <1>3 DEF Ordered
  <2>2. \A j \in 1..(i - 1) : j + 1 \in 1..i /\ j \in 1..Len(posts')
    OBVIOUS
  <2>3. 1 \in 1..i
    OBVIOUS
  <2>. QED BY <1>1, <2>1, <2>2, <2>3
<1>4. mState' = "CONNECTED" \/ (\E i \in 1..Len(posts') : posts'[i] = "CONNECTED") => gen' # 0
  BY <1>1 DEF Ordered
<1>5. gen' # 0 => (mConfig.profileId)' \in Profiles
  BY DEF Ordered
<1>6. ~Has(<<>>, Connecting)
  BY DEF Has
<1>7. Ordered(<<>>)'
  BY <1>2, <1>3, <1>4, <1>5, <1>6 DEF Ordered, Has
<1>8. (Pending' => Pending) /\ (mState' = "CONNECTED" => ~Pending')
  BY <1>1, <1>3 DEF Pending
<1>. QED BY <1>7, <1>8

\* What is in order when nothing starts, and when a stopped service is to be started.
LEMMA OrderedCalls ==
  ASSUME Typed, Ordered(<<>>)
  PROVE  /\ \A b : ~Has(b, Connecting) => Ordered(b)
         /\ mState = "STOPPED" /\ ~Pending => \A b : Ordered(b)
<1>1. ASSUME mState = "STOPPED", ~Pending, NEW i \in 1..Len(posts) PROVE posts[i] \notin {"CONNECTING", "CONNECTED"}
  <2>1. i # 1 => i - 1 \in 1..Len(posts)
    BY DEF Typed
  <2>. QED BY <1>1, <2>1 DEF Ordered, Pending
<1>. QED BY <1>1 DEF Ordered

\* What is left of Now when nothing is to be done on the main thread.
LEMMA IdleNow ==
  ASSUME NEW q \in Seq(Steps), NEW x \in Fore, NEW y \in Aft, prog["main"] = q \o (x \o y)
  PROVE  /\ Idle("main") <=> q = <<>> /\ x = <<>> /\ y = <<>>
         /\ q = <<>> => prog["main"] = x \o y
         /\ q # <<>> => Head(prog["main"]) \in Steps
<1>1. x \o y \in Seq(ClientSteps) /\ (x \o y = <<>> => x = <<>> /\ y = <<>>) /\ (x = <<>> => x \o y = y)
  BY FragmentSteps
<1>2. q \in Seq(AllSteps) /\ x \o y \in Seq(AllSteps)
  BY <1>1 DEF AllSteps
<1>3. ASSUME q # <<>> PROVE prog["main"] # <<>> /\ Head(prog["main"]) = Head(q) /\ Head(q) \in Steps
  BY <1>2, <1>3, TailOfConcat
<1>4. q = <<>> => prog["main"] = x \o y
  BY <1>2
<1>. QED BY <1>1, <1>3, <1>4 DEF Idle

\* A step of the fragment that is to be made is the first of those it has left.
LEMMA ClientHead ==
  ASSUME NEW q \in Seq(Steps), NEW x \in Fore, NEW y \in Aft, prog["main"] = q \o (x \o y),
         q # <<>> => x \notin Loads /\ (x = <<>> => y = <<>>)
  PROVE  /\ At("main", "load") =>
              /\ q = <<>> /\ x \in Loads /\ Arg("main") \in Proxies
              /\ Tail(prog["main"]) = <<Switch>> \o y
         /\ At("main", "switch") => q = <<>> /\ x = <<Switch>> /\ Tail(prog["main"]) = y
         /\ At("main", "reload") =>
              /\ q = <<>> /\ x = <<>> /\ y \notin {<<>>, <<Update>>} /\ Arg("main") \in Proxies
              /\ Tail(prog["main"]) = <<Update>>
         /\ At("main", "update") => q = <<>> /\ x = <<>> /\ y = <<Update>> /\ Tail(prog["main"]) = <<>>
<1>1. /\ x \in Seq(ClientSteps) /\ y \in Seq(ClientSteps) /\ x \o y \in Seq(ClientSteps)
      /\ x \o y = <<>> => x = <<>> /\ y = <<>>
      /\ x = <<>> => x \o y = y
      /\ x # <<>> => x \o y # <<>> /\ Head(x \o y) = Head(x) /\ Tail(x \o y) = Tail(x) \o y
  BY FragmentSteps
<1>. DEFINE h == Head(prog["main"])
<1>2. ASSUME NEW o \in {"load", "switch", "reload", "update"}, At("main", o)
      PROVE  q = <<>> /\ prog["main"] = x \o y /\ prog["main"] # <<>> /\ h[1] = o
  <2>1. prog["main"] # <<>> /\ h[1] = o
    BY <1>2 DEF At, Idle
  <2>2. h \notin Steps
    BY <1>2, <2>1 DEF Steps, StopSteps
  <2>. QED BY <2>1, <2>2, IdleNow
<1>11. \A a, b : <<a, b>> # <<>> /\ Head(<<a, b>>) = a /\ Tail(<<a, b>>) = <<b>>
  OBVIOUS
<1>12. \A a : <<a>> # <<>> /\ Head(<<a>>) = a /\ Tail(<<a>>) = <<>>
  OBVIOUS
<1>3. ASSUME NEW p \in Proxies
      PROVE  /\ Load(p) # <<>> /\ Head(Load(p)) = <<"load", p>> /\ Tail(Load(p)) = <<Switch>>
             /\ Resume(p) # <<>> /\ Head(Resume(p)) = <<"reload", p>> /\ Tail(Resume(p)) = <<Update>>
  BY <1>11 DEF Load, Resume, Switch, Update
<1>4. /\ Head(<<Switch>>) = Switch /\ Tail(<<Switch>>) = <<>> /\ Switch[1] = "switch" /\ <<Switch>> # <<>>
      /\ Head(<<Update>>) = Update /\ Tail(<<Update>>) = <<>> /\ Update[1] = "update" /\ <<Update>> # <<>>
  <2>1. Switch[1] = "switch" /\ Update[1] = "update"
    BY DEF Switch, Update
  <2>. QED BY <1>12, <2>1
<1>5. <<>> \o y = y
  BY <1>1
<1>6. CASE x \in Loads
  <2>1. PICK p \in Proxies : x = Load(p)
    BY <1>6 DEF Loads
  <2>2. x # <<>> /\ Head(x) = <<"load", p>> /\ Tail(x) = <<Switch>>
    BY <1>3, <2>1
  <2>3. ASSUME NEW o \in {"load", "switch", "reload", "update"}, At("main", o)
        PROVE  q = <<>> /\ h = <<"load", p>> /\ o = "load" /\ Tail(prog["main"]) = <<Switch>> \o y
    <3>1. q = <<>> /\ prog["main"] = x \o y /\ h[1] = o
      BY <1>2, <2>3
    <3>2. h = <<"load", p>> /\ Tail(prog["main"]) = <<Switch>> \o y
      BY <1>1, <2>2, <3>1
    <3>3. o = "load"
      BY <3>1, <3>2
    <3>. QED BY <3>1, <3>2, <3>3
  <2>. QED BY <1>6, <2>3 DEF Arg
<1>7. CASE x = <<Switch>>
  <2>3. ASSUME NEW o \in {"load", "switch", "reload", "update"}, At("main", o)
        PROVE  q = <<>> /\ h = Switch /\ o = "switch" /\ Tail(prog["main"]) = y
    BY <1>1, <1>2, <1>4, <1>5, <1>7, <2>3
  <2>. QED BY <1>7, <2>3 DEF Arg
<1>8. CASE x = <<>> /\ y = <<Update>>
  <2>3. ASSUME NEW o \in {"load", "switch", "reload", "update"}, At("main", o)
        PROVE  q = <<>> /\ h = Update /\ o = "update" /\ Tail(prog["main"]) = <<>>
    BY <1>1, <1>2, <1>4, <1>8, <2>3
  <2>. QED BY <1>8, <2>3 DEF Arg
<1>9. CASE x = <<>> /\ y \in {Resume(p) : p \in Proxies}
  <2>1. PICK p \in Proxies : y = Resume(p)
    BY <1>9
  <2>2. y # <<>> /\ Head(y) = <<"reload", p>> /\ Tail(y) = <<Update>>
    BY <1>3, <2>1
  <2>3. ASSUME NEW o \in {"load", "switch", "reload", "update"}, At("main", o)
        PROVE  q = <<>> /\ h = <<"reload", p>> /\ o = "reload" /\ Tail(prog["main"]) = <<Update>>
    <3>1. q = <<>> /\ prog["main"] = x \o y /\ h[1] = o
      BY <1>2, <2>3
    <3>2. h = <<"reload", p>> /\ Tail(prog["main"]) = <<Update>>
      BY <1>1, <1>9, <2>2, <3>1
    <3>3. o = "reload"
      BY <3>1, <3>2
    <3>. QED BY <3>1, <3>2, <3>3
  <2>4. y # <<Update>>
    BY <1>4, <2>2 DEF Update
  <2>. QED BY <1>9, <2>2, <2>3, <2>4 DEF Arg
<1>10. CASE x = <<>> /\ y = <<>>
  BY <1>1, <1>2, <1>10
<1>. QED BY <1>6, <1>7, <1>8, <1>9, <1>10 DEF Fore, Aft

\* What the fragment puts before the rest of its steps.
LEMMA FragmentAsks ==
  /\ \A r \in Proxies : Load(r) \in Seq(ClientSteps) /\ Resume(r) \in Seq(ClientSteps)
  /\ <<Switch>> \in Seq(ClientSteps) /\ <<Update>> \in Seq(ClientSteps)
  /\ \A s \in Seq(ClientSteps) : s \in Seq(AllSteps)
<1>1. <<>> \in Fore /\ <<>> \in Aft /\ <<Switch>> \in Fore /\ <<Update>> \in Aft
      /\ \A r \in Proxies : Load(r) \in Fore /\ Resume(r) \in Aft
  BY DEF Fore, Aft, Loads
<1>2. /\ \A r \in Proxies : Load(r) \in Seq(ClientSteps) /\ Resume(r) \in Seq(ClientSteps)
      /\ <<Switch>> \in Seq(ClientSteps) /\ <<Update>> \in Seq(ClientSteps)
  BY <1>1, FragmentSteps
<1>3. \A s \in Seq(ClientSteps) : s \in Seq(AllSteps)
  BY DEF AllSteps
<1>. QED BY <1>2, <1>3

LEMMA TypedGoes ==
  ASSUME Typed, NEW s \in Seq(AllSteps), prog["main"] # <<>>, Goes("main", s),
         UNCHANGED <<mState, posts, field, live, childless, gen, overlapped>>
  PROVE  Typed'
<1>1. "main" \in Threads
  BY DEF Threads
<1>2. prog["main"] \in Seq(AllSteps) /\ Tail(prog["main"]) \in Seq(AllSteps)
  BY <1>1 DEF Typed
<1>3. s \o Tail(prog["main"]) \in Seq(AllSteps)
  BY <1>2
<1>4. prog' \in [Threads -> Seq(AllSteps)]
  BY <1>1, <1>3 DEF Typed, Goes
<1>. QED BY <1>4 DEF Typed

LEMMA DueTypes == \A c \in Seq(Nat) : Due(c) \in Seq(Nat)
<1>. SUFFICES ASSUME NEW c \in Seq(Nat) PROVE Due(c) \in Seq(Nat)
  OBVIOUS
<1>1. DOMAIN c = 1..Len(c) /\ Len(c) \in Nat /\ \A i \in 1..Len(c) : c[i] \in Nat
  OBVIOUS
<1>2. \A i \in 1..Len(c) : (IF c[i] > 0 THEN c[i] - 1 ELSE 0) \in Nat
  BY <1>1
<1>3. Due(c) \in [1..Len(c) -> Nat]
  BY <1>1, <1>2 DEF Due
<1>. QED BY <1>1, <1>3, SeqDef

LEMMA ClientArg ==
  ASSUME Typed, NEW o \in {"load", "reload"}, At("main", o)
  PROVE  prog["main"] # <<>> /\ Arg("main") \in Proxies
<1>1. prog["main"] # <<>> /\ Head(prog["main"])[1] = o /\ prog["main"] \in Seq(AllSteps)
  BY DEF At, Idle, Typed, Threads
<1>2. Head(prog["main"]) \in AllSteps
  BY <1>1
<1>3. Head(prog["main"]) \notin Steps
  BY <1>1 DEF Steps, StopSteps
<1>4. Head(prog["main"]) \in ClientSteps
  BY <1>2, <1>3 DEF AllSteps
<1>5. Head(prog["main"]) \in {"load", "reload"} \X Proxies
  <2>1. <<"switch", "">>[1] # o /\ <<"update", "">>[1] # o
    OBVIOUS
  <2>2. Head(prog["main"]) # <<"switch", "">> /\ Head(prog["main"]) # <<"update", "">>
    BY <1>1, <2>1
  <2>. QED BY <1>4, <2>2 DEF ClientSteps
<1>. QED BY <1>1, <1>5 DEF Arg

LEMMA AppTypedInit == AppInit => AppTyped
<1>. SUFFICES ASSUME AppInit PROVE AppTyped
  OBVIOUS
<1>1. clicks \in Seq(Nat)
  <2>1. <<>> \in Seq(Nat)
    OBVIOUS
  <2>. QED BY <2>1 DEF AppInit
<1>2. Typed
  BY TypedInit DEF AppInit
<1>3. dialogs \in Nat
  BY DEF AppInit
<1>. QED BY <1>1, <1>2, <1>3 DEF AppInit, AppTyped, States

LEMMA AppTypedNext == AppTyped /\ [AppNext]_appVars => AppTyped'
<1>. SUFFICES ASSUME AppTyped, [AppNext]_appVars PROVE AppTyped'
  OBVIOUS
<1>. USE DEF AppTyped
<1>1. CASE UNCHANGED appVars
  BY <1>1 DEF appVars, svcVars, uiVars, shown, life, asked, Typed
<1>2. ASSUME UNCHANGED svcVars PROVE Typed'
  BY <1>2 DEF svcVars, Typed
<1>3. ASSUME NEW s \in Seq(AllSteps), Calls(s), UNCHANGED svcRest PROVE Typed'
  <2>1. "main" \in Threads
    BY DEF Threads
  <2>. QED BY <1>3, <2>1, TypedRuns DEF Calls, svcRest
<1>4. <<>> \in Seq(AllSteps)
  OBVIOUS
<1>24. <<>> \in Seq(Nat)
  OBVIOUS
<1>5. CASE LoadStep
  <2>1. prog["main"] # <<>> /\ Arg("main") \in Proxies
    BY <1>5, ClientArg DEF LoadStep
  <2>2. PICK c \in Configs : Goes("main", UseConfig(c))
    BY <1>5 DEF LoadStep
  <2>3. UseConfig(c) \in Seq(AllSteps)
    BY TypedUses
  <2>4. Typed'
    BY <1>5, <2>1, <2>2, <2>3, TypedGoes DEF LoadStep, stepRest, svcRest, sessions, started
  <2>. QED BY <1>5, <2>4 DEF LoadStep, uiVars, shown, life, asked
<1>6. CASE SwitchStep
  <2>1. prog["main"] # <<>>
    BY <1>6 DEF SwitchStep, At, Idle
  <2>2. Typed'
    BY <1>4, <1>6, <2>1, TypedGoes DEF SwitchStep, stepRest, svcRest, sessions, started
  <2>. QED BY <1>6, <2>2 DEF SwitchStep, ChangeSwitch, life, asked
<1>7. CASE ReloadStep
  <2>1. prog["main"] # <<>> /\ Arg("main") \in Proxies
    BY <1>7, ClientArg DEF ReloadStep
  <2>2. Load(Arg("main")) \in Seq(AllSteps)
    BY <2>1, FragmentAsks
  <2>3. Typed'
    BY <1>4, <1>7, <2>1, <2>2, TypedGoes DEF ReloadStep, stepRest, svcRest, sessions, started
  <2>. QED BY <1>7, <2>3 DEF ReloadStep, uiVars, shown, life, asked
<1>8. CASE UpdateStep
  <2>1. prog["main"] # <<>>
    BY <1>8 DEF UpdateStep, At, Idle
  <2>2. Typed'
    BY <1>4, <1>8, <2>1, TypedGoes DEF UpdateStep, stepRest, svcRest, sessions, started
  <2>3. mState \in States
    BY DEF Typed
  <2>. QED BY <1>8, <2>2, <2>3 DEF UpdateStep, UpdateState, life, asked
<1>9. CASE (\E t \in Threads : Step(t)) /\ UNCHANGED uiVars
  BY <1>9, TypedStep DEF uiVars, shown, life, asked
<1>10. CASE AppRunPost
  <2>1. Typed'
    BY <1>10, TypedPost DEF AppRunPost
  <2>2. posts # <<>> /\ posts \in Seq(States)
    BY <1>10 DEF AppRunPost, RunPost, Typed
  <2>3. Head(posts) \in States
    BY <2>2
  <2>4. clicks' \in Seq(Nat)
    BY <1>10, DueTypes DEF AppRunPost
  <2>. QED BY <1>10, <2>1, <2>3, <2>4 DEF AppRunPost, StateChanged, ChangeSwitch, life
<1>11. CASE Reenable
  BY <1>2, <1>11 DEF Reenable, life, asked
<1>12. CASE CreateView
  BY <1>2, <1>12 DEF CreateView, asked, States
<1>13. CASE ServiceConnected
  <2>1. mState \in States
    BY DEF Typed
  <2>. QED BY <1>2, <1>13, <2>1 DEF ServiceConnected, UpdateState, asked
<1>14. CASE StopView
  BY <1>2, <1>14 DEF StopView, shown, asked
<1>15. CASE DestroyView
  <2>1. clicks' \in Seq(Nat)
    BY <1>15, <1>24 DEF DestroyView
  <2>. QED BY <1>2, <1>15, <2>1 DEF DestroyView
<1>16. CASE ShowView
  <2>1. PICK proxy \in Proxies, ok \in BOOLEAN :
          /\ consent' = (consent \/ ok)
          /\ LET result == IF ok THEN Load(proxy) ELSE << <<"switch", "">> >>
             IN Calls((CASE dialogs = 0 -> <<>> [] dialogs = 1 -> result [] OTHER -> result \o result)
                        \o Resume(proxy))
    BY <1>16 DEF ShowView
  <2>2. Load(proxy) \in Seq(AllSteps) /\ Resume(proxy) \in Seq(AllSteps) /\ << <<"switch", "">> >> \in Seq(AllSteps)
    BY FragmentAsks DEF Switch
  <2>. DEFINE result == IF ok THEN Load(proxy) ELSE << <<"switch", "">> >>
              r == CASE dialogs = 0 -> <<>> [] dialogs = 1 -> result [] OTHER -> result \o result
  <2>3. result \in Seq(AllSteps)
    BY <2>2
  <2>4. Calls(r \o Resume(proxy))
    BY <2>1
  <2>. HIDE DEF result
  <2>5. r \in Seq(AllSteps)
    BY <1>4, <2>3
  <2>. HIDE DEF r
  <2>8. \A a, b \in Seq(AllSteps) : a \o b \in Seq(AllSteps)
    OBVIOUS
  <2>6. r \o Resume(proxy) \in Seq(AllSteps)
    BY <2>2, <2>5, <2>8
  <2>7. Typed'
    BY <1>3, <1>16, <2>4, <2>6 DEF ShowView
  <2>. QED BY <1>16, <2>1, <2>7 DEF ShowView, shown
<1>17. CASE Touch
  <2>1. Len(posts) \in Nat
    BY DEF Typed
  <2>2. clicks' \in Seq(Nat)
    BY <1>17, <2>1 DEF Touch
  <2>. QED BY <1>2, <1>17, <2>2 DEF Touch, shown, life
<1>18. CASE ClickStart
  <2>1. PICK proxy \in Proxies : Calls(Load(proxy))
    BY <1>18 DEF ClickStart
  <2>2. Typed'
    BY <1>3, <1>18, <2>1, FragmentAsks DEF ClickStart
  <2>3. clicks' \in Seq(Nat)
    BY <1>18, <1>24 DEF ClickStart, Clicked
  <2>. QED BY <1>18, <2>2, <2>3 DEF ClickStart, shown, life
<1>19. CASE ClickAsks
  <2>2. Typed'
    BY <1>3, <1>4, <1>19 DEF ClickAsks
  <2>3. clicks' \in Seq(Nat)
    BY <1>19, <1>24 DEF ClickAsks, Clicked
  <2>. QED BY <1>19, <2>2, <2>3 DEF ClickAsks, shown, life
<1>20. CASE ClickStop
  <2>2. Typed'
    BY <1>3, <1>20, TypedUses DEF ClickStop
  <2>3. clicks' \in Seq(Nat)
    BY <1>20, <1>24 DEF ClickStop, Clicked
  <2>. QED BY <1>20, <2>2, <2>3 DEF ClickStop, shown, life
<1>21. CASE ClickUnbound
  <2>2. Typed'
    BY <1>3, <1>21, FragmentAsks DEF ClickUnbound, Switch
  <2>3. clicks' \in Seq(Nat)
    BY <1>21, <1>24 DEF ClickUnbound, Clicked
  <2>. QED BY <1>21, <2>2, <2>3 DEF ClickUnbound, shown, life
<1>22. CASE CloseBroadcast /\ UNCHANGED uiVars
  <2>1. Calls(StopRunner) /\ UNCHANGED svcRest
    BY <1>22 DEF CloseBroadcast, svcRest
  <2>2. Typed'
    BY <1>3, <2>1, CodeTypes
  <2>. QED BY <1>22, <2>2 DEF uiVars, shown, life, asked
<1>23. CASE AppRevoke
  <2>1. "binder" \in Threads
    BY DEF Threads
  <2>2. Typed'
    BY <1>23, <2>1, TypedRuns, CodeTypes DEF AppRevoke, Revoke
  <2>. QED BY <1>23, <2>2 DEF AppRevoke, shown, life
<1>. QED BY <1>1, <1>5, <1>6, <1>7, <1>8, <1>9, <1>10, <1>11, <1>12, <1>13, <1>14, <1>15, <1>16, <1>17, <1>18, <1>19,
            <1>20, <1>21, <1>22, <1>23 DEF AppNext, AppStep

LEMMA AppModeInit == AppInit => AppMode
<1>. SUFFICES ASSUME AppInit PROVE AppMode
  OBVIOUS
<1>1. Mode
  BY ModeInit DEF AppInit
<1>2. <<>> \in Fore /\ <<>> \in Aft /\ <<>> \in Seq(Steps) /\ <<>> \o (<<>> \o <<>>) = <<>>
  BY DEF Fore, Aft
<1>3. prog["main"] = <<>> /\ prog["binder"] = <<>> /\ posts = <<>> /\ mState = "STOPPED" /\ gen = 0 /\ thrown = {}
      /\ ~overlapped /\ clicks = <<>> /\ dialogs = 0 /\ ~registered /\ ~isServiceStarted
  BY DEF AppInit, Init, Threads
<1>4. Served(<<>>)
  BY <1>1, <1>3, NotRevoked DEF Mode, Served, Idle
<1>5. Len(posts) = 0 /\ \A i \in 1..0 : FALSE
  BY <1>3
<1>6. Ordered(<<>>)
  BY <1>3, <1>5 DEF Ordered, Has
<1>7. <<>> \notin Loads
  BY DEF Loads, Load
<1>8. Fragment(<<>>, <<>>, <<>>)
  BY <1>3, <1>7 DEF Fragment
<1>9. Now(<<>>, <<>>, <<>>)
  BY <1>2, <1>3, <1>4, <1>6, <1>8 DEF Now
<1>. QED BY <1>2, <1>3, <1>9 DEF AppMode

\* The main thread makes a step of the service.
LEMMA MainKeeps ==
  ASSUME AppTyped, NEW q \in Seq(Steps), NEW x \in Fore, NEW y \in Aft, Now(q, x, y), "main" \notin thrown,
         Step("main"), UNCHANGED uiVars
  PROVE  AppMode'
<1>1. Typed /\ "main" \in Threads /\ "binder" \in Threads /\ x \o y \in Seq(ClientSteps)
  BY FragmentSteps DEF AppTyped, Threads
<1>2. prog["main"] # <<>>
  BY StepsAreThere
<1>3. q # <<>>
  <2>. SUFFICES ASSUME q = <<>> PROVE FALSE
    OBVIOUS
  <2>1. prog["main"] = x \o y
    BY IdleNow DEF Now
  <2>. QED BY <1>1, <2>1, ClientStops
<1>4. Idle("binder") /\ Doing(q) /\ prog["main"] = q \o (x \o y) /\ Ordered(q) /\ Fragment(q, x, y)
  BY <1>2 DEF Now, Served, Idle
<1>5. /\ UNCHANGED overlapped
      /\ \/ /\ thrown' = thrown \union {"main"}
            /\ prog' = [prog EXCEPT !["main"] = <<>>]
         \/ /\ thrown' = thrown
            /\ \E b \in Seq(Steps) : /\ prog' = [prog EXCEPT !["main"] = b \o (x \o y)]
                                   /\ Doing(b)' /\ Announces(q, b)
  BY <1>1, <1>3, <1>4, MainStep
<1>6. CASE thrown' = thrown \union {"main"} /\ prog' = [prog EXCEPT !["main"] = <<>>]
  BY <1>1, <1>6 DEF AppMode, Idle, Typed
<1>7. ASSUME thrown' = thrown, NEW b \in Seq(Steps), prog' = [prog EXCEPT !["main"] = b \o (x \o y)],
             Doing(b)', Announces(q, b)
      PROVE  AppMode'
  <2>1. prog'["main"] = b \o (x \o y) /\ prog'["binder"] = prog["binder"]
    BY <1>1, <1>7 DEF Typed
  <2>2. Served(b)'
    BY <1>4, <1>7, <2>1 DEF Served, Idle
  <2>3. mState' = mState /\ Ordered(b)'
    BY <1>1, <1>4, <1>7, StepKeeps, OrderedStep
  <2>4. /\ Starts(b)' => Starts(q)
        /\ ~Has(q, Connecting) =>
             \A i \in 1..Len(posts') : posts'[i] = "CONNECTING" => i \in 1..Len(posts) /\ posts[i] = "CONNECTING"
    BY <1>1, <1>7, AnnouncesStart
  <2>5. (Has(b, Connecting) => Has(q, Connecting)) /\ Has(b, Connecting)' = Has(b, Connecting)
    BY <1>7 DEF Announces, Has
  <2>6. UNCHANGED <<uiState, isServiceStarted, registered, bound, dialogs, consent, clicks>>
    BY DEF uiVars, shown, life, asked
  <2>7. Fragment(b, x, y)'
    BY <1>3, <1>4, <2>3, <2>4, <2>5, <2>6 DEF Fragment, Shows
  <2>8. Now(b, x, y)'
    BY <2>1, <2>2, <2>3, <2>7 DEF Now
  <2>. QED BY <1>7, <2>8 DEF AppMode
<1>. QED BY <1>5, <1>6, <1>7

\* A binder thread makes one.
LEMMA BinderKeeps ==
  ASSUME AppTyped, NEW q \in Seq(Steps), NEW x \in Fore, NEW y \in Aft, Now(q, x, y), "main" \notin thrown,
         Step("binder"), UNCHANGED uiVars
  PROVE  AppMode'
<1>1. Typed /\ "main" \in Threads /\ "binder" \in Threads
  BY DEF AppTyped, Threads
<1>2. prog["binder"] # <<>>
  BY StepsAreThere
<1>3. Idle("main") /\ Revoking(prog["binder"])
  BY <1>2 DEF Now, Served, Idle
<1>4. q = <<>> /\ x = <<>> /\ y = <<>>
  BY <1>3, IdleNow DEF Now
<1>5. UNCHANGED overlapped /\ Hushed
  BY <1>1, <1>3, BinderStep
<1>6. "main" \notin thrown'
      /\ \E b : prog' = [prog EXCEPT !["binder"] = b] /\ IF b = <<>> THEN AtRest' ELSE Revoking(b)'
  BY <1>1, <1>3, BinderStep DEF AtRest
<1>7. PICK b : prog' = [prog EXCEPT !["binder"] = b] /\ IF b = <<>> THEN AtRest' ELSE Revoking(b)'
  BY <1>6
<1>17. prog'["main"] = prog["main"] /\ prog'["binder"] = b
  BY <1>1, <1>7 DEF Typed
<1>8. Served(q)'
  BY <1>3, <1>4, <1>7, <1>17 DEF Served, Idle, Doing
<1>9. Announces(q, q)
  BY <1>5 DEF Announces
<1>10. mState' = mState /\ Ordered(q)'
  BY <1>1, <1>9, StepKeeps, OrderedStep DEF Now
<1>11. /\ Starts(q)' => Starts(q)
       /\ ~Has(q, Connecting) =>
            \A i \in 1..Len(posts') : posts'[i] = "CONNECTING" => i \in 1..Len(posts) /\ posts[i] = "CONNECTING"
  BY <1>1, <1>9, AnnouncesStart
<1>12. Has(q, Connecting)' = Has(q, Connecting)
  BY DEF Has
<1>13. UNCHANGED <<uiState, isServiceStarted, registered, bound, dialogs, consent, clicks>>
  BY DEF uiVars, shown, life, asked
<1>14. Fragment(q, x, y)
  BY DEF Now
<1>15. Fragment(q, x, y)'
  BY <1>10, <1>11, <1>12, <1>13, <1>14 DEF Fragment, Shows
<1>16. Now(q, x, y)'
  BY <1>8, <1>10, <1>15, <1>17 DEF Now
<1>. QED BY <1>5, <1>6, <1>16 DEF AppMode

\* A call begins: both threads are idle, and what it is to do comes in place of nothing.
LEMMA CallsKeep ==
  ASSUME AppTyped, NEW q \in Seq(Steps), NEW x \in Fore, NEW y \in Aft, Now(q, x, y), "main" \notin thrown,
         ~overlapped', NEW b \in Seq(Steps), NEW u \in Fore, NEW v \in Aft, Calls(b \o (u \o v)), UNCHANGED svcRest
  PROVE  /\ q = <<>> /\ x = <<>> /\ y = <<>> /\ AtRest
         /\ Doing(b) /\ Ordered(b) /\ Fragment(b, u, v)' => AppMode'
<1>1. "main" \in Threads /\ "binder" \in Threads
  BY DEF Threads
<1>2. Idle("main") /\ Idle("binder") /\ prog' = [prog EXCEPT !["main"] = b \o (u \o v)]
  BY <1>1 DEF Calls, Runs
<1>3. q = <<>> /\ x = <<>> /\ y = <<>>
  <2>1. prog["main"] = q \o (x \o y)
    BY DEF Now
  <2>2. Idle("main") <=> q = <<>> /\ x = <<>> /\ y = <<>>
    BY <2>1, IdleNow
  <2>. QED BY <1>2, <2>2
<1>4. AtRest
  BY <1>2, <1>3, NotRevoked DEF Now, Served, Idle, Doing
<1>5. prog'["main"] = b \o (u \o v) /\ prog'["binder"] = <<>>
  BY <1>1, <1>2 DEF AppTyped, Typed, Idle
<1>6. UNCHANGED <<mState, posts, field, live, childless, gen, mConfig, thrown>>
  BY DEF svcRest, sessions, started
<1>7. ASSUME Doing(b), Ordered(b), Fragment(b, u, v)' PROVE AppMode'
  <2>1. Doing(b)'
    BY <1>6, <1>7, Still
  <2>2. Served(b)'
    BY <1>5, <2>1 DEF Served, Idle
  <2>3. Ordered(b)'
    BY <1>6, <1>7 DEF Ordered, Has
  <2>4. Now(b, u, v)'
    BY <1>5, <1>7, <2>2, <2>3 DEF Now
  <2>. QED BY <1>6, <2>4 DEF AppMode
<1>. QED BY <1>3, <1>4, <1>7

\* The fragment makes a step of its own: what is left is put as it goes on.
LEMMA ClientKeeps ==
  ASSUME AppTyped, NEW y \in Aft, NEW x \in Fore, Now(<<>>, x, y), "main" \notin thrown, prog["main"] # <<>>,
         NEW s, Goes("main", s), UNCHANGED stepRest,
         NEW b \in Seq(Steps), NEW u \in Fore, NEW v \in Aft, s \o Tail(prog["main"]) = b \o (u \o v)
  PROVE  /\ AtRest
         /\ Doing(b) /\ Ordered(b) /\ Fragment(b, u, v)' => AppMode'
<1>1. "main" \in Threads /\ "binder" \in Threads
  BY DEF Threads
<1>2. Idle("binder") /\ AtRest
  BY DEF Now, Served, Idle, Doing
<1>3. prog'["main"] = b \o (u \o v) /\ prog'["binder"] = <<>>
  BY <1>1, <1>2 DEF AppTyped, Typed, Idle, Goes
<1>4. UNCHANGED <<mState, posts, field, live, childless, gen, mConfig, thrown>>
  BY DEF stepRest, svcRest, sessions, started
<1>5. ASSUME Doing(b), Ordered(b), Fragment(b, u, v)' PROVE AppMode'
  <2>1. Doing(b)'
    BY <1>4, <1>5, Still
  <2>2. Served(b)'
    BY <1>3, <2>1 DEF Served, Idle
  <2>3. Ordered(b)'
    BY <1>4, <1>5 DEF Ordered, Has
  <2>4. Now(b, u, v)'
    BY <1>3, <1>5, <2>2, <2>3 DEF Now
  <2>. QED BY <1>4, <2>4 DEF AppMode
<1>. QED BY <1>2, <1>5

LEMMA NothingAhead ==
  /\ <<>> \in Fore /\ <<>> \in Aft /\ <<Switch>> \in Fore /\ <<Update>> \in Aft /\ <<>> \in Seq(Steps)
  /\ \A r \in Proxies : Load(r) \in Loads /\ Load(r) \in Fore /\ Resume(r) \in Aft
  /\ <<>> \notin Loads /\ <<Switch>> \notin Loads /\ <<Switch>> # <<>> /\ <<Update>> # <<>>
  /\ \A r \in Proxies : Load(r) # <<>> /\ Resume(r) # <<>>
  /\ ~Has(<<>>, Connecting)
  /\ \A s \in Seq(AllSteps) : <<>> \o s = s /\ s \o <<>> = s
<1>1. \A a, b : <<a, b>> # <<>> /\ Len(<<a, b>>) = 2
  OBVIOUS
<1>2. \A a : <<a>> # <<>> /\ Len(<<a>>) = 1
  OBVIOUS
<1>3. <<>> \notin Loads /\ <<Switch>> \notin Loads /\ \A r \in Proxies : Load(r) # <<>> /\ Resume(r) # <<>>
  BY <1>1, <1>2 DEF Loads, Load, Resume
<1>4. ~Has(<<>>, Connecting)
  BY DEF Has
<1>5. \A s \in Seq(AllSteps) : <<>> \o s = s /\ s \o <<>> = s
  OBVIOUS
<1>6. <<>> \in Seq(Steps)
  OBVIOUS
<1>7. /\ <<>> \in Fore /\ <<>> \in Aft /\ <<Switch>> \in Fore /\ <<Update>> \in Aft
      /\ \A r \in Proxies : Load(r) \in Loads /\ Load(r) \in Fore /\ Resume(r) \in Aft
  BY DEF Fore, Aft, Loads
<1>. QED BY <1>2, <1>3, <1>4, <1>5, <1>6, <1>7

LEMMA SwitchKeeps ==
  ASSUME AppTyped, NEW q \in Seq(Steps), NEW x \in Fore, NEW y \in Aft, Now(q, x, y), "main" \notin thrown, SwitchStep
  PROVE  AppMode'
<1>1. Fragment(q, x, y) /\ Ordered(q) /\ prog["main"] = q \o (x \o y)
  BY DEF Now
<1>2. q = <<>> /\ x = <<Switch>> /\ Tail(prog["main"]) = y /\ prog["main"] # <<>>
  BY <1>1, ClientHead DEF SwitchStep, At, Idle, Fragment
<1>3. <<>> \o y = y /\ <<>> \o (<<>> \o y) = y
  BY NothingAhead, FragmentSteps DEF AllSteps
<1>4. Goes("main", <<>>) /\ UNCHANGED stepRest /\ <<>> \o Tail(prog["main"]) = <<>> \o (<<>> \o y)
  BY <1>2, <1>3 DEF SwitchStep
<1>5. UNCHANGED <<uiState, registered, bound, dialogs, consent, clicks, mState, posts>> /\ isServiceStarted' = FALSE
  BY DEF SwitchStep, ChangeSwitch, life, asked, stepRest, svcRest
<1>6. Fragment(<<>>, <<>>, y)'
  BY <1>1, <1>2, <1>5, NothingAhead DEF Fragment, Shows, Starts, Pending
<1>7. Now(<<>>, x, y)
  BY <1>2
<1>. QED BY <1>1, <1>2, <1>4, <1>6, <1>7, NothingAhead, ClientKeeps DEF Doing

LEMMA ReloadKeeps ==
  ASSUME AppTyped, NEW q \in Seq(Steps), NEW x \in Fore, NEW y \in Aft, Now(q, x, y), "main" \notin thrown, ReloadStep
  PROVE  AppMode'
<1>1. Fragment(q, x, y) /\ Ordered(q) /\ prog["main"] = q \o (x \o y)
  BY DEF Now
<1>2. /\ q = <<>> /\ x = <<>> /\ y \notin {<<>>, <<Update>>} /\ Tail(prog["main"]) = <<Update>>
      /\ Arg("main") \in Proxies /\ prog["main"] # <<>>
  BY <1>1, ClientHead DEF ReloadStep, At, Idle, Fragment
<1>3. PICK u : u = IF isServiceStarted THEN Load(Arg("main")) ELSE <<>>
  OBVIOUS
<1>4. u \in Fore /\ (u \in Loads => isServiceStarted) /\ (u = <<>> => ~isServiceStarted)
  BY <1>2, <1>3, NothingAhead
<1>5. <<>> \o (u \o <<Update>>) = u \o <<Update>>
  <2>1. u \o <<Update>> \in Seq(ClientSteps)
    BY <1>4, NothingAhead, FragmentSteps
  <2>. QED BY <2>1, NothingAhead, FragmentAsks
<1>6. Goes("main", u) /\ UNCHANGED stepRest /\ u \o Tail(prog["main"]) = <<>> \o (u \o <<Update>>)
  BY <1>2, <1>3, <1>5 DEF ReloadStep
<1>7. UNCHANGED <<uiState, isServiceStarted, registered, bound, dialogs, consent, clicks, mState, posts>>
  BY DEF ReloadStep, uiVars, shown, life, asked, stepRest, svcRest
<1>8. Fragment(<<>>, u, <<Update>>)'
  <2>1. dialogs' = 0 /\ clicks' = <<>>
    BY <1>1, <1>2, <1>7, NothingAhead DEF Fragment
  <2>2. isServiceStarted => ~Starts(<<>>)
    BY <1>1, <1>2 DEF Fragment
  <2>3. Starts(<<>>)' = Starts(<<>>)
    BY <1>7 DEF Starts, Pending, Has
  <2>4. u \in Loads \/ (isServiceStarted' /\ u = <<>>) => ~Starts(<<>>)'
    BY <1>4, <1>7, <2>2, <2>3
  <2>5. registered' => bound'
    BY <1>1, <1>7 DEF Fragment
  <2>. QED BY <2>1, <2>4, <2>5, NothingAhead DEF Fragment
<1>9. Now(<<>>, x, y)
  BY <1>2
<1>10. Doing(<<>>) /\ Ordered(<<>>) /\ Fragment(<<>>, u, <<Update>>)' => AppMode'
  BY <1>2, <1>4, <1>6, <1>9, NothingAhead, ClientKeeps
<1>11. Doing(<<>>)
  BY <1>2, <1>4, <1>6, <1>9, NothingAhead, ClientKeeps DEF Doing
<1>. QED BY <1>1, <1>2, <1>8, <1>10, <1>11

LEMMA UpdateKeeps ==
  ASSUME AppTyped, NEW q \in Seq(Steps), NEW x \in Fore, NEW y \in Aft, Now(q, x, y), "main" \notin thrown, UpdateStep
  PROVE  AppMode'
<1>1. Fragment(q, x, y) /\ Ordered(q) /\ prog["main"] = q \o (x \o y)
  BY DEF Now
<1>2. q = <<>> /\ x = <<>> /\ y = <<Update>> /\ Tail(prog["main"]) = <<>> /\ prog["main"] # <<>>
  BY <1>1, ClientHead DEF UpdateStep, At, Idle, Fragment
<1>3. <<>> \o <<>> = <<>> /\ <<>> \o (<<>> \o <<>>) = <<>>
  OBVIOUS
<1>4. Goes("main", <<>>) /\ UNCHANGED stepRest /\ <<>> \o Tail(prog["main"]) = <<>> \o (<<>> \o <<>>)
  BY <1>2, <1>3 DEF UpdateStep
<1>5. UNCHANGED <<registered, bound, dialogs, consent, clicks, mState, posts>>
  BY DEF UpdateStep, life, asked, stepRest, svcRest
<1>6. IF bound THEN uiState' = mState /\ isServiceStarted' = (mState = "CONNECTED")
      ELSE UNCHANGED <<uiState, isServiceStarted>>
  BY DEF UpdateStep, UpdateState
<1>7. isServiceStarted' => ~Pending
  <2>1. mState = "CONNECTED" => ~Pending
    BY <1>1 DEF Ordered, Pending
  <2>2. isServiceStarted => ~Pending
    BY <1>1, <1>2 DEF Fragment, Starts
  <2>. QED BY <1>6, <2>1, <2>2
<1>8. (Pending' <=> Pending) /\ mState \in States
  BY <1>5 DEF Pending, AppTyped, Typed
<1>9. Fragment(<<>>, <<>>, <<>>)'
  <2>1. registered' => bound' /\ Shows'
    BY <1>1, <1>5, <1>6 DEF Fragment, Shows
  <2>2. dialogs' = 0 /\ clicks' = <<>>
    BY <1>1, <1>2, <1>5, NothingAhead DEF Fragment
  <2>. QED BY <1>7, <1>8, <2>1, <2>2, NothingAhead DEF Fragment, Starts, Has
<1>10. Now(<<>>, x, y)
  BY <1>2
<1>. QED BY <1>1, <1>2, <1>4, <1>9, <1>10, NothingAhead, ClientKeeps DEF Doing

\* use() starts a session of a stopped service only: there is one profile.
LEMMA LoadKeeps ==
  ASSUME AppTyped, NEW q \in Seq(Steps), NEW x \in Fore, NEW y \in Aft, Now(q, x, y), "main" \notin thrown,
         OneProfile, LoadStep
  PROVE  AppMode'
<1>1. Fragment(q, x, y) /\ Ordered(q) /\ prog["main"] = q \o (x \o y)
  BY DEF Now
<1>2. q = <<>> /\ x \in Loads /\ Arg("main") \in Proxies /\ Tail(prog["main"]) = <<Switch>> \o y /\ prog["main"] # <<>>
  BY <1>1, ClientHead DEF LoadStep, At, Idle, Fragment
<1>4. PICK c \in Configs : Goes("main", UseConfig(c))
  BY DEF LoadStep
<1>5. AtRest /\ ~Pending /\ clicks = <<>> /\ dialogs = 0 /\ (registered => bound)
  <2>1. Idle("binder") /\ AtRest
    BY <1>2 DEF Now, Served, Idle, Doing
  <2>2. ~Pending /\ clicks = <<>> /\ dialogs = 0 /\ (registered => bound)
    BY <1>1, <1>2, NothingAhead DEF Fragment, Starts
  <2>. QED BY <2>1, <2>2
<1>6. ~(mState = "CONNECTED" /\ c.profileId # mConfig.profileId)
  <2>1. mState = "CONNECTED" => mConfig.profileId \in Profiles
    BY <1>1 DEF Ordered
  <2>2. c.profileId \in Profiles
    BY DEF Configs
  <2>. QED BY <2>1, <2>2 DEF OneProfile
<1>7. PICK b : b = UseConfig(c)
  OBVIOUS
<1>8. \/ b = StartRunner(c) /\ mState = "STOPPED"
      \/ b = Refuse
      \/ b = <<>>
  BY <1>6, <1>7 DEF UseConfig
<1>9. b \in Seq(Steps)
  BY <1>7, UseTypes
<1>10. Doing(b) /\ Ordered(b)
  <2>1. CASE b = StartRunner(c) /\ mState = "STOPPED"
    <3>1. \A i \in DOMAIN posts : posts[i] # "CONNECTING"
      BY <1>5 DEF Pending, AppTyped, Typed
    <3>2. Doing(b)
      BY <1>5, <2>1, <3>1, RestingStops, HaltedStops DEF AppTyped, AtRest
    <3>3. Ordered(b)
      BY <1>1, <1>2, <1>5, <2>1, OrderedCalls DEF AppTyped
    <3>. QED BY <3>2, <3>3
  <2>2. CASE b = Refuse
    <3>1. ~Has(Refuse, Connecting)
      BY StopWhole, StopsAreSilent
    <3>2. Ordered(b)
      BY <1>1, <1>2, <2>2, <3>1, OrderedCalls DEF AppTyped
    <3>. QED BY <1>5, <2>2, <3>2, RestingStops, HaltedStops DEF AppTyped, AtRest
  <2>3. CASE b = <<>>
    BY <1>1, <1>2, <1>5, <2>3 DEF Doing
  <2>. QED BY <1>8, <2>1, <2>2, <2>3
<1>11. UNCHANGED <<uiState, isServiceStarted, registered, bound, dialogs, consent, clicks, mState, posts>>
  BY DEF LoadStep, uiVars, shown, life, asked, stepRest, svcRest
<1>12. Fragment(b, <<Switch>>, y)'
  <2>1. registered => (y = <<>> => Shows) /\ (y # <<>> \/ mState # "CONNECTED")
    BY <1>1, <1>2, NothingAhead DEF Fragment
  <2>2. Shows' = Shows
    BY <1>11 DEF Shows
  <2>. QED BY <1>5, <1>11, <2>1, <2>2, NothingAhead DEF Fragment
<1>13. Now(<<>>, x, y) /\ Goes("main", b) /\ UNCHANGED stepRest
  BY <1>2, <1>4, <1>7 DEF LoadStep
<1>14. b \o Tail(prog["main"]) = b \o (<<Switch>> \o y)
  BY <1>2
<1>15. Doing(b) /\ Ordered(b) /\ Fragment(b, <<Switch>>, y)' => AppMode'
  BY <1>2, <1>9, <1>13, <1>14, NothingAhead, ClientKeeps
<1>. QED BY <1>10, <1>12, <1>15

\* A state that was posted is run, and the callback takes it over when it is news.
LEMMA PostKeeps ==
  ASSUME AppTyped, NEW q \in Seq(Steps), NEW x \in Fore, NEW y \in Aft, Now(q, x, y), "main" \notin thrown, AppRunPost
  PROVE  AppMode'
<1>1. /\ Idle("main") /\ posts # <<>> /\ mState' = Head(posts) /\ posts' = Tail(posts)
      /\ UNCHANGED <<prog, field, live, childless, gen, mConfig, thrown, overlapped>>
      /\ RunPost
  BY DEF AppRunPost, RunPost, sessions, started, revoking
<1>2. q = <<>> /\ x = <<>> /\ y = <<>> /\ prog["main"] = q \o (x \o y)
  <2>1. prog["main"] = q \o (x \o y)
    BY DEF Now
  <2>2. Idle("main") <=> q = <<>> /\ x = <<>> /\ y = <<>>
    BY <2>1, IdleNow
  <2>. QED BY <1>1, <2>1, <2>2
<1>3. Typed /\ Ordered(<<>>) /\ Fragment(<<>>, <<>>, <<>>)
  BY <1>2 DEF AppTyped, Now
<1>4. Served(<<>>)'
  <2>1. CASE Idle("binder") /\ AtRest
    <3>1. AtRest'
      BY <1>1, <1>3, <2>1, RestingPost
    <3>. QED BY <1>1, <2>1, <3>1 DEF Served, Idle, Doing
  <2>2. CASE Revoking(prog["binder"])
    <3>1. PICK p : p = prog["binder"]
      OBVIOUS
    <3>2. Revoking(p)'
      BY <1>1, <1>3, <2>2, <3>1, RevokingPost
    <3>. QED BY <1>1, <3>1, <3>2 DEF Served, Idle
  <2>. QED BY <1>2, <2>1, <2>2 DEF Now, Served, Doing
<1>5. Ordered(<<>>)' /\ (Pending' => Pending) /\ (mState' = "CONNECTED" => ~Pending')
  BY <1>1, <1>3, OrderedPost
<1>6. UNCHANGED <<registered, bound, dialogs, consent>> /\ clicks' = Due(clicks)
  BY DEF AppRunPost, life
<1>7. /\ registered /\ mState # mState' /\ uiState # mState' =>
           /\ uiState' = mState'
           /\ IF mState' \in {"CONNECTED", "STOPPED"} THEN isServiceStarted' = (mState' = "CONNECTED")
              ELSE UNCHANGED isServiceStarted
      /\ ~(registered /\ mState # mState' /\ uiState # mState') => UNCHANGED <<uiState, isServiceStarted>>
  BY <1>1 DEF AppRunPost, StateChanged, ChangeSwitch
<1>8. registered => bound /\ Shows
  BY <1>3 DEF Fragment
<1>9. registered' => bound' /\ Shows'
  <2>. SUFFICES ASSUME registered PROVE bound' /\ Shows'
    BY <1>6
  <2>1. bound' /\ uiState = mState
    BY <1>6, <1>8 DEF Shows
  <2>2. CASE mState # mState'
    <3>1. uiState' = mState'
      BY <1>7, <2>1, <2>2
    <3>2. mState' \in {"CONNECTED", "STOPPED"} => isServiceStarted' = (mState' = "CONNECTED")
      BY <1>7, <2>1, <2>2
    <3>3. (mState' = "CONNECTED" => isServiceStarted') /\ (mState' = "STOPPED" => ~isServiceStarted')
      BY <3>2
    <3>. QED BY <2>1, <3>1, <3>3 DEF Shows
  <2>3. CASE mState = mState'
    BY <1>7, <1>8, <2>1, <2>3 DEF Shows
  <2>. QED BY <2>2, <2>3
<1>10. isServiceStarted' => ~Pending'
  <2>1. isServiceStarted => ~Pending
    BY <1>3 DEF Fragment, Starts
  <2>. QED BY <1>5, <1>7, <2>1
<1>11. clicks' # <<>> =>
         Len(clicks') = 1 /\ \A i \in 1..Len(posts') : posts'[i] = "CONNECTING" => i =< clicks'[1]
  <2>. SUFFICES ASSUME clicks' # <<>>
                PROVE  Len(clicks') = 1 /\ \A i \in 1..Len(posts') : posts'[i] = "CONNECTING" => i =< clicks'[1]
    OBVIOUS
  <2>1. clicks \in Seq(Nat) /\ clicks # <<>>
    <3>1. Due(<<>>) = <<>>
      BY DEF Due
    <3>. QED BY <1>6, <3>1 DEF AppTyped
  <2>2. Len(clicks) = 1 /\ \A i \in 1..Len(posts) : posts[i] = "CONNECTING" => i =< clicks[1]
    BY <1>3, <2>1 DEF Fragment
  <2>3. DOMAIN clicks = {1} /\ clicks[1] \in Nat
    BY <2>1, <2>2
  <2>4. clicks' = [i \in {1} |-> IF clicks[i] > 0 THEN clicks[i] - 1 ELSE 0]
    BY <1>6, <2>3 DEF Due
  <2>5. clicks'[1] = IF clicks[1] > 0 THEN clicks[1] - 1 ELSE 0
    BY <2>4
  <2>6. DOMAIN clicks' = 1..1 /\ clicks' \in Seq(Nat)
    <3>1. clicks' \in Seq(Nat)
      BY <1>6, <2>1, DueTypes
    <3>. QED BY <2>4, <3>1
  <2>7. Len(clicks') = 1
    BY <2>6
  <2>8. \A i \in 1..Len(posts') : i + 1 \in 1..Len(posts) /\ posts'[i] = posts[i + 1]
    BY <1>1, <1>3, PostsLeft
  <2>9. ASSUME NEW i \in 1..Len(posts'), posts'[i] = "CONNECTING" PROVE i =< clicks'[1]
    <3>1. i + 1 =< clicks[1] /\ i \in Nat /\ i > 0
      BY <2>2, <2>8, <2>9
    <3>. QED BY <2>3, <2>5, <3>1
  <2>. QED BY <2>7, <2>9
<1>12. dialogs' # 0 => dialogs' = 1 /\ ~consent' /\ ~Pending'
  BY <1>3, <1>5, <1>6 DEF Fragment, Starts
<1>13. Fragment(<<>>, <<>>, <<>>)'
  BY <1>9, <1>10, <1>11, <1>12, NothingAhead DEF Fragment, Starts, Has
<1>14. Now(<<>>, <<>>, <<>>)'
  BY <1>1, <1>2, <1>4, <1>5, <1>13 DEF Now
<1>. QED BY <1>1, <1>14, NothingAhead DEF AppMode

\* The fragment comes and goes, its service is bound, and it takes touches.
LEMMA ViewKeeps ==
  ASSUME AppTyped, NEW q \in Seq(Steps), NEW x \in Fore, NEW y \in Aft, Now(q, x, y), "main" \notin thrown,
         UNCHANGED svcVars, UNCHANGED <<dialogs, consent>>,
         registered' => bound' /\ Shows', isServiceStarted' => ~Pending,
         \/ UNCHANGED clicks
         \/ clicks' = <<>>
         \/ clicks' = <<Len(posts)>>,
         Idle("main")
  PROVE  AppMode'
<1>1. q = <<>> /\ x = <<>> /\ y = <<>> /\ prog["main"] = q \o (x \o y)
  <2>1. prog["main"] = q \o (x \o y)
    BY DEF Now
  <2>2. Idle("main") <=> q = <<>> /\ x = <<>> /\ y = <<>>
    BY <2>1, IdleNow
  <2>. QED BY <2>1, <2>2
<1>2. UNCHANGED <<mState, posts, prog, field, live, childless, gen, mConfig, thrown>>
  BY DEF svcVars
<1>3. Served(q)'
  <2>1. PICK p : p = prog["binder"]
    OBVIOUS
  <2>2. (Doing(q) => Doing(q)') /\ (Revoking(p) => Revoking(p)')
    BY <1>2, Still
  <2>. QED BY <1>2, <2>1, <2>2 DEF Now, Served, Idle
<1>4. Ordered(q)'
  BY <1>2 DEF Now, Ordered, Has
<1>5. (Pending' <=> Pending) /\ Fragment(<<>>, <<>>, <<>>)
  BY <1>1, <1>2 DEF Pending, Now
<1>6. clicks' # <<>> =>
        Len(clicks') = 1 /\ \A i \in 1..Len(posts') : posts'[i] = "CONNECTING" => i =< clicks'[1]
  <2>1. CASE UNCHANGED clicks
    BY <1>2, <1>5, <2>1 DEF Fragment
  <2>2. CASE clicks' = <<Len(posts)>>
    <3>1. Len(clicks') = 1 /\ clicks'[1] = Len(posts) /\ Len(posts) \in Nat
      BY <2>2 DEF AppTyped, Typed
    <3>. QED BY <1>2, <3>1
  <2>. QED BY <2>1, <2>2
<1>7. dialogs' # 0 => dialogs' = 1 /\ ~consent' /\ ~Pending'
  BY <1>5 DEF Fragment, Starts
<1>8. Fragment(<<>>, <<>>, <<>>)'
  BY <1>5, <1>6, <1>7, NothingAhead DEF Fragment, Starts, Has
<1>9. Now(q, x, y)'
  BY <1>1, <1>2, <1>3, <1>4, <1>8 DEF Now
<1>. QED BY <1>2, <1>9 DEF AppMode

\* While both threads idle, a state that is CONNECTED has no CONNECTING behind it.
LEMMA ViewActions ==
  ASSUME AppTyped, NEW q \in Seq(Steps), NEW x \in Fore, NEW y \in Aft, Now(q, x, y), "main" \notin thrown,
         Reenable \/ CreateView \/ ServiceConnected \/ StopView \/ DestroyView \/ Touch
  PROVE  AppMode'
<1>1. UNCHANGED <<svcVars, dialogs, consent>> /\ Idle("main")
  BY DEF Reenable, CreateView, ServiceConnected, StopView, DestroyView, Touch, life, asked
<1>2. q = <<>> /\ x = <<>> /\ y = <<>>
  <2>1. prog["main"] = q \o (x \o y)
    BY DEF Now
  <2>2. Idle("main") <=> q = <<>> /\ x = <<>> /\ y = <<>>
    BY <2>1, IdleNow
  <2>. QED BY <1>1, <2>2
<1>3. Fragment(<<>>, <<>>, <<>>) /\ Ordered(<<>>) /\ mState' = mState
  BY <1>1, <1>2 DEF Now, svcVars
<1>4. (registered => bound /\ Shows) /\ (isServiceStarted => ~Pending) /\ (mState = "CONNECTED" => ~Pending)
  BY <1>3 DEF Fragment, Starts, Ordered, Pending
<1>5. \/ UNCHANGED clicks
      \/ clicks' = <<>>
      \/ clicks' = <<Len(posts)>>
  BY DEF Reenable, CreateView, ServiceConnected, StopView, DestroyView, Touch, asked
<1>. DEFINE Goal == (registered' => bound' /\ Shows') /\ (isServiceStarted' => ~Pending)
<1>6. ASSUME Reenable \/ Touch PROVE Goal
  <2>1. UNCHANGED <<uiState, isServiceStarted, registered, bound>>
    BY <1>6 DEF Reenable, Touch, shown, life
  <2>. QED BY <1>3, <1>4, <2>1 DEF Shows
<1>7. ASSUME CreateView PROVE Goal
  BY <1>7 DEF CreateView, AppTyped
<1>8. ASSUME ServiceConnected PROVE Goal
  <2>1. uiState' = mState /\ isServiceStarted' = (mState = "CONNECTED") /\ bound' = TRUE
    BY <1>8 DEF ServiceConnected, UpdateState
  <2>. QED BY <1>3, <1>4, <2>1 DEF Shows
<1>9. ASSUME StopView PROVE Goal
  BY <1>4, <1>9 DEF StopView, shown
<1>10. ASSUME DestroyView PROVE Goal
  BY <1>4, <1>10 DEF DestroyView
<1>11. Goal
  BY <1>6, <1>7, <1>8, <1>9, <1>10
<1>. QED BY <1>1, <1>5, <1>11, ViewKeeps

\* What the fragment calls when both threads idle.
LEMMA CallOf ==
  ASSUME AppTyped, NEW q \in Seq(Steps), NEW x \in Fore, NEW y \in Aft, Now(q, x, y), "main" \notin thrown,
         ~overlapped', NEW u \in Fore, NEW v \in Aft, Calls(u \o v), UNCHANGED svcRest
  PROVE  /\ q = <<>> /\ x = <<>> /\ y = <<>> /\ Fragment(<<>>, <<>>, <<>>)
         /\ UNCHANGED <<mState, posts>>
         /\ Fragment(<<>>, u, v)' => AppMode'
<1>1. <<>> \o (u \o v) = u \o v
  BY FragmentSteps, FragmentAsks, NothingAhead
<1>2. /\ q = <<>> /\ x = <<>> /\ y = <<>> /\ AtRest
      /\ Doing(<<>>) /\ Ordered(<<>>) /\ Fragment(<<>>, u, v)' => AppMode'
  BY <1>1, NothingAhead, CallsKeep
<1>3. Ordered(<<>>) /\ Fragment(<<>>, <<>>, <<>>)
  BY <1>2 DEF Now
<1>4. Doing(<<>>)
  BY <1>2 DEF Doing
<1>5. UNCHANGED <<mState, posts>>
  BY DEF svcRest
<1>. QED BY <1>2, <1>3, <1>4, <1>5

LEMMA ShowKeeps ==
  ASSUME AppTyped, NEW q \in Seq(Steps), NEW x \in Fore, NEW y \in Aft, Now(q, x, y), "main" \notin thrown,
         ~overlapped', ShowView
  PROVE  AppMode'
<1>1. PICK proxy \in Proxies, ok \in BOOLEAN :
        /\ ok => dialogs > 0
        /\ LET result == IF ok THEN Load(proxy) ELSE << <<"switch", "">> >>
           IN Calls((CASE dialogs = 0 -> <<>> [] dialogs = 1 -> result [] OTHER -> result \o result)
                      \o Resume(proxy))
  BY DEF ShowView
<1>2. dialogs \in {0, 1} /\ (dialogs # 0 => ~Starts(q))
  BY DEF Now, Fragment
<1>3. PICK u \in Fore : Calls(u \o Resume(proxy)) /\ (u \in Loads => dialogs # 0) /\ (u = <<>> => dialogs = 0)
  <2>1. CASE dialogs = 0
    <3>1. Calls(<<>> \o Resume(proxy))
      BY <1>1, <2>1
    <3>. QED BY <2>1, <3>1, NothingAhead
  <2>2. CASE dialogs = 1 /\ ok
    <3>1. Calls(Load(proxy) \o Resume(proxy))
      BY <1>1, <2>2
    <3>2. Load(proxy) \in Fore /\ Load(proxy) \in Loads /\ Load(proxy) # <<>>
      BY NothingAhead
    <3>. QED BY <2>2, <3>1, <3>2
  <2>3. CASE dialogs = 1 /\ ~ok
    <3>. DEFINE r == << <<"switch", "">> >>
    <3>1. Calls(r \o Resume(proxy))
      <4>. HIDE DEF r
      <4>1. \A l : Calls((CASE dialogs = 0 -> <<>> [] dialogs = 1 -> (IF ok THEN l ELSE r)
                           [] OTHER -> (IF ok THEN l ELSE r) \o (IF ok THEN l ELSE r)) \o Resume(proxy))
                   => Calls(r \o Resume(proxy))
        BY <2>3
      <4>. QED BY <1>1, <4>1 DEF r
    <3>2. r = <<Switch>> /\ <<Switch>> \in Fore /\ <<Switch>> \notin Loads /\ <<Switch>> # <<>>
      BY NothingAhead DEF Switch
    <3>. QED BY <2>3, <3>1, <3>2
  <2>. QED BY <1>2, <2>1, <2>2, <2>3
<1>5. UNCHANGED svcRest /\ UNCHANGED <<uiState, isServiceStarted, bound, clicks>> /\ registered' = bound /\ dialogs' = 0
      /\ clicks = <<>>
  BY DEF ShowView, shown
<1>6. /\ q = <<>> /\ x = <<>> /\ y = <<>> /\ Fragment(<<>>, <<>>, <<>>) /\ UNCHANGED <<mState, posts>>
      /\ Fragment(<<>>, u, Resume(proxy))' => AppMode'
  BY <1>3, <1>5, NothingAhead, CallOf
<1>7. (Starts(<<>>)' <=> Starts(<<>>)) /\ (isServiceStarted => ~Starts(<<>>))
  BY <1>6 DEF Starts, Pending, Has, Fragment
<1>8. u \in Loads \/ (isServiceStarted' /\ u = <<>>) => ~Starts(<<>>)'
  BY <1>2, <1>3, <1>5, <1>6, <1>7
<1>9. Fragment(<<>>, u, Resume(proxy))'
  BY <1>5, <1>8, NothingAhead DEF Fragment
<1>. QED BY <1>6, <1>9

LEMMA ClickKeeps ==
  ASSUME AppTyped, NEW q \in Seq(Steps), NEW x \in Fore, NEW y \in Aft, Now(q, x, y), "main" \notin thrown,
         ~overlapped', OneDialog, ClickStart \/ ClickAsks \/ ClickUnbound
  PROVE  AppMode'
<1>1. /\ UNCHANGED svcRest /\ UNCHANGED <<uiState, isServiceStarted, registered, bound, consent>>
      /\ ~isServiceStarted /\ clicks = <<0>> /\ clicks' = <<>>
  BY DEF ClickStart, ClickAsks, ClickUnbound, Clicked, shown, life
<1>2. PICK u \in Fore :
        /\ Calls(u \o <<>>)
        /\ \/ u \in Loads /\ consent /\ UNCHANGED dialogs
           \/ u = <<>> /\ ~consent /\ dialogs < MaxDialogs /\ dialogs' = dialogs + 1
           \/ u = <<Switch>> /\ ~bound /\ UNCHANGED dialogs
  <2>1. \A s \in Fore : s \o <<>> = s
    BY FragmentSteps, FragmentAsks, NothingAhead
  <2>2. CASE ClickStart
    <3>1. PICK proxy \in Proxies : Calls(Load(proxy))
      BY <2>2 DEF ClickStart
    <3>2. Load(proxy) \in Fore /\ Load(proxy) \in Loads /\ Calls(Load(proxy) \o <<>>)
      BY <2>1, <3>1, NothingAhead
    <3>. QED BY <2>2, <3>2 DEF ClickStart
  <2>3. CASE ClickAsks
    <3>1. Calls(<<>> \o <<>>) /\ <<>> \in Fore
      BY <2>1, <2>3, NothingAhead DEF ClickAsks
    <3>. QED BY <2>3, <3>1 DEF ClickAsks
  <2>4. CASE ClickUnbound
    <3>1. Calls(<<Switch>> \o <<>>) /\ <<Switch>> \in Fore
      BY <2>1, <2>4, NothingAhead DEF ClickUnbound, Switch
    <3>. QED BY <2>4, <3>1 DEF ClickUnbound
  <2>. QED BY <2>2, <2>3, <2>4
<1>3. /\ Fragment(<<>>, <<>>, <<>>) /\ UNCHANGED <<mState, posts>>
      /\ Fragment(<<>>, u, <<>>)' => AppMode'
  BY <1>1, <1>2, NothingAhead, CallOf
<1>4. ~Starts(<<>>)
  <2>1. ~Pending
    <3>1. \A i \in 1..Len(posts) : posts[i] = "CONNECTING" => i =< clicks[1]
      BY <1>1, <1>3 DEF Fragment
    <3>2. clicks[1] = 0
      BY <1>1
    <3>. QED BY <3>1, <3>2 DEF Pending, AppTyped, Typed
  <2>. QED BY <2>1, NothingAhead DEF Starts
<1>5. (Starts(<<>>)' <=> Starts(<<>>)) /\ (Shows' <=> Shows)
  BY <1>1, <1>3 DEF Starts, Pending, Has, Shows
<1>6. registered => bound /\ Shows /\ mState # "CONNECTED"
  BY <1>1, <1>3 DEF Fragment, Shows
<1>7. dialogs' # 0 => dialogs' = 1 /\ ~consent' /\ u \notin Loads
  <2>1. dialogs \in {0, 1} /\ (dialogs # 0 => ~consent)
    BY <1>3 DEF Fragment
  <2>2. CASE u \in Loads /\ consent /\ UNCHANGED dialogs
    BY <2>1, <2>2
  <2>3. CASE u = <<>> /\ ~consent /\ dialogs < MaxDialogs /\ dialogs' = dialogs + 1
    <3>1. dialogs = 0
      BY <2>1, <2>3, AppAssumption DEF OneDialog
    <3>. QED BY <1>1, <2>3, <3>1, NothingAhead
  <2>4. CASE u = <<Switch>> /\ ~bound /\ UNCHANGED dialogs
    BY <1>1, <2>1, <2>4, NothingAhead
  <2>. QED BY <1>2, <2>2, <2>3, <2>4
<1>8. Fragment(<<>>, u, <<>>)'
  BY <1>1, <1>3, <1>4, <1>5, <1>6, <1>7 DEF Fragment
<1>. QED BY <1>3, <1>8

\* A stop begins, at the button or with the broadcast.
LEMMA StopKeeps ==
  ASSUME AppTyped, NEW q \in Seq(Steps), NEW x \in Fore, NEW y \in Aft, Now(q, x, y), "main" \notin thrown,
         ~overlapped', ClickStop \/ (CloseBroadcast /\ UNCHANGED uiVars)
  PROVE  AppMode'
<1>1. PICK b \in {StopRunner, <<>>} : Calls(b)
  BY DEF ClickStop, CloseBroadcast, UseNull
<1>2. UNCHANGED svcRest
  BY DEF ClickStop, CloseBroadcast, svcRest
<1>3. b \in Seq(Steps) /\ ~Has(b, Connecting)
  <2>1. ~Has(StopRunner, Connecting) /\ StopRunner \in Seq(Steps)
    BY StopWhole, StopsAreSilent, ProgramTypes
  <2>. QED BY <2>1, NothingAhead
<1>4. b \o (<<>> \o <<>>) = b
  BY <1>3
<1>5. /\ q = <<>> /\ x = <<>> /\ y = <<>> /\ AtRest
      /\ Doing(b) /\ Ordered(b) /\ Fragment(b, <<>>, <<>>)' => AppMode'
  BY <1>1, <1>2, <1>3, <1>4, NothingAhead, CallsKeep
<1>6. Fragment(<<>>, <<>>, <<>>) /\ Ordered(<<>>)
  BY <1>5 DEF Now
<1>7. Doing(b)
  BY <1>5, RestingStops, HaltedStops DEF AppTyped, AtRest, Doing
<1>8. Ordered(b)
  BY <1>3, <1>6, OrderedCalls DEF AppTyped
<1>9. UNCHANGED <<uiState, isServiceStarted, registered, bound, dialogs, consent, mState, posts>>
      /\ (clicks' = clicks \/ clicks' = <<>>)
  BY <1>2 DEF ClickStop, Clicked, uiVars, shown, life, asked, svcRest
<1>10. (Starts(b)' => Starts(<<>>)) /\ (Shows' <=> Shows) /\ ~Has(b, Connecting)'
  BY <1>3, <1>9 DEF Starts, Pending, Has, Shows
<1>11. Fragment(b, <<>>, <<>>)'
  BY <1>6, <1>9, <1>10, NothingAhead DEF Fragment
<1>. QED BY <1>5, <1>7, <1>8, <1>11

LEMMA RevokeKeeps ==
  ASSUME AppTyped, NEW q \in Seq(Steps), NEW x \in Fore, NEW y \in Aft, Now(q, x, y), "main" \notin thrown,
         ~overlapped', AppRevoke
  PROVE  AppMode'
<1>1. "main" \in Threads /\ "binder" \in Threads
  BY DEF Threads
<1>2. Idle("main") /\ Idle("binder") /\ prog' = [prog EXCEPT !["binder"] = StopRunner]
  BY <1>1 DEF AppRevoke, Revoke, Runs
<1>3. q = <<>> /\ x = <<>> /\ y = <<>> /\ prog["main"] = q \o (x \o y)
  <2>1. prog["main"] = q \o (x \o y)
    BY DEF Now
  <2>2. Idle("main") <=> q = <<>> /\ x = <<>> /\ y = <<>>
    BY <2>1, IdleNow
  <2>. QED BY <1>2, <2>1, <2>2
<1>4. AtRest
  BY <1>2, <1>3, NotRevoked DEF Now, Served, Idle, Doing
<1>5. prog'["binder"] = StopRunner /\ prog'["main"] = prog["main"]
  BY <1>1, <1>2 DEF AppTyped, Typed
<1>6. UNCHANGED <<mState, posts, field, live, childless, gen, mConfig, thrown>>
  BY DEF AppRevoke, Revoke, sessions, started
<1>7. Revoking(StopRunner)'
  <2>1. PICK n \in 1..gen : <<"conn", n>> \in live
    BY DEF AppRevoke, Revoke
  <2>2. Revoking(StopRunner)
    BY <1>4, <2>1, RevokeBegins DEF AppTyped
  <2>. QED BY <1>6, <2>2, Still
<1>8. Served(q)'
  BY <1>2, <1>5, <1>7 DEF Served, Idle
<1>9. Ordered(q)'
  BY <1>6 DEF Now, Ordered, Has
<1>10. UNCHANGED <<uiState, isServiceStarted, registered, bound, dialogs, clicks>> /\ consent' = FALSE
  BY DEF AppRevoke, shown, life
<1>11. Fragment(q, x, y)
  BY DEF Now
<1>12. Fragment(q, x, y)'
  BY <1>6, <1>10, <1>11 DEF Fragment, Starts, Pending, Has, Shows
<1>13. Now(q, x, y)'
  BY <1>3, <1>5, <1>8, <1>9, <1>12 DEF Now
<1>. QED BY <1>6, <1>13 DEF AppMode

\* The service and the fragment keep the invariant, whatever is called, runs or is told.
LEMMA AppModeNext ==
  ASSUME OneProfile, OneDialog, AppTyped, AppMode, [AppNext]_appVars
  PROVE  AppMode'
<1>. SUFFICES ASSUME ~overlapped' PROVE AppMode'
  BY DEF AppMode
<1>1. CASE UNCHANGED appVars
  <2>1. ~overlapped /\ UNCHANGED <<thrown, prog>>
    BY <1>1 DEF appVars, svcVars
  <2>2. CASE "main" \in thrown
    BY <1>1, <2>1, <2>2 DEF AppMode, Idle, appVars, svcVars
  <2>3. CASE "main" \notin thrown
    <3>1. PICK q \in Seq(Steps), x \in Fore, y \in Aft : Now(q, x, y)
      BY <2>1, <2>3 DEF AppMode
    <3>2. UNCHANGED <<mState, posts, field, live, childless, gen, mConfig, thrown>>
      BY <1>1 DEF appVars, svcVars
    <3>3. Served(q)'
      <4>1. Served(q)
        BY <3>1 DEF Now
      <4>2. PICK p : p = prog["binder"]
        OBVIOUS
      <4>3. (Doing(q) => Doing(q)') /\ (Revoking(p) => Revoking(p)')
        BY <3>2, Still
      <4>. QED BY <2>1, <4>1, <4>2, <4>3 DEF Served, Idle
    <3>4. Ordered(q)'
      <4>1. Ordered(q)
        BY <3>1 DEF Now
      <4>. QED BY <1>1, <4>1 DEF Ordered, Has, appVars, svcVars
    <3>5. Fragment(q, x, y)'
      <4>1. Fragment(q, x, y)
        BY <3>1 DEF Now
      <4>2. UNCHANGED <<uiState, isServiceStarted, registered, bound, dialogs, consent, clicks, mState, posts>>
        BY <1>1 DEF appVars, svcVars, uiVars, shown, life, asked
      <4>. QED BY <4>1, <4>2 DEF Fragment, Starts, Pending, Has, Shows
    <3>6. Now(q, x, y)'
      BY <2>1, <3>1, <3>3, <3>4, <3>5 DEF Now
    <3>. QED BY <2>1, <2>3, <3>6 DEF AppMode
  <2>. QED BY <2>2, <2>3
<1>2. CASE AppNext
  <2>1. "main" \notin thrown
    BY <1>2 DEF AppNext
  <2>2. ~overlapped
    <3>1. ASSUME UNCHANGED overlapped PROVE ~overlapped
      BY <3>1
    <3>2. ASSUME NEW t, NEW s, Runs(t, s) PROVE ~overlapped
      BY <3>2 DEF Runs
    <3>3. ASSUME NEW t \in Threads, Step(t) PROVE ~overlapped
      BY <3>1, <3>3 DEF Step, Begin, MakeThrows, MakeObject, AlreadyRegistered, TestField, DestroyObject, ClearField, PostState,
         Resolve, ResolveThrows, Establish, EstablishFails, GetFd, Send, SendFails, revoking
    <3>4. CASE AppStep
      BY <3>1, <3>3, <3>4 DEF AppStep, LoadStep, SwitchStep, ReloadStep, UpdateStep, stepRest
    <3>5. CASE AppRunPost
      BY <3>1, <3>5 DEF AppRunPost, RunPost, revoking
    <3>6. CASE Reenable \/ CreateView \/ ServiceConnected \/ StopView \/ DestroyView \/ Touch
      BY <3>1, <3>6 DEF Reenable, CreateView, ServiceConnected, StopView, DestroyView, Touch, svcVars
    <3>7. CASE ShowView
      BY <3>2, <3>7 DEF ShowView, Calls
    <3>8. CASE ClickStart \/ ClickAsks \/ ClickStop \/ ClickUnbound
      BY <3>2, <3>8 DEF ClickStart, ClickAsks, ClickStop, ClickUnbound, Calls
    <3>9. CASE CloseBroadcast \/ AppRevoke
      BY <3>2, <3>9 DEF CloseBroadcast, AppRevoke, Revoke, Calls
    <3>. QED BY <1>2, <3>4, <3>5, <3>6, <3>7, <3>8, <3>9 DEF AppNext
  <2>3. PICK q \in Seq(Steps), x \in Fore, y \in Aft : Now(q, x, y)
    BY <2>1, <2>2 DEF AppMode
  <2>4. CASE LoadStep
    BY <2>1, <2>3, <2>4, LoadKeeps
  <2>5. CASE SwitchStep
    BY <2>1, <2>3, <2>5, SwitchKeeps
  <2>6. CASE ReloadStep
    BY <2>1, <2>3, <2>6, ReloadKeeps
  <2>7. CASE UpdateStep
    BY <2>1, <2>3, <2>7, UpdateKeeps
  <2>8. CASE Step("main") /\ UNCHANGED uiVars
    BY <2>1, <2>3, <2>8, MainKeeps
  <2>9. CASE Step("binder") /\ UNCHANGED uiVars
    BY <2>1, <2>3, <2>9, BinderKeeps
  <2>10. CASE AppRunPost
    BY <2>1, <2>3, <2>10, PostKeeps
  <2>11. CASE Reenable \/ CreateView \/ ServiceConnected \/ StopView \/ DestroyView \/ Touch
    BY <2>1, <2>3, <2>11, ViewActions
  <2>12. CASE ShowView
    BY <2>1, <2>3, <2>12, ShowKeeps
  <2>13. CASE ClickStart \/ ClickAsks \/ ClickUnbound
    BY <2>1, <2>3, <2>13, ClickKeeps
  <2>14. CASE ClickStop \/ (CloseBroadcast /\ UNCHANGED uiVars)
    BY <2>1, <2>3, <2>14, StopKeeps
  <2>15. CASE AppRevoke
    BY <2>1, <2>3, <2>15, RevokeKeeps
  <2>. QED BY <1>2, <2>4, <2>5, <2>6, <2>7, <2>8, <2>9, <2>10, <2>11, <2>12, <2>13, <2>14, <2>15
       DEF AppNext, AppStep, Threads
<1>. QED BY <1>1, <1>2

\* At rest the fragment shows the state there is: nothing is left to post or to call. A
\* revocation that was cut short leaves STOPPING, which moves no switch.
LEMMA AgreesFromMode ==
  ASSUME AppTyped, AppMode, ~overlapped
  PROVE  FragmentAgrees
<1>. SUFFICES ASSUME Quiet, registered
              PROVE  /\ uiState = mState
                     /\ isServiceStarted = (mState = "CONNECTED") \/ (mState = "STOPPING" /\ CutShort)
  BY DEF FragmentAgrees
<1>1. posts = <<>> /\ Idle("main") /\ Idle("binder")
  BY DEF Quiet, Threads
<1>2. "main" \notin thrown
  BY DEF Quiet
<1>3. PICK q \in Seq(Steps), x \in Fore, y \in Aft : Now(q, x, y)
  BY <1>2 DEF AppMode
<1>4. q = <<>> /\ x = <<>> /\ y = <<>>
  <2>1. prog["main"] = q \o (x \o y)
    BY <1>3 DEF Now
  <2>. QED BY <1>1, <2>1, IdleNow
<1>5. Shows
  BY <1>3, <1>4 DEF Now, Fragment
<1>6. mState \in {"STOPPED", "CONNECTED"} \/ (mState = "STOPPING" /\ CutShort)
  <2>1. Served(<<>>)
    BY <1>3, <1>4 DEF Now
  <2>2. AtRest
    BY <1>1, <2>1, NotRevoked DEF Served, Doing, Idle
  <2>. QED BY <1>1, <2>2 DEF AtRest, Resting, Halted, Announced
<1>. QED BY <1>5, <1>6 DEF Shows, AppTyped

\* What a start begins with has CONNECTING to post; so nothing posted says so yet.
LEMMA OnceFromMode ==
  ASSUME AppTyped, AppMode, ~overlapped
  PROVE  StartsOnce
<1>. SUFFICES ASSUME At("main", "begin"), NEW i \in DOMAIN posts PROVE posts[i] # "CONNECTING"
  BY DEF StartsOnce
<1>1. ~Idle("main") /\ Head(prog["main"])[1] = "begin"
  BY DEF At
<1>2. "main" \notin thrown
  BY <1>1 DEF AppMode
<1>3. PICK q \in Seq(Steps), x \in Fore, y \in Aft : Now(q, x, y)
  BY <1>2 DEF AppMode
<1>4. prog["main"] = q \o (x \o y) /\ x \o y \in Seq(ClientSteps) /\ Served(q) /\ Ordered(q)
  BY <1>3, FragmentSteps, FragmentAsks DEF Now
<1>5. q # <<>> /\ Head(prog["main"]) = Head(q)
  <2>1. ASSUME q = <<>> PROVE FALSE
    <3>1. prog["main"] = x \o y
      BY <1>4, <2>1, IdleNow
    <3>2. Head(prog["main"]) \in ClientSteps
      BY <1>1, <1>4, <3>1 DEF Idle
    <3>3. \A s \in {"load", "reload"} \X Proxies : s[1] # "begin"
      OBVIOUS
    <3>4. <<"switch", "">>[1] # "begin" /\ <<"update", "">>[1] # "begin"
      OBVIOUS
    <3>. QED BY <1>1, <3>2, <3>3, <3>4 DEF ClientSteps
  <2>2. q # <<>>
    BY <2>1
  <2>3. q \in Seq(AllSteps) /\ x \o y \in Seq(AllSteps)
    BY <1>4, FragmentAsks DEF AllSteps
  <2>. QED BY <1>4, <2>2, <2>3, TailOfConcat
<1>6. Doing(q)
  BY <1>1, <1>4 DEF Served
<1>7. ~Starting(q)
  <2>1. ASSUME Starting(q) PROVE FALSE
    <3>1. Expected(q, 1) /\ Head(q) = q[1]
      BY <1>5, <2>1 DEF Starting, Proper
    <3>. QED BY <1>1, <1>5, <3>1 DEF Expected
  <2>. QED BY <2>1
<1>8. PICK a \in Seq(StopSteps), r \in Rests : q = a \o r
  BY <1>5, <1>6, <1>7 DEF Doing, Stopping, Blocked
<1>9. a = <<>>
  <2>1. ASSUME a # <<>> PROVE FALSE
    <3>1. Head(a) \in StopSteps /\ a \in Seq(Steps) /\ r \in Seq(Steps)
      BY <2>1, RestTypes DEF Steps
    <3>2. Head(q) = Head(a)
      BY <1>8, <2>1, <3>1, TailOfConcat
    <3>. QED BY <1>1, <1>5, <3>1, <3>2 DEF StopSteps
  <2>. QED BY <2>1
<1>10. q = r
  BY <1>8, <1>9, RestTypes
<1>11. PICK c \in Configs : q = StartRunner(c)
  <2>1. r # <<>> /\ r # << <<"send", "tun2socks">> >>
    BY <1>1, <1>5, <1>10
  <2>. QED BY <1>10, <2>1 DEF Rests
<1>12. Has(q, Connecting)
  <2>1. \E k \in 1..Len(Tail(StartRunner(c))) : Tail(StartRunner(c))[k] = <<"post", "CONNECTING">>
    BY StartProper
  <2>2. StartRunner(c) \in Seq(Steps)
    BY <1>11
  <2>3. Len(Tail(StartRunner(c))) = Len(StartRunner(c)) - 1
        /\ \A k \in 1..(Len(StartRunner(c)) - 1) : Tail(StartRunner(c))[k] = StartRunner(c)[k + 1]
    BY <1>5, <1>11, <2>2, Tails
  <2>4. PICK k \in 1..(Len(q) - 1) : q[k + 1] = <<"post", "CONNECTING">>
    BY <1>11, <2>1, <2>3
  <2>. QED BY <2>4 DEF Has, Connecting
<1>13. DOMAIN posts = 1..Len(posts)
  BY DEF AppTyped, Typed
<1>. QED BY <1>4, <1>12, <1>13 DEF Ordered

\* A service that says CONNECTED and has nothing left to do has every object its Config calls
\* for, of one session and of no other; one that says STOPPED has none; and it rests in no
\* other state but STOPPING, when a guard without a child has cut a revocation short
\* (ShadowsocksService.startRunner, handleConnection, stopRunner, GuardedProcess.destroy).
\* A first child that cannot be spawned, a file that cannot be written, an address that
\* cannot be resolved, an interface that cannot be had and a descriptor that cannot be sent
\* are among the calls and failures that may lead there.
THEOREM WholeSessions == Spec => []SessionsWhole
BY Inductive, WholeFromMode, PTL

\* Past killProcesses() a starting session finds nothing of an earlier one, in whichever way
\* the earlier one has ended (ShadowsocksService.java:126).
THEOREM ContextsAreReset == Spec => []ContextResetAlone
BY Inductive, ResetFromMode, PTL

\* The service's fields, its objects and its code keep their types.
THEOREM TypesKept == Spec => []Typed
BY Inductive, PTL

\* The same of the service with its fragment.
LEMMA AppInductive ==
  ASSUME OneProfile, OneDialog
  PROVE  AppSpec => [](AppTyped /\ AppMode)
<1>1. AppInit => AppTyped /\ AppMode
  BY AppTypedInit, AppModeInit
<1>2. AppTyped /\ AppMode /\ [AppNext]_appVars => (AppTyped /\ AppMode)'
  BY AppTypedNext, AppModeNext
<1>. QED BY <1>1, <1>2, PTL DEF AppSpec

\* Once nothing is left to run, a fragment that gets the service's callbacks shows the state
\* the service is in, and its switch agrees (ShadowSocksFragment.updateState, stateChanged),
\* however clicks, dialogs, life cycle and sessions met, while onRevoke() keeps clear of the
\* main thread's calls. Only the switch may be wrong, and only in STOPPING after a guard
\* without a child has cut a revocation short (GuardedProcess.destroy).
THEOREM FragmentFollows ==
  ASSUME OneProfile, OneDialog
  PROVE  AppSpec => [](~overlapped => FragmentAgrees)
<1>1. AppTyped /\ AppMode => (~overlapped => FragmentAgrees)
  BY AgreesFromMode
<1>. QED BY <1>1, AppInductive, PTL

\* startRunner() never begins while the CONNECTING of an earlier start waits in the main
\* looper's queue, though the service decides on the mState it has and only posts the next.
THEOREM StartedOnce ==
  ASSUME OneProfile, OneDialog
  PROVE  AppSpec => [](~overlapped => StartsOnce)
<1>1. AppTyped /\ AppMode => (~overlapped => StartsOnce)
  BY OnceFromMode
<1>. QED BY <1>1, AppInductive, PTL

\* Where revocations wait for the main thread's calls both hold throughout, as the run checks.
COROLLARY FragmentAndService ==
  ASSUME OneProfile, OneDialog, ~Overlap
  PROVE  AppSpec => [](FragmentAgrees /\ StartsOnce)
<1>1. AppInit => ~overlapped
  BY DEF AppInit, Init
<1>2. ~overlapped /\ [AppNext]_appVars => ~overlapped'
  <2>. SUFFICES ASSUME ~overlapped, [AppNext]_appVars PROVE ~overlapped'
    OBVIOUS
  <2>1. ASSUME UNCHANGED overlapped PROVE ~overlapped'
    BY <2>1
  <2>2. ASSUME NEW t, NEW s, Runs(t, s) PROVE ~overlapped'
    BY <2>2 DEF Runs
  <2>3. ASSUME NEW t \in Threads, Step(t) PROVE ~overlapped'
    BY <2>1, <2>3 DEF Step, Begin, MakeThrows, MakeObject, AlreadyRegistered, TestField, DestroyObject, ClearField, PostState,
       Resolve, ResolveThrows, Establish, EstablishFails, GetFd, Send, SendFails, revoking
  <2>4. CASE UNCHANGED appVars
    BY <2>1, <2>4 DEF appVars, svcVars
  <2>5. CASE AppStep
    BY <2>1, <2>3, <2>5 DEF AppStep, LoadStep, SwitchStep, ReloadStep, UpdateStep, stepRest
  <2>6. CASE AppRunPost \/ Reenable \/ CreateView \/ ServiceConnected \/ StopView \/ DestroyView \/ Touch
    BY <2>1, <2>6 DEF AppRunPost, RunPost, revoking, Reenable, CreateView, ServiceConnected, StopView, DestroyView,
       Touch, svcVars
  <2>7. CASE ShowView \/ ClickStart \/ ClickAsks \/ ClickStop \/ ClickUnbound
    BY <2>2, <2>7 DEF ShowView, ClickStart, ClickAsks, ClickStop, ClickUnbound, Calls
  <2>8. CASE CloseBroadcast \/ AppRevoke
    BY <2>2, <2>8 DEF CloseBroadcast, AppRevoke, Revoke, Calls
  <2>. QED BY <2>4, <2>5, <2>6, <2>7, <2>8 DEF AppNext
<1>. QED BY <1>1, <1>2, FragmentFollows, StartedOnce, PTL DEF AppSpec

\* The fragment's fields keep their types, for every Config and any number of dialogs.
THEOREM AppTypesKept == AppSpec => []AppTyped
BY AppTypedInit, AppTypedNext, PTL DEF AppSpec
=============================================================================
