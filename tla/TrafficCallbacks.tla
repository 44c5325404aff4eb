-------------------------- MODULE TrafficCallbacks --------------------------
(***************************************************************************)
(* Who is told of the traffic: the service's list of callbacks, its count  *)
(* and its timer (BaseVpnService), and those who register: the fragment    *)
(* (ServiceBoundContext) while it is started, and the notification of a    *)
(* session (NotificationHelper) while the screen is on.                    *)
(*                                                                         *)
(* All of it runs on the main thread, a handler at a time; the screen does *)
(* not wait for it. (onRevoke(), on a binder thread, is in VpnService.)    *)
(***************************************************************************)
EXTENDS Integers, Sequences, FiniteSets

CONSTANTS
  Helpers,                   \* the notifications of the sessions, a number each
  MaxScreens                 \* of changes of the screen: bounds the model only

ASSUME HelpersNumbered == Helpers \subseteq Nat \ {0}
ASSUME ScreensNat == MaxScreens \in Nat

VARIABLES
  callbacks, callbacksCount, timer,   \* of the service; timer is TRUE when not null
  mState, posts,             \* its state, and the Runnables in the main looper's queue
  bound, registered,         \* the fragment's bgService # null and callbackRegistered
  helper,                    \* of each: "none", "asks", "updates", "hears" or "destroyed"
  screenOn,                  \* isScreenOn of the constructor at work
  callbackRegistered,        \* of each helper
  screen, announced, changes, \* is it on? broadcasts about it not sent yet; how often it changed
  upset                      \* a history: a change of the screen crossed the start of a session

service == <<callbacks, callbacksCount, timer>>
fragment == <<bound, registered>>
notification == <<helper, callbackRegistered, screenOn>>
display == <<screen, announced, changes>>
callbackVars == <<service, mState, posts, fragment, notification, display, upset>>

Fragment == 0                \* the fragment's callback; a helper's is named as the helper

CallbackInit ==
  /\ callbacks = {} /\ callbacksCount = 0 /\ timer = FALSE
  /\ mState = "STOPPED" /\ posts = <<>>
  /\ bound = FALSE /\ registered = FALSE
  /\ helper = [h \in Helpers |-> "none"] /\ callbackRegistered = [h \in Helpers |-> FALSE] /\ screenOn = FALSE
  /\ screen \in BOOLEAN /\ announced = <<>> /\ changes = 0
  /\ upset = FALSE

----------------------------------------------------------------------------
(* The binder's methods. *)

\* RemoteCallbackList.register() returns true for a callback it has, too.
Register(c) ==
  /\ callbacks' = callbacks \union {c}
  /\ callbacksCount' = callbacksCount + 1
  /\ timer' = (timer \/ callbacksCount' # 0)

Unregister(c) ==
  IF c \in callbacks
  THEN /\ callbacks' = callbacks \ {c} /\ callbacksCount' = callbacksCount - 1
       /\ timer' = (timer /\ callbacksCount' # 0)
  ELSE UNCHANGED service

----------------------------------------------------------------------------
(* The fragment. *)

Constructing(h) == helper[h] \in {"asks", "updates"}
MainIdle == ~\E h \in Helpers : Constructing(h)

RegisterFragment(connected) ==
  IF connected /\ ~registered THEN Register(Fragment) /\ registered' = TRUE ELSE UNCHANGED <<service, registered>>
UnregisterFragment ==
  IF bound /\ registered THEN Unregister(Fragment) /\ registered' = FALSE ELSE UNCHANGED <<service, registered>>

onServiceConnected ==
  /\ MainIdle /\ ~bound /\ bound' = TRUE /\ RegisterFragment(TRUE)
  /\ UNCHANGED <<mState, posts, notification, display, upset>>

onStart ==
  /\ MainIdle /\ RegisterFragment(bound)
  /\ UNCHANGED <<bound, mState, posts, notification, display, upset>>

onStop ==
  /\ MainIdle /\ UnregisterFragment
  /\ UNCHANGED <<bound, mState, posts, notification, display, upset>>

detachService ==
  /\ MainIdle /\ bound /\ bound' = FALSE /\ UnregisterFragment
  /\ UNCHANGED <<mState, posts, notification, display, upset>>

----------------------------------------------------------------------------
(* The notification. *)

HelperRegisters(h) == Register(h) /\ callbackRegistered' = [callbackRegistered EXCEPT ![h] = TRUE]
HelperUnregisters(h) ==
  IF callbackRegistered[h]
  THEN Unregister(h) /\ callbackRegistered' = [callbackRegistered EXCEPT ![h] = FALSE]
  ELSE UNCHANGED <<service, callbackRegistered>>

\* Variant: the screen goes off and the callback stays.
UpdateStays(h, on) ==
  IF on THEN HelperRegisters(h) ELSE UNCHANGED <<service, callbackRegistered>>

update(h, on) == IF on THEN HelperRegisters(h) ELSE HelperUnregisters(h)

Current(h) == helper[h] # "none" /\ \A g \in Helpers : helper[g] # "none" => g <= h

\* startRunner(), which posts the states and makes the notification: it asks whether the screen is on,
StartRunner(h) ==
  /\ MainIdle /\ mState = "STOPPED" /\ \A i \in DOMAIN posts : posts[i][1] # "state"   \* (StartsOnce of VpnApp)
  /\ helper[h] = "none" /\ \A g \in Helpers : helper[g] = "none" => h <= g
  /\ posts' = posts \o << <<"state", "CONNECTING">>, <<"state", "CONNECTED">> >>
  /\ helper' = [helper EXCEPT ![h] = "asks"] /\ screenOn' = screen
  /\ upset' = (upset \/ announced # <<>>)
  /\ UNCHANGED <<service, mState, fragment, callbackRegistered, display>>

\* acts on that,
ForcedUpdate(h) ==
  /\ helper[h] = "asks" /\ helper' = [helper EXCEPT ![h] = "updates"]
  /\ update(h, screenOn)
  /\ UNCHANGED <<mState, posts, fragment, screenOn, display, upset>>

\* and registers its receiver.
RegisterReceiver(h) ==
  /\ helper[h] = "updates" /\ helper' = [helper EXCEPT ![h] = "hears"]
  /\ UNCHANGED <<service, mState, posts, fragment, callbackRegistered, screenOn, display, upset>>

destroy(h) == helper' = [helper EXCEPT ![h] = "destroyed"] /\ HelperUnregisters(h)

\* stopRunner(), by the user or by the close broadcast at any time.
StopRunner(h) ==
  /\ MainIdle /\ Current(h) /\ helper[h] = "hears"
  /\ destroy(h)
  /\ posts' = posts \o << <<"state", "STOPPING">>, <<"state", "STOPPED">> >>
  /\ UNCHANGED <<mState, fragment, screenOn, display, upset>>

----------------------------------------------------------------------------
(* The main looper's queue and the screen. *)

RunState ==
  /\ MainIdle /\ posts # <<>> /\ Head(posts)[1] = "state"
  /\ mState' = Head(posts)[2] /\ posts' = Tail(posts)
  /\ UNCHANGED <<service, fragment, notification, display, upset>>

\* A broadcast reaches a receiver that is still registered; it minds only while CONNECTED.
onReceive ==
  /\ MainIdle /\ posts # <<>> /\ Head(posts)[1] = "screen" /\ posts' = Tail(posts)
  /\ LET h == Head(posts)[2]
     IN IF helper[h] = "hears" /\ mState = "CONNECTED"
        THEN update(h, Head(posts)[3]) /\ UNCHANGED upset
        ELSE UNCHANGED <<service, callbackRegistered>> /\ upset' = (upset \/ helper[h] = "hears")
  /\ UNCHANGED <<mState, fragment, helper, screenOn, display>>

ScreenChanges ==
  /\ changes < MaxScreens /\ changes' = changes + 1
  /\ screen' = ~screen /\ announced' = Append(announced, screen')
  /\ upset' = (upset \/ ~MainIdle)
  /\ UNCHANGED <<service, mState, posts, fragment, notification>>

\* The system sends the next broadcast to the receiver that is registered by now.
Broadcast ==
  /\ announced # <<>> /\ announced' = Tail(announced)
  /\ LET hearing == {h \in Helpers : helper[h] = "hears"}
     IN IF hearing = {} THEN UNCHANGED posts
        ELSE posts' = Append(posts, <<"screen", CHOOSE h \in hearing : TRUE, Head(announced)>>)
  /\ UNCHANGED <<service, mState, fragment, notification, screen, changes, upset>>

CallbackNext ==
  \/ onServiceConnected \/ onStart \/ onStop \/ detachService
  \/ \E h \in Helpers : StartRunner(h) \/ ForcedUpdate(h) \/ RegisterReceiver(h) \/ StopRunner(h)
  \/ RunState \/ onReceive \/ ScreenChanges \/ Broadcast

CallbackSpec == CallbackInit /\ [][CallbackNext]_callbackVars

----------------------------------------------------------------------------
(* Properties. *)

\* The timer runs and changes of the state are told while anybody is registered.
NobodyDeaf ==
  callbacksCount >= Cardinality(callbacks) /\ (callbacks # {} => timer) /\ (timer <=> callbacksCount > 0)

\* A notification that is destroyed, or a fragment that has let go, is told no more.
GoneIsForgotten ==
  callbacks \subseteq {h \in Helpers : Current(h) /\ helper[h] # "destroyed"} \union (IF bound THEN {Fragment} ELSE {})

\* Nobody registers twice, so that the timer ends with the last who leaves.
CountedOnce == callbacksCount = Cardinality(callbacks)

\* Whoever registered is told, whoever has gone is not, and unless a change of the screen crossed the
\* start of a session the count beside the list is exact (registerCallback(), unregisterCallback(),
\* NotificationHelper(), destroy(), detachService()).
CallbacksExact == NobodyDeaf /\ GoneIsForgotten /\ (~upset => CountedOnce)
=============================================================================
