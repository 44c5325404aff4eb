------------------------------- MODULE VpnApp -------------------------------
(***************************************************************************)
(* The service together with its client, ShadowSocksFragment on top of     *)
(* ServiceBoundContext: the connect button, the consent dialog of          *)
(* VpnService.prepare(), the fragment's life cycle and the callback that   *)
(* keeps the fragment's copy of the state.                                 *)
(*                                                                         *)
(* Everything here runs on the main thread. What the fragment calls in the *)
(* service runs at once, as steps put before the fragment's own.           *)
(***************************************************************************)
EXTENDS VpnService

CONSTANTS
  Proxies,     \* what the stored configuration may hold
  MaxDialogs,  \* bound on consent dialogs open at a time
  MaxStops,    \* bound on the times the fragment is stopped or destroyed
  MaxTimers    \* bound on the timers that run when the user acts

ASSUME AppAssumption ==
  Proxies \subseteq {"numeric", "name", "empty"} /\ {MaxDialogs, MaxStops, MaxTimers} \subseteq Nat

VARIABLES
  view,             \* the fragment: "none", "started" or "stopped"
  bound,            \* is bgService set?
  registered,       \* callbackRegistered
  uiState,          \* the fragment's mState
  isServiceStarted, \* the field of that name
  enabled,          \* is the connect button enabled?
  timers,           \* Runnables of changeSwitch() to come: how many posts each waits for
  clicks,           \* clicks the view has accepted, likewise
  dialogs,          \* consent dialogs whose result is to come
  consent,          \* would VpnService.prepare() return null?
  stops             \* times the fragment was stopped or destroyed

shown   == <<uiState, isServiceStarted, enabled, timers>>
life    == <<view, bound, registered, stops>>
asked   == <<dialogs, consent, clicks>>
uiVars  == <<shown, life, asked>>
appVars == <<svcVars, uiVars>>

\* Everything of the service but the steps to make, and but what a call changes.
svcRest  == <<mState, posts, sessions, thrown, revokes>>
stepRest == <<svcRest, overlapped>>

AppInit ==
  /\ Init
  /\ uiState = "STOPPED" /\ isServiceStarted = FALSE /\ enabled = TRUE /\ timers = <<>>
  /\ clicks = <<>>
  /\ view = "none" /\ bound = FALSE /\ registered = FALSE /\ stops = 0
  /\ dialogs = 0 /\ consent = FALSE

-----------------------------------------------------------------------------
(* Pieces of the fragment's code.                                          *)

\* What is queued behind posts, once a post has run.
Due(queue) == [i \in DOMAIN queue |-> IF queue[i] > 0 THEN queue[i] - 1 ELSE 0]

\* Variant: nobody enables the button again.
ChangeSwitchForGood(checked, on, due) ==
  isServiceStarted' = checked /\ enabled' = FALSE /\ timers' = due

\* changeSwitch(): an enabled button is disabled for a second.
ChangeSwitch(checked, on, due) ==
  /\ isServiceStarted' = checked
  /\ enabled' = FALSE
  /\ timers' = IF on THEN Append(due, Len(posts')) ELSE due

\* Variant: stateChanged() shows the state and leaves the switch alone.
StateShown(s) ==
  /\ uiState' = s /\ enabled' = (s \in {"CONNECTED", "STOPPED"}) /\ timers' = Due(timers)
  /\ UNCHANGED isServiceStarted

\* mCallback.stateChanged(); CONNECTED and STOPPED enable the button first.
StateChanged(s) ==
  /\ uiState' = s
  /\ IF s \in {"CONNECTED", "STOPPED"}
       THEN ChangeSwitch(s = "CONNECTED", TRUE, Due(timers))
       ELSE enabled' = FALSE /\ timers' = Due(timers) /\ UNCHANGED isServiceStarted

UpdateState ==
  /\ uiState' = mState
  /\ isServiceStarted' = (mState = "CONNECTED")

\* loadService(), with whatever the preferences hold.
Load(proxy) == << <<"load", proxy>>, <<"switch", "">> >>
Resume(proxy) == << <<"reload", proxy>>, <<"update", "">> >>

-----------------------------------------------------------------------------
(* Steps of the fragment on the main thread.                               *)

LoadStep ==
  /\ At("main", "load")
  /\ \E c \in Configs : c.proxy = Arg("main") /\ Goes("main", UseConfig(c))
  /\ UNCHANGED <<stepRest, uiVars>>

SwitchStep ==
  /\ At("main", "switch") /\ Goes("main", <<>>)
  /\ UNCHANGED stepRest
  /\ ChangeSwitch(FALSE, enabled, timers)
  /\ UNCHANGED <<uiState, life, asked>>

\* Variant: the configuration is handed over whatever isServiceStarted says.
ReloadAlways ==
  /\ At("main", "reload") /\ Goes("main", Load(Arg("main")))
  /\ UNCHANGED <<stepRest, uiVars>>

\* updateCurrentProfile()
ReloadStep ==
  /\ At("main", "reload")
  /\ Goes("main", IF isServiceStarted THEN Load(Arg("main")) ELSE <<>>)
  /\ UNCHANGED <<stepRest, uiVars>>

UpdateStep ==
  /\ At("main", "update") /\ Goes("main", <<>>)
  /\ IF bound THEN UpdateState ELSE UNCHANGED <<uiState, isServiceStarted>>
  /\ UNCHANGED <<stepRest, enabled, timers, life, asked>>

AppStep ==
  \/ LoadStep \/ SwitchStep \/ ReloadStep \/ UpdateStep
  \/ (\E t \in Threads : Step(t)) /\ UNCHANGED uiVars

-----------------------------------------------------------------------------
(* Messages of the main looper.                                            *)

\* A Runnable of changeState(): a state the callbacks have not got is sent.
AppRunPost ==
  /\ RunPost
  /\ IF registered /\ mState # Head(posts) /\ uiState # Head(posts)
       THEN StateChanged(Head(posts))
       ELSE /\ timers' = Due(timers)
            /\ UNCHANGED <<uiState, isServiceStarted, enabled>>
  /\ clicks' = Due(clicks)
  /\ UNCHANGED <<life, dialogs, consent>>

\* A delayed Runnable overtakes nothing that was posted before it.
Reenable ==
  /\ Idle("main") /\ timers # <<>> /\ Head(timers) = 0
  /\ timers' = Tail(timers)
  /\ enabled' = TRUE
  /\ UNCHANGED <<svcVars, uiState, isServiceStarted, life, asked>>

\* onViewCreated() asks for the service; onStart() and onResume() come before it.
CreateView ==
  /\ view = "none" /\ Idle("main")
  /\ view' = "started"
  /\ uiState' = "STOPPED" /\ isServiceStarted' = FALSE /\ enabled' = TRUE /\ timers' = <<>>
  /\ UNCHANGED <<svcVars, bound, registered, stops, asked>>

ServiceConnected ==
  /\ view # "none" /\ ~bound /\ Idle("main")
  /\ bound' = TRUE /\ registered' = TRUE /\ enabled' = TRUE
  /\ UpdateState
  /\ UNCHANGED <<svcVars, timers, view, stops, asked>>

StopView ==
  /\ view = "started" /\ Idle("main") /\ stops < MaxStops
  /\ view' = "stopped" /\ registered' = FALSE /\ stops' = stops + 1
  /\ UNCHANGED <<svcVars, shown, bound, asked>>

\* detachService()
DestroyView ==
  /\ view = "stopped" /\ Idle("main") /\ dialogs = 0
  /\ view' = "none" /\ bound' = FALSE /\ registered' = FALSE
  /\ timers' = <<>> /\ clicks' = <<>>
  /\ UNCHANGED <<svcVars, uiState, isServiceStarted, enabled, stops, dialogs, consent>>

\* onStart() when the fragment was stopped, the results that have come, onResume().
\* A view takes no touch before its fragment is resumed.
ShowView ==
  /\ view # "none" /\ clicks = <<>> /\ Len(timers) <= MaxTimers
  /\ view' = "started" /\ registered' = bound
  /\ \E proxy \in Proxies, ok \in BOOLEAN :
        /\ ok => dialogs > 0
        /\ consent' = (consent \/ ok)
        /\ LET result == IF ok THEN Load(proxy) ELSE << <<"switch", "">> >>
           IN Calls((CASE dialogs = 0 -> <<>> [] dialogs = 1 -> result [] OTHER -> result \o result)
                      \o Resume(proxy))
  /\ dialogs' = 0 /\ gen + dialogs < MaxStarts
  /\ UNCHANGED <<svcRest, shown, bound, stops, clicks>>

\* The view takes a touch when the button is enabled, and posts the click.
Touch ==
  /\ view = "started" /\ enabled /\ Idle("main")
  /\ clicks = <<>> /\ Len(timers) <= MaxTimers
  /\ clicks' = <<Len(posts)>>
  /\ UNCHANGED <<svcVars, shown, life, dialogs, consent>>

\* onConnectVpnClicked() runs, and does not look at the button again.
Clicked == clicks = <<0>> /\ clicks' = <<>> /\ gen < MaxStarts

\* The consent was given before: the result of prepare() comes at once.
ClickStart ==
  /\ Clicked /\ ~isServiceStarted /\ bound /\ consent
  /\ \E proxy \in Proxies : Calls(Load(proxy))
  /\ UNCHANGED <<svcRest, shown, life, dialogs, consent>>

ClickAsks ==
  /\ Clicked /\ ~isServiceStarted /\ bound /\ ~consent
  /\ Calls(<<>>) /\ dialogs < MaxDialogs
  /\ dialogs' = dialogs + 1
  /\ UNCHANGED <<svcRest, shown, life, consent>>

ClickStop ==
  /\ Clicked /\ isServiceStarted /\ bound
  /\ Calls(UseNull)
  /\ UNCHANGED <<svcRest, shown, life, dialogs, consent>>

ClickUnbound ==
  /\ Clicked /\ ~isServiceStarted /\ ~bound
  /\ Calls(<< <<"switch", "">> >>)
  /\ UNCHANGED <<svcRest, shown, life, dialogs, consent>>

AppRevoke == Revoke /\ consent' = FALSE /\ UNCHANGED <<shown, life, dialogs, clicks>>

AppNext ==
  /\ "main" \notin thrown
  /\ \/ AppStep \/ AppRunPost \/ Reenable
     \/ CreateView \/ ServiceConnected \/ StopView \/ DestroyView \/ ShowView
     \/ Touch \/ ClickStart \/ ClickAsks \/ ClickStop \/ ClickUnbound
     \/ CloseBroadcast /\ UNCHANGED uiVars
     \/ AppRevoke

\* The threads run (as in FairSpec), and the looper gets to every message in its queue however
\* often other messages come first; the user and the system need not do anything.
AppFairness ==
  /\ WF_appVars("main" \notin thrown /\ AppStep)
  /\ SF_appVars("main" \notin thrown /\ AppRunPost)
  /\ SF_appVars("main" \notin thrown /\ Reenable)
  /\ SF_appVars("main" \notin thrown /\ ServiceConnected)

AppSpec == AppInit /\ [][AppNext]_appVars /\ AppFairness

-----------------------------------------------------------------------------
\* A fragment that gets the callbacks shows the state of the service, and its
\* button does what the service's state calls for; only after a revocation that was
\* cut short may the button still be that of a connected service (stateChanged,
\* updateState).
FragmentAgrees ==
  Quiet /\ registered =>
    /\ uiState = mState
    /\ isServiceStarted = (mState = "CONNECTED") \/ (mState = "STOPPING" /\ CutShort)

\* The fragment never starts a session while the CONNECTING of another one is
\* still to run: what use() counts on to tell a first start from a second.
StartsOnce ==
  At("main", "begin") => \A i \in DOMAIN posts : posts[i] # "CONNECTING"

\* The connect button can be clicked again and again, whatever the service does,
\* unless the fragment has missed callbacks or a guard without a child has cut a
\* revocation short (changeSwitch, stateChanged).
ButtonReturns ==
  view = "started" /\ bound /\ stops = 0 ~>
    enabled \/ stops > 0 \/ "main" \in thrown \/ CutShort
=============================================================================
