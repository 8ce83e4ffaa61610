---------------------------- MODULE GRouteProofs ----------------------------
(***************************************************************************)
(* Proofs about GRoute: the app as a whole is one of the surroundings that *)
(* TunnelService allows for its service, so what is proved there of the    *)
(* :vpn process holds of the app, for every pace of the disturbances.      *)
(* And the UI tells the truth once the app has settled, when taps, probe   *)
(* results and faults of a process come one at a time; another VPN app may *)
(* take over at any time.                                                  *)
(***************************************************************************)
EXTENDS GRoute, TunnelServiceProofs, SequenceTheorems

-----------------------------------------------------------------------------
(* The UI process *)

\* What the UI process sends: nothing, or one request.
Asks == UNCHANGED intents \/ \E m \in Requests : StartService(m)

\* The state and the dialogs, which every way to connect may change.
Front == /\ ui \in Connection
         /\ activeId \in Configs \cup {NoConfig}
         /\ dialog \in {"none", "notify", "vpn"}
         /\ pendingConnect \in Configs \cup {NoConfig}
         /\ afterPermission \in Configs \cup {NoConfig}
         /\ dialog = "vpn" => afterPermission \in Configs
         /\ dialog = "notify" => pendingConnect \in Configs

\* The rest of the fields.
Rest == /\ seen \in Connection
        /\ pickJob \in Configs \cup {NoConfig} /\ autoSwitch \in Configs \cup {NoConfig}
        /\ picking \in BOOLEAN /\ autoSelect \in BOOLEAN
        /\ selected \in Configs
        /\ granted \subseteq {"notify", "vpn"}
        /\ warming \subseteq {"create", "collect"}

Pins == fetching \subseteq PinConfigs /\ unpinned \subseteq PinConfigs

Switches == /\ switchers \in [Switcher -> [pc : {"idle", "wait", "delay"},
                                           cfg : Configs \cup {NoConfig}]]
            /\ \A k \in Switcher : switchers[k].pc # "idle" => switchers[k].cfg \in Configs

\* The invariant of the UI process: what waits for an answer or for a delay has
\* a config to go on with.
UiInv == Front /\ Rest /\ Pins /\ Switches

\* proceedConnect keeps the state and the dialogs in order, and starts the
\* service with the config it was called with, or not at all.
LEMMA ConnectFront ==
    ASSUME Front, NEW c \in Configs, ProceedConnect(c),
           pendingConnect' \in {pendingConnect, NoConfig}
    PROVE  Asks /\ Front'
<1>1. Asks
  BY DEF ProceedConnect, Asks, Requests
<1>2. Front'
  BY DEF Front, ProceedConnect, SetConnecting, Connection
<1> QED BY <1>1, <1>2

\* proceedLaunch may ask for the notification permission first.
LEMMA LaunchFront ==
    ASSUME Front, NEW c \in Configs, ProceedLaunch(c)
    PROVE  Asks /\ Front'
<1>1. CASE ProceedConnect(c) /\ UNCHANGED pendingConnect
  BY <1>1, ConnectFront
<1>2. CASE /\ dialog' = "notify" /\ pendingConnect' = c
           /\ UNCHANGED <<ui, activeId, intents, afterPermission>>
  BY <1>2 DEF Front, Asks
<1> QED BY <1>1, <1>2 DEF ProceedLaunch

\* launchConnect may fetch a pin first.
LEMMA LaunchKeeps ==
    ASSUME Front, Pins, NEW c \in Configs, LaunchConnect(c)
    PROVE  Asks /\ Front' /\ fetching' \subseteq PinConfigs
<1>1. CASE ProceedLaunch(c) /\ UNCHANGED fetching
  BY <1>1, LaunchFront DEF Pins
<1>2. CASE /\ c \in unpinned /\ SetConnecting(c) /\ fetching' = fetching \cup {c}
           /\ UNCHANGED <<intents, dialogVars>>
  BY <1>2 DEF Front, Pins, Asks, SetConnecting, Connection, dialogVars
<1> QED BY <1>1, <1>2 DEF LaunchConnect

\* switchTo connects at once, or sends STOP and leaves the rest to a coroutine.
LEMMA SwitchKeeps ==
    ASSUME Front, Pins, Switches, NEW c \in Configs, SwitchTo(c)
    PROVE  Asks /\ Front' /\ fetching' \subseteq PinConfigs /\ Switches'
<1>1. CASE LaunchConnect(c) /\ UNCHANGED switchers
  BY <1>1, LaunchKeeps DEF Switches
<1>2. CASE /\ StartService(Stop)
           /\ \E k \in Switcher : switchers' = [switchers EXCEPT ![k] = [pc |-> "wait", cfg |-> c]]
           /\ UNCHANGED <<ui, activeId, dialogVars, fetching>>
  <2>1. Asks
    BY <1>2 DEF Asks, Requests
  <2>2. Front' /\ fetching' \subseteq PinConfigs
    BY <1>2 DEF Front, Pins, dialogVars
  <2>3. Switches'
    BY <1>2 DEF Switches
  <2> QED BY <2>1, <2>2, <2>3
<1> QED BY <1>1, <1>2 DEF SwitchTo

-----------------------------------------------------------------------------
(* The handlers and the coroutines *)

\* Nothing of the UI process changes.
LEMMA UiIdle == ASSUME UiInv, UNCHANGED uiVars PROVE UiInv'
BY DEF UiInv, Front, Rest, Pins, Switches, uiVars, dialogVars, settings

\* The state is the only part of Front that a broadcast, a timeout or the tile
\* changes.
LEMMA StateFront ==
    ASSUME Front, ui' \in Connection, activeId' \in Configs \cup {NoConfig}, UNCHANGED dialogVars
    PROVE  Front'
BY DEF Front, dialogVars

\* The taps keep the invariant and send at most one request.
LEMMA UserKeeps ==
    ASSUME UiInv, User
    PROVE  UiInv' /\ Asks
<1>0. Front /\ Rest /\ Pins /\ Switches
  BY DEF UiInv
<1>1. CASE ConnectTo
  <2>1. CASE LaunchConnect(selected) /\ UNCHANGED <<picking, pickJob>>
    <3>1. Asks /\ Front' /\ fetching' \subseteq PinConfigs
      BY <1>0, <2>1, LaunchKeeps DEF Rest
    <3>2. UNCHANGED <<settings, autoSwitch, switchers, seen, warming>>
      BY <1>1 DEF ConnectTo
    <3>3. Rest' /\ Pins' /\ Switches'
      BY <1>0, <2>1, <3>1, <3>2 DEF Rest, Pins, Switches, settings
    <3> QED BY <3>1, <3>3 DEF UiInv
  <2>2. CASE /\ picking' = (pickJob = NoConfig) /\ pickJob' = selected
             /\ UNCHANGED launchVars
    <3>1. UNCHANGED <<settings, autoSwitch, switchers, seen, warming>>
      BY <1>1 DEF ConnectTo
    <3>2. Asks /\ Front' /\ Pins' /\ Switches'
      BY <1>0, <2>2, <3>1 DEF Asks, Front, Pins, Switches, settings, launchVars, dialogVars
    <3>3. Rest'
      BY <1>0, <2>2, <3>1 DEF Rest, settings
    <3> QED BY <3>2, <3>3 DEF UiInv
  <2> QED BY <1>1, <2>1, <2>2 DEF ConnectTo
<1>2. CASE Disconnect \/ NotificationStop
  <2>1. StartService(Stop) /\ UNCHANGED uiVars
    BY <1>2 DEF Disconnect, NotificationStop
  <2> QED BY <2>1, UiIdle DEF Asks, Requests
<1>3. CASE SetAutoSelect
  <2>1. Asks /\ Front' /\ Pins' /\ Switches'
    BY <1>0, <1>3 DEF SetAutoSelect, Asks, Front, Pins, Switches, launchVars, dialogVars
  <2>2. Rest'
    BY <1>0, <1>3 DEF SetAutoSelect, Rest
  <2> QED BY <2>1, <2>2 DEF UiInv
<1>4. CASE \E c \in Configs : Select(c)
  <2>1. PICK c \in Configs : Select(c)
    BY <1>4
  <2>2. CASE SwitchTo(c)
    <3>1. Asks /\ Front' /\ fetching' \subseteq PinConfigs /\ Switches'
      BY <1>0, <2>2, SwitchKeeps
    <3>2. Rest' /\ Pins'
      BY <1>0, <2>1, <3>1 DEF Select, Rest, Pins
    <3> QED BY <3>1, <3>2 DEF UiInv
  <2>3. CASE UNCHANGED <<launchVars, switchers>>
    <3>1. Asks /\ Front' /\ Pins' /\ Switches'
      BY <1>0, <2>1, <2>3 DEF Select, Asks, Front, Pins, Switches, launchVars, dialogVars
    <3>2. Rest'
      BY <1>0, <2>1 DEF Select, Rest
    <3> QED BY <3>1, <3>2 DEF UiInv
  <2> QED BY <2>1, <2>2, <2>3 DEF Select
<1>5. CASE TileToggle(ServiceRunning)
  <2>1. UNCHANGED <<dialogVars, fetching, pickJob, settings, autoSwitch, switchers, seen, warming>>
    BY <1>5 DEF TileToggle
  <2>2. /\ ui' \in Connection /\ activeId' \in Configs \cup {NoConfig} /\ picking' \in BOOLEAN
    BY <1>0, <1>5 DEF TileToggle, SetDisconnected, SetConnecting, Connection, Rest
  <2>3. Asks
    BY <1>0, <1>5 DEF TileToggle, Asks, Requests, Rest
  <2>4. Front'
    BY <1>0, <2>1, <2>2, StateFront
  <2>5. Rest' /\ Pins' /\ Switches'
    BY <1>0, <2>1, <2>2 DEF Rest, Pins, Switches, settings
  <2> QED BY <2>3, <2>4, <2>5 DEF UiInv
<1> QED BY <1>1, <1>2, <1>3, <1>4, <1>5 DEF User

\* The answers to the dialogs, and a cancelled search.
LEMMA AnswerKeeps ==
    ASSUME UiInv, Answer
    PROVE  UiInv' /\ Asks
<1>0. Front /\ Rest /\ Pins /\ Switches
  BY DEF UiInv
<1>1. CASE CancelPick
  <2>1. Asks /\ Front' /\ Pins' /\ Switches'
    BY <1>0, <1>1 DEF CancelPick, Asks, Front, Pins, Switches, launchVars, dialogVars, settings
  <2>2. Rest'
    BY <1>0, <1>1 DEF CancelPick, Rest, settings
  <2> QED BY <2>1, <2>2 DEF UiInv
<1>2. CASE \E ok \in BOOLEAN : NotificationPermission(ok)
  <2>1. PICK ok \in BOOLEAN : NotificationPermission(ok)
    BY <1>2
  <2>2. pendingConnect \in Configs /\ ProceedConnect(pendingConnect) /\ pendingConnect' = NoConfig
    BY <1>0, <2>1 DEF NotificationPermission, Front
  <2>3. Asks /\ Front'
    BY <1>0, <2>2, ConnectFront
  <2>4. Rest'
    BY <1>0, <2>1 DEF NotificationPermission, Rest
  <2>5. Pins' /\ Switches'
    BY <1>0, <2>1 DEF NotificationPermission, Pins, Switches
  <2> QED BY <2>3, <2>4, <2>5 DEF UiInv
<1>3. CASE \E ok \in BOOLEAN : VpnPermission(ok)
  <2>1. PICK ok \in BOOLEAN : VpnPermission(ok)
    BY <1>3
  <2>2. afterPermission \in Configs /\ dialog' = "none"
        /\ UNCHANGED <<pendingConnect, afterPermission>>
    BY <1>0, <2>1 DEF VpnPermission, Front
  <2>3. Asks
    BY <2>1, <2>2 DEF VpnPermission, Asks, Requests
  <2>4. Front'
    BY <1>0, <2>1, <2>2 DEF VpnPermission, Front, SetDisconnected, Connection
  <2>5. Rest'
    BY <1>0, <2>1 DEF VpnPermission, Rest, SetDisconnected
  <2>6. Pins' /\ Switches'
    BY <1>0, <2>1 DEF VpnPermission, Pins, Switches
  <2> QED BY <2>3, <2>4, <2>5, <2>6 DEF UiInv
<1> QED BY <1>1, <1>2, <1>3 DEF Answer

\* The coroutines of MainActivity, between two suspension points.
LEMMA CoroutineKeeps ==
    ASSUME UiInv, Coroutine
    PROVE  UiInv' /\ Asks
<1>0. Front /\ Rest /\ Pins /\ Switches
  BY DEF UiInv
<1>1. CASE \E c \in Configs : FetchDone(c)
  <2>1. PICK c \in Configs : FetchDone(c)
    BY <1>1
  <2>2. Asks /\ Front'
    BY <1>0, <2>1, LaunchFront DEF FetchDone
  <2>3. Pins'
    BY <1>0, <2>1 DEF FetchDone, Pins
  <2>4. Rest' /\ Switches'
    BY <1>0, <2>1 DEF FetchDone, Rest, Switches
  <2> QED BY <2>2, <2>3, <2>4 DEF UiInv
<1>2. CASE \E c \in Configs : PickDone(c)
  <2>1. PICK c \in Configs : PickDone(c)
    BY <1>2
  <2>2. Asks /\ Front' /\ fetching' \subseteq PinConfigs
    BY <1>0, <2>1, LaunchKeeps DEF PickDone
  <2>3. Rest'
    BY <1>0, <2>1 DEF PickDone, Rest
  <2>4. Pins' /\ Switches'
    BY <1>0, <2>1, <2>2 DEF PickDone, Pins, Switches
  <2> QED BY <2>2, <2>3, <2>4 DEF UiInv
<1>3. CASE \E k \in Switcher : SwitchWait(k, intents = <<>> /\ broadcasts = <<>>)
  <2>1. PICK k \in Switcher : SwitchWait(k, intents = <<>> /\ broadcasts = <<>>)
    BY <1>3
  <2>2. /\ switchers[k].pc = "wait"
        /\ switchers' = [switchers EXCEPT ![k].pc = "delay"]
        /\ UNCHANGED <<intents, dialogVars, fetching, pickJob, settings, autoSwitch, seen, warming>>
    BY <2>1 DEF SwitchWait
  <2>3. /\ ui' \in Connection /\ activeId' \in Configs \cup {NoConfig} /\ picking' \in BOOLEAN
    BY <1>0, <2>1 DEF SwitchWait, Front, Rest, SetDisconnected, Connection
  <2>4. Front'
    BY <1>0, <2>2, <2>3, StateFront
  <2>5. Rest' /\ Pins' /\ Asks
    BY <1>0, <2>2, <2>3 DEF Rest, Pins, Asks, settings
  <2>6. Switches'
    BY <1>0, <2>2 DEF Switches
  <2> QED BY <2>4, <2>5, <2>6 DEF UiInv
<1>4. CASE \E k \in Switcher : SwitchLaunch(k)
  <2>1. PICK k \in Switcher : SwitchLaunch(k)
    BY <1>4
  <2>2. switchers[k].cfg \in Configs /\ LaunchConnect(switchers[k].cfg)
    BY <1>0, <2>1 DEF SwitchLaunch, Switches
  <2>3. Asks /\ Front' /\ fetching' \subseteq PinConfigs
    BY <1>0, <2>2, LaunchKeeps
  <2>4. Rest' /\ Pins'
    BY <1>0, <2>1, <2>3 DEF SwitchLaunch, Rest, Pins, settings
  <2>5. Switches'
    BY <1>0, <2>1 DEF SwitchLaunch, Switches, IdleSwitch
  <2> QED BY <2>3, <2>4, <2>5 DEF UiInv
<1>5. CASE AutoProbe \/ AutoKeep \/ WarmCollect
  <2>1. UNCHANGED <<launchVars, picking, pickJob, settings, switchers>>
    BY <1>5 DEF AutoProbe, AutoKeep, WarmCollect
  <2>2. Asks /\ Front' /\ Pins' /\ Switches'
    BY <1>0, <2>1 DEF Asks, Front, Pins, Switches, launchVars, dialogVars, settings
  <2>3. /\ autoSwitch' \in Configs \cup {NoConfig}
        /\ seen' \in Connection /\ warming' \subseteq {"create", "collect"}
    BY <1>0, <1>5 DEF AutoProbe, AutoKeep, WarmCollect, Front, Rest
  <2>4. Rest'
    BY <1>0, <2>1, <2>3 DEF Rest, settings
  <2> QED BY <2>2, <2>4 DEF UiInv
<1>6. CASE \E c \in Configs : AutoSwitch(c)
  <2>1. PICK c \in Configs : AutoSwitch(c)
    BY <1>6
  <2>2. Asks /\ Front' /\ fetching' \subseteq PinConfigs /\ Switches'
    BY <1>0, <2>1, SwitchKeeps DEF AutoSwitch
  <2>3. Rest' /\ Pins'
    BY <1>0, <2>1, <2>2 DEF AutoSwitch, Rest, Pins
  <2> QED BY <2>2, <2>3 DEF UiInv
<1>7. CASE WarmUp("create") \/ WarmUp("collect")
  <2>1. PICK why \in {"create", "collect"} : WarmUp(why)
    BY <1>7
  <2>2. Asks
    BY <2>1 DEF WarmUp, Asks, Requests
  <2>3. Front' /\ Pins' /\ Switches'
    BY <1>0, <2>1 DEF WarmUp, Front, Pins, Switches, dialogVars, settings
  <2>4. Rest'
    BY <1>0, <2>1 DEF WarmUp, Rest, settings
  <2> QED BY <2>2, <2>3, <2>4 DEF UiInv
<1> QED BY <1>1, <1>2, <1>3, <1>4, <1>5, <1>6, <1>7 DEF Coroutine

\* A broadcast sets the state, and a new process starts from scratch.
LEMMA ReceiverKeeps ==
    ASSUME UiInv, OnReceive \/ UiRestart
    PROVE  UiInv' /\ UNCHANGED intents
<1>0. Front /\ Rest /\ Pins /\ Switches
  BY DEF UiInv
<1>1. CASE OnReceive
  <2>1. UNCHANGED <<intents, dialogVars, fetching, pickJob, settings, autoSwitch,
                    switchers, seen, warming>>
    BY <1>1 DEF OnReceive
  <2>2. ui' \in Connection /\ activeId' \in Configs \cup {NoConfig} /\ picking' \in BOOLEAN
    BY <1>0, <1>1 DEF OnReceive, Front, Rest, SetDisconnected, Connection
  <2>3. Front'
    BY <1>0, <2>1, <2>2, StateFront
  <2>4. Rest' /\ Pins' /\ Switches'
    BY <1>0, <2>1, <2>2 DEF Rest, Pins, Switches, settings
  <2> QED BY <2>1, <2>3, <2>4 DEF UiInv
<1>2. CASE UiRestart
  <2>1. Front'
    BY <1>2 DEF UiRestart, Front, Connection
  <2>2. Rest'
    BY <1>0, <1>2 DEF UiRestart, Rest, Connection, settings
  <2>3. Pins' /\ UNCHANGED intents
    BY <1>0, <1>2 DEF UiRestart, Pins, settings
  <2>4. IdleSwitch \in [pc : {"idle", "wait", "delay"}, cfg : Configs \cup {NoConfig}]
        /\ IdleSwitch.pc = "idle"
    BY DEF IdleSwitch
  <2>5. Switches'
    BY <1>2, <2>4 DEF UiRestart, Switches
  <2> QED BY <2>1, <2>2, <2>3, <2>5 DEF UiInv
<1> QED BY <1>1, <1>2

-----------------------------------------------------------------------------
(* The app *)

AppInv == UiInv /\ revoked \in BOOLEAN

\* A fresh UI process, and the service before its first intent.
LEMMA AppStarts == AppInit => Init /\ UiInv /\ revoked \in BOOLEAN
<1> SUFFICES ASSUME AppInit PROVE Init /\ UiInv /\ revoked \in BOOLEAN
  OBVIOUS
<1>1. Init /\ UiInit /\ revoked \in BOOLEAN
  BY DEF AppInit
<1>2. Front
  BY <1>1 DEF UiInit, Front, Connection
<1>3. Rest /\ Pins
  BY <1>1 DEF UiInit, Rest, Pins, Connection
<1>4. IdleSwitch \in [pc : {"idle", "wait", "delay"}, cfg : Configs \cup {NoConfig}]
      /\ IdleSwitch.pc = "idle"
  BY DEF IdleSwitch
<1>5. Switches
  BY <1>1, <1>4 DEF UiInit, Switches
<1> QED BY <1>1, <1>2, <1>3, <1>5 DEF UiInv

\* A step of the app is a step that TunnelService allows: of the service, or of
\* its client, which sends a request, takes a broadcast or loses them all.
LEMMA AppStep ==
    ASSUME UiInv, revoked \in BOOLEAN, [AppNext]_appVars
    PROVE  [Next]_vars /\ UiInv' /\ revoked' \in BOOLEAN
<1>1. CASE (User \/ Answer \/ Coroutine) /\ UNCHANGED broadcasts /\ UNCHANGED <<svcVars, revoked>>
  <2>1. UiInv' /\ Asks
    BY <1>1, UserKeeps, AnswerKeeps, CoroutineKeeps
  <2>2. CASE UNCHANGED intents
    BY <1>1, <2>1, <2>2 DEF vars
  <2>3. CASE \E m \in Requests : StartService(m)
    BY <1>1, <2>1, <2>3 DEF Next, ClientNext, Send
  <2> QED BY <2>1, <2>2, <2>3 DEF Asks
<1>2. CASE (OnReceive \/ UiRestart) /\ UNCHANGED <<svcVars, revoked>>
  <2>1. UiInv' /\ UNCHANGED intents
    BY <1>2, ReceiverKeeps
  <2>2. broadcasts' = <<>> \/ (broadcasts # <<>> /\ broadcasts' = Tail(broadcasts))
    BY <1>2 DEF OnReceive, UiRestart
  <2>3. CASE broadcasts = <<>>
    BY <1>2, <2>1, <2>2, <2>3 DEF vars
  <2>4. CASE broadcasts # <<>>
    BY <1>2, <2>1, <2>2, <2>4 DEF Next, ClientNext, Receive
  <2> QED BY <2>3, <2>4
<1>3. CASE SetKillSwitch /\ UNCHANGED <<uiVars, revoked>>
  BY <1>3, UiIdle DEF Next, ClientNext
<1>4. CASE Revoke
  <2>1. OnRevoke /\ revoked' = TRUE
    BY <1>4 DEF Revoke
  <2>2. Front' /\ Pins' /\ Switches'
    BY <1>4 DEF Revoke, UiInv, Front, Pins, Switches, dialogVars
  <2>3. Rest'
    BY <1>4 DEF Revoke, UiInv, Rest
  <2> QED BY <2>1, <2>2, <2>3 DEF UiInv, Next, ServiceNext
<1>5. CASE ServiceStep
  <2>1. UNCHANGED uiVars /\ revoked' \in BOOLEAN
    BY <1>5 DEF ServiceStep
  <2>2. Next
    BY <1>5 DEF ServiceStep, Next, ServiceNext
  <2> QED BY <2>1, <2>2, UiIdle
<1>6. CASE UNCHANGED appVars
  BY <1>6, UiIdle DEF appVars, vars
<1> QED BY <1>1, <1>2, <1>3, <1>4, <1>5, <1>6 DEF AppNext, UiNext

\* The app implements the specification of the service's surroundings: with
\* the real UI process in the place of any client, the :vpn process behaves as
\* TunnelService says.
THEOREM AppRunsService == AppSpec => Spec
<1>1. AppInit => Init /\ AppInv
  BY AppStarts DEF AppInv
<1>2. AppInv /\ [AppNext]_appVars => [Next]_vars /\ AppInv'
  BY AppStep DEF AppInv
<1> QED BY <1>1, <1>2, PTL DEF AppSpec, Spec

\* The variables of both processes have their types in every reachable state.
THEOREM AppTypes == AppSpec => []AppTypeOK
<1>1. UiInv => UiTypeOK
  BY DEF UiInv, Front, Rest, Pins, Switches, UiTypeOK
<1>2. AppInit => AppInv
  BY AppStarts DEF AppInv
<1>3. AppInv /\ [AppNext]_appVars => AppInv'
  BY AppStep DEF AppInv
<1>4. TypeOK /\ AppInv => AppTypeOK
  BY <1>1 DEF AppInv, AppTypeOK
<1> QED BY <1>2, <1>3, <1>4, AppRunsService, TypeCorrect, PTL DEF AppSpec

\* In the app too no detached descriptor leaks or has two owners, no coroutine
\* and no error closes the interface that blocks traffic, and with the kill
\* switch on, as the process has read it, only a STOP ends the service.
THEOREM AppSafe == AppSpec => /\ []DetachedFdHasOneOwner
                              /\ BlockHolds /\ KillSwitchKeepsService
BY AppRunsService, OneOwner, BlockStays, KillSwitchStays, PTL

-----------------------------------------------------------------------------
(* The two queues *)

\* Only requests to warm up are on their way to the service.
Warms(q) == \A n \in 1..Len(q) : q[n] = Warm

\* No request to warm up is on its way to the service.
NoWarm(q) == \A n \in 1..Len(q) : q[n] # Warm

\* One other intent m, behind requests to warm up, or before them.
Behind(q, m) == q # <<>> /\ q[Len(q)] = m /\ \A n \in 1..Len(q) : n < Len(q) => q[n] = Warm
Before(q, m) == q # <<>> /\ Head(q) = m /\ Warms(Tail(q))

\* onDestroy is on its way: behind requests to warm up and STARTs, and before
\* requests to warm up; there is none but requests to warm up with it.
Closing(q) == \E n \in 1..Len(q) :
                 /\ q[n] = Destroy
                 /\ \A k \in 1..Len(q) :
                       /\ k < n => q[k] = Warm \/ \E c \in Configs : q[k] = Start(c)
                       /\ k > n => q[k] = Warm
OnlyClosing(q) == \E n \in 1..Len(q) : /\ q[n] = Destroy
                                       /\ \A k \in 1..Len(q) : k # n => q[k] = Warm

\* m comes last, behind requests to warm up and onDestroy.
Last(q, m) == /\ q # <<>> /\ q[Len(q)] = m
              /\ \E n \in 1..Len(q) : /\ n < Len(q) /\ q[n] = Destroy
                                      /\ \A k \in 1..Len(q) : k # n /\ k < Len(q) => q[k] = Warm

\* No broadcast on its way will change the state.
Silent(q) == \A n \in 1..Len(q) : q[n] = "counters"

\* The broadcasts end with a state of S, starting from v.
Shown(m) == CASE m = "connected" -> "CONNECTED"
              [] m = "error" -> "ERROR"
              [] m = "disconnected" -> "DISCONNECTED"
              [] OTHER -> "none"
Tells(v, q, S) ==
    \/ Silent(q) /\ v \in S
    \/ \E n \in 1..Len(q) : /\ q[n] # "counters" /\ Shown(q[n]) \in S
                            /\ \A k \in 1..Len(q) : k > n => q[k] = "counters"

\* Exactly one broadcast will change the state, to DISCONNECTED.
Farewell(q) == \E n \in 1..Len(q) : /\ q[n] = "disconnected"
                                    /\ \A k \in 1..Len(q) : k # n => q[k] = "counters"

\* No broadcast takes the state down; one takes it up.
Upward(q)  == \A n \in 1..Len(q) : q[n] \in {"counters", "connected"}
Brings(q)  == \E n \in 1..Len(q) : q[n] = "connected"
NoGoodbye(q) == \A n \in 1..Len(q) : q[n] # "disconnected"

\* An empty queue.
LEMMA EmptyQueue ==
    /\ Warms(<<>>) /\ NoWarm(<<>>) /\ Silent(<<>>) /\ Upward(<<>>) /\ NoGoodbye(<<>>)
    /\ ~Brings(<<>>) /\ ~Farewell(<<>>) /\ ~HasDestroy(<<>>) /\ ~Closing(<<>>) /\ ~OnlyClosing(<<>>)
    /\ \A v, S : Tells(v, <<>>, S) <=> v \in S
    /\ \A m : Behind(Append(<<>>, m), m) /\ Before(Append(<<>>, m), m)
    /\ \A m : Append(<<>>, m) # <<>> /\ Head(Append(<<>>, m)) = m /\ Tail(Append(<<>>, m)) = <<>>
    /\ Undelivered(<<>>) = <<>>
<1>1. \A n : n \notin 1..Len(<<>>)
  OBVIOUS
<1>2. /\ Warms(<<>>) /\ NoWarm(<<>>) /\ Silent(<<>>) /\ Upward(<<>>) /\ NoGoodbye(<<>>)
      /\ ~Brings(<<>>) /\ ~Farewell(<<>>) /\ ~HasDestroy(<<>>) /\ ~Closing(<<>>) /\ ~OnlyClosing(<<>>)
  BY <1>1 DEF Warms, NoWarm, Silent, Upward, NoGoodbye, Brings, Farewell, HasDestroy, Closing, OnlyClosing
<1>3. \A v, S : Tells(v, <<>>, S) <=> v \in S
  BY <1>1, <1>2 DEF Tells
<1>4. ASSUME NEW m
      PROVE  Append(<<>>, m) # <<>> /\ Head(Append(<<>>, m)) = m /\ Tail(Append(<<>>, m)) = <<>>
             /\ Len(Append(<<>>, m)) = 1 /\ Append(<<>>, m)[1] = m
  <2>1. <<>> \in Seq({m}) /\ m \in {m}
    OBVIOUS
  <2>2. Append(<<>>, m) = <<m>>
    OBVIOUS
  <2> QED BY <2>1, <2>2
<1>5. \A m : Behind(Append(<<>>, m), m) /\ Before(Append(<<>>, m), m)
  BY <1>2, <1>4 DEF Behind, Before
<1>6. Undelivered(<<>>) = <<>>
  BY <1>2 DEF Undelivered
<1> QED BY <1>2, <1>3, <1>4, <1>5, <1>6

\* An intent goes to the end of the queue.
LEMMA SendIntent ==
    ASSUME NEW q \in Seq(Intent), NEW m \in Intent
    PROVE  /\ Append(q, m) # <<>>
           /\ Warms(q) => Warms(Append(q, Warm)) /\ Behind(Append(q, m), m)
           /\ \A e : Before(q, e) => Before(Append(q, Warm), e)
<1>1. Warm \in Intent
  BY DEF Warm, Intent
<1>2. \A e \in Intent : /\ Append(q, e) \in Seq(Intent) /\ Len(Append(q, e)) = Len(q) + 1
                        /\ Append(q, e)[Len(q) + 1] = e
                        /\ \A n \in 1..Len(q) : Append(q, e)[n] = q[n]
  OBVIOUS
<1>3. \A e \in Intent : Append(q, e) # <<>>
  <2>1. Len(<<>>) = 0 /\ Len(q) + 1 # 0
    OBVIOUS
  <2> QED BY <1>2, <2>1
<1>4. ASSUME Warms(q) PROVE Warms(Append(q, Warm))
  BY <1>1, <1>2, <1>4 DEF Warms
<1>5. ASSUME Warms(q) PROVE Behind(Append(q, m), m)
  BY <1>2, <1>3, <1>5 DEF Behind, Warms
<1>6. ASSUME NEW e, Before(q, e) PROVE Before(Append(q, Warm), e)
  <2>1. q # <<>> /\ Head(q) = e /\ Warms(Tail(q)) /\ Tail(q) \in Seq(Intent)
    BY <1>6 DEF Before
  <2>2. Head(Append(q, Warm)) = Head(q) /\ Tail(Append(q, Warm)) = Append(Tail(q), Warm)
    BY <1>1, <2>1
  <2>3. Warms(Append(Tail(q), Warm))
    BY <1>1, <2>1 DEF Warms
  <2> QED BY <1>1, <1>3, <2>1, <2>2, <2>3 DEF Before
<1> QED BY <1>1, <1>3, <1>4, <1>5, <1>6

\* The main thread takes the intent at the head.
LEMMA TakeIntent ==
    ASSUME NEW q \in Seq(Intent), q # <<>>
    PROVE  /\ Tail(q) \in Seq(Intent)
           /\ Warms(q) => Head(q) = Warm /\ Warms(Tail(q))
           /\ NoWarm(q) => Head(q) # Warm /\ NoWarm(Tail(q))
           /\ \A m : Behind(q, m) => \/ Head(q) = m /\ Tail(q) = <<>>
                                     \/ Head(q) = Warm /\ Behind(Tail(q), m)
<1>1. /\ Tail(q) \in Seq(Intent) /\ Head(q) = q[1] /\ Len(q) \in Nat /\ Len(q) > 0
      /\ Len(Tail(q)) = Len(q) - 1
      /\ \A n \in 1..Len(Tail(q)) : Tail(q)[n] = q[n + 1]
  OBVIOUS
<1>2. Warms(q) => Head(q) = Warm /\ Warms(Tail(q))
  BY <1>1 DEF Warms
<1>3. NoWarm(q) => Head(q) # Warm /\ NoWarm(Tail(q))
  BY <1>1 DEF NoWarm
<1>4. ASSUME NEW m, Behind(q, m)
      PROVE  \/ Head(q) = m /\ Tail(q) = <<>>
             \/ Head(q) = Warm /\ Behind(Tail(q), m)
  <2>1. q[Len(q)] = m /\ \A n \in 1..Len(q) : n < Len(q) => q[n] = Warm
    BY <1>4 DEF Behind
  <2>2. CASE Len(q) = 1
    <3>1. \A s \in Seq(Intent) : Len(s) = 0 => s = <<>>
      OBVIOUS
    <3>2. Tail(q) \in Seq(Intent) /\ Len(Tail(q)) = 0
      BY <1>1, <2>2
    <3>3. Tail(q) = <<>>
      BY <3>1, <3>2, Zenon
    <3> QED BY <1>1, <2>1, <2>2, <3>3
  <2>3. CASE Len(q) # 1
    <3>1. Tail(q) # <<>> /\ Head(q) = Warm
      BY <1>1, <2>1, <2>3
    <3>2. Tail(q)[Len(Tail(q))] = m
      BY <1>1, <2>1, <2>3
    <3>3. \A n \in 1..Len(Tail(q)) : n < Len(Tail(q)) => Tail(q)[n] = Warm
      BY <1>1, <2>1
    <3> QED BY <3>1, <3>2, <3>3 DEF Behind
  <2> QED BY <2>2, <2>3
<1> QED BY <1>1, <1>2, <1>3, <1>4

\* What the queues of this kind hold: no STOP, and no onDestroy but the one named.
LEMMA QueueHolds ==
    ASSUME NEW q \in Seq(Intent)
    PROVE  /\ Warms(q) => ~HasDestroy(q) /\ Undelivered(q) = q
           /\ Behind(q, Destroy) => Undelivered(q) = <<>>
           /\ Behind(q, Stop) => \E n \in 1..Len(q) : q[n].act = "STOP"
<1>1. ASSUME Warms(q) PROVE ~HasDestroy(q)
  BY <1>1 DEF Warms, HasDestroy, Warm
<1>2. ASSUME Behind(q, Destroy) PROVE Undelivered(q) = <<>>
  <2>0. q[Len(q)] = Destroy /\ q # <<>> /\ \A n \in 1..Len(q) : n < Len(q) => q[n] = Warm
    BY <1>2 DEF Behind
  <2>1. Len(q) \in 1..Len(q) /\ q[Len(q)].act = "DESTROY"
    BY <2>0 DEF Destroy
  <2>2. \A n \in 1..Len(q) : q[n].act = "DESTROY" => n = Len(q)
    BY <2>0 DEF Warm
  <2>3. (CHOOSE k \in 1..Len(q) : q[k].act = "DESTROY") = Len(q)
    BY <2>1, <2>2
  <2>4. HasDestroy(q)
    BY <2>1 DEF HasDestroy
  <2>5. Undelivered(q) = SubSeq(q, Len(q) + 1, Len(q))
    BY <2>3, <2>4 DEF Undelivered
  <2>6. Len(q) + 1 > Len(q) /\ Len(q) \in Nat
    OBVIOUS
  <2> QED BY <2>5, <2>6
<1>3. ASSUME Behind(q, Stop) PROVE \E n \in 1..Len(q) : q[n].act = "STOP"
  <2>1. Len(q) \in 1..Len(q) /\ q[Len(q)].act = "STOP"
    BY <1>3 DEF Behind, Stop
  <2> QED BY <2>1
<1> QED BY <1>1, <1>2, <1>3 DEF Undelivered

\* onDestroy in the queue: what it is sent behind and what is sent behind it.
LEMMA SendDestroy ==
    ASSUME NEW q \in Seq(Intent)
    PROVE  /\ Warms(q) => OnlyClosing(Append(q, Destroy))
           /\ OnlyClosing(q) => Closing(q) /\ OnlyClosing(Append(q, Warm))
           /\ \A c \in Configs : OnlyClosing(q) => Last(Append(q, Start(c)), Start(c))
           /\ \A c \in Configs : Behind(q, Start(c)) => Closing(Append(q, Destroy))
           /\ Closing(q) => Closing(Append(q, Warm)) /\ HasDestroy(q)
           /\ \A m : Last(q, m) => HasDestroy(q)
           /\ NoWarm(q) => NoWarm(Append(q, Destroy))
<1>1. /\ Warm \in Intent /\ Destroy \in Intent /\ Warm # Destroy /\ Destroy.act = "DESTROY"
      /\ \A c \in Configs : Start(c) \in Intent
  BY DEF Warm, Destroy, Start, Intent
<1>2. \A e \in Intent : /\ Append(q, e) \in Seq(Intent) /\ Len(Append(q, e)) = Len(q) + 1
                        /\ Append(q, e)[Len(q) + 1] = e
                        /\ \A n \in 1..Len(q) : Append(q, e)[n] = q[n]
  OBVIOUS
<1>3. \A e \in Intent : Append(q, e) # <<>>
  <2>1. Len(<<>>) = 0 /\ Len(q) + 1 # 0
    OBVIOUS
  <2> QED BY <1>2, <2>1
<1>4. ASSUME Warms(q) PROVE OnlyClosing(Append(q, Destroy))
  <2>1. Len(q) + 1 \in 1..Len(Append(q, Destroy)) /\ Append(q, Destroy)[Len(q) + 1] = Destroy
    BY <1>1, <1>2
  <2>2. \A k \in 1..Len(Append(q, Destroy)) : k # Len(q) + 1 => Append(q, Destroy)[k] = Warm
    BY <1>1, <1>2, <1>4 DEF Warms
  <2> QED BY <2>1, <2>2 DEF OnlyClosing
<1>5. ASSUME OnlyClosing(q)
      PROVE  /\ Closing(q) /\ OnlyClosing(Append(q, Warm))
             /\ \A c \in Configs : Last(Append(q, Start(c)), Start(c))
  <2>1. PICK n \in 1..Len(q) : q[n] = Destroy /\ \A k \in 1..Len(q) : k # n => q[k] = Warm
    BY <1>5 DEF OnlyClosing
  <2>2. Closing(q)
    <3>1. \A k \in 1..Len(q) : (k < n => q[k] = Warm) /\ (k > n => q[k] = Warm)
      BY <2>1
    <3> QED BY <2>1, <3>1 DEF Closing
  <2>3. \A e \in Intent : n \in 1..Len(Append(q, e)) /\ Append(q, e)[n] = Destroy /\ n < Len(Append(q, e))
    BY <1>2, <2>1
  <2>4. \A k \in 1..Len(Append(q, Warm)) : k # n => Append(q, Warm)[k] = Warm
    BY <1>1, <1>2, <2>1
  <2>5. \A e \in Intent : \A k \in 1..Len(Append(q, e)) : k # n /\ k < Len(Append(q, e))
                                                         => Append(q, e)[k] = Warm
    BY <1>2, <2>1
  <2>6. OnlyClosing(Append(q, Warm))
    BY <1>1, <2>3, <2>4 DEF OnlyClosing
  <2>7. ASSUME NEW e \in Intent PROVE Last(Append(q, e), e)
    BY <1>2, <1>3, <2>3, <2>5 DEF Last
  <2> QED BY <1>1, <2>2, <2>6, <2>7
<1>6. ASSUME NEW c \in Configs, Behind(q, Start(c)) PROVE Closing(Append(q, Destroy))
  <2>1. q[Len(q)] = Start(c) /\ \A n \in 1..Len(q) : n < Len(q) => q[n] = Warm
    BY <1>6 DEF Behind
  <2>2. Len(q) + 1 \in 1..Len(Append(q, Destroy)) /\ Append(q, Destroy)[Len(q) + 1] = Destroy
    BY <1>1, <1>2
  <2>3. \A k \in 1..Len(Append(q, Destroy)) :
          /\ k < Len(q) + 1 => Append(q, Destroy)[k] \in {Warm, Start(c)}
          /\ ~(k > Len(q) + 1)
    BY <1>1, <1>2, <2>1
  <2> QED BY <2>2, <2>3 DEF Closing
<1>7. ASSUME Closing(q) PROVE Closing(Append(q, Warm)) /\ HasDestroy(q)
  <2> DEFINE Early(e) == e = Warm \/ \E c \in Configs : e = Start(c)
  <2>1. PICK n \in 1..Len(q) : /\ q[n] = Destroy
                               /\ \A k \in 1..Len(q) : /\ k < n => Early(q[k])
                                                       /\ k > n => q[k] = Warm
    BY <1>7 DEF Closing
  <2> HIDE DEF Early
  <2>2. n \in 1..Len(Append(q, Warm)) /\ Append(q, Warm)[n] = Destroy
    BY <1>1, <1>2, <2>1
  <2>3. \A k \in 1..Len(Append(q, Warm)) : /\ k < n => Early(Append(q, Warm)[k])
                                           /\ k > n => Append(q, Warm)[k] = Warm
    BY <1>1, <1>2, <2>1
  <2>4. Closing(Append(q, Warm))
    BY <2>2, <2>3 DEF Closing, Early
  <2> QED BY <1>1, <2>1, <2>4 DEF HasDestroy
<1>8. \A m : Last(q, m) => HasDestroy(q)
  BY <1>1 DEF Last, HasDestroy
<1>9. NoWarm(q) => NoWarm(Append(q, Destroy))
  BY <1>1, <1>2 DEF NoWarm
<1> QED BY <1>4, <1>5, <1>6, <1>7, <1>8, <1>9

\* The main thread takes the head of a queue that holds onDestroy.
LEMMA TakeDestroy ==
    ASSUME NEW q \in Seq(Intent)
    PROVE  /\ OnlyClosing(q)
                => \/ Head(q) = Warm /\ OnlyClosing(Tail(q))
                   \/ Head(q) = Destroy /\ Warms(Tail(q))
           /\ \A c \in Configs : Last(q, Start(c))
                => \/ Head(q) = Warm /\ Last(Tail(q), Start(c))
                   \/ Head(q) = Destroy /\ Behind(Tail(q), Start(c))
           /\ Closing(q)
                => \/ /\ Closing(Tail(q))
                      /\ Head(q) = Warm \/ \E c \in Configs : Head(q) = Start(c)
                   \/ Head(q) = Destroy /\ Warms(Tail(q))
           /\ Closing(q) => q # <<>> /\ Warms(Undelivered(q))
           /\ OnlyClosing(q) => q # <<>>
<1>0. q # <<>> => /\ Tail(q) \in Seq(Intent) /\ Head(q) = q[1] /\ Len(q) \in Nat /\ Len(q) > 0
                  /\ Len(Tail(q)) = Len(q) - 1
                  /\ \A n \in 1..Len(Tail(q)) : Tail(q)[n] = q[n + 1]
  OBVIOUS
<1>1. \A n : n \in 1..Len(q) => q # <<>>
  <2>1. Len(<<>>) = 0
    OBVIOUS
  <2> QED BY <2>1
<1>2. ASSUME OnlyClosing(q) PROVE \/ Head(q) = Warm /\ OnlyClosing(Tail(q))
                                  \/ Head(q) = Destroy /\ Warms(Tail(q))
  <2>1. PICK n \in 1..Len(q) : q[n] = Destroy /\ \A k \in 1..Len(q) : k # n => q[k] = Warm
    BY <1>2 DEF OnlyClosing
  <2>2. CASE n = 1
    <3>1. \A k \in 1..Len(Tail(q)) : Tail(q)[k] = Warm
      BY <1>0, <1>1, <2>1, <2>2
    <3> QED BY <1>0, <1>1, <2>1, <2>2, <3>1 DEF Warms
  <2>3. CASE n # 1
    <3>1. n - 1 \in 1..Len(Tail(q)) /\ Tail(q)[n - 1] = Destroy /\ Head(q) = Warm
      BY <1>0, <1>1, <2>1, <2>3
    <3>2. \A k \in 1..Len(Tail(q)) : k # n - 1 => Tail(q)[k] = Warm
      BY <1>0, <1>1, <2>1
    <3> QED BY <3>1, <3>2 DEF OnlyClosing
  <2> QED BY <2>2, <2>3
<1>3. ASSUME NEW c \in Configs, Last(q, Start(c))
      PROVE  \/ Head(q) = Warm /\ Last(Tail(q), Start(c))
             \/ Head(q) = Destroy /\ Behind(Tail(q), Start(c))
  <2>1. PICK n \in 1..Len(q) : /\ n < Len(q) /\ q[n] = Destroy
                               /\ \A k \in 1..Len(q) : k # n /\ k < Len(q) => q[k] = Warm
    BY <1>3 DEF Last
  <2>2. q # <<>> /\ q[Len(q)] = Start(c)
    BY <1>3 DEF Last
  <2>3. Tail(q) # <<>> /\ Tail(q)[Len(Tail(q))] = Start(c)
    <3>1. Len(Tail(q)) \in 1..Len(Tail(q)) /\ Len(Tail(q)) + 1 = Len(q)
      BY <1>0, <2>1, <2>2
    <3>2. Len(<<>>) = 0
      OBVIOUS
    <3> QED BY <1>0, <2>2, <3>1, <3>2
  <2>4. CASE n = 1
    <3>1. \A k \in 1..Len(Tail(q)) : k < Len(Tail(q)) => Tail(q)[k] = Warm
      BY <1>0, <2>1, <2>2, <2>4
    <3> QED BY <1>0, <2>1, <2>2, <2>3, <2>4, <3>1 DEF Behind
  <2>5. CASE n # 1
    <3>1. /\ n - 1 \in 1..Len(Tail(q)) /\ n - 1 < Len(Tail(q)) /\ Tail(q)[n - 1] = Destroy
          /\ Head(q) = Warm
      BY <1>0, <2>1, <2>2, <2>5
    <3>2. \A k \in 1..Len(Tail(q)) : k # n - 1 /\ k < Len(Tail(q)) => Tail(q)[k] = Warm
      BY <1>0, <2>1, <2>2
    <3> QED BY <2>3, <3>1, <3>2 DEF Last
  <2> QED BY <2>4, <2>5
<1>4. ASSUME Closing(q)
      PROVE  /\ q # <<>> /\ Warms(Undelivered(q))
             /\ \/ /\ Closing(Tail(q))
                   /\ Head(q) = Warm \/ \E c \in Configs : Head(q) = Start(c)
                \/ Head(q) = Destroy /\ Warms(Tail(q))
  <2> DEFINE Early(e) == e = Warm \/ \E c \in Configs : e = Start(c)
  <2>1. PICK n \in 1..Len(q) : /\ q[n] = Destroy
                               /\ \A k \in 1..Len(q) : /\ k < n => Early(q[k])
                                                       /\ k > n => q[k] = Warm
    BY <1>4 DEF Closing
  <2>2. \A e : Early(e) \/ e = Warm => e.act # "DESTROY"
    BY DEF Warm, Start
  <2> HIDE DEF Early
  <2>3. Warms(Undelivered(q))
    <3>1. \A k \in 1..Len(q) : q[k].act = "DESTROY" <=> k = n
      BY <2>1, <2>2 DEF Destroy
    <3>2. (CHOOSE k \in 1..Len(q) : q[k].act = "DESTROY") = n
      BY <2>1, <3>1
    <3>3. HasDestroy(q)
      BY <2>1, <3>1 DEF HasDestroy
    <3>4. Undelivered(q) = SubSeq(q, n + 1, Len(q))
      BY <3>2, <3>3 DEF Undelivered
    <3>5. \A k \in 1..Len(SubSeq(q, n + 1, Len(q))) :
             SubSeq(q, n + 1, Len(q))[k] = q[k + n] /\ k + n \in 1..Len(q) /\ k + n > n
      BY <2>1
    <3> QED BY <2>1, <3>4, <3>5 DEF Warms
  <2>4. CASE n = 1
    <3>1. \A k \in 1..Len(Tail(q)) : Tail(q)[k] = Warm
      BY <1>0, <1>1, <2>1, <2>4
    <3> QED BY <1>0, <1>1, <2>1, <2>3, <2>4, <3>1 DEF Warms
  <2>5. CASE n # 1
    <3>1. n - 1 \in 1..Len(Tail(q)) /\ Tail(q)[n - 1] = Destroy /\ Early(Head(q))
      BY <1>0, <1>1, <2>1, <2>5
    <3>2. \A k \in 1..Len(Tail(q)) : /\ k < n - 1 => Early(Tail(q)[k])
                                     /\ k > n - 1 => Tail(q)[k] = Warm
      BY <1>0, <1>1, <2>1
    <3>3. Closing(Tail(q))
      BY <3>1, <3>2 DEF Closing, Early
    <3> QED BY <1>1, <2>3, <3>1, <3>3 DEF Early
  <2> QED BY <2>4, <2>5
<1> QED BY <1>1, <1>2, <1>3, <1>4 DEF OnlyClosing

\* A broadcast goes to the end of the queue.
LEMMA SendMessage ==
    ASSUME NEW q \in Seq(Message)
    PROVE  /\ Silent(q) => /\ Silent(Append(q, "counters"))
                           /\ Farewell(Append(q, "disconnected"))
                           /\ Upward(Append(q, "connected"))
           /\ Farewell(q) => Farewell(Append(q, "counters"))
           /\ Upward(q) => Upward(Append(q, "counters")) /\ Upward(Append(q, "connected"))
           /\ Brings(q) => Brings(Append(q, "counters"))
           /\ Brings(Append(q, "connected"))
           /\ NoGoodbye(q) => NoGoodbye(Append(q, "counters"))
           /\ \A v, S : Tells(v, q, S) => Tells(v, Append(q, "counters"), S)
           /\ \A v, S : "ERROR" \in S => Tells(v, Append(q, "error"), S)
           /\ \A v, S : "DISCONNECTED" \in S => Tells(v, Append(q, "disconnected"), S)
<1>1. \A e \in Message : /\ Append(q, e) \in Seq(Message) /\ Len(Append(q, e)) = Len(q) + 1
                         /\ Append(q, e)[Len(q) + 1] = e
                         /\ \A n \in 1..Len(q) : Append(q, e)[n] = q[n]
  OBVIOUS
<1>2. {"connected", "error", "disconnected", "counters"} \subseteq Message /\ Len(q) \in Nat
  BY DEF Message
<1>3. ASSUME Silent(q) PROVE /\ Silent(Append(q, "counters"))
                             /\ Upward(Append(q, "connected"))
  BY <1>1, <1>2, <1>3 DEF Silent, Upward
<1>4. ASSUME Silent(q) PROVE Farewell(Append(q, "disconnected"))
  <2>1. Append(q, "disconnected")[Len(q) + 1] = "disconnected"
    BY <1>1, <1>2
  <2>2. \A k \in 1..Len(Append(q, "disconnected")) :
          k # Len(q) + 1 => Append(q, "disconnected")[k] = "counters"
    BY <1>1, <1>2, <1>4 DEF Silent
  <2>3. Len(q) + 1 \in 1..Len(Append(q, "disconnected"))
    BY <1>1, <1>2
  <2> QED BY <2>1, <2>2, <2>3 DEF Farewell
<1>5. ASSUME Farewell(q) PROVE Farewell(Append(q, "counters"))
  <2>1. PICK n \in 1..Len(q) : /\ q[n] = "disconnected"
                               /\ \A k \in 1..Len(q) : k # n => q[k] = "counters"
    BY <1>5 DEF Farewell
  <2>2. n \in 1..Len(Append(q, "counters")) /\ Append(q, "counters")[n] = "disconnected"
    BY <1>1, <1>2, <2>1
  <2>3. \A k \in 1..Len(Append(q, "counters")) : k # n => Append(q, "counters")[k] = "counters"
    BY <1>1, <1>2, <2>1
  <2> QED BY <2>2, <2>3 DEF Farewell
<1>6. ASSUME Upward(q) PROVE Upward(Append(q, "counters")) /\ Upward(Append(q, "connected"))
  BY <1>1, <1>2, <1>6 DEF Upward
<1>7. ASSUME Brings(q) PROVE Brings(Append(q, "counters"))
  <2>1. PICK n \in 1..Len(q) : q[n] = "connected"
    BY <1>7 DEF Brings
  <2>2. n \in 1..Len(Append(q, "counters")) /\ Append(q, "counters")[n] = "connected"
    BY <1>1, <1>2, <2>1
  <2> QED BY <2>2 DEF Brings
<1>8. Brings(Append(q, "connected"))
  <2>1. Len(q) + 1 \in 1..Len(Append(q, "connected")) /\ Append(q, "connected")[Len(q) + 1] = "connected"
    BY <1>1, <1>2
  <2> QED BY <2>1 DEF Brings
<1>9. ASSUME NoGoodbye(q) PROVE NoGoodbye(Append(q, "counters"))
  BY <1>1, <1>2, <1>9 DEF NoGoodbye
<1>10. ASSUME NEW v, NEW S, Tells(v, q, S) PROVE Tells(v, Append(q, "counters"), S)
  <2>1. CASE Silent(q) /\ v \in S
    BY <1>3, <2>1 DEF Tells
  <2>2. CASE \E n \in 1..Len(q) : /\ q[n] # "counters" /\ Shown(q[n]) \in S
                                  /\ \A k \in 1..Len(q) : k > n => q[k] = "counters"
    <3>1. PICK n \in 1..Len(q) : /\ q[n] # "counters" /\ Shown(q[n]) \in S
                                 /\ \A k \in 1..Len(q) : k > n => q[k] = "counters"
      BY <2>2
    <3>2. n \in 1..Len(Append(q, "counters")) /\ Append(q, "counters")[n] = q[n]
      BY <1>1, <1>2
    <3>3. \A k \in 1..Len(Append(q, "counters")) : k > n => Append(q, "counters")[k] = "counters"
      BY <1>1, <1>2, <3>1
    <3> QED BY <3>1, <3>2, <3>3 DEF Tells
  <2> QED BY <1>10, <2>1, <2>2 DEF Tells
<1>11. ASSUME NEW m \in Message, m # "counters", NEW v, NEW S, Shown(m) \in S
       PROVE  Tells(v, Append(q, m), S)
  <2>1. Len(q) + 1 \in 1..Len(Append(q, m)) /\ Append(q, m)[Len(q) + 1] = m
    BY <1>1, <1>2
  <2>2. \A k \in 1..Len(Append(q, m)) : ~(k > Len(q) + 1)
    BY <1>1, <1>2
  <2> QED BY <1>11, <2>1, <2>2 DEF Tells
<1>12. Shown("error") = "ERROR" /\ Shown("disconnected") = "DISCONNECTED"
  BY DEF Shown
<1>13. /\ \A v, S : "ERROR" \in S => Tells(v, Append(q, "error"), S)
       /\ \A v, S : "DISCONNECTED" \in S => Tells(v, Append(q, "disconnected"), S)
  BY <1>2, <1>11, <1>12
<1> QED BY <1>3, <1>4, <1>5, <1>6, <1>7, <1>8, <1>9, <1>10, <1>13

\* The receiver takes the broadcast at the head.
LEMMA TakeMessage ==
    ASSUME NEW q \in Seq(Message), q # <<>>
    PROVE  /\ Head(q) \in Message
           /\ Silent(q) => Head(q) = "counters" /\ Silent(Tail(q))
           /\ Farewell(q) => \/ Head(q) = "counters" /\ Farewell(Tail(q))
                             \/ Head(q) = "disconnected" /\ Silent(Tail(q))
           /\ Upward(q) => Head(q) \in {"counters", "connected"} /\ Upward(Tail(q))
           /\ Brings(q) => Head(q) = "connected" \/ Brings(Tail(q))
           /\ NoGoodbye(q) => Head(q) # "disconnected" /\ NoGoodbye(Tail(q))
           /\ \A v, S : Tells(v, q, S) => /\ Head(q) = "counters" => Tells(v, Tail(q), S)
                                          /\ Head(q) # "counters" => Tells(Shown(Head(q)), Tail(q), S)
<1>1. /\ Tail(q) \in Seq(Message) /\ Head(q) = q[1] /\ Len(q) \in Nat /\ Len(q) > 0
      /\ Len(Tail(q)) = Len(q) - 1 /\ Head(q) \in Message
      /\ \A n \in 1..Len(Tail(q)) : Tail(q)[n] = q[n + 1]
  OBVIOUS
<1>2. Silent(q) => Head(q) = "counters" /\ Silent(Tail(q))
  BY <1>1 DEF Silent
<1>3. ASSUME Farewell(q) PROVE \/ Head(q) = "counters" /\ Farewell(Tail(q))
                               \/ Head(q) = "disconnected" /\ Silent(Tail(q))
  <2>1. PICK n \in 1..Len(q) : /\ q[n] = "disconnected"
                               /\ \A k \in 1..Len(q) : k # n => q[k] = "counters"
    BY <1>3 DEF Farewell
  <2>2. CASE n = 1
    BY <1>1, <2>1, <2>2 DEF Silent
  <2>3. CASE n # 1
    <3>1. n - 1 \in 1..Len(Tail(q)) /\ Tail(q)[n - 1] = "disconnected" /\ Head(q) = "counters"
      BY <1>1, <2>1, <2>3
    <3>2. \A k \in 1..Len(Tail(q)) : k # n - 1 => Tail(q)[k] = "counters"
      BY <1>1, <2>1
    <3> QED BY <3>1, <3>2 DEF Farewell
  <2> QED BY <2>2, <2>3
<1>4. Upward(q) => Head(q) \in {"counters", "connected"} /\ Upward(Tail(q))
  BY <1>1 DEF Upward
<1>5. ASSUME Brings(q), Head(q) # "connected" PROVE Brings(Tail(q))
  <2>1. PICK n \in 1..Len(q) : q[n] = "connected"
    BY <1>5 DEF Brings
  <2>2. n - 1 \in 1..Len(Tail(q)) /\ Tail(q)[n - 1] = "connected"
    BY <1>1, <1>5, <2>1
  <2> QED BY <2>2 DEF Brings
<1>6. NoGoodbye(q) => Head(q) # "disconnected" /\ NoGoodbye(Tail(q))
  BY <1>1 DEF NoGoodbye
<1>7. ASSUME NEW v, NEW S, Tells(v, q, S)
      PROVE  /\ Head(q) = "counters" => Tells(v, Tail(q), S)
             /\ Head(q) # "counters" => Tells(Shown(Head(q)), Tail(q), S)
  <2>1. CASE Silent(q) /\ v \in S
    BY <1>2, <2>1 DEF Tells
  <2>2. CASE \E n \in 1..Len(q) : /\ q[n] # "counters" /\ Shown(q[n]) \in S
                                  /\ \A k \in 1..Len(q) : k > n => q[k] = "counters"
    <3>1. PICK n \in 1..Len(q) : /\ q[n] # "counters" /\ Shown(q[n]) \in S
                                 /\ \A k \in 1..Len(q) : k > n => q[k] = "counters"
      BY <2>2
    <3>2. CASE n = 1
      <4>1. Silent(Tail(q))
        BY <1>1, <3>1, <3>2 DEF Silent
      <4> QED BY <1>1, <3>1, <3>2, <4>1 DEF Tells
    <3>3. CASE n # 1
      <4>1. n - 1 \in 1..Len(Tail(q)) /\ Tail(q)[n - 1] = q[n]
        BY <1>1, <3>3
      <4>2. \A k \in 1..Len(Tail(q)) : k > n - 1 => Tail(q)[k] = "counters"
        BY <1>1, <3>1
      <4> QED BY <3>1, <4>1, <4>2 DEF Tells
    <3> QED BY <3>2, <3>3
  <2> QED BY <1>7, <2>1, <2>2 DEF Tells
<1> QED BY <1>1, <1>2, <1>3, <1>4, <1>5, <1>6, <1>7

-----------------------------------------------------------------------------
(* The phases of the app *)

JobsIdle == \A j \in Job : jobs[j].pc = "idle"

\* The main thread and the coroutines of the service rest, and no kill and no
\* restart is due.
Steady == main = "idle" /\ JobsIdle /\ ~killPending /\ (sticky => alive)

\* The service has no tunnel; nor has the engine, unless another VPN app took over.
Bare == current # NoInst => svc[current].tun = NoFd
Free == Bare /\ (core.cfg = NoConfig \/ revoked)

\* Nothing of the UI process leads to a START.
SwitchIdle == \A k \in Switcher : switchers[k].pc = "idle"
LaunchOff  == dialog = "none" /\ fetching = {} /\ pickJob = NoConfig /\ SwitchIdle

Down == {"DISCONNECTED", "ERROR"}

\* At rest: there is no tunnel, and the UI shows that or is about to; or there is
\* a tunnel, and the UI shows that or is about to, if only by a request to warm
\* up that the service will answer.
Off == core.cfg = NoConfig /\ Bare /\ Tells(ui, broadcasts, Down)
On == /\ core.cfg # NoConfig /\ vpn = core.fd /\ vpn # NoFd /\ activeId \in {core.cfg, NoConfig}
      /\ current # NoInst /\ svc[current].tun # NoFd /\ sticky
      /\ Upward(broadcasts)
      /\ ui = "DISCONNECTED" => seen = "DISCONNECTED"
      /\ \/ ui = "CONNECTED" \/ Brings(broadcasts)
         \/ ui = "DISCONNECTED" /\ (warming # {} \/ intents # <<>>)
Resting == LaunchOff /\ Steady /\ Warms(intents) /\ (Off \/ On)

\* The UI process is on its way to a START: it probes, fetches a pin, asks for a
\* permission, or waits with switchTo for the end of the old tunnel.
OneSwitch(k) == /\ switchers[k].pc # "idle" /\ \A l \in Switcher \ {k} : switchers[l].pc = "idle"
                /\ dialog = "none" /\ fetching = {} /\ pickJob = NoConfig
Waiting(k) == /\ OneSwitch(k)
              /\ \/ switchers[k].pc = "wait" /\ Up /\ Farewell(broadcasts)
                 \/ ui = "DISCONNECTED" /\ Silent(broadcasts)
Picking  == /\ pickJob # NoConfig /\ dialog = "none" /\ fetching = {} /\ SwitchIdle
            /\ ui \in Down /\ Silent(broadcasts)
Fetching == /\ pickJob = NoConfig /\ dialog = "none" /\ SwitchIdle
            /\ \E c \in Configs : fetching = {c}
            /\ ui = "CONNECTING" /\ Silent(broadcasts)
Asking   == /\ pickJob = NoConfig /\ fetching = {} /\ SwitchIdle
            /\ \/ dialog = "notify" /\ ui # "CONNECTED"
               \/ dialog = "vpn" /\ ui = "CONNECTING" /\ activeId = afterPermission
            /\ Silent(broadcasts)
Quiescent == Warms(intents) \/ (revoked /\ OnlyClosing(intents))
Launching == /\ Steady /\ Free /\ Quiescent
             /\ Picking \/ Fetching \/ Asking \/ \E k \in Switcher : Waiting(k)

\* The START is on its way.
Starting == /\ LaunchOff /\ Steady /\ Free
            /\ ui = "CONNECTING" /\ Silent(broadcasts)
            /\ \E c \in Configs :
                  /\ Behind(intents, Start(c)) \/ (revoked /\ Last(intents, Start(c)))
                  /\ activeId \in {c, NoConfig}

\* The coroutine j of startTunnel is at work, alone.
Working(j) ==
    /\ LaunchOff /\ intents = <<>> /\ main = "idle" /\ ~killPending /\ sticky /\ alive
    /\ ui = "CONNECTING" /\ Silent(broadcasts)
    /\ jobs[j].pc # "idle" /\ \A k \in Job \ {j} : jobs[k].pc = "idle"
    /\ jobs[j].inst = current /\ current # NoInst
    /\ activeId \in {jobs[j].cfg, NoConfig} /\ jobs[j].cfg # NoConfig
    /\ jobs[j].pc \in {"aether", "aetherWait", "core", "start", "tor", "torWait", "announce"}
          => jobs[j].fd # NoFd /\ vpn = jobs[j].fd /\ svc[current].tun = jobs[j].fd
    /\ jobs[j].pc \in {"tor", "torWait", "announce"}
          => core.fd = jobs[j].fd /\ core.cfg = jobs[j].cfg
    /\ jobs[j].pc = "block" => core.cfg = NoConfig /\ Bare

\* A STOP is on its way, and maybe a switch waits for its effect.
Stopping == /\ Steady /\ intents \in {<<Stop>>, <<Stop, Destroy>>} /\ Silent(broadcasts)
            /\ LaunchOff \/ \E k \in Switcher : OneSwitch(k) /\ switchers[k].pc = "wait" /\ Up

\* die() has torn the tunnel down, and the process is about to be killed.
Killing == /\ main = "idle" /\ JobsIdle /\ killPending /\ ~sticky /\ core.cfg = NoConfig
           /\ Warms(intents) \/ Behind(intents, Destroy)
           /\ Bare \/ NoWarm(intents)
           /\ \/ LaunchOff /\ Tells(ui, broadcasts, Down)
              \/ \E k \in Switcher : Waiting(k)

\* The process crashed under a sticky service: Android restarts it with a null
\* intent, and that ends in die().  Until then the UI may be wrong; if it is,
\* no request to warm up comes first, which would undo the stickiness.
Unwarmed == /\ warming = {} /\ NoWarm(intents) /\ NoGoodbye(broadcasts)
            /\ ui = "DISCONNECTED" => seen = "DISCONNECTED"
Restarting ==
    /\ LaunchOff /\ JobsIdle /\ ~killPending /\ sticky /\ core.cfg = NoConfig /\ Bare
    /\ Tells(ui, broadcasts, Down) \/ Unwarmed
    /\ \/ main = "idle" /\ ~alive /\ current = NoInst /\ Warms(intents)
       \/ main = "idle" /\ current = NoInst /\ Before(intents, Start(NoConfig))
       \/ main = "block" /\ alive /\ current # NoInst /\ Warms(intents)

\* Another VPN app took over, and nobody told the UI.  What the service was doing
\* goes on, for an object that is destroyed already or will be.
Wreck == /\ LaunchOff /\ revoked
         /\ \/ Closing(intents)
            \/ /\ Warms(intents) /\ Bare
               /\ \A j \in Job : jobs[j].pc # "idle" => jobs[j].inst # current

Phase == \/ Resting \/ Launching \/ Starting \/ (\E j \in Job : Working(j))
         \/ Stopping \/ Killing \/ Restarting \/ Wreck

\* A sticky service has started since the last revocation.
FreshStart == ~(sticky /\ revoked)

phaseVars == <<ui, activeId, dialog, fetching, pickJob, switchers, afterPermission, intents,
               alive, current, jobs, main, core, vpn, killPending, sticky, revoked>>

\* The warm-up does not fall behind: the collector has seen a disconnect that it
\* had seen before, a pending request stays while the UI shows DISCONNECTED, and
\* a new one needs a disconnect the collector had not seen.
WarmupKept ==
    /\ (ui = "DISCONNECTED" => seen = "DISCONNECTED")
          => (ui' = "DISCONNECTED" => seen' = "DISCONNECTED")
    /\ ui = "DISCONNECTED" /\ warming # {} => warming' # {}
    /\ warming = {} /\ (ui = "DISCONNECTED" => seen = "DISCONNECTED") => warming' = {}

\* A step that leaves the variables of the phases and the tunnel alone, and sends
\* nothing but counters, stays in its phase.
LEMMA QuietStep ==
    ASSUME TypeOK, Phase, UNCHANGED phaseVars, WarmupKept,
           current # NoInst => svc'[current].tun = svc[current].tun,
           broadcasts' \in {broadcasts, Append(broadcasts, "counters")}
    PROVE  Phase'
<1>1. broadcasts \in Seq(Message)
  BY DEF TypeOK, ChannelsOK
<1>2. /\ Silent(broadcasts) => Silent(broadcasts')
      /\ Farewell(broadcasts) => Farewell(broadcasts')
      /\ Upward(broadcasts) => Upward(broadcasts')
      /\ Brings(broadcasts) => Brings(broadcasts')
      /\ NoGoodbye(broadcasts) => NoGoodbye(broadcasts')
      /\ Tells(ui, broadcasts, Down) => Tells(ui, broadcasts', Down)
  BY <1>1, SendMessage
<1>3. /\ (Steady => Steady') /\ (LaunchOff => LaunchOff') /\ (Bare => Bare') /\ (Free => Free')
      /\ (SwitchIdle => SwitchIdle') /\ (JobsIdle => JobsIdle') /\ (Up => Up')
      /\ (Quiescent => Quiescent')
  BY DEF phaseVars, Steady, JobsIdle, LaunchOff, SwitchIdle, Bare, Free, Up, Quiescent
<1>4. (Off => Off') /\ (On => On')
  BY <1>2, <1>3 DEF phaseVars, WarmupKept, Off, On
<1>5. \A k \in Switcher : Waiting(k) => Waiting(k)'
  BY <1>2, <1>3 DEF phaseVars, Waiting, OneSwitch
<1>6. CASE Resting
  BY <1>3, <1>4, <1>6 DEF phaseVars, Resting, Phase
<1>7. CASE Launching
  <2>1. (Picking => Picking') /\ (Fetching => Fetching') /\ (Asking => Asking')
    BY <1>2, <1>3 DEF phaseVars, Picking, Fetching, Asking
  <2> QED BY <1>3, <1>5, <1>7, <2>1 DEF phaseVars, Launching, Phase
<1>8. CASE Starting
  BY <1>2, <1>3, <1>8 DEF phaseVars, Starting, Phase
<1>9. ASSUME NEW j \in Job, Working(j) PROVE Phase'
  <2>1. Working(j)'
    BY <1>2, <1>3, <1>9 DEF phaseVars, Working
  <2> QED BY <2>1 DEF Phase
<1>10. CASE Stopping
  BY <1>2, <1>3, <1>10 DEF phaseVars, Stopping, OneSwitch, Phase
<1>11. CASE Killing
  BY <1>2, <1>3, <1>5, <1>11 DEF phaseVars, Killing, Phase
<1>12. CASE Restarting
  BY <1>2, <1>3, <1>12 DEF phaseVars, WarmupKept, Restarting, Unwarmed, Phase
<1>13. CASE Wreck
  BY <1>3, <1>13 DEF phaseVars, Wreck, Phase
<1> QED BY <1>6, <1>7, <1>8, <1>9, <1>10, <1>11, <1>12, <1>13 DEF Phase

-----------------------------------------------------------------------------
(* The steps of the UI process *)

UiFrame == UNCHANGED <<broadcasts, svcVars, revoked>>

\* When everything has settled the app is at rest and the UI shows what is.
LEMMA SettledRests ==
    ASSUME Phase, Settled
    PROVE  /\ LaunchOff /\ Steady /\ intents = <<>> /\ broadcasts = <<>>
           /\ \/ core.cfg = NoConfig /\ Bare /\ ui \in Down
              \/ revoked /\ Bare
              \/ On /\ ui = "CONNECTED"
<1>1. /\ LaunchOff /\ Steady /\ intents = <<>> /\ broadcasts = <<>> /\ warming = {} /\ main = "idle"
      /\ (sticky => alive) /\ \A j \in Job : jobs[j].pc = "idle"
  BY DEF Settled, UiSettled, LaunchOff, SwitchIdle, Steady, JobsIdle
<1>2. ~Launching
  BY <1>1 DEF Launching, Picking, Fetching, Asking, Waiting, OneSwitch, LaunchOff, SwitchIdle
<1>3. ~Starting /\ ~Stopping /\ ~Restarting
  BY <1>1 DEF Starting, Behind, Last, Before, Stopping, Restarting
<1>4. ~Killing /\ \A j \in Job : ~Working(j)
  BY <1>1 DEF Killing, Steady, Working
<1>5. Resting \/ (revoked /\ Bare)
  BY <1>1, <1>2, <1>3, <1>4, EmptyQueue DEF Phase, Wreck
<1>6. ~Brings(<<>>) /\ (Tells(ui, <<>>, Down) => ui \in Down)
  BY EmptyQueue
<1>7. Off => core.cfg = NoConfig /\ Bare /\ ui \in Down
  BY <1>1, <1>6 DEF Off
<1>8. On => ui = "CONNECTED"
  BY <1>1, <1>6 DEF On
<1> QED BY <1>1, <1>5, <1>7, <1>8 DEF Resting

\* From here a START may be on its way to a service without a tunnel.
CanLaunch == Steady /\ Free /\ Quiescent /\ Silent(broadcasts) /\ ui # "CONNECTED"

\* The service and the broadcasts are not touched by the UI process.
LEMMA FrameKeeps ==
    ASSUME UiFrame
    PROVE  /\ Steady => Steady'
           /\ Free => Free'
           /\ UNCHANGED intents => (Quiescent => Quiescent')
           /\ Silent(broadcasts) => Silent(broadcasts')
BY DEF Quiescent, UiFrame, svcVars, Steady, JobsIdle, Free, Bare, prefs

\* proceedConnect sends the START or asks for the VPN permission.
LEMMA ConnectPhase ==
    ASSUME TypeOK, CanLaunch, UiFrame, NEW c \in Configs, ProceedConnect(c),
           fetching' = {}, pickJob' = NoConfig, SwitchIdle'
    PROVE  Phase'
<1>1. Steady' /\ Free' /\ Silent(broadcasts')
  BY FrameKeeps DEF CanLaunch
<1>2. ui' = "CONNECTING" /\ activeId' = c
  BY DEF CanLaunch, ProceedConnect, SetConnecting
<1>3. CASE StartService(Start(c)) /\ dialog' = "none"
  <2>1. intents \in Seq(Intent) /\ Start(c) \in Intent
    BY DEF TypeOK, ChannelsOK, Start, Intent
  <2>2. Behind(intents', Start(c)) \/ (revoked' /\ Last(intents', Start(c)))
    BY <1>3, <2>1, SendIntent, SendDestroy DEF CanLaunch, Quiescent, StartService, UiFrame
  <2>3. LaunchOff'
    BY <1>3 DEF LaunchOff
  <2>4. Starting'
    BY <1>1, <1>2, <2>2, <2>3 DEF Starting
  <2> QED BY <2>4 DEF Phase
<1>4. CASE dialog' = "vpn" /\ afterPermission' = c /\ UNCHANGED intents
  <2>1. Asking'
    BY <1>1, <1>2, <1>4 DEF Asking
  <2>2. Launching'
    BY <1>1, <1>4, <2>1, FrameKeeps DEF Launching, CanLaunch
  <2> QED BY <2>2 DEF Phase
<1> QED BY <1>3, <1>4 DEF CanLaunch, ProceedConnect

\* proceedLaunch may ask for the notification permission first.
LEMMA LaunchPhase ==
    ASSUME TypeOK, CanLaunch, UiFrame, NEW c \in Configs, ProceedLaunch(c),
           fetching' = {}, pickJob' = NoConfig, SwitchIdle'
    PROVE  Phase'
<1>1. CASE ProceedConnect(c)
  BY <1>1, ConnectPhase
<1>2. CASE dialog' = "notify" /\ UNCHANGED <<ui, intents>>
  <2>1. Steady' /\ Free' /\ Silent(broadcasts')
    BY FrameKeeps DEF CanLaunch
  <2>2. Asking'
    BY <1>2, <2>1 DEF Asking, CanLaunch
  <2>3. Launching'
    BY <1>2, <2>1, <2>2, FrameKeeps DEF Launching, CanLaunch
  <2> QED BY <2>3 DEF Phase
<1> QED BY <1>1, <1>2 DEF ProceedLaunch

\* launchConnect may fetch a pin first.
LEMMA LaunchConnectPhase ==
    ASSUME TypeOK, CanLaunch, UiFrame, NEW c \in Configs, LaunchConnect(c),
           fetching = {}, pickJob' = NoConfig, SwitchIdle'
    PROVE  Phase'
<1>1. CASE ProceedLaunch(c) /\ UNCHANGED fetching
  BY <1>1, LaunchPhase
<1>2. CASE SetConnecting(c) /\ fetching' = fetching \cup {c} /\ UNCHANGED <<intents, dialogVars>>
  <2>1. Steady' /\ Free' /\ Silent(broadcasts')
    BY FrameKeeps DEF CanLaunch
  <2>2. dialog' = "none" /\ fetching' = {c}
    BY <1>2 DEF LaunchConnect, dialogVars
  <2>3. Fetching'
    BY <1>2, <2>1, <2>2 DEF Fetching, SetConnecting
  <2>4. Launching'
    BY <1>2, <2>1, <2>3, FrameKeeps DEF Launching, CanLaunch
  <2> QED BY <2>4 DEF Phase
<1> QED BY <1>1, <1>2 DEF LaunchConnect

\* switchTo, when everything has settled.
LEMMA SwitchPhase ==
    ASSUME TypeOK, UiInv, Phase, Settled, UiFrame, NEW c \in Configs, SwitchTo(c),
           UNCHANGED pickJob
    PROVE  Phase'
<1>0. /\ LaunchOff /\ Steady /\ intents = <<>> /\ broadcasts = <<>>
      /\ ~Up => Free
  BY SettledRests DEF Free, Up
<1>1. CASE ~Up /\ LaunchConnect(c) /\ UNCHANGED switchers
  <2>1. CanLaunch
    BY <1>0, <1>1, EmptyQueue DEF CanLaunch, Quiescent, Up
  <2>2. fetching = {} /\ pickJob' = NoConfig /\ SwitchIdle'
    BY <1>0, <1>1 DEF LaunchOff, SwitchIdle
  <2> QED BY <1>1, <2>1, <2>2, LaunchConnectPhase
<1>2. CASE /\ Up /\ StartService(Stop) /\ UNCHANGED <<ui, activeId, dialogVars, fetching>>
           /\ \E k \in Switcher : switchers' = [switchers EXCEPT ![k] = [pc |-> "wait", cfg |-> c]]
  <2>1. PICK k \in Switcher : switchers' = [switchers EXCEPT ![k] = [pc |-> "wait", cfg |-> c]]
    BY <1>2
  <2>2. Steady' /\ Silent(broadcasts') /\ Up'
    BY <1>0, <1>2, FrameKeeps, EmptyQueue DEF Up
  <2>3. intents' = <<Stop>>
    BY <1>0, <1>2 DEF StartService
  <2>4. switchers'[k].pc = "wait" /\ \A l \in Switcher \ {k} : switchers'[l].pc = "idle"
    BY <1>0, <2>1 DEF LaunchOff, SwitchIdle, UiInv, Switches
  <2>5. OneSwitch(k)'
    BY <1>0, <1>2, <2>4 DEF OneSwitch, LaunchOff, dialogVars
  <2>6. Stopping'
    BY <2>2, <2>3, <2>4, <2>5 DEF Stopping
  <2> QED BY <2>6 DEF Phase
<1> QED BY <1>1, <1>2 DEF SwitchTo

\* The service may be stopped once everything has settled.
LEMMA StopPhase ==
    ASSUME Phase, Settled, UiFrame, StartService(Stop),
           UNCHANGED <<dialog, fetching, pickJob, switchers>>
    PROVE  Phase'
<1>1. LaunchOff /\ Steady /\ intents = <<>> /\ broadcasts = <<>>
  BY SettledRests
<1>2. LaunchOff' /\ Steady' /\ Silent(broadcasts')
  BY <1>1, FrameKeeps, EmptyQueue DEF LaunchOff, SwitchIdle
<1>3. intents' = <<Stop>>
  BY <1>1 DEF StartService
<1>4. Stopping'
  BY <1>2, <1>3 DEF Stopping
<1> QED BY <1>4 DEF Phase

\* The taps, all of them when everything has settled.
LEMMA UserPhase ==
    ASSUME TypeOK, UiInv, Phase, Anytime \subseteq {"revoke"}, User, UiFrame
    PROVE  Phase'
<1>0. /\ Settled /\ LaunchOff /\ Steady /\ intents = <<>> /\ broadcasts = <<>>
      /\ \/ core.cfg = NoConfig /\ Bare /\ ui \in Down
         \/ revoked /\ Bare
         \/ On /\ ui = "CONNECTED"
  BY SettledRests DEF User, Calm
<1>1. CASE ConnectTo
  <2>0. ~Up /\ UNCHANGED switchers
    BY <1>1 DEF ConnectTo
  <2>1. CanLaunch
    BY <1>0, <2>0, EmptyQueue DEF CanLaunch, Quiescent, Up, Free
  <2>2. CASE LaunchConnect(selected) /\ UNCHANGED pickJob
    <3>1. fetching = {} /\ pickJob' = NoConfig /\ SwitchIdle' /\ selected \in Configs
      BY <1>0, <2>0, <2>2 DEF LaunchOff, SwitchIdle, UiInv, Rest
    <3> QED BY <2>1, <2>2, <3>1, LaunchConnectPhase
  <2>3. CASE pickJob' = selected /\ UNCHANGED launchVars
    <3>1. Steady' /\ Free' /\ Silent(broadcasts') /\ Quiescent'
      BY <2>1, <2>3, FrameKeeps DEF CanLaunch, launchVars
    <3>2. pickJob' # NoConfig
      BY <2>3, ChannelAssumption DEF UiInv, Rest
    <3>3. ui' \in Down
      BY <1>0, <2>0, <2>3 DEF launchVars, UiInv, Front, Connection, Down, Up
    <3>4. Picking'
      BY <1>0, <2>0, <2>3, <3>1, <3>2, <3>3
      DEF Picking, LaunchOff, SwitchIdle, launchVars, dialogVars
    <3>5. Launching'
      BY <3>1, <3>4 DEF Launching
    <3> QED BY <3>5 DEF Phase
  <2> QED BY <1>1, <2>2, <2>3 DEF ConnectTo
<1>2. CASE Disconnect \/ NotificationStop
  BY <1>0, <1>2, StopPhase DEF Disconnect, NotificationStop, uiVars, dialogVars
<1>3. CASE SetAutoSelect
  <2>1. UNCHANGED phaseVars
    BY <1>3 DEF SetAutoSelect, phaseVars, UiFrame, svcVars, launchVars, dialogVars
  <2>2. WarmupKept
    BY <1>3 DEF SetAutoSelect, launchVars, WarmupKept
  <2> QED BY <2>1, <2>2, QuietStep DEF UiFrame, svcVars
<1>4. CASE \E c \in Configs : Select(c)
  <2>1. PICK c \in Configs : Select(c)
    BY <1>4
  <2>2. CASE SwitchTo(c)
    BY <1>0, <2>1, <2>2, SwitchPhase DEF Select
  <2>3. CASE UNCHANGED <<launchVars, switchers>>
    <3>1. UNCHANGED phaseVars
      BY <2>1, <2>3 DEF Select, phaseVars, UiFrame, svcVars, launchVars, dialogVars
    <3>2. WarmupKept
      BY <2>1, <2>3 DEF Select, launchVars, WarmupKept
    <3> QED BY <3>1, <3>2, QuietStep DEF UiFrame, svcVars
  <2> QED BY <2>1, <2>2, <2>3 DEF Select
<1>5. CASE TileToggle(ServiceRunning)
  <2>0. UNCHANGED <<dialog, fetching, pickJob, switchers>>
    BY <1>5 DEF TileToggle, dialogVars
  <2>1. CASE StartService(Stop)
    BY <1>0, <2>0, <2>1, StopPhase
  <2>2. CASE ~Up /\ SetConnecting(selected) /\ StartService(Start(selected))
    <3>1. CanLaunch
      BY <1>0, <2>2, EmptyQueue DEF CanLaunch, Quiescent, Up, Free
    <3>2. intents \in Seq(Intent) /\ Start(selected) \in Intent /\ selected \in Configs
      BY DEF TypeOK, ChannelsOK, Start, Intent, UiInv, Rest
    <3>3. Behind(intents', Start(selected)) \/ (revoked' /\ Last(intents', Start(selected)))
      BY <2>2, <3>1, <3>2, SendIntent, SendDestroy DEF CanLaunch, Quiescent, StartService, UiFrame
    <3>4. LaunchOff' /\ Steady' /\ Free' /\ Silent(broadcasts')
      BY <1>0, <2>0, <3>1, FrameKeeps DEF LaunchOff, SwitchIdle, CanLaunch
    <3>5. Starting'
      BY <2>2, <3>2, <3>3, <3>4 DEF Starting, SetConnecting
    <3> QED BY <3>5 DEF Phase
  <2>3. CASE ~Up /\ SetDisconnected /\ UNCHANGED intents
    <3>1. LaunchOff' /\ Steady' /\ Warms(intents')
      BY <1>0, <2>0, <2>3, FrameKeeps, EmptyQueue DEF LaunchOff, SwitchIdle
    <3>2. Bare' /\ (core.cfg = NoConfig \/ revoked)
      BY <1>0, <2>3 DEF Bare, Up, UiFrame, svcVars
    <3>3. Tells(ui', broadcasts', Down)
      BY <1>0, <2>3, EmptyQueue DEF SetDisconnected, Down, UiFrame
    <3>4. Resting' \/ Wreck'
      BY <3>1, <3>2, <3>3 DEF Resting, Off, Wreck, Steady, JobsIdle, UiFrame, svcVars
    <3> QED BY <3>4 DEF Phase
  <2> QED BY <1>5, <2>1, <2>2, <2>3 DEF TileToggle
<1> QED BY <1>1, <1>2, <1>3, <1>4, <1>5 DEF User

\* A dialog, a pin fetch or a search is seen in one phase only.
LEMMA LaunchOnly ==
    ASSUME Phase, dialog # "none" \/ fetching # {} \/ pickJob # NoConfig
    PROVE  Steady /\ Free /\ Quiescent /\ Silent(broadcasts) /\ (Picking \/ Fetching \/ Asking)
<1>1. ~LaunchOff /\ \A k \in Switcher : ~OneSwitch(k)
  BY DEF LaunchOff, OneSwitch
<1>2. Launching
  BY <1>1 DEF Phase, Resting, Starting, Working, Stopping, Killing, Waiting, Restarting, Wreck
<1> QED BY <1>1, <1>2 DEF Launching, Waiting, Picking, Fetching, Asking

\* The end of a way to connect: no tunnel, and the UI says so.
LEMMA GiveUpPhase ==
    ASSUME TypeOK, Steady, Free, Quiescent, Silent(broadcasts), UiFrame, UNCHANGED intents,
           LaunchOff', ui' \in Down
    PROVE  Phase'
<1>1. Steady' /\ Free' /\ Silent(broadcasts') /\ Quiescent'
  BY FrameKeeps
<1>2. CASE Warms(intents') /\ core'.cfg = NoConfig
  <2>1. Resting'
    BY <1>1, <1>2 DEF Resting, Off, Free, Tells
  <2> QED BY <2>1 DEF Phase
<1>3. CASE revoked'
  <2>1. OnlyClosing(intents') => Closing(intents')
    BY SendDestroy DEF TypeOK, ChannelsOK
  <2>2. Wreck'
    BY <1>1, <1>3, <2>1 DEF Wreck, Quiescent, Free, Steady, JobsIdle
  <2> QED BY <2>2 DEF Phase
<1> QED BY <1>1, <1>2, <1>3 DEF Quiescent, Free

\* The answers to the dialogs, and a cancelled search.
LEMMA AnswerPhase ==
    ASSUME TypeOK, UiInv, Phase, Answer, UiFrame
    PROVE  Phase'
<1>1. CASE CancelPick
  <2>1. CASE pickJob = NoConfig
    <3>1. UNCHANGED phaseVars
      BY <1>1, <2>1 DEF CancelPick, phaseVars, UiFrame, svcVars, launchVars, dialogVars
    <3>2. WarmupKept
      BY <1>1 DEF CancelPick, launchVars, WarmupKept
    <3> QED BY <3>1, <3>2, QuietStep DEF UiFrame, svcVars
  <2>2. CASE pickJob # NoConfig
    <3>1. Steady /\ Free /\ Quiescent /\ Silent(broadcasts) /\ Picking
      BY <2>2, LaunchOnly DEF Fetching, Asking
    <3>2. LaunchOff' /\ ui' \in Down /\ UNCHANGED intents
      BY <1>1, <3>1 DEF CancelPick, Picking, LaunchOff, SwitchIdle, launchVars, dialogVars
    <3> QED BY <3>1, <3>2, GiveUpPhase
  <2> QED BY <2>1, <2>2
<1>2. CASE \E ok \in BOOLEAN : NotificationPermission(ok)
  <2>1. PICK ok \in BOOLEAN : NotificationPermission(ok)
    BY <1>2
  <2>2. dialog = "notify" /\ pendingConnect \in Configs /\ ProceedConnect(pendingConnect)
        /\ UNCHANGED <<pickJob, fetching, switchers>>
    BY <2>1 DEF NotificationPermission, UiInv, Front
  <2>3. Steady /\ Free /\ Quiescent /\ Silent(broadcasts) /\ Asking
    BY <2>2, LaunchOnly DEF Picking, Fetching
  <2>4. CanLaunch /\ fetching' = {} /\ pickJob' = NoConfig /\ SwitchIdle'
    BY <2>2, <2>3 DEF Asking, CanLaunch, SwitchIdle
  <2> QED BY <2>2, <2>4, ConnectPhase
<1>3. CASE \E ok \in BOOLEAN : VpnPermission(ok)
  <2>1. PICK ok \in BOOLEAN : VpnPermission(ok)
    BY <1>3
  <2>2. dialog = "vpn" /\ dialog' = "none" /\ afterPermission \in Configs
        /\ UNCHANGED <<pickJob, fetching, switchers>>
    BY <2>1 DEF VpnPermission, UiInv, Front
  <2>3. Steady /\ Free /\ Quiescent /\ Silent(broadcasts) /\ Asking
    BY <2>2, LaunchOnly DEF Picking, Fetching
  <2>4. LaunchOff' /\ ui = "CONNECTING" /\ activeId = afterPermission
    BY <2>2, <2>3 DEF Asking, LaunchOff, SwitchIdle
  <2>5. CASE StartService(Start(afterPermission)) /\ UNCHANGED <<ui, activeId>>
    <3>1. intents \in Seq(Intent) /\ Start(afterPermission) \in Intent
      BY <2>2 DEF TypeOK, ChannelsOK, Start, Intent
    <3>2. \/ Behind(intents', Start(afterPermission))
          \/ revoked' /\ Last(intents', Start(afterPermission))
      BY <2>2, <2>3, <2>5, <3>1, SendIntent, SendDestroy DEF Quiescent, StartService, UiFrame
    <3>3. Steady' /\ Free' /\ Silent(broadcasts')
      BY <2>3, FrameKeeps
    <3>4. Starting'
      BY <2>2, <2>4, <2>5, <3>2, <3>3 DEF Starting
    <3> QED BY <3>4 DEF Phase
  <2>6. CASE SetDisconnected /\ UNCHANGED intents
    BY <2>3, <2>4, <2>6, GiveUpPhase DEF SetDisconnected, Down
  <2> QED BY <2>1, <2>5, <2>6 DEF VpnPermission
<1> QED BY <1>1, <1>2, <1>3 DEF Answer

\* The wait of switchTo ends only for a UI that shows DISCONNECTED.
LEMMA SwitchWaitPhase ==
    ASSUME UiInv, Phase, UiFrame, NEW k \in Switcher,
           SwitchWait(k, intents = <<>> /\ broadcasts = <<>>)
    PROVE  Phase'
<1>1. switchers[k].pc = "wait" /\ ~LaunchOff
  BY DEF SwitchWait, LaunchOff, SwitchIdle
<1>2. \A l \in Switcher : OneSwitch(l) => l = k
  BY <1>1 DEF OneSwitch
<1>3. ~Stopping
  <2> SUFFICES ASSUME Stopping PROVE FALSE
    OBVIOUS
  <2>1. Up /\ intents # <<>>
    BY <1>1 DEF Stopping
  <2> QED BY <2>1 DEF SwitchWait, Up
<1>4. ASSUME Waiting(k) PROVE Waiting(k)' /\ UNCHANGED ui
  <2>1. ui = "DISCONNECTED" /\ Silent(broadcasts)
    BY <1>4, EmptyQueue DEF Waiting, SwitchWait, Up
  <2>2. /\ switchers' = [switchers EXCEPT ![k].pc = "delay"]
        /\ UNCHANGED <<ui, dialog, fetching, pickJob, broadcasts>>
    BY <2>1 DEF SwitchWait, dialogVars, UiFrame
  <2>3. OneSwitch(k)'
    BY <1>4, <2>2 DEF Waiting, OneSwitch, UiInv, Switches
  <2> QED BY <2>1, <2>2, <2>3 DEF Waiting
<1>5. UNCHANGED intents
  BY DEF SwitchWait
<1>6. CASE Launching
  <2>1. Waiting(k)
    BY <1>1, <1>2, <1>6 DEF Launching, Waiting, Picking, Fetching, Asking, SwitchIdle
  <2>2. Steady' /\ Free' /\ Quiescent'
    BY <1>5, <1>6, FrameKeeps DEF Launching
  <2>3. Launching'
    BY <1>4, <2>1, <2>2 DEF Launching
  <2> QED BY <2>3 DEF Phase
<1>7. CASE Killing
  <2>1. Waiting(k)
    BY <1>1, <1>2, <1>7 DEF Killing, Waiting
  <2>2. UNCHANGED <<main, killPending, sticky, core>> /\ (JobsIdle => JobsIdle') /\ (Bare => Bare')
    BY DEF UiFrame, svcVars, JobsIdle, Bare
  <2>3. Killing'
    BY <1>4, <1>5, <1>7, <2>1, <2>2 DEF Killing
  <2> QED BY <2>3 DEF Phase
<1> QED BY <1>1, <1>3, <1>6, <1>7 DEF Phase, Resting, Starting, Working, Restarting, Wreck

\* The delay of switchTo ends, and the new config is launched.
LEMMA SwitchLaunchPhase ==
    ASSUME TypeOK, UiInv, Phase, UiFrame, NEW k \in Switcher, SwitchLaunch(k), StopDone
    PROVE  Phase'
<1>1. switchers[k].pc = "delay" /\ ~LaunchOff /\ ~killPending
  BY DEF SwitchLaunch, LaunchOff, SwitchIdle, StopDone
<1>2. \A l \in Switcher : OneSwitch(l) => l = k
  BY <1>1 DEF OneSwitch
<1>3. Launching
  BY <1>1, <1>2 DEF Phase, Resting, Starting, Working, Restarting, Wreck, Stopping, Killing
<1>4. Waiting(k)
  BY <1>1, <1>2, <1>3 DEF Launching, Waiting, Picking, Fetching, Asking, SwitchIdle
<1>5. CanLaunch /\ fetching = {} /\ pickJob = NoConfig
  BY <1>1, <1>3, <1>4 DEF CanLaunch, Launching, Waiting, OneSwitch
<1>6. SwitchIdle'
  BY <1>4 DEF Waiting, OneSwitch, SwitchLaunch, SwitchIdle, IdleSwitch, UiInv, Switches
<1>7. switchers[k].cfg \in Configs /\ LaunchConnect(switchers[k].cfg) /\ pickJob' = NoConfig
  BY <1>1, <1>5 DEF SwitchLaunch, UiInv, Switches
<1> QED BY <1>5, <1>6, <1>7, LaunchConnectPhase

\* A request to warm up keeps its place behind the other intents; none is sent
\* while a STOP or a kill is due, or while the UI shows a tunnel.
LEMMA WarmUpPhase ==
    ASSUME TypeOK, Phase, UiFrame, StopDone, NEW why, WarmUp(why)
    PROVE  Phase'
<1>0. /\ why \in warming /\ warming' = warming \ {why}
      /\ UNCHANGED <<ui, activeId, dialog, fetching, pickJob, switchers, afterPermission, seen>>
  BY DEF WarmUp, dialogVars
<1>1. CASE UNCHANGED intents
  <2>1. UNCHANGED phaseVars
    BY <1>0, <1>1 DEF phaseVars, UiFrame, svcVars
  <2>2. ui # "DISCONNECTED"
    <3> SUFFICES ASSUME StartService(Warm) PROVE FALSE
      BY DEF WarmUp, Up
    <3>1. intents \in Seq(Intent) /\ Warm \in Intent
      BY DEF TypeOK, ChannelsOK, Warm, Intent
    <3>2. Len(Append(intents, Warm)) = Len(intents) + 1 /\ Len(intents) \in Nat
      BY <3>1
    <3> QED BY <1>1, <3>2 DEF StartService
  <2>3. WarmupKept
    BY <1>0, <2>2 DEF WarmupKept
  <2> QED BY <2>1, <2>3, QuietStep DEF UiFrame, svcVars
<1>2. CASE intents' = Append(intents, Warm) /\ ~Up
  <2>1. /\ intents' # <<>>
        /\ Warms(intents) => Warms(intents')
        /\ OnlyClosing(intents) => OnlyClosing(intents')
        /\ Closing(intents) => Closing(intents')
        /\ \A e : Before(intents, e) => Before(intents', e)
    <3>1. intents \in Seq(Intent) /\ Warm \in Intent
      BY DEF TypeOK, ChannelsOK, Warm, Intent
    <3> QED BY <1>2, <3>1, SendIntent, SendDestroy
  <2>2. /\ (LaunchOff => LaunchOff') /\ (Steady => Steady') /\ (Free => Free') /\ (Bare => Bare')
        /\ UNCHANGED <<broadcasts, alive, current, jobs, main, core, vpn, killPending, sticky, revoked>>
    BY <1>0, FrameKeeps DEF LaunchOff, SwitchIdle, Bare, UiFrame, svcVars
  <2>3. CASE Resting
    <3>1. (Off => Off') /\ (On => On')
      BY <1>0, <2>1, <2>2 DEF Off, On, UiFrame, svcVars
    <3>2. Resting'
      BY <2>1, <2>2, <2>3, <3>1 DEF Resting
    <3> QED BY <3>2 DEF Phase
  <2>4. CASE Launching
    <3>1. /\ (Picking => Picking') /\ (Fetching => Fetching') /\ (Asking => Asking')
          /\ \A k \in Switcher : Waiting(k) => Waiting(k)'
      BY <1>0, <2>2 DEF Picking, Fetching, Asking, Waiting, OneSwitch, SwitchIdle, Up
    <3>2. Launching'
      BY <2>1, <2>2, <2>4, <3>1 DEF Launching, Quiescent
    <3> QED BY <3>2 DEF Phase
  <2>5. CASE Restarting
    <3>1. Tells(ui', broadcasts', Down)
      BY <1>0, <2>2, <2>5 DEF Restarting, Unwarmed
    <3>2. JobsIdle'
      BY <2>2, <2>5 DEF Restarting, JobsIdle
    <3>3. Restarting'
      BY <2>1, <2>2, <2>5, <3>1, <3>2 DEF Restarting
    <3> QED BY <3>3 DEF Phase
  <2>6. CASE Wreck
    <3>1. Wreck'
      BY <2>1, <2>2, <2>6 DEF Wreck
    <3> QED BY <3>1 DEF Phase
  <2>7. ~Starting /\ (\A j \in Job : ~Working(j)) /\ ~Killing
    BY <1>2 DEF Starting, Working, Killing, Up, StopDone
  <2>8. ~Stopping
    <3> SUFFICES ASSUME Stopping PROVE FALSE
      OBVIOUS
    <3>1. intents \in {<<Stop>>, <<Stop, Destroy>>}
      BY DEF Stopping
    <3>2. 1 \in 1..Len(intents) /\ intents[1].act = "STOP"
      BY <3>1 DEF Stop
    <3> QED BY <3>2 DEF StopDone
  <2> QED BY <2>3, <2>4, <2>5, <2>6, <2>7, <2>8 DEF Phase
<1> QED BY <1>1, <1>2 DEF WarmUp, StartService

\* The coroutines of MainActivity.
LEMMA CoroutinePhase ==
    ASSUME TypeOK, UiInv, Phase, Anytime \subseteq {"revoke"}, Coroutine, UiFrame
    PROVE  Phase'
<1>1. CASE \E c \in Configs : FetchDone(c)
  <2>1. PICK c \in Configs : FetchDone(c)
    BY <1>1
  <2>2. c \in fetching /\ fetching' = fetching \ {c} /\ ProceedLaunch(c) /\ UNCHANGED <<pickJob, switchers>>
    BY <2>1 DEF FetchDone
  <2>3. Steady /\ Free /\ Quiescent /\ Silent(broadcasts) /\ Fetching
    BY <2>2, LaunchOnly DEF Picking, Asking
  <2>4. CanLaunch /\ fetching' = {} /\ pickJob' = NoConfig /\ SwitchIdle'
    BY <2>2, <2>3 DEF Fetching, CanLaunch, SwitchIdle
  <2> QED BY <2>2, <2>4, LaunchPhase
<1>2. CASE \E c \in Configs : PickDone(c)
  <2>1. PICK c \in Configs : PickDone(c)
    BY <1>2
  <2>2. pickJob # NoConfig /\ pickJob' = NoConfig /\ LaunchConnect(c) /\ UNCHANGED switchers
    BY <2>1 DEF PickDone
  <2>3. Steady /\ Free /\ Quiescent /\ Silent(broadcasts) /\ Picking
    BY <2>2, LaunchOnly DEF Fetching, Asking
  <2>4. CanLaunch /\ fetching = {} /\ SwitchIdle'
    BY <2>2, <2>3 DEF Picking, CanLaunch, SwitchIdle, Down
  <2> QED BY <2>2, <2>4, LaunchConnectPhase
<1>3. CASE \E k \in Switcher : \/ SwitchWait(k, intents = <<>> /\ broadcasts = <<>>)
                               \/ SwitchLaunch(k) /\ StopDone
  BY <1>3, SwitchWaitPhase, SwitchLaunchPhase
<1>4. CASE AutoProbe \/ AutoKeep \/ WarmCollect
  <2>1. UNCHANGED phaseVars
    BY <1>4 DEF AutoProbe, AutoKeep, WarmCollect, phaseVars, UiFrame, svcVars, launchVars, dialogVars
  <2>2. WarmupKept
    BY <1>4 DEF AutoProbe, AutoKeep, WarmCollect, launchVars, WarmupKept
  <2> QED BY <2>1, <2>2, QuietStep DEF UiFrame, svcVars
<1>5. CASE Calm("smart") /\ \E c \in Configs : AutoSwitch(c)
  BY <1>5, SwitchPhase DEF Calm, AutoSwitch
<1>6. CASE StopDone /\ (WarmUp("create") \/ WarmUp("collect"))
  BY <1>6, WarmUpPhase
<1> QED BY <1>1, <1>2, <1>3, <1>4, <1>5, <1>6 DEF Coroutine

\* The receiver takes a broadcast: what the queue tells stays true of the state
\* and the rest of the queue.
LEMMA ReceivePhase ==
    ASSUME TypeOK, Phase, OnReceive, UNCHANGED <<svcVars, revoked>>
    PROVE  Phase'
<1>0. broadcasts \in Seq(Message) /\ broadcasts # <<>> /\ broadcasts' = Tail(broadcasts)
  BY DEF TypeOK, ChannelsOK, OnReceive
<1> DEFINE m == Head(broadcasts)
<1>1. /\ m = "counters" => UNCHANGED <<ui, activeId>>
      /\ m = "connected" => ui' = "CONNECTED" /\ UNCHANGED activeId
      /\ m = "disconnected" => ui' = "DISCONNECTED"
      /\ m = "error" => ui' = "ERROR"
      /\ m \in Message
  BY <1>0, TakeMessage DEF OnReceive, SetDisconnected, Message
<1>2. m # "counters" => ui' = Shown(m)
  BY <1>1 DEF Shown, Message
<1>3. /\ Silent(broadcasts) => m = "counters" /\ Silent(broadcasts')
      /\ Farewell(broadcasts) => \/ m = "counters" /\ Farewell(broadcasts')
                                 \/ m = "disconnected" /\ Silent(broadcasts')
      /\ Upward(broadcasts) => m \in {"counters", "connected"} /\ Upward(broadcasts')
      /\ Brings(broadcasts) => m = "connected" \/ Brings(broadcasts')
      /\ NoGoodbye(broadcasts) => m # "disconnected" /\ NoGoodbye(broadcasts')
  BY <1>0, TakeMessage
<1>4. Tells(ui, broadcasts, Down) => Tells(ui', broadcasts', Down)
  BY <1>0, <1>1, <1>2, TakeMessage
<1>5. UNCHANGED <<dialog, fetching, pickJob, switchers, afterPermission, intents, seen, warming,
                  alive, current, svc, jobs, main, core, vpn, killPending, sticky, revoked>>
  BY DEF OnReceive, svcVars, dialogVars
<1> HIDE DEF m
<1>6. /\ (LaunchOff => LaunchOff') /\ (Steady => Steady') /\ (Free => Free') /\ (Bare => Bare')
      /\ (SwitchIdle => SwitchIdle') /\ (JobsIdle => JobsIdle')
  BY <1>5 DEF LaunchOff, SwitchIdle, Steady, JobsIdle, Bare, Free
<1>7. Silent(broadcasts) => UNCHANGED <<ui, activeId>> /\ Silent(broadcasts')
  BY <1>1, <1>3
<1>8. ASSUME NEW k \in Switcher, Waiting(k) PROVE Waiting(k)'
  <2>1. OneSwitch(k)'
    BY <1>5, <1>8 DEF Waiting, OneSwitch
  <2>2. CASE switchers[k].pc = "wait" /\ Up /\ Farewell(broadcasts)
    BY <1>1, <1>3, <1>5, <2>1, <2>2 DEF Waiting, Up
  <2>3. CASE ui = "DISCONNECTED" /\ Silent(broadcasts)
    BY <1>5, <1>7, <2>1, <2>3 DEF Waiting
  <2> QED BY <1>8, <2>2, <2>3 DEF Waiting
<1>9. CASE Resting
  <2>1. Off => Off'
    BY <1>4, <1>5, <1>6 DEF Off
  <2>2. On => On'
    BY <1>1, <1>3, <1>5 DEF On
  <2>3. Resting'
    BY <1>5, <1>6, <1>9, <2>1, <2>2 DEF Resting
  <2> QED BY <2>3 DEF Phase
<1>10. CASE Launching
  <2>1. (Picking => Picking') /\ (Fetching => Fetching') /\ (Asking => Asking')
    BY <1>5, <1>6, <1>7 DEF Picking, Fetching, Asking
  <2>2. Launching'
    BY <1>5, <1>6, <1>8, <1>10, <2>1 DEF Launching, Quiescent
  <2> QED BY <2>2 DEF Phase
<1>11. CASE Starting
  <2>1. Starting'
    BY <1>5, <1>6, <1>7, <1>11 DEF Starting
  <2> QED BY <2>1 DEF Phase
<1>12. ASSUME NEW j \in Job, Working(j) PROVE Phase'
  <2>1. Working(j)'
    BY <1>5, <1>6, <1>7, <1>12 DEF Working
  <2> QED BY <2>1 DEF Phase
<1>13. CASE Stopping
  <2>1. Stopping'
    BY <1>5, <1>6, <1>7, <1>13 DEF Stopping, OneSwitch, Up
  <2> QED BY <2>1 DEF Phase
<1>14. CASE Killing
  <2>1. Killing'
    BY <1>4, <1>5, <1>6, <1>8, <1>14 DEF Killing
  <2> QED BY <2>1 DEF Phase
<1>15. CASE Restarting
  <2>1. Unwarmed => Unwarmed'
    BY <1>1, <1>3, <1>5 DEF Unwarmed, Message
  <2>2. Restarting'
    BY <1>4, <1>5, <1>6, <1>15, <2>1 DEF Restarting
  <2> QED BY <2>2 DEF Phase
<1>16. CASE Wreck
  <2>1. Wreck'
    BY <1>5, <1>6, <1>16 DEF Wreck
  <2> QED BY <2>1 DEF Phase
<1> QED BY <1>9, <1>10, <1>11, <1>12, <1>13, <1>14, <1>15, <1>16 DEF Phase

\* A new UI process shows DISCONNECTED and warms the service up, whose answer
\* tells it about a tunnel that is up.
LEMMA UiRestartPhase ==
    ASSUME TypeOK, Phase, Settled, UiRestart, UNCHANGED <<svcVars, revoked>>
    PROVE  Phase'
<1>0. /\ LaunchOff /\ Steady /\ intents = <<>> /\ broadcasts = <<>>
      /\ \/ core.cfg = NoConfig /\ Bare
         \/ revoked /\ Bare
         \/ On
  BY SettledRests
<1>1. LaunchOff'
  BY DEF UiRestart, LaunchOff, SwitchIdle, IdleSwitch
<1>2. UiFrame /\ UNCHANGED intents
  BY <1>0 DEF UiFrame, UiRestart
<1>3. Steady' /\ Warms(intents') /\ Upward(broadcasts') /\ Tells(ui', broadcasts', Down) /\ (Bare => Bare')
  BY <1>0, <1>2, FrameKeeps, EmptyQueue DEF UiRestart, Down, Bare, svcVars
<1>4. Off' \/ On' \/ (revoked' /\ Bare')
  BY <1>0, <1>3 DEF Off, On, UiRestart, svcVars
<1>5. Resting' \/ Wreck'
  BY <1>1, <1>3, <1>4 DEF Resting, Wreck, Steady, JobsIdle
<1> QED BY <1>5 DEF Phase

-----------------------------------------------------------------------------
(* The steps of the service *)

SvcFrame == UNCHANGED uiVars /\ revoked \in BOOLEAN /\ revoked' = (revoked /\ ~sticky')

\* What the UI process waits for does not change in a step of the service.
LEMMA SvcFrameKeeps ==
    ASSUME SvcFrame
    PROVE  /\ UNCHANGED <<ui, activeId, dialog, fetching, pickJob, switchers, afterPermission,
                          seen, warming>>
           /\ LaunchOff => LaunchOff'
           /\ SwitchIdle => SwitchIdle'
           /\ Up => Up'
           /\ \A k \in Switcher : OneSwitch(k) => OneSwitch(k)'
BY DEF SvcFrame, uiVars, dialogVars, LaunchOff, SwitchIdle, Up, OneSwitch

\* While the main thread is free, the intent at the head tells the phase.
LEMMA HeadPhase ==
    ASSUME TypeOK, Phase, main = "idle", intents # <<>>
    PROVE  \/ /\ Head(intents) = Warm
              /\ Resting \/ Launching \/ Starting \/ Killing \/ Restarting \/ Wreck
           \/ (\E c \in Configs : Head(intents) = Start(c)) /\ (Starting \/ Wreck)
           \/ Head(intents) = Start(NoConfig) /\ Restarting
           \/ Head(intents) = Stop /\ Stopping
           \/ Head(intents) = Destroy /\ (Launching \/ Starting \/ Killing \/ Wreck)
<1>0. intents \in Seq(Intent)
  BY DEF TypeOK, ChannelsOK
<1>1. /\ Warms(intents) => Head(intents) = Warm
      /\ \A m : Behind(intents, m) => Head(intents) \in {m, Warm}
      /\ \A m : Before(intents, m) => Head(intents) = m
      /\ OnlyClosing(intents) => Head(intents) \in {Warm, Destroy}
      /\ \A c \in Configs : Last(intents, Start(c)) => Head(intents) \in {Warm, Destroy}
      /\ Closing(intents) => \/ Head(intents) \in {Warm, Destroy}
                             \/ \E c \in Configs : Head(intents) = Start(c)
  BY <1>0, TakeIntent, TakeDestroy DEF Before
<1>2. CASE Resting \/ Launching
  BY <1>1, <1>2 DEF Resting, Launching, Quiescent
<1>3. CASE Starting
  BY <1>1, <1>3 DEF Starting
<1>4. CASE \E j \in Job : Working(j)
  BY <1>4 DEF Working
<1>5. CASE Stopping
  BY <1>5 DEF Stopping
<1>6. CASE Killing
  BY <1>1, <1>6 DEF Killing
<1>7. CASE Restarting
  BY <1>1, <1>7 DEF Restarting
<1>8. CASE Wreck
  BY <1>1, <1>8 DEF Wreck
<1> QED BY <1>2, <1>3, <1>4, <1>5, <1>6, <1>7, <1>8 DEF Phase

\* The names of the intents.
LEMMA Acts ==
    /\ Warm.act = "WARM" /\ Stop.act = "STOP" /\ Destroy.act = "DESTROY"
    /\ \A c : Start(c).act = "START" /\ Start(c).cfg = c
BY DEF Warm, Stop, Destroy, Start

\* A WARM is answered when a tunnel is up; otherwise it leaves everything but
\* the stickiness alone.
LEMMA WarmPhase ==
    ASSUME TypeOK, Phase, SvcFrame, NEW i \in Inst, OnWarm(i)
    PROVE  Phase'
<1>0. /\ main = "idle" /\ intents # <<>> /\ Head(intents).act = "WARM" /\ intents \in Seq(Intent)
      /\ (current = i \/ current = NoInst) /\ alive' = TRUE /\ current' = i /\ intents' = Tail(intents)
      /\ UNCHANGED <<jobs, main, core, vpn, killPending>>
  BY DEF OnWarm, Receives, TypeOK, ChannelsOK
<1>1. /\ Head(intents) = Warm
      /\ Resting \/ Launching \/ Starting \/ Killing \/ Restarting \/ Wreck
  BY <1>0, HeadPhase, Acts
<1>2. /\ Warms(intents) => Warms(intents') /\ ~HasDestroy(intents')
      /\ ~NoWarm(intents)
      /\ intents' \in Seq(Intent)
  BY <1>0, <1>1, TakeIntent, QueueHolds
<1>d. /\ OnlyClosing(intents) => OnlyClosing(intents')
      /\ \A c \in Configs : Last(intents, Start(c)) => Last(intents', Start(c))
      /\ Closing(intents) => Closing(intents') /\ HasDestroy(intents')
  BY <1>0, <1>1, <1>2, TakeDestroy, SendDestroy, Acts
<1>3. \A m : m # Warm => ~Before(intents, m) /\ (Behind(intents, m) => Behind(intents', m))
  BY <1>0, <1>1, TakeIntent DEF Before
<1>4. svc'[i].tun = Fields(i).tun
  BY DEF OnWarm, TypeOK
<1>5. ASSUME Bare
      PROVE  /\ Bare' /\ ~sticky' /\ UNCHANGED <<broadcasts, revoked>>
             /\ (Steady => Steady') /\ (Free => Free')
  <2>1. Fields(i).tun = NoFd
    BY <1>0, <1>5, ServiceAssumption DEF Bare, Fields, Fresh
  <2>2. Bare' /\ ~sticky' /\ UNCHANGED broadcasts
    BY <1>0, <1>4, <2>1 DEF Bare, OnWarm
  <2>3. UNCHANGED revoked
    BY <2>2 DEF SvcFrame
  <2> QED BY <1>0, <1>5, <2>2, <2>3 DEF Steady, JobsIdle, Free
<1>6. CASE Resting /\ Bare
  <2>1. Off
    BY <1>6 DEF Resting, On, Bare
  <2>2. Off'
    BY <1>0, <1>5, <1>6, <2>1, SvcFrameKeeps DEF Off
  <2>3. Resting'
    BY <1>2, <1>5, <1>6, <2>2, SvcFrameKeeps DEF Resting
  <2> QED BY <2>3 DEF Phase
<1>7. CASE Resting /\ ~Bare
  <2>1. On /\ LaunchOff /\ Steady /\ Warms(intents) /\ current = i
    BY <1>0, <1>7 DEF Resting, Off, On
  <2>2. Fields(i).tun # NoFd /\ Fields(i) = svc[i]
    BY <2>1 DEF On, Fields
  <2>3. broadcasts' = Append(broadcasts, "connected") /\ sticky'
    BY <1>2, <2>1, <2>2, <1>0 DEF OnWarm, Broadcast
  <2>4. broadcasts \in Seq(Message)
    BY DEF TypeOK, ChannelsOK
  <2>5. Upward(broadcasts') /\ Brings(broadcasts')
    BY <2>1, <2>3, <2>4, SendMessage DEF On
  <2>6. On'
    BY <1>0, <1>4, <2>1, <2>2, <2>3, <2>5, SvcFrameKeeps DEF On
  <2>7. Steady'
    BY <1>0, <2>1 DEF Steady, JobsIdle
  <2>8. Resting'
    BY <1>2, <2>1, <2>6, <2>7, SvcFrameKeeps DEF Resting
  <2> QED BY <2>8 DEF Phase
<1>8. CASE Launching
  <2>1. Steady' /\ Free' /\ Quiescent' /\ UNCHANGED broadcasts
    BY <1>2, <1>d, <1>5, <1>8 DEF Launching, Free, Quiescent
  <2>2. /\ (Picking => Picking') /\ (Fetching => Fetching') /\ (Asking => Asking')
        /\ \A k \in Switcher : Waiting(k) => Waiting(k)'
    BY <2>1, SvcFrameKeeps DEF Picking, Fetching, Asking, Waiting
  <2>3. Launching'
    BY <1>8, <2>1, <2>2 DEF Launching
  <2> QED BY <2>3 DEF Phase
<1>9. CASE Starting
  <2>1. Steady' /\ Free' /\ UNCHANGED <<broadcasts, revoked>>
    BY <1>5, <1>9 DEF Starting, Free
  <2>2. \A c : Start(c) # Warm
    BY Acts
  <2>3. Starting'
    BY <1>3, <1>d, <1>9, <2>1, <2>2, SvcFrameKeeps DEF Starting
  <2> QED BY <2>3 DEF Phase
<1>10. CASE Killing
  <2>1. Bare
    BY <1>2, <1>10 DEF Killing
  <2>2. Warms(intents') \/ Behind(intents', Destroy)
    BY <1>2, <1>3, <1>10, Acts DEF Killing
  <2>3. \A k \in Switcher : Waiting(k) => Waiting(k)'
    BY <1>5, <2>1, SvcFrameKeeps DEF Waiting
  <2>4. Killing'
    BY <1>0, <1>5, <1>10, <2>1, <2>2, <2>3, SvcFrameKeeps DEF Killing, JobsIdle
  <2> QED BY <2>4 DEF Phase
<1>11. CASE Restarting
  <2>1. Bare /\ LaunchOff /\ JobsIdle /\ ~killPending /\ core.cfg = NoConfig /\ Tells(ui, broadcasts, Down)
    BY <1>2, <1>11 DEF Restarting, Unwarmed
  <2>2. Warms(intents)
    BY <1>0, <1>3, <1>11, Acts DEF Restarting
  <2>3. Off'
    BY <1>0, <1>5, <2>1, SvcFrameKeeps DEF Off
  <2>4. Steady'
    BY <1>0, <1>5, <2>1 DEF Steady, JobsIdle
  <2>5. Resting'
    BY <1>2, <2>1, <2>2, <2>3, <2>4, SvcFrameKeeps DEF Resting
  <2> QED BY <2>5 DEF Phase
<1>12. CASE Wreck /\ Closing(intents)
  <2>1. ~sticky'
    BY <1>0, <1>d, <1>12 DEF OnWarm
  <2>2. revoked' /\ LaunchOff'
    BY <1>12, <2>1, SvcFrameKeeps DEF SvcFrame, Wreck
  <2>3. Wreck'
    BY <1>d, <1>12, <2>2 DEF Wreck
  <2> QED BY <2>3 DEF Phase
<1>13. CASE Wreck /\ ~Closing(intents)
  <2>1. /\ LaunchOff /\ revoked /\ Warms(intents) /\ Bare
        /\ \A j \in Job : jobs[j].pc # "idle" => jobs[j].inst # current
    BY <1>13 DEF Wreck
  <2>2. \A j \in Job : jobs'[j].pc # "idle" => jobs'[j].inst # current'
    BY <1>0, <2>1 DEF OnWarm, Receives, Collectable
  <2>3. Wreck'
    BY <1>2, <1>5, <2>1, <2>2, SvcFrameKeeps DEF Wreck
  <2> QED BY <2>3 DEF Phase
<1> QED BY <1>1, <1>6, <1>7, <1>8, <1>9, <1>10, <1>11, <1>12, <1>13

\* The START that was on its way launches a coroutine: the service has no tunnel.
LEMMA StartPhase ==
    ASSUME TypeOK, Starting, SvcFrame, NEW i \in Inst, OnStart(i)
    PROVE  Phase'
<1>0. /\ main = "idle" /\ intents # <<>> /\ Head(intents).act = "START" /\ Head(intents).cfg # NoConfig
      /\ intents \in Seq(Intent)
      /\ (current = i \/ current = NoInst) /\ alive' = TRUE /\ current' = i /\ intents' = Tail(intents)
      /\ UNCHANGED <<main, core, vpn, killPending, broadcasts>>
  BY DEF OnStart, Receives, TypeOK, ChannelsOK
<1>1. Starting /\ \A c \in Configs : ~Last(intents, Start(c))
  BY <1>0, TakeDestroy, Acts
<1>2. PICK d \in Configs : Behind(intents, Start(d)) /\ activeId \in {d, NoConfig}
  BY <1>1 DEF Starting
<1>3. Head(intents) = Start(d) /\ intents' = <<>>
  BY <1>0, <1>1, <1>2, TakeIntent, Acts
<1>4. Head(intents).cfg = d /\ d # NoConfig
  BY <1>0, <1>3, Acts
<1>5. Fields(i).tun = NoFd /\ Fields(i) \in Service
  BY <1>0, <1>1, ServiceAssumption, FieldsType DEF Starting, Free, Bare, Fields, Fresh
<1>6. PICK j \in Job :
        /\ jobs[j].pc = "idle"
        /\ jobs' = [jobs EXCEPT ![j] = [pc |-> "establish", inst |-> i, cfg |-> d, fd |-> NoFd]]
  BY <1>4, <1>5 DEF OnStart, Service
<1>7. sticky'
  BY <1>0, <1>3, EmptyQueue DEF OnStart
<1>8. /\ jobs'[j].pc = "establish" /\ jobs'[j].inst = i /\ jobs'[j].cfg = d
      /\ \A k \in Job \ {j} : jobs'[k].pc = "idle"
  BY <1>1, <1>6 DEF TypeOK, Starting, Steady, JobsIdle
<1>9. i # NoInst
  BY ServiceAssumption
<1>10. LaunchOff /\ ~killPending /\ ui = "CONNECTING" /\ Silent(broadcasts)
  BY <1>1 DEF Starting, Steady
<1>11. Working(j)'
  BY <1>0, <1>2, <1>3, <1>4, <1>7, <1>8, <1>9, <1>10, SvcFrameKeeps DEF Working
<1> QED BY <1>11 DEF Phase

\* A START that comes before the onDestroy of another VPN app leaves a wreck.
LEMMA WreckStartPhase ==
    ASSUME TypeOK, Wreck, SvcFrame, NEW i \in Inst, OnStart(i)
    PROVE  Phase'
<1>0. /\ intents # <<>> /\ Head(intents).act = "START" /\ intents \in Seq(Intent)
      /\ intents' = Tail(intents) /\ sticky' = ~HasDestroy(Tail(intents))
  BY DEF OnStart, Receives, TypeOK, ChannelsOK
<1>1. Closing(intents)
  BY <1>0, TakeIntent, Acts DEF Wreck
<1>2. Closing(intents') /\ ~sticky'
  BY <1>0, <1>1, TakeDestroy, TakeIntent, SendDestroy, Acts
<1>3. Wreck'
  BY <1>2, SvcFrameKeeps DEF Wreck, SvcFrame
<1> QED BY <1>3 DEF Phase

\* stopSelf() of the object that handles the last intents.
LEMMA StopSelfPhase ==
    ASSUME NEW q \in Seq(Intent), Warms(q), NEW i, i = current'
    PROVE  /\ StopSelf(i, q) = Append(q, Destroy)
           /\ Behind(StopSelf(i, q), Destroy)
<1>1. ~HasDestroy(q) /\ Destroy \in Intent
  BY QueueHolds DEF Destroy, Intent
<1>2. StopSelf(i, q) = Append(q, Destroy)
  BY <1>1 DEF StopSelf
<1> QED BY <1>1, <1>2, SendIntent

\* <<Destroy>> holds no request to warm up.
LEMMA DestroyOnly == /\ Append(<<>>, Destroy) = <<Destroy>>
                     /\ NoWarm(<<Destroy>>) /\ HasDestroy(<<Destroy>>) /\ Behind(<<Destroy>>, Destroy)
<1>1. Append(<<>>, Destroy) = <<Destroy>>
  OBVIOUS
<1>2. Destroy # Warm /\ Destroy.act = "DESTROY"
  BY Acts
<1>3. Len(<<Destroy>>) = 1 /\ <<Destroy>>[1] = Destroy
  OBVIOUS
<1>4. NoWarm(<<Destroy>>) /\ HasDestroy(<<Destroy>>)
  BY <1>2, <1>3 DEF NoWarm, HasDestroy
<1> QED BY <1>1, <1>4, EmptyQueue

\* A queue of one intent, and of two.
LEMMA PairQueue == /\ Append(<<Stop>>, Destroy) = <<Stop, Destroy>>
                   /\ Tail(<<Stop>>) = <<>> /\ Tail(<<Stop, Destroy>>) = <<Destroy>>
<1>1. ASSUME NEW a, NEW b PROVE Append(<<a>>, b) = <<a, b>>
  <2>1. <<a>> \in Seq({a, b}) /\ <<a, b>> \in Seq({a, b}) /\ b \in {a, b}
    OBVIOUS
  <2>2. /\ Append(<<a>>, b) \in Seq({a, b}) /\ Len(Append(<<a>>, b)) = 2
        /\ Append(<<a>>, b)[1] = a /\ Append(<<a>>, b)[2] = b
    BY <2>1
  <2>3. \A n \in 1..2 : Append(<<a>>, b)[n] = <<a, b>>[n]
    BY <2>2
  <2>4. Len(<<a, b>>) = 2
    OBVIOUS
  <2> QED BY <2>1, <2>2, <2>3, <2>4, SeqEqual
<1>2. ASSUME NEW a PROVE Tail(<<a>>) = <<>>
  OBVIOUS
<1>3. ASSUME NEW a, NEW b PROVE Tail(<<a, b>>) = <<b>>
  OBVIOUS
<1> QED BY <1>1, <1>2, <1>3, Zenon

\* The STOP tears the tunnel down, and the UI is told.
LEMMA StopIntentPhase ==
    ASSUME TypeOK, TearingDownIsDoomed, Phase, SvcFrame, NEW i \in Inst, OnStop(i)
    PROVE  Phase'
<1>0. /\ main = "idle" /\ intents # <<>> /\ Head(intents).act = "STOP"
      /\ (current = i \/ current = NoInst) /\ current' = i
      /\ UNCHANGED <<main, jobs>> /\ sticky' = FALSE
  BY DEF OnStop, Receives
<1>1. Stopping
  BY <1>0, HeadPhase, Acts
<1>2. ~killPending /\ Tail(intents) \in {<<>>, <<Destroy>>}
  <2>1. intents \in {<<Stop>>, <<Stop, Destroy>>} /\ ~killPending
    BY <1>1 DEF Stopping, Steady
  <2> QED BY <2>1, PairQueue, Zenon
<1>3. Fields(i).tearing = FALSE /\ Fields(i) \in Service
  BY <1>2, FieldsType DEF TearingDownIsDoomed, Fields, Fresh, Service
<1> DEFINE s == [Fields(i) EXCEPT !.block = NoFd]
<1>4. s.tearing = FALSE
  BY <1>3 DEF Service
<1>5. /\ TearDown(i, s, Pfd(Fields(i).block), "disconnected")
      /\ intents' = StopSelf(i, Tail(intents))
  BY <1>4 DEF OnStop, DieIgnored
<1>6. /\ core' = NoCore /\ killPending' /\ broadcasts' = Append(broadcasts, "disconnected")
  BY <1>5 DEF TearDown, Broadcast
<1> HIDE DEF s
<1>7. <<>> \in Seq(Intent) /\ Warms(<<>>)
  BY EmptyQueue
<1>8. intents' = <<Destroy>>
  <2>1. CASE Tail(intents) = <<>>
    BY <1>0, <1>5, <1>7, <2>1, StopSelfPhase, DestroyOnly
  <2>2. CASE Tail(intents) = <<Destroy>>
    BY <1>5, <2>2, DestroyOnly DEF StopSelf
  <2> QED BY <1>2, <2>1, <2>2
<1>9. Behind(intents', Destroy) /\ NoWarm(intents')
  BY <1>8, DestroyOnly
<1>10. Farewell(broadcasts') /\ Tells(ui', broadcasts', Down)
  BY <1>1, <1>6, SendMessage DEF Stopping, TypeOK, ChannelsOK, Down
<1>11. JobsIdle' /\ core'.cfg = NoConfig
  BY <1>0, <1>1, <1>6 DEF Stopping, Steady, JobsIdle, NoCore
<1>12. LaunchOff' \/ \E k \in Switcher : Waiting(k)'
  BY <1>1, <1>10, SvcFrameKeeps DEF Stopping, Waiting
<1>13. Killing'
  BY <1>0, <1>6, <1>8, <1>9, <1>10, <1>11, <1>12 DEF Killing
<1> QED BY <1>13 DEF Phase

\* The null intent of a sticky restart finds a new object: it ends in die().
LEMMA NullStartPhase ==
    ASSUME TypeOK, Phase, SvcFrame, NEW i \in Inst, OnNullStart(i)
    PROVE  Phase'
<1>0. /\ main = "idle" /\ intents # <<>> /\ Head(intents).act = "START" /\ Head(intents).cfg = NoConfig
      /\ alive' = TRUE /\ current' = i /\ UNCHANGED jobs
  BY DEF OnNullStart, Receives
<1>1. Restarting /\ Head(intents) = Start(NoConfig)
  BY <1>0, HeadPhase, Acts, ChannelAssumption
<1>2. /\ current = NoInst /\ Warms(Tail(intents)) /\ Tail(intents) \in Seq(Intent)
      /\ (NoWarm(intents) => NoWarm(Tail(intents)))
  <2>1. intents \in Seq(Intent)
    BY DEF TypeOK, ChannelsOK
  <2>2. ~Warms(intents)
    BY <1>0, <1>1, <2>1, TakeIntent, Acts
  <2> QED BY <1>0, <1>1, <2>1, <2>2, TakeIntent DEF Restarting, Before
<1>3. Fields(i) \in Service /\ Fields(i).tearing = FALSE /\ Fields(i).tun = NoFd
  BY <1>2, ServiceAssumption, FieldsType DEF Fields, Fresh
<1> DEFINE s == [Fields(i) EXCEPT !.aether = FALSE, !.tor = FALSE]
<1>4. s.tearing = FALSE /\ s.tun = NoFd /\ s \in Service
  BY <1>3 DEF Service
<1>5. LaunchOff' /\ JobsIdle' /\ ~killPending /\ sticky /\ i # NoInst
  BY <1>0, <1>1, SvcFrameKeeps, ServiceAssumption DEF Restarting, JobsIdle
<1>6. CASE /\ CloseTunnel(i, s) /\ main' = "block" /\ intents' = Tail(intents) /\ UNCHANGED sticky
  <2>1. core'.cfg = NoConfig /\ UNCHANGED <<killPending, broadcasts>>
    BY <1>6 DEF CloseTunnel, NoCore
  <2>2. svc'[i].tun = NoFd
    BY <1>4, <1>6 DEF CloseTunnel, TypeOK, Service
  <2>3. Bare'
    BY <1>0, <2>2 DEF Bare
  <2>4. Tells(ui', broadcasts', Down) \/ Unwarmed'
    BY <1>1, <1>2, <1>6, <2>1, SvcFrameKeeps DEF Restarting, Unwarmed
  <2>5. Restarting'
    BY <1>0, <1>2, <1>5, <1>6, <2>1, <2>3, <2>4 DEF Restarting
  <2> QED BY <2>5 DEF Phase
<1>7. CASE /\ TearDown(i, s, {}, "error") /\ intents' = StopSelf(i, Tail(intents))
           /\ sticky' = FALSE /\ UNCHANGED main
  <2>1. core'.cfg = NoConfig /\ killPending' /\ broadcasts' = Append(broadcasts, "error")
    BY <1>7 DEF TearDown, NoCore, Broadcast
  <2>2. svc'[i].tun = NoFd
    BY <1>4, <1>7 DEF TearDown, TypeOK, Service
  <2>3. Bare'
    BY <1>0, <2>2 DEF Bare
  <2>4. Tells(ui', broadcasts', Down)
    BY <2>1, SendMessage DEF TypeOK, ChannelsOK, Down
  <2>5. Behind(intents', Destroy)
    BY <1>0, <1>2, <1>7, StopSelfPhase
  <2>6. Killing'
    BY <1>0, <1>5, <1>7, <2>1, <2>3, <2>4, <2>5 DEF Killing
  <2> QED BY <2>6 DEF Phase
<1> QED BY <1>4, <1>6, <1>7 DEF OnNullStart, DieIgnored

\* The main thread comes out of enterKillSwitch.
LEMMA MainBlockPhase ==
    ASSUME TypeOK, Phase, SvcFrame, MainBlock
    PROVE  Phase'
<1>0. /\ main = "block" /\ main' = "idle" /\ BlockTraffic(current) /\ sticky' = FALSE
      /\ UNCHANGED <<intents, alive, current, jobs>>
  BY DEF MainBlock
<1>w. CASE Wreck
  <2>1. \A k \in Inst : svc'[k].tun = svc[k].tun
    BY <1>0 DEF BlockTraffic, TypeOK, Service
  <2>2. Bare => Bare'
    BY <1>0, <2>1 DEF Bare, TypeOK
  <2>3. revoked' /\ LaunchOff'
    BY <1>0, <1>w, SvcFrameKeeps DEF Wreck, SvcFrame
  <2>4. Wreck'
    BY <1>0, <1>w, <2>2, <2>3 DEF Wreck
  <2> QED BY <2>4 DEF Phase
<1> SUFFICES ASSUME ~Wreck PROVE Phase'
  BY <1>w
<1>1. Restarting /\ Warms(intents) /\ current \in Inst
  BY <1>0 DEF Phase, Resting, Launching, Starting, Working, Stopping, Killing, Restarting, Steady, TypeOK
<1>2. /\ broadcasts' = Append(broadcasts, "error") /\ UNCHANGED <<core, killPending>>
      /\ svc'[current].tun = svc[current].tun
  BY <1>0, <1>1 DEF BlockTraffic, Broadcast, TypeOK, Service
<1>3. Tells(ui', broadcasts', Down)
  BY <1>2, SendMessage DEF TypeOK, ChannelsOK, Down
<1>4. LaunchOff' /\ Steady' /\ Bare' /\ core'.cfg = NoConfig
  BY <1>0, <1>1, <1>2, SvcFrameKeeps DEF Restarting, Steady, JobsIdle, Bare
<1>5. Resting'
  BY <1>0, <1>1, <1>3, <1>4 DEF Resting, Off
<1> QED BY <1>5 DEF Phase

\* onDestroy comes after die() or after another VPN app took over.
LEMMA DestroyPhase ==
    ASSUME TypeOK, JobsLaunched, FreshStart, Phase, SvcFrame, NEW i \in Inst, OnDestroy(i)
    PROVE  Phase'
<1>0. /\ main = "idle" /\ intents # <<>> /\ Head(intents).act = "DESTROY" /\ intents' = Tail(intents)
      /\ current' = NoInst /\ intents \in Seq(Intent)
      /\ UNCHANGED <<broadcasts, alive, jobs, main, core, killPending, sticky>>
  BY DEF OnDestroy, TypeOK, ChannelsOK
<1>1. Head(intents) = Destroy /\ (Launching \/ Starting \/ Killing \/ Wreck)
  BY <1>0, HeadPhase, Acts
<1>2. /\ Bare' /\ (revoked => revoked') /\ (Free => Free') /\ (Steady => Steady')
  BY <1>0 DEF Bare, Free, FreshStart, SvcFrame, Steady, JobsIdle
<1>d. /\ ~Warms(intents)
      /\ OnlyClosing(intents) => Warms(intents')
      /\ \A c \in Configs : /\ ~Behind(intents, Start(c))
                            /\ Last(intents, Start(c)) => Behind(intents', Start(c))
      /\ Closing(intents) => Warms(intents')
  BY <1>0, <1>1, TakeIntent, TakeDestroy, Acts
<1>3. CASE Killing
  <2>1. Warms(intents')
    <3>1. Destroy # Warm
      BY Acts
    <3>2. Behind(intents, Destroy)
      BY <1>0, <1>1, <1>3, <3>1, TakeIntent DEF Killing
    <3>3. intents' = <<>>
      BY <1>0, <1>1, <3>1, <3>2, TakeIntent
    <3> QED BY <3>3, EmptyQueue
  <2>2. \A k \in Switcher : Waiting(k) => Waiting(k)'
    BY <1>0, SvcFrameKeeps DEF Waiting
  <2>3. Killing'
    BY <1>0, <1>2, <1>3, <2>1, <2>2, SvcFrameKeeps DEF Killing, JobsIdle
  <2> QED BY <2>3 DEF Phase
<1>4. CASE Launching
  <2>1. Steady' /\ Free' /\ Quiescent'
    BY <1>2, <1>d, <1>4 DEF Launching, Quiescent
  <2>2. /\ (Picking => Picking') /\ (Fetching => Fetching') /\ (Asking => Asking')
        /\ \A k \in Switcher : Waiting(k) => Waiting(k)'
    BY <1>0, SvcFrameKeeps DEF Picking, Fetching, Asking, Waiting
  <2>3. Launching'
    BY <1>4, <2>1, <2>2 DEF Launching
  <2> QED BY <2>3 DEF Phase
<1>5. CASE Starting
  <2>1. \E c \in Configs : Behind(intents', Start(c)) /\ activeId' \in {c, NoConfig}
    <3>1. PICK c \in Configs : /\ Behind(intents, Start(c)) \/ Last(intents, Start(c))
                               /\ activeId \in {c, NoConfig}
      BY <1>5 DEF Starting
    <3>2. Behind(intents', Start(c))
      BY <1>d, <3>1
    <3> QED BY <3>1, <3>2, SvcFrameKeeps
  <2>2. LaunchOff' /\ Steady' /\ Free' /\ ui' = "CONNECTING" /\ Silent(broadcasts')
    BY <1>0, <1>2, <1>5, SvcFrameKeeps DEF Starting
  <2>3. Starting'
    BY <2>1, <2>2 DEF Starting
  <2> QED BY <2>3 DEF Phase
<1>6. CASE Wreck
  <2>1. LaunchOff' /\ revoked' /\ Warms(intents')
    BY <1>2, <1>d, <1>6, SvcFrameKeeps DEF Wreck
  <2>2. \A j \in Job : jobs'[j].pc # "idle" => jobs'[j].inst # current'
    BY <1>0, ServiceAssumption DEF JobsLaunched
  <2>3. Wreck'
    BY <1>2, <2>1, <2>2 DEF Wreck
  <2> QED BY <2>3 DEF Phase
<1> QED BY <1>1, <1>3, <1>4, <1>5, <1>6

\* The coroutine goes on: what its new state says holds.
LEMMA WorkGoesOn ==
    ASSUME TypeOK, NEW j \in Job, Working(j), SvcFrame,
           UNCHANGED <<intents, broadcasts, main, killPending, sticky, alive, current>>,
           NEW p \in Pc \ {"idle"}, NEW f \in Fd \cup {NoFd},
           jobs' = [jobs EXCEPT ![j].pc = p, ![j].fd = f],
           p \in {"aether", "aetherWait", "core", "start", "tor", "torWait", "announce"}
             => f # NoFd /\ vpn' = f /\ svc'[current].tun = f,
           p \in {"tor", "torWait", "announce"} => core'.fd = f /\ core'.cfg = jobs[j].cfg,
           p = "block" => core'.cfg = NoConfig /\ Bare'
    PROVE  Phase'
<1>1. /\ jobs'[j].pc = p /\ jobs'[j].fd = f
      /\ jobs'[j].inst = jobs[j].inst /\ jobs'[j].cfg = jobs[j].cfg
      /\ \A k \in Job \ {j} : jobs'[k] = jobs[k]
  BY DEF TypeOK
<1>2. Working(j)'
  BY <1>1, SvcFrameKeeps DEF Working
<1> QED BY <1>2 DEF Phase

\* What the coroutine of an object does after another VPN app took over touches
\* no other object, and its stopSelf() adds nothing.
LEMMA WreckJobPhase ==
    ASSUME TypeOK, FreshStart, Wreck, SvcFrame, NEW j \in Job, JobStep(j)
    PROVE  Phase'
<1> DEFINE i == jobs[j].inst
<1>0. jobs[j].pc # "idle"
  BY DEF JobStep, JobEstablish, JobAether, JobAetherWait, JobCore, JobStart, JobTor, JobTorWait,
         JobAnnounce, JobDie, JobBlock, At
<1>1. UNCHANGED current /\ (sticky' => sticky) /\ intents' \in {intents, StopSelf(i, intents)}
  <2>1. CASE JobDie(j)
    <3>1. /\ UNCHANGED current
          /\ \/ UNCHANGED <<intents, sticky>>
             \/ intents' = StopSelf(i, intents) /\ sticky' = (sticky /\ i # current)
      BY <2>1, Zenon DEF JobDie
    <3>2. sticky' => sticky
      BY <3>1, Zenon
    <3> QED BY <3>1, <3>2, Zenon
  <2>2. CASE ~JobDie(j)
    BY <2>2 DEF JobStep, JobEstablish, JobAether, JobAetherWait, JobCore, JobStart, JobTor, JobTorWait,
                JobAnnounce, JobBlock, JobFrame
  <2> QED BY <2>1, <2>2
<1>2. \A k \in Inst : k # i => svc'[k] = svc[k]
  BY DEF TypeOK, JobStep, JobEstablish, JobAether, JobAetherWait, JobCore, JobStart, JobTor,
         JobTorWait, JobAnnounce, JobDie, JobBlock, DieIgnored, CloseTunnel, TearDown, BlockTraffic
<1>3. \A k \in Job : jobs'[k].pc # "idle" => jobs[k].pc # "idle" /\ jobs'[k].inst = jobs[k].inst
  <2>1. \/ \E p \in Pc \ {"idle"} : Goto(j, p)
        \/ \E p \in Pc \ {"idle"}, f \in Fd : jobs' = [jobs EXCEPT ![j].pc = p, ![j].fd = f]
        \/ jobs' = [jobs EXCEPT ![j] = IdleJob]
    BY DEF JobStep, JobEstablish, JobAether, JobAetherWait, JobCore, JobStart, JobTor,
           JobTorWait, JobAnnounce, JobDie, JobBlock, Pc, FreeFds
  <2>2. \A k \in Job \ {j} : jobs'[k] = jobs[k]
    BY <2>1 DEF TypeOK, Goto
  <2>3. jobs'[j].pc = "idle" \/ jobs'[j].inst = jobs[j].inst
    <3>1. ASSUME NEW p \in Pc, Goto(j, p) PROVE jobs'[j].inst = jobs[j].inst
      BY <3>1 DEF TypeOK, Goto
    <3>2. ASSUME NEW p \in Pc, NEW f \in Fd, jobs' = [jobs EXCEPT ![j].pc = p, ![j].fd = f]
          PROVE  jobs'[j].inst = jobs[j].inst
      BY <3>2 DEF TypeOK
    <3>3. ASSUME jobs' = [jobs EXCEPT ![j] = IdleJob] PROVE jobs'[j].pc = "idle"
      BY <3>3 DEF TypeOK, IdleJob
    <3> QED BY <2>1, <3>1, <3>2, <3>3
  <2> QED BY <1>0, <2>2, <2>3
<1>4. revoked' /\ LaunchOff'
  BY <1>1, SvcFrameKeeps DEF Wreck, FreshStart, SvcFrame
<1>5. CASE Closing(intents)
  <2>1. HasDestroy(intents)
    BY <1>5, SendDestroy DEF TypeOK, ChannelsOK
  <2>2. UNCHANGED intents
    BY <1>1, <2>1 DEF StopSelf
  <2>3. Wreck'
    BY <1>4, <1>5, <2>2 DEF Wreck
  <2> QED BY <2>3 DEF Phase
<1>6. CASE ~Closing(intents)
  <2>1. /\ Warms(intents) /\ Bare
        /\ \A k \in Job : jobs[k].pc # "idle" => jobs[k].inst # current
    BY <1>6 DEF Wreck
  <2>2. i # current /\ UNCHANGED intents
    BY <1>0, <1>1, <2>1 DEF StopSelf
  <2>3. Bare'
    BY <1>1, <1>2, <2>1, <2>2 DEF Bare, TypeOK
  <2>4. Wreck'
    BY <1>1, <1>3, <1>4, <2>1, <2>2, <2>3 DEF Wreck
  <2> QED BY <2>4 DEF Phase
<1> QED BY <1>5, <1>6

\* The coroutine of startTunnel ends with an announcement, which the UI will
\* show, or in die().
LEMMA JobPhase ==
    ASSUME TypeOK, FdOwnership, TearingDownIsDoomed, Phase, ~Wreck, SvcFrame,
           NEW j \in Job, JobStep(j)
    PROVE  Phase'
<1>0. jobs[j].pc # "idle"
  BY DEF JobStep, JobEstablish, JobAether, JobAetherWait, JobCore, JobStart, JobTor, JobTorWait,
         JobAnnounce, JobDie, JobBlock, At
<1>1. Working(j)
  <2>1. ~JobsIdle /\ ~Steady
    BY <1>0 DEF JobsIdle, Steady
  <2>2. \A k \in Job : Working(k) => k = j
    BY <1>0 DEF Working
  <2> QED BY <2>1, <2>2 DEF Phase, Resting, Launching, Starting, Stopping, Killing, Restarting
<1> DEFINE f == jobs[j].fd
           i == current
           Tunnel == f # NoFd /\ vpn = f /\ svc[i].tun = f
<1>2. /\ intents = <<>> /\ LaunchOff /\ ~killPending /\ sticky /\ alive /\ main = "idle"
      /\ Silent(broadcasts) /\ ui = "CONNECTING"
      /\ jobs[j].inst = i /\ i # NoInst /\ i \in Inst
      /\ \A k \in Job \ {j} : jobs[k].pc = "idle"
  BY <1>1 DEF Working, TypeOK
<1>3. /\ jobs[j].pc \in {"aether", "aetherWait", "core", "start", "tor", "torWait", "announce"} => Tunnel
      /\ jobs[j].pc \in {"tor", "torWait", "announce"} => core.fd = f /\ core.cfg = jobs[j].cfg
  BY <1>1 DEF Working
<1>4. f \in Fd \cup {NoFd}
  BY DEF TypeOK
<1>5. \A p \in Pc : Goto(j, p) => jobs' = [jobs EXCEPT ![j].pc = p, ![j].fd = f]
  BY DEF Goto, TypeOK
<1>6. JobFrame => UNCHANGED <<alive, current, main, killPending>>
  BY DEF JobFrame
<1>7. ASSUME jobs' = [jobs EXCEPT ![j] = IdleJob], UNCHANGED <<alive, main>>
      PROVE  JobsIdle' /\ (~killPending' => Steady')
  BY <1>2, <1>7 DEF TypeOK, IdleJob, JobsIdle, Steady
<1>8. CASE JobEstablish(j)
  <2>1. UNCHANGED <<intents, broadcasts, main, killPending, sticky, alive, current>>
    BY <1>8, <1>6 DEF JobEstablish
  <2>2. CASE \E g \in FreeFds : /\ Establish(g)
                                /\ svc' = [svc EXCEPT ![jobs[j].inst].tun = g]
                                /\ jobs' = [jobs EXCEPT ![j].pc = "aether", ![j].fd = g]
    <3>1. PICK g \in FreeFds : /\ Establish(g)
                               /\ svc' = [svc EXCEPT ![jobs[j].inst].tun = g]
                               /\ jobs' = [jobs EXCEPT ![j].pc = "aether", ![j].fd = g]
      BY <2>2
    <3>2. g \in Fd /\ g # NoFd /\ vpn' = g
      BY <3>1, ServiceAssumption DEF FreeFds, Establish
    <3>3. svc'[i].tun = g
      BY <1>2, <3>1 DEF TypeOK, Service
    <3>4. "aether" \in Pc \ {"idle"} /\ g \in Fd \cup {NoFd}
      BY <3>2 DEF Pc
    <3> HIDE DEF f
    <3> QED BY <1>1, <2>1, <3>1, <3>2, <3>3, <3>4, WorkGoesOn
  <2>3. CASE Goto(j, "die")
    BY <1>1, <1>4, <1>5, <2>1, <2>3, WorkGoesOn DEF Pc
  <2> QED BY <1>8, <2>2, <2>3 DEF JobEstablish
<1>9. CASE JobAether(j) \/ JobAetherWait(j)
  <2>1. /\ UNCHANGED <<intents, broadcasts, main, killPending, sticky, alive, current, vpn, svc>>
        /\ Tunnel
    BY <1>3, <1>6, <1>9 DEF JobAether, JobAetherWait, At, osVars
  <2>2. PICK p \in {"aetherWait", "core", "die"} : Goto(j, p)
    BY <1>9 DEF JobAether, JobAetherWait
  <2> QED BY <1>1, <1>4, <1>5, <2>1, <2>2, WorkGoesOn DEF Pc
<1>10. CASE JobCore(j)
  <2>1. /\ UNCHANGED <<intents, broadcasts, main, killPending, sticky, alive, current, svc>>
        /\ Tunnel /\ jobs[j].pc = "core"
    BY <1>3, <1>6, <1>10 DEF JobCore, At
  <2>2. f \notin CoreFds
    BY <2>1, ServiceAssumption DEF FdOwnership, AttachedUntilCore, EngineFdOpen, CoreFds
  <2>3. vpn' = vpn
    BY <1>10, <2>1, <2>2 DEF JobCore, CloseAll
  <2>4. PICK p \in {"start", "die"} : Goto(j, p)
    BY <1>10 DEF JobCore
  <2> QED BY <1>1, <1>4, <1>5, <2>1, <2>3, <2>4, WorkGoesOn DEF Pc
<1>11. CASE JobStart(j)
  <2>1. /\ UNCHANGED <<intents, broadcasts, main, killPending, sticky, alive, current, svc>>
        /\ Tunnel /\ jobs[j].pc = "start"
    BY <1>3, <1>6, <1>11 DEF JobStart, At
  <2>2. f \notin CoreFds
    BY <2>1 DEF FdOwnership, DetachedUntilStart, At, CoreFds
  <2>3. vpn' = vpn
    BY <1>11, <2>1, <2>2 DEF JobStart, CloseAll
  <2>4. CASE core' = [fd |-> jobs[j].fd, cfg |-> jobs[j].cfg] /\ Goto(j, "tor")
    BY <1>1, <1>4, <1>5, <2>1, <2>3, <2>4, WorkGoesOn DEF Pc
  <2>5. CASE Goto(j, "die")
    BY <1>1, <1>4, <1>5, <2>1, <2>5, WorkGoesOn DEF Pc
  <2> QED BY <1>11, <2>4, <2>5 DEF JobStart
<1>12. CASE JobTor(j) \/ JobTorWait(j)
  <2>1. /\ UNCHANGED <<intents, broadcasts, main, killPending, sticky, alive, current, vpn, svc, core>>
        /\ Tunnel /\ core.fd = f /\ core.cfg = jobs[j].cfg
    BY <1>3, <1>6, <1>12 DEF JobTor, JobTorWait, At, osVars
  <2>2. PICK p \in {"torWait", "announce", "die"} : Goto(j, p)
    BY <1>12 DEF JobTor, JobTorWait
  <2> QED BY <1>1, <1>4, <1>5, <2>1, <2>2, WorkGoesOn DEF Pc
<1>13. CASE JobAnnounce(j)
  <2>1. /\ UNCHANGED <<intents, main, killPending, sticky, alive, current, vpn, core>>
        /\ Tunnel /\ core.fd = f /\ core.cfg = jobs[j].cfg
        /\ broadcasts' = Append(broadcasts, "connected")
    BY <1>3, <1>6, <1>13 DEF JobAnnounce, At, osVars, Broadcast
  <2>2. svc'[i].tun = svc[i].tun
    BY <1>2, <1>13 DEF JobAnnounce, TypeOK, Service
  <2>3. Upward(broadcasts') /\ Brings(broadcasts')
    BY <1>2, <2>1, SendMessage DEF TypeOK, ChannelsOK
  <2>4. core.cfg # NoConfig /\ activeId \in {core.cfg, NoConfig}
    BY <1>1, <2>1 DEF Working
  <2>5. On'
    BY <1>2, <2>1, <2>2, <2>3, <2>4, SvcFrameKeeps DEF On
  <2>6. Steady'
    BY <1>2, <1>7, <1>13, <2>1 DEF JobAnnounce
  <2>7. Resting'
    BY <1>2, <2>1, <2>5, <2>6, SvcFrameKeeps, EmptyQueue DEF Resting
  <2> QED BY <2>7 DEF Phase
<1>14. CASE JobDie(j)
  <2>0. UNCHANGED <<alive, current, main>> /\ svc[i].tearing = FALSE /\ svc[i] \in Service
    BY <1>2, <1>14 DEF JobDie, TearingDownIsDoomed, TypeOK, Service
  <2>1. CASE CloseTunnel(i, svc[i]) /\ Goto(j, "block") /\ UNCHANGED <<intents, sticky>>
    <3>1. core'.cfg = NoConfig /\ UNCHANGED <<killPending, broadcasts>>
      BY <2>1 DEF CloseTunnel, NoCore
    <3>2. svc'[i].tun = NoFd
      BY <1>2, <2>0, <2>1 DEF CloseTunnel, TypeOK, Service
    <3>3. Bare'
      BY <2>0, <3>2 DEF Bare
    <3> QED BY <1>1, <1>4, <1>5, <2>0, <2>1, <3>1, <3>3, WorkGoesOn DEF Pc
  <2>2. CASE /\ TearDown(i, svc[i], {}, "error")
             /\ jobs' = [jobs EXCEPT ![j] = IdleJob]
             /\ intents' = StopSelf(i, intents)
             /\ sticky' = (sticky /\ i # current)
    <3>1. core'.cfg = NoConfig /\ killPending' /\ broadcasts' = Append(broadcasts, "error") /\ ~sticky'
      BY <2>2 DEF TearDown, NoCore, Broadcast
    <3>2. <<>> \in Seq(Intent) /\ Warms(<<>>)
      BY EmptyQueue
    <3>3. intents' = Append(<<>>, Destroy) /\ Behind(intents', Destroy)
      BY <1>2, <2>0, <2>2, <3>2, StopSelfPhase
    <3>4. NoWarm(intents')
      BY <3>3, DestroyOnly, Zenon
    <3>5. Tells(ui', broadcasts', Down)
      BY <3>1, SendMessage DEF TypeOK, ChannelsOK, Down
    <3>6. JobsIdle' /\ LaunchOff'
      BY <1>2, <1>7, <2>0, <2>2, SvcFrameKeeps
    <3>7. Killing'
      BY <1>2, <2>0, <3>1, <3>3, <3>4, <3>5, <3>6 DEF Killing
    <3> QED BY <3>7 DEF Phase
  <2> QED BY <1>2, <1>14, <2>0, <2>1, <2>2 DEF JobDie, DieIgnored
<1>15. CASE JobBlock(j)
  <2>1. /\ UNCHANGED <<intents, alive, current, main, sticky>> /\ BlockTraffic(i)
        /\ jobs' = [jobs EXCEPT ![j] = IdleJob] /\ jobs[j].pc = "block"
    BY <1>2, <1>15 DEF JobBlock, At
  <2>2. /\ broadcasts' = Append(broadcasts, "error") /\ UNCHANGED <<core, killPending>>
        /\ svc'[i].tun = svc[i].tun
    BY <1>2, <2>1 DEF BlockTraffic, Broadcast, TypeOK, Service
  <2>3. Tells(ui', broadcasts', Down)
    BY <2>2, SendMessage DEF TypeOK, ChannelsOK, Down
  <2>4. core.cfg = NoConfig /\ Bare'
    BY <1>1, <2>1, <2>2 DEF Working, Bare
  <2>5. Steady' /\ LaunchOff'
    BY <1>2, <1>7, <2>1, <2>2, SvcFrameKeeps
  <2>6. Resting'
    BY <1>2, <2>1, <2>2, <2>3, <2>4, <2>5, EmptyQueue DEF Resting, Off
  <2> QED BY <2>6 DEF Phase
<1> QED BY <1>8, <1>9, <1>10, <1>11, <1>12, <1>13, <1>14, <1>15 DEF JobStep

\* The process dies, killed by die() or by a crash when nothing else was on its
\* way: Android restarts it when it was sticky.
LEMMA DeathPhase ==
    ASSUME TypeOK, FreshStart, Phase, SvcFrame, ProcessDeath,
           killPending \/ (UiSettled /\ intents = <<>>)
    PROVE  Phase'
<1>0. /\ ~alive' /\ current' = NoInst /\ main' = "idle" /\ core'.cfg = NoConfig /\ ~killPending'
      /\ intents' = Undelivered(intents) /\ UNCHANGED <<broadcasts, sticky>>
      /\ intents \in Seq(Intent)
  BY DEF ProcessDeath, NoCore, TypeOK, ChannelsOK
<1>1. JobsIdle' /\ Bare' /\ (~sticky => Steady')
  BY <1>0 DEF ProcessDeath, JobsIdle, IdleJob, Bare, Steady
<1>2. revoked => revoked'
  BY <1>0 DEF FreshStart, SvcFrame
<1>3. CASE Killing
  <2>1. Warms(intents') /\ Steady'
    BY <1>0, <1>1, <1>3, QueueHolds, EmptyQueue DEF Killing
  <2>2. CASE LaunchOff /\ Tells(ui, broadcasts, Down)
    <3>1. Off' /\ LaunchOff'
      BY <1>0, <1>1, <2>2, SvcFrameKeeps DEF Off
    <3>2. Resting'
      BY <2>1, <3>1 DEF Resting
    <3> QED BY <3>2 DEF Phase
  <2>3. CASE \E k \in Switcher : Waiting(k)
    <3>1. \E k \in Switcher : Waiting(k)'
      BY <1>0, <2>3, SvcFrameKeeps DEF Waiting
    <3>2. Launching'
      BY <1>0, <1>1, <2>1, <3>1 DEF Launching, Free, Quiescent
    <3> QED BY <3>2 DEF Phase
  <2> QED BY <1>3, <2>2, <2>3 DEF Killing
<1>w. CASE Wreck
  <2>1. Warms(intents')
    BY <1>0, <1>w, QueueHolds, TakeDestroy DEF Wreck
  <2>2. Wreck'
    BY <1>0, <1>1, <1>2, <1>w, <2>1, SvcFrameKeeps DEF Wreck, JobsIdle
  <2> QED BY <2>2 DEF Phase
<1>4. CASE ~Killing /\ ~Wreck
  <2>1. ~killPending /\ UiSettled /\ intents = <<>>
    BY <1>4 DEF Phase, Resting, Launching, Starting, Working, Stopping, Restarting, Steady
  <2>2. LaunchOff' /\ warming' = {} /\ intents' = <<>>
    BY <1>0, <2>1, SvcFrameKeeps, EmptyQueue DEF UiSettled, LaunchOff, SwitchIdle
  <2>3. ~Launching /\ ~Starting /\ ~Stopping
    BY <2>1 DEF UiSettled, Launching, Picking, Fetching, Asking, Waiting, OneSwitch, Starting,
                Behind, Last, Stopping
  <2>4. ASSUME sticky, Tells(ui, broadcasts, Down) \/ Unwarmed PROVE Phase'
    <3>1. Tells(ui', broadcasts', Down) \/ Unwarmed'
      BY <1>0, <2>2, <2>4, SvcFrameKeeps, EmptyQueue DEF Unwarmed
    <3>2. Restarting'
      BY <1>0, <1>1, <2>2, <2>4, <3>1, EmptyQueue DEF Restarting
    <3> QED BY <3>2 DEF Phase
  <2>5. ASSUME ~sticky, Tells(ui, broadcasts, Down) PROVE Phase'
    <3>1. Off'
      BY <1>0, <1>1, <2>5, SvcFrameKeeps DEF Off
    <3>2. Resting'
      BY <1>1, <2>2, <2>5, <3>1, EmptyQueue DEF Resting
    <3> QED BY <3>2 DEF Phase
  <2>6. CASE Resting
    <3>1. CASE Off
      BY <2>4, <2>5, <3>1 DEF Off
    <3>2. CASE On
      <4>1. NoGoodbye(broadcasts)
        BY <3>2 DEF On, Upward, NoGoodbye
      <4>2. Unwarmed
        BY <2>1, <3>2, <4>1, EmptyQueue DEF On, Unwarmed, UiSettled
      <4> QED BY <2>4, <3>2, <4>2 DEF On
    <3> QED BY <2>6, <3>1, <3>2 DEF Resting
  <2>7. CASE \E j \in Job : Working(j)
    <3>1. sticky /\ ui = "CONNECTING" /\ Silent(broadcasts)
      BY <2>7 DEF Working
    <3>2. NoGoodbye(broadcasts)
      BY <3>1 DEF Silent, NoGoodbye
    <3>3. Unwarmed
      BY <2>1, <3>1, <3>2, EmptyQueue DEF Unwarmed, UiSettled
    <3> QED BY <2>4, <3>1, <3>3
  <2>8. CASE Restarting
    BY <2>4, <2>8 DEF Restarting
  <2> QED BY <1>4, <2>3, <2>6, <2>7, <2>8 DEF Phase
<1> QED BY <1>3, <1>w, <1>4

\* Android's restart of the sticky service.
LEMMA RestartPhase ==
    ASSUME FreshStart, Phase, SvcFrame, RestartSticky
    PROVE  Phase'
<1>0. /\ ~alive /\ sticky /\ intents = <<>> /\ intents' = <<Start(NoConfig)>>
      /\ UNCHANGED <<broadcasts, current, svc, jobs, main, core, killPending, sticky>>
  BY DEF RestartSticky, svcVars
<1>1. Restarting
  BY <1>0 DEF FreshStart, Phase, Resting, Launching, Starting, Working, Stopping, Killing, Wreck, Steady
<1>2. main = "idle" /\ current = NoInst
  BY <1>0, <1>1 DEF Restarting, Before
<1>3. Before(intents', Start(NoConfig)) /\ NoWarm(intents')
  <2>1. intents' = Append(<<>>, Start(NoConfig))
    BY <1>0
  <2>2. Start(NoConfig) # Warm
    BY Acts
  <2> QED BY <1>0, <2>1, <2>2, EmptyQueue DEF NoWarm
<1>4. Tells(ui', broadcasts', Down) \/ Unwarmed'
  BY <1>0, <1>1, <1>3, SvcFrameKeeps DEF Restarting, Unwarmed
<1>5. LaunchOff' /\ JobsIdle' /\ Bare'
  BY <1>0, <1>1, SvcFrameKeeps DEF Restarting, JobsIdle, Bare
<1>6. Restarting'
  BY <1>0, <1>1, <1>2, <1>3, <1>4, <1>5 DEF Restarting
<1> QED BY <1>6 DEF Phase

\* The loop of startPolling sends counters only.
LEMMA PollPhase ==
    ASSUME TypeOK, Phase, SvcFrame, FreshStart, NEW i \in Inst, PollCheck(i) \/ PollSend(i)
    PROVE  Phase'
<1>1. UNCHANGED <<intents, alive, current, jobs, main, core, vpn, killPending, sticky>>
  BY DEF PollCheck, PollSend, osVars
<1>2. UNCHANGED revoked
  BY <1>1 DEF SvcFrame, FreshStart
<1>3. UNCHANGED phaseVars /\ WarmupKept
  BY <1>1, <1>2, SvcFrameKeeps DEF phaseVars, WarmupKept
<1>4. \A k \in Inst : svc'[k].tun = svc[k].tun
  BY DEF PollCheck, PollSend, TypeOK, Service
<1>5. broadcasts' \in {broadcasts, Append(broadcasts, "counters")}
  BY DEF PollCheck, PollSend, Broadcast
<1> QED BY <1>3, <1>4, <1>5, QuietStep DEF TypeOK

\* A step of the service.
LEMMA ServicePhase ==
    ASSUME TypeOK, FdOwnership, TearingDownIsDoomed, JobsLaunched, revoked \in BOOLEAN, FreshStart,
           Phase, Anytime \subseteq {"revoke"}, ServiceStep
    PROVE  Phase' /\ FreshStart'
<1>1. SvcFrame
  BY DEF ServiceStep, SvcFrame
<1>2. FreshStart'
  BY <1>1 DEF SvcFrame, FreshStart
<1>3. CASE MainThread
  <2>1. ASSUME NEW i \in Inst, OnStart(i) PROVE Phase'
    <3>1. /\ main = "idle" /\ intents # <<>>
          /\ Head(intents).act = "START" /\ Head(intents).cfg # NoConfig
      BY <2>1 DEF OnStart, Receives
    <3>2. Starting \/ Wreck
      BY <3>1, HeadPhase, Acts
    <3> QED BY <1>1, <2>1, <3>2, StartPhase, WreckStartPhase
  <2> QED BY <1>1, <1>2, <1>3, <2>1, MainBlockPhase, StopIntentPhase, WarmPhase, NullStartPhase,
             DestroyPhase DEF MainThread
<1>4. CASE KillProcess
  BY <1>1, <1>2, <1>4, DeathPhase DEF KillProcess
<1>5. CASE RestartSticky
  BY <1>1, <1>2, <1>5, RestartPhase
<1>6. CASE UiSettled /\ intents = <<>> /\ Crash
  BY <1>1, <1>2, <1>6, DeathPhase DEF Crash
<1>7. CASE \E j \in Job : JobStep(j)
  BY <1>1, <1>2, <1>7, JobPhase, WreckJobPhase
<1>8. CASE \E i \in Inst : PollCheck(i) \/ PollSend(i)
  BY <1>1, <1>2, <1>8, PollPhase
<1> QED BY <1>2, <1>3, <1>4, <1>5, <1>6, <1>7, <1>8 DEF ServiceStep

\* Another VPN app takes over: the onDestroy that follows ends what the service
\* was doing, unless a STOP, a kill or a new START has the last word anyway.
LEMMA RevokePhase ==
    ASSUME TypeOK, Phase, Revoke
    PROVE  Phase' /\ FreshStart'
<1>0. /\ UNCHANGED <<alive, current, svc, jobs, main, core, killPending, broadcasts, ui, activeId,
                     dialog, fetching, pickJob, switchers, afterPermission>>
      /\ ~sticky' /\ revoked' /\ current # NoInst /\ intents \in Seq(Intent)
      /\ intents' = IF HasDestroy(intents) THEN intents ELSE Append(intents, Destroy)
  BY DEF Revoke, OnRevoke, dialogVars, StopSelf, TypeOK, ChannelsOK
<1>1. /\ (LaunchOff => LaunchOff') /\ (Steady => Steady') /\ (Bare => Bare') /\ (Bare => Free')
      /\ (SwitchIdle => SwitchIdle') /\ (JobsIdle => JobsIdle') /\ (Up => Up')
      /\ \A k \in Switcher : Waiting(k) => Waiting(k)'
  BY <1>0 DEF LaunchOff, SwitchIdle, Steady, JobsIdle, Bare, Free, Up, Waiting, OneSwitch
<1>2. Warms(intents) => /\ OnlyClosing(intents') /\ Closing(intents') /\ Behind(intents', Destroy)
                        /\ NoWarm(intents) => NoWarm(intents')
  <2> SUFFICES ASSUME Warms(intents) PROVE OnlyClosing(intents') /\ Closing(intents')
                        /\ Behind(intents', Destroy) /\ (NoWarm(intents) => NoWarm(intents'))
    OBVIOUS
  <2>1. Destroy \in Intent
    BY DEF Destroy, Intent
  <2>2. intents' = Append(intents, Destroy) /\ intents' \in Seq(Intent)
    BY <1>0, <2>1, QueueHolds
  <2> QED BY <1>0, <2>1, <2>2, SendDestroy, SendIntent
<1>3. HasDestroy(intents) => UNCHANGED intents
  BY <1>0
<1>4. /\ Closing(intents) \/ OnlyClosing(intents) => HasDestroy(intents)
      /\ \A c \in Configs : Last(intents, Start(c)) => HasDestroy(intents)
  BY <1>0, SendDestroy
<1>5. ASSUME LaunchOff, Closing(intents') PROVE Phase'
  <2>1. Wreck'
    BY <1>0, <1>1, <1>5 DEF Wreck
  <2> QED BY <2>1 DEF Phase
<1> SUFFICES Phase'
  BY <1>0 DEF FreshStart
<1>6. CASE Resting \/ Restarting \/ Wreck
  <2>1. LaunchOff /\ (Warms(intents) \/ Closing(intents))
    BY <1>0, <1>6 DEF Resting, Restarting, Wreck
  <2> QED BY <1>2, <1>3, <1>4, <1>5, <2>1
<1>7. CASE \E j \in Job : Working(j)
  <2>1. LaunchOff /\ Warms(intents)
    BY <1>7, EmptyQueue DEF Working
  <2> QED BY <1>2, <1>5, <2>1
<1>8. CASE Launching
  <2>1. Steady' /\ Free' /\ Quiescent'
    BY <1>0, <1>1, <1>2, <1>3, <1>4, <1>8 DEF Launching, Quiescent, Free
  <2>2. (Picking => Picking') /\ (Fetching => Fetching') /\ (Asking => Asking')
    BY <1>0, <1>1 DEF Picking, Fetching, Asking
  <2>3. Launching'
    BY <1>1, <1>8, <2>1, <2>2 DEF Launching
  <2> QED BY <2>3 DEF Phase
<1>9. CASE Starting
  <2>1. CASE HasDestroy(intents)
    <3>1. Starting'
      BY <1>0, <1>1, <1>3, <1>9, <2>1 DEF Starting, Free
    <3> QED BY <3>1 DEF Phase
  <2>2. CASE ~HasDestroy(intents)
    <3>1. LaunchOff /\ \E c \in Configs : Behind(intents, Start(c))
      BY <1>4, <1>9, <2>2 DEF Starting
    <3>2. Closing(intents')
      BY <1>0, <2>2, <3>1, SendDestroy
    <3> QED BY <1>5, <3>1, <3>2
  <2> QED BY <2>1, <2>2
<1>10. CASE Stopping
  <2>1. intents' \in {<<Stop>>, <<Stop, Destroy>>}
    <3>1. CASE intents = <<Stop>>
      <4>1. Append(<<Stop>>, Destroy) = <<Stop, Destroy>>
        BY PairQueue
      <4> QED BY <1>0, <3>1, <4>1, Zenon
    <3>2. CASE intents = <<Stop, Destroy>>
      <4>1. 2 \in 1..Len(intents) /\ intents[2].act = "DESTROY"
        BY <3>2, Acts
      <4>2. HasDestroy(intents)
        BY <4>1 DEF HasDestroy
      <4> QED BY <1>3, <3>2, <4>2
    <3> QED BY <1>10, <3>1, <3>2 DEF Stopping
  <2>2. Stopping'
    BY <1>0, <1>1, <1>10, <2>1 DEF Stopping, OneSwitch
  <2> QED BY <2>2 DEF Phase
<1>11. CASE Killing
  <2>1. /\ Behind(intents', Destroy)
        /\ NoWarm(intents) => NoWarm(intents')
    <3>1. CASE Behind(intents, Destroy)
      <4>1. Len(intents) \in 1..Len(intents) /\ intents[Len(intents)].act = "DESTROY"
        BY <1>0, <3>1, Acts DEF Behind
      <4>2. HasDestroy(intents)
        BY <4>1 DEF HasDestroy
      <4> QED BY <1>3, <3>1, <4>2
    <3> QED BY <1>2, <1>11, <3>1 DEF Killing
  <2>2. Killing'
    BY <1>0, <1>1, <1>11, <2>1 DEF Killing
  <2> QED BY <2>2 DEF Phase
<1> QED BY <1>6, <1>7, <1>8, <1>9, <1>10, <1>11 DEF Phase

-----------------------------------------------------------------------------
(* The app tells the truth *)

\* The app starts at rest, without a tunnel.
LEMMA PhaseStarts ==
    ASSUME AppInit
    PROVE  Phase /\ FreshStart
<1>1. Init /\ UiInit /\ revoked = FALSE
  BY DEF AppInit
<1>2. LaunchOff /\ Steady
  BY <1>1 DEF Init, UiInit, LaunchOff, SwitchIdle, IdleSwitch, Steady, JobsIdle, IdleJob
<1>3. Off
  BY <1>1, EmptyQueue DEF Init, UiInit, Off, Bare, NoCore, Down
<1>4. Resting
  BY <1>1, <1>2, <1>3, EmptyQueue DEF Init, Resting
<1> QED BY <1>1, <1>4 DEF Phase, FreshStart

\* Every step leads from one phase to another when the disturbances but for
\* another VPN app wait for the app to settle.
LEMMA PhaseStep ==
    ASSUME TypeOK, FdOwnership, TearingDownIsDoomed, JobsLaunched, AppInv, FreshStart, Phase,
           Anytime \subseteq {"revoke"}, [AppNext]_appVars
    PROVE  Phase' /\ FreshStart'
<1>0. UiInv /\ revoked \in BOOLEAN
  BY DEF AppInv
<1>1. UNCHANGED <<svcVars, revoked>> => FreshStart'
  BY DEF FreshStart, svcVars
<1>2. CASE (User \/ Answer \/ Coroutine) /\ UNCHANGED broadcasts /\ UNCHANGED <<svcVars, revoked>>
  <2>1. UiFrame
    BY <1>2 DEF UiFrame
  <2> QED BY <1>0, <1>1, <1>2, <2>1, UserPhase, AnswerPhase, CoroutinePhase
<1>3. CASE OnReceive /\ UNCHANGED <<svcVars, revoked>>
  BY <1>1, <1>3, ReceivePhase
<1>4. CASE Calm("restart") /\ UiRestart /\ UNCHANGED <<svcVars, revoked>>
  BY <1>1, <1>4, UiRestartPhase DEF Calm
<1>5. CASE (SetKillSwitch /\ UNCHANGED <<uiVars, revoked>>) \/ UNCHANGED appVars
  <2>1. UNCHANGED <<intents, broadcasts, uiVars, revoked, alive, current, svc, jobs, main, core, vpn,
                    killPending, sticky>>
    BY <1>5 DEF SetKillSwitch, appVars, svcVars
  <2>2. UNCHANGED phaseVars /\ WarmupKept
    BY <2>1 DEF uiVars, dialogVars, phaseVars, WarmupKept
  <2>3. FreshStart'
    BY <2>1 DEF FreshStart
  <2> QED BY <2>1, <2>2, <2>3, QuietStep
<1>6. CASE Revoke
  BY <1>6, RevokePhase
<1>7. CASE ServiceStep
  BY <1>0, <1>7, ServicePhase
<1> QED BY <1>2, <1>3, <1>4, <1>5, <1>6, <1>7 DEF AppNext, UiNext

\* The app settles on the truth: it shows CONNECTED exactly when the engine runs
\* on the interface that carries the traffic, with the config it names, and never
\* stays at CONNECTING.  That holds for any number of configs, coroutines,
\* switches and messages, as long as taps, probe results and restarts of the UI
\* wait for the app to settle, and a crash for the UI and its intents, though not
\* for the start under way.  Another VPN app may take over at any moment.
THEOREM UiIsTruthful == Anytime \subseteq {"revoke"} => (AppSpec => []UiTellsTruth)
<1> SUFFICES ASSUME Anytime \subseteq {"revoke"} PROVE AppSpec => []UiTellsTruth
  OBVIOUS
<1>1. AppInit => AppInv /\ Phase /\ FreshStart
  BY AppStarts, PhaseStarts DEF AppInv
<1>2. AppInv /\ [AppNext]_appVars => AppInv'
  BY AppStep DEF AppInv
<1>3. /\ TypeOK /\ FdOwnership /\ TearingDownIsDoomed /\ JobsLaunched
      /\ AppInv /\ FreshStart /\ Phase /\ [AppNext]_appVars
      => Phase' /\ FreshStart'
  BY PhaseStep
<1>4. Phase => UiTellsTruth
  BY SettledRests DEF UiTellsTruth, On, Down
<1>5. Init => BlocksApart /\ JobsLaunched
  BY DEF Init, BlocksApart, JobsLaunched, Fresh, IdleJob
<1>6. TypeOK /\ BlocksApart /\ JobsLaunched /\ [Next]_vars => BlocksApart' /\ JobsLaunched'
  BY ApartStep
<1>7. Spec => []JobsLaunched
  BY <1>5, <1>6, TypeCorrect, PTL DEF Spec
<1> QED BY <1>1, <1>2, <1>3, <1>4, <1>7, AppRunsService, TypeCorrect, OwnershipCorrect, DoomedCorrect, PTL
        DEF AppSpec
=============================================================================
