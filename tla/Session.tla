---------------------------- MODULE Session ----------------------------
(***************************************************************************)
(* The UI process: MainActivity, VpnState, the receiver of VpnBridge and   *)
(* the Quick Settings tile.  Everything here runs on the main thread, so a *)
(* handler is one step; what runs between two suspension points of a       *)
(* coroutine (a certificate fetch, a probe, a delay, a dialog) is one step *)
(* too, and any other handler may come in between.                         *)
(*                                                                         *)
(* A config is one of the Xray, Tor or Aether configs; IKEv2 configs take  *)
(* another path (IkeController) and are not among them.                    *)
(***************************************************************************)
EXTENDS Channels

CONSTANTS PinConfigs,   \* configs with allowInsecure, TLS and no pin yet
          Switcher      \* bound: coroutines of switchTo in flight

ASSUME SessionAssumption == PinConfigs \subseteq Configs

VARIABLES
  ui,               \* VpnState.state
  activeId,         \* VpnState.activeId
  picking,          \* VpnState.picking
  pickJob,          \* the config connectTo was called with, while it probes
  unpinned,         \* configs launchConnect still fetches a pin for
  fetching,         \* configs whose pin fetch is in flight
  dialog,           \* the permission dialog on screen
  pendingConnect,   \* what the notification dialog continues with
  afterPermission,  \* what the VPN dialog continues with
  granted,          \* permissions the user has given
  selected,         \* ConfigStore.selectedId
  autoSelect,       \* ConfigStore.autoSelect, "Smart connect"
  autoSwitch,       \* the active config startAutoSwitch is probing against
  switchers,        \* the coroutines of switchTo
  seen,             \* the state the warm-up collector has seen last
  warming           \* WARM requests about to be made

dialogVars == <<dialog, pendingConnect, afterPermission>>
launchVars == <<ui, activeId, intents, dialogVars, fetching>>
settings   == <<selected, autoSelect, granted, unpinned>>
uiVars     == <<ui, activeId, picking, pickJob, fetching, dialogVars, settings,
                autoSwitch, switchers, seen, warming>>

Connection == {"DISCONNECTED", "CONNECTING", "CONNECTED", "ERROR"}
IdleSwitch == [pc |-> "idle", cfg |-> NoConfig]

\* A fresh process: onCreate warms the service, and so does, half a second
\* later, the collector that sees the initial state.
UiInit == /\ ui = "DISCONNECTED" /\ activeId = NoConfig
          /\ picking = FALSE /\ pickJob = NoConfig /\ fetching = {}
          /\ dialog = "none" /\ pendingConnect = NoConfig /\ afterPermission = NoConfig
          /\ autoSwitch = NoConfig
          /\ switchers = [k \in Switcher |-> IdleSwitch]
          /\ seen = "DISCONNECTED" /\ warming = {"create", "collect"}
          /\ selected \in Configs /\ autoSelect \in BOOLEAN
          /\ granted = {} /\ unpinned = PinConfigs

Up == ui \in {"CONNECTED", "CONNECTING"}

SetConnecting(c) == ui' = "CONNECTING" /\ activeId' = c
SetDisconnected  == ui' = "DISCONNECTED" /\ activeId' = NoConfig /\ picking' = FALSE

-----------------------------------------------------------------------------
(* launchConnect -> proceedLaunch -> proceedConnect -> startTunnel. *)

ProceedConnect(c) ==
    \/ /\ ui = "CONNECTED"
       /\ dialog' = "none"
       /\ UNCHANGED <<ui, activeId, intents, afterPermission>>
    \/ /\ ui # "CONNECTED" /\ "vpn" \in granted
       /\ SetConnecting(c)
       /\ StartService(Start(c))
       /\ dialog' = "none"
       /\ UNCHANGED afterPermission
    \/ /\ ui # "CONNECTED" /\ "vpn" \notin granted
       /\ SetConnecting(c)
       /\ dialog' = "vpn" /\ afterPermission' = c
       /\ UNCHANGED intents

ProceedLaunch(c) ==
    \/ /\ "notify" \notin granted
       /\ dialog' = "notify" /\ pendingConnect' = c
       /\ UNCHANGED <<ui, activeId, intents, afterPermission>>
    \/ /\ "notify" \in granted
       /\ ProceedConnect(c)
       /\ UNCHANGED pendingConnect

\* Mutant of LaunchConnect: every config goes through the pin fetch.
LaunchAlwaysPins(c) ==
    /\ dialog = "none"
    /\ SetConnecting(c)
    /\ fetching' = fetching \cup {c}
    /\ UNCHANGED <<intents, dialogVars>>

\* Bound: one dialog at a time; a coroutine that wants another one waits.
LaunchConnect(c) ==
    /\ dialog = "none"
    /\ \/ /\ c \in unpinned
          /\ SetConnecting(c)
          /\ fetching' = fetching \cup {c}
          /\ UNCHANGED <<intents, dialogVars>>
       \/ /\ c \notin unpinned
          /\ ProceedLaunch(c)
          /\ UNCHANGED fetching

\* CertPin.fetch returned; the config is stored with its pin if there is one.
FetchDone(c) ==
    /\ c \in fetching /\ dialog = "none"
    /\ fetching' = fetching \ {c}
    /\ unpinned' \in {unpinned, unpinned \ {c}}
    /\ ProceedLaunch(c)
    /\ UNCHANGED <<picking, pickJob, granted, selected, autoSelect, autoSwitch,
                   switchers, seen, warming>>

\* The callback of the notification dialog ignores the answer.
NotificationPermission(ok) ==
    /\ dialog = "notify"
    /\ granted' = IF ok THEN granted \cup {"notify"} ELSE granted
    /\ ProceedConnect(pendingConnect)
    /\ pendingConnect' = NoConfig
    /\ UNCHANGED <<picking, pickJob, fetching, unpinned, selected, autoSelect, autoSwitch,
                   switchers, seen, warming>>

VpnPermission(ok) ==
    /\ dialog = "vpn"
    /\ dialog' = "none"
    /\ \/ /\ ok
          /\ granted' = granted \cup {"vpn"}
          /\ StartService(Start(afterPermission))
          /\ UNCHANGED <<ui, activeId, picking>>
       \/ /\ ~ok
          /\ SetDisconnected
          /\ UNCHANGED <<granted, intents>>
    /\ UNCHANGED <<pickJob, fetching, unpinned, pendingConnect, afterPermission, selected,
                   autoSelect, autoSwitch, switchers, seen, warming>>

-----------------------------------------------------------------------------
(* The user's taps. *)

\* The connect button calls connectTo unless a tunnel is up or picking.  With
\* Smart connect the fastest server is looked for first; a search that is still
\* running is cancelled, and its handler resets picking after the new search
\* has set it.
ConnectTo ==
    /\ dialog = "none" /\ ~picking /\ ~Up
    /\ \/ /\ ~autoSelect
          /\ LaunchConnect(selected)
          /\ UNCHANGED <<picking, pickJob>>
       \/ /\ autoSelect
          /\ picking' = (pickJob = NoConfig) /\ pickJob' = selected
          /\ UNCHANGED launchVars
    /\ UNCHANGED <<settings, autoSwitch, switchers, seen, warming>>

\* pickFastest() returns a server, or none (then it is the selected one).
PickDone(best) ==
    /\ pickJob # NoConfig
    /\ selected' = IF best # pickJob THEN best ELSE selected
    /\ picking' = FALSE /\ pickJob' = NoConfig
    /\ LaunchConnect(best)
    /\ UNCHANGED <<autoSelect, granted, unpinned, autoSwitch, switchers, seen, warming>>

CancelPick ==
    /\ picking
    /\ picking' = FALSE /\ pickJob' = NoConfig
    /\ UNCHANGED <<launchVars, settings, autoSwitch, switchers, seen, warming>>

Disconnect ==
    /\ dialog = "none" /\ ~picking /\ Up
    /\ StartService(Stop)
    /\ UNCHANGED uiVars

\* switchTo: without a tunnel it connects, otherwise a coroutine first takes
\* the tunnel down.
SwitchTo(c) ==
    \/ ~Up /\ LaunchConnect(c) /\ UNCHANGED switchers
    \/ /\ Up
       /\ StartService(Stop)
       /\ \E k \in Switcher :
             /\ switchers[k].pc = "idle"
             /\ switchers' = [switchers EXCEPT ![k] = [pc |-> "wait", cfg |-> c]]
       /\ UNCHANGED <<ui, activeId, dialogVars, fetching>>

\* A config is chosen in the picker.
Select(c) ==
    /\ dialog = "none"
    /\ selected' = c
    /\ \/ Up /\ c # activeId /\ SwitchTo(c)
       \/ ~(Up /\ c # activeId) /\ UNCHANGED <<launchVars, switchers>>
    /\ UNCHANGED <<picking, pickJob, autoSelect, granted, unpinned, autoSwitch, seen, warming>>

\* The wait for DISCONNECTED or ERROR ends, or its 6 s are over.
SwitchWait(k, timeout) ==
    /\ switchers[k].pc = "wait"
    /\ ui \in {"DISCONNECTED", "ERROR"} \/ timeout
    /\ switchers' = [switchers EXCEPT ![k].pc = "delay"]
    /\ IF ui = "CONNECTED" THEN SetDisconnected ELSE UNCHANGED <<ui, activeId, picking>>
    /\ UNCHANGED <<intents, dialogVars, fetching, pickJob, settings, autoSwitch, seen, warming>>

\* The delay of 400 ms is over.
SwitchLaunch(k) ==
    /\ switchers[k].pc = "delay"
    /\ LaunchConnect(switchers[k].cfg)
    /\ switchers' = [switchers EXCEPT ![k] = IdleSwitch]
    /\ UNCHANGED <<picking, pickJob, settings, autoSwitch, seen, warming>>

SetAutoSelect ==
    /\ autoSelect' = ~autoSelect
    /\ UNCHANGED <<launchVars, picking, pickJob, selected, granted, unpinned, autoSwitch,
                   switchers, seen, warming>>

-----------------------------------------------------------------------------
(* startAutoSwitch: once a minute, look for a faster server. *)

AutoProbe ==
    LET active == IF activeId # NoConfig THEN activeId ELSE selected
    IN
    /\ autoSwitch = NoConfig
    /\ autoSelect /\ ui = "CONNECTED" /\ ~picking
    /\ active \notin AetherConfigs \cup TorConfigs
    /\ autoSwitch' = active
    /\ UNCHANGED <<launchVars, picking, pickJob, settings, switchers, seen, warming>>

\* The probe found nothing better.
AutoKeep ==
    /\ autoSwitch # NoConfig
    /\ autoSwitch' = NoConfig
    /\ UNCHANGED <<launchVars, picking, pickJob, settings, switchers, seen, warming>>

\* The probe found a server that is faster by the margin.
AutoSwitch(best) ==
    /\ autoSwitch # NoConfig /\ best # autoSwitch
    /\ autoSwitch' = NoConfig
    /\ selected' = best
    /\ SwitchTo(best)
    /\ UNCHANGED <<picking, pickJob, autoSelect, granted, unpinned, seen, warming>>

-----------------------------------------------------------------------------
(* Warming the service up, and its answers. *)

\* The collector of VpnState.state takes the next value once it is done with
\* the last one; values that came and went in between are lost.
WarmCollect ==
    /\ seen # ui /\ "collect" \notin warming
    /\ seen' = ui
    /\ warming' = IF ui = "DISCONNECTED" THEN warming \cup {"collect"} ELSE warming
    /\ UNCHANGED <<launchVars, picking, pickJob, settings, autoSwitch, switchers>>

\* warm(), at once in onCreate and 500 ms after a disconnect.
WarmUp(why) ==
    /\ why \in warming
    /\ warming' = warming \ {why}
    /\ IF Up \/ (why = "collect" /\ ui # "DISCONNECTED")
       THEN UNCHANGED intents ELSE StartService(Warm)
    /\ UNCHANGED <<ui, activeId, dialogVars, fetching, picking, pickJob, settings,
                   autoSwitch, switchers, seen>>

OnReceive ==
    /\ broadcasts # <<>>
    /\ broadcasts' = Tail(broadcasts)
    /\ CASE Head(broadcasts) = "connected" ->
              ui' = "CONNECTED" /\ UNCHANGED <<activeId, picking>>
         [] Head(broadcasts) = "error" ->
              ui' = "ERROR" /\ picking' = FALSE /\ UNCHANGED activeId
         [] Head(broadcasts) = "disconnected" -> SetDisconnected
         [] OTHER -> UNCHANGED <<ui, activeId, picking>>
    /\ UNCHANGED <<intents, dialogVars, fetching, pickJob, settings, autoSwitch,
                   switchers, seen, warming>>

\* The process dies and the user opens the app again: the settings are read
\* back, the rest is lost, broadcasts on their way included.
UiRestart ==
    /\ ui' = "DISCONNECTED" /\ activeId' = NoConfig
    /\ picking' = FALSE /\ pickJob' = NoConfig /\ fetching' = {}
    /\ dialog' = "none" /\ pendingConnect' = NoConfig /\ afterPermission' = NoConfig
    /\ autoSwitch' = NoConfig
    /\ switchers' = [k \in Switcher |-> IdleSwitch]
    /\ seen' = "DISCONNECTED" /\ warming' = {"create", "collect"}
    /\ broadcasts' = <<>>
    /\ UNCHANGED <<settings, intents>>

-----------------------------------------------------------------------------
(* QsTileService. *)

\* toggle(): the tile counts a running service as an active tunnel.  Without
\* the VPN permission it only opens the app; startForegroundService may be
\* refused.
TileToggle(serviceRunning) ==
    /\ \/ /\ Up \/ serviceRunning
          /\ StartService(Stop)
          /\ SetDisconnected
       \/ /\ ~Up /\ ~serviceRunning /\ "vpn" \in granted
          /\ SetConnecting(selected)
          /\ StartService(Start(selected))
          /\ UNCHANGED picking
       \/ /\ ~Up /\ ~serviceRunning /\ "vpn" \in granted
          /\ SetDisconnected
          /\ UNCHANGED intents
    /\ UNCHANGED <<dialogVars, fetching, pickJob, settings, autoSwitch, switchers, seen, warming>>

-----------------------------------------------------------------------------
\* Every variable of the UI process has its type.
UiTypeOK ==
    LET Config == Configs \cup {NoConfig}
    IN  /\ ui \in Connection /\ seen \in Connection
        /\ {activeId, pickJob, pendingConnect, afterPermission, autoSwitch} \subseteq Config
        /\ picking \in BOOLEAN /\ autoSelect \in BOOLEAN
        /\ selected \in Configs
        /\ fetching \subseteq PinConfigs /\ unpinned \subseteq PinConfigs
        /\ dialog \in {"none", "notify", "vpn"}
        /\ granted \subseteq {"notify", "vpn"}
        /\ switchers \in [Switcher -> [pc : {"idle", "wait", "delay"}, cfg : Config]]
        /\ warming \subseteq {"create", "collect"}
=============================================================================
