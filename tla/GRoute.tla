----------------------------- MODULE GRoute -----------------------------
(***************************************************************************)
(* The app: the UI process and the :vpn process, joined by the intents and *)
(* the broadcasts, with the user who taps.                                 *)
(*                                                                         *)
(* Timing.  The code relies on delays: killProcess comes 60 ms after die,  *)
(* switchTo waits 400 ms and the warm-up 500 ms after a disconnect, and    *)
(* the UI process takes longer than that to come up.                       *)
(* StopDone says that by then a STOP has been delivered and the kill that  *)
(* follows it is over; nothing else is assumed about time.                 *)
(***************************************************************************)
EXTENDS Session, TunnelService

CONSTANT Anytime   \* the disturbances that come at any time; the others wait
                   \* until the app has dealt with the last one

Disturbance == {"user", "smart", "crash", "restart", "revoke"}

ASSUME PaceAssumption == Anytime \subseteq Disturbance

VARIABLE revoked      \* another VPN app took over, and no START came since

appVars == <<intents, broadcasts, svcVars, uiVars, revoked>>

AppInit == /\ Init /\ UiInit /\ revoked = FALSE

\* Nothing is on its way: no coroutine and no dialog of the UI process, no
\* message, no coroutine, no timer and no restart of the service.
UiSettled == /\ dialog = "none" /\ fetching = {} /\ pickJob = NoConfig
             /\ \A k \in Switcher : switchers[k].pc = "idle"
             /\ warming = {}

Settled == /\ UiSettled /\ seen = ui
           /\ intents = <<>> /\ broadcasts = <<>>
           /\ main = "idle" /\ \A j \in Job : jobs[j].pc = "idle"
           /\ ~killPending /\ (sticky => alive)

Calm(d) == d \in Anytime \/ Settled

\* getRunningServices lists the service from its first intent to onDestroy.
ServiceRunning == current # NoInst

\* The notification's Disconnect button, on a service in the foreground.
NotificationStop == /\ current # NoInst
                    /\ \/ svc[current].tun # NoFd \/ svc[current].block # NoFd
                       \/ \E j \in Job : jobs[j].inst = current
                    /\ StartService(Stop)
                    /\ UNCHANGED uiVars

\* No STOP is on its way and no kill is pending.
StopDone == ~killPending /\ \A n \in 1..Len(intents) : intents[n].act # "STOP"

\* What the user does; nobody taps within the 60 ms.
User == /\ Calm("user") /\ StopDone
        /\ \/ ConnectTo \/ Disconnect \/ SetAutoSelect \/ NotificationStop
           \/ \E c \in Configs : Select(c)
           \/ TileToggle(ServiceRunning)

\* The dialogs and the search can be answered and cancelled at any time.
Answer == /\ StopDone
          /\ CancelPick \/ \E ok \in BOOLEAN : NotificationPermission(ok) \/ VpnPermission(ok)

\* The coroutines of the UI process.  The 6 s of switchTo end early only for
\* a service that has nothing left to answer.
Coroutine == \/ \E c \in Configs : FetchDone(c) \/ PickDone(c)
             \/ \E k \in Switcher : \/ SwitchWait(k, intents = <<>> /\ broadcasts = <<>>)
                                    \/ SwitchLaunch(k) /\ StopDone
             \/ AutoProbe \/ AutoKeep
             \/ Calm("smart") /\ \E c \in Configs : AutoSwitch(c)
             \/ WarmCollect
             \/ StopDone /\ (WarmUp("create") \/ WarmUp("collect"))

UiNext == \/ (User \/ Answer \/ Coroutine) /\ UNCHANGED broadcasts
          \/ OnReceive \/ (Calm("restart") /\ UiRestart)

\* Another VPN app takes over, and the permission with it.
Revoke == /\ Calm("revoke") /\ OnRevoke
          /\ revoked' = TRUE
          /\ granted' = granted \ {"vpn"}
          /\ UNCHANGED <<ui, activeId, picking, pickJob, fetching, dialogVars, selected,
                         autoSelect, unpinned, autoSwitch, switchers, seen, warming>>

\* Any other step of the service.  establish() returns an interface only to an
\* app with the permission; a crash may hit a start that is under way.
ServiceStep ==
    /\ \/ MainThread \/ KillProcess \/ RestartSticky
       \/ ("crash" \in Anytime \/ (UiSettled /\ intents = <<>>)) /\ Crash
       \/ \E j \in Job : JobStep(j)
       \/ \E i \in Inst : PollCheck(i) \/ PollSend(i)
    /\ vpn' \in {vpn, NoFd} \/ "vpn" \in granted
    /\ revoked' = (revoked /\ ~sticky')
    /\ UNCHANGED uiVars

AppNext == \/ UiNext /\ UNCHANGED <<svcVars, revoked>>
           \/ SetKillSwitch /\ UNCHANGED <<uiVars, revoked>>
           \/ Revoke \/ ServiceStep

AppSpec == AppInit /\ [][AppNext]_appVars

-----------------------------------------------------------------------------
(* Properties. *)

\* Every variable of both processes has its type.
AppTypeOK == TypeOK /\ UiTypeOK /\ revoked \in BOOLEAN

\* Once everything has settled the app tells the truth: it shows CONNECTED
\* exactly when the engine runs, on the interface that carries the traffic and
\* with the config the app names, and it never stays at CONNECTING.  This has
\* to survive crashes of either process, failing starts, denied permissions
\* and the kill switch.  It does not survive another VPN app: onRevoke is not
\* overridden, and nobody tells the UI before the next START.
UiTellsTruth ==
    Settled /\ ~revoked =>
      /\ ui # "CONNECTING"
      /\ (ui = "CONNECTED") <=> (core.cfg # NoConfig)
      /\ ui = "CONNECTED" => vpn = core.fd /\ activeId \in {core.cfg, NoConfig}
=============================================================================
