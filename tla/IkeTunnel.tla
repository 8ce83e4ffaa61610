----------------------------- MODULE IkeTunnel -----------------------------
(***************************************************************************)
(* The IKEv2 path of the app: MainActivity and IkeController, strongSwan's *)
(* VpnStateService and CharonVpnService, and the native daemon behind the  *)
(* libandroidbridge.  The main thread runs handlers one at a time; the     *)
(* handler thread of CharonVpnService starts and stops the daemon, whose   *)
(* threads report what happens to the tunnel.  States and errors reach the *)
(* main thread through the queue of its looper, which runs messages in the *)
(* order they were queued: a step of the main thread that is not a post's  *)
(* is taken when the posts before it have run, and posts queued after it   *)
(* was due might as well have been queued after it (MainIdle).             *)
(*                                                                         *)
(* One IKEv2 config; the Xray service only stops.  VpnStateService is      *)
(* bound, which onCreate asks for before the user can tap anything.        *)
(***************************************************************************)
EXTENDS Naturals, Sequences

CONSTANTS MaxPosts,    \* bound: posts in the looper's queue when an event occurs
          MaxIntents,  \* bound: service intents on their way when one is sent
          MaxRetryMsg  \* bound: RETRY_MSG messages in the looper's queue

ASSUME Bounds == {MaxPosts, MaxIntents, MaxRetryMsg} \subseteq Nat \ {0}

VARIABLES ui,       \* VpnState.state
          ike,      \* IkeController
          consent,  \* what VpnService.prepare() finds, or that its dialog is on screen
          xray,     \* the Xray service has been told to stop
          posts,    \* Runnables posted to the main looper by VpnStateService
          intents,  \* intents for CharonVpnService, in the order they were sent
          svc,      \* VpnStateService
          ch,       \* CharonVpnService
          daemon,   \* charon and the Android service on its bus
          dropper   \* the TUN device that blocks traffic between two profiles

vars == <<ui, ike, consent, xray, posts, intents, svc, ch, daemon, dropper>>
appVars == <<ui, ike, consent, xray>>

Connection == {"DISCONNECTED", "CONNECTING", "CONNECTED", "ERROR"}
State == {"DISABLED", "CONNECTING", "CONNECTED", "DISCONNECTING"}
Post == State \cup {"start", "error", "noError"}

\* claimed: claimedId is the config's; claim: a coroutine of claim() runs.
IkeController == [active : BOOLEAN, state : State, watchdog : BOOLEAN,
                  claimed : BOOLEAN, claim : BOOLEAN]

\* retry: mRetryTimeout is not zero; msgs: RETRY_MSG messages.
StateService == [state : State, error : BOOLEAN, retry : BOOLEAN, msgs : 0..MaxRetryMsg]

\* at: what the handler thread does; outside of "waiting" it holds the monitor.
CharonService == [at : {"waiting", "stopping", "deinit", "next"}, next : BOOLEAN,
                  updated : BOOLEAN, current : BOOLEAN, disconnecting : BOOLEAN]

\* down: a callback has found that it may report CHILD_SA_DOWN and will.
Daemon == [on : BOOLEAN, listening : BOOLEAN, child : BOOLEAN, tunfd : BOOLEAN,
           down : BOOLEAN]
Off == [on |-> FALSE, listening |-> FALSE, child |-> FALSE, tunfd |-> FALSE, down |-> FALSE]

Init ==
    /\ ui = "DISCONNECTED"
    /\ ike = [active |-> FALSE, state |-> "DISABLED", watchdog |-> FALSE,
              claimed |-> FALSE, claim |-> FALSE]
    /\ consent = "unknown" /\ xray = FALSE
    /\ posts = <<>> /\ intents = <<>>
    /\ svc = [state |-> "DISABLED", error |-> FALSE, retry |-> FALSE, msgs |-> 0]
    /\ ch = [at |-> "waiting", next |-> FALSE, updated |-> FALSE, current |-> FALSE,
             disconnecting |-> FALSE]
    /\ daemon = Off /\ dropper = FALSE
-----------------------------------------------------------------------------
(* MainActivity and IkeController *)

MainIdle == posts = <<>>

\* Timers of many seconds, the watchdog and the end of a retry countdown, are
\* slower than the delivery of intents and the handler thread.
Settled == MainIdle /\ intents = <<>> /\ ch.at = "waiting" /\ ~ch.updated

\* claim()
Claim == [ike EXCEPT !.active = TRUE, !.claimed = TRUE, !.claim = TRUE]

\* IkeController.connect(), with c its fields so far: the profile may not be
\* stored, the service may not be started; else the watchdog runs and the
\* service is on its way.
Connect(c) ==
    \/ /\ ui' = "DISCONNECTED"
       /\ \E armed \in {c.watchdog, TRUE} :
             ike' = [c EXCEPT !.active = FALSE, !.watchdog = armed]
       /\ UNCHANGED intents
    \/ /\ ui' = "CONNECTING"
       /\ ike' = [c EXCEPT !.active = TRUE, !.watchdog = TRUE]
       /\ intents' = Append(intents, "profile")

\* proceedConnect() with an IKEv2 config: claim(), then consent or connect().
TapConnect ==
    /\ MainIdle
    /\ ui # "CONNECTED"
    /\ Len(intents) < MaxIntents
    /\ xray' = (xray \/ ui # "DISCONNECTED")
    /\ \/ consent = "granted" /\ Connect(Claim) /\ UNCHANGED consent
       \/ /\ consent = "unknown"
          /\ ike' = Claim
          /\ ui' = "CONNECTING"
          /\ consent' = "dialog"
          /\ UNCHANGED intents
    /\ UNCHANGED <<posts, svc, ch, daemon, dropper>>

\* The result of the consent dialog.
VpnPermission ==
    /\ MainIdle
    /\ consent = "dialog"
    /\ \/ consent' = "granted" /\ Connect(ike)
       \/ consent' = "unknown" /\ ui' = "DISCONNECTED" /\ UNCHANGED <<ike, intents>>
    /\ UNCHANGED <<xray, posts, svc, ch, daemon, dropper>>

\* A tick of the coroutine of claim(), of which there are twelve.
ClaimTick ==
    /\ MainIdle
    /\ ike.claim
    /\ LET over == ~ike.active \/ ~ike.claimed \/ ike.state = "CONNECTED"
       IN /\ \E on \in {c \in BOOLEAN : over => ~c} : ike' = [ike EXCEPT !.claim = on]
          /\ ui' = IF ~over /\ ui = "DISCONNECTED" THEN "CONNECTING" ELSE ui
    /\ UNCHANGED <<consent, xray, posts, intents, svc, ch, daemon, dropper>>

\* IkeController.disconnect() and, in it, VpnStateService.disconnect(): the
\* service is told twice, and the retry timer is reset.
Disconnect ==
    /\ ike' = [ike EXCEPT !.active = FALSE, !.watchdog = FALSE, !.state = "DISABLED",
                          !.claimed = FALSE]
    /\ intents' = intents \o <<"disconnect", "disconnect">>
    /\ svc' = [svc EXCEPT !.retry = FALSE]
    /\ posts' = Append(posts, "noError")
    /\ UNCHANGED <<consent, ch, daemon, dropper>>

\* MainActivity.disconnect()
TapDisconnect ==
    /\ MainIdle
    /\ ui \in {"CONNECTED", "CONNECTING"} /\ consent # "dialog"
    /\ Len(intents) < MaxIntents
    /\ \/ /\ ike.active
          /\ Disconnect
          /\ ui' = "DISCONNECTED"
          /\ UNCHANGED xray
       \/ /\ ~ike.active
          /\ xray' = TRUE
          /\ UNCHANGED <<ui, ike, consent, posts, intents, svc, ch, daemon, dropper>>

\* Mutant of Watchdog: the state shown is left to strongSwan's callbacks.
WatchdogSilent ==
    /\ Settled
    /\ ike.watchdog
    /\ \/ /\ ike.active /\ ike.state # "CONNECTED"
          /\ Disconnect
          /\ UNCHANGED ui
       \/ /\ ~ike.active \/ ike.state = "CONNECTED"
          /\ ike' = [ike EXCEPT !.watchdog = FALSE]
          /\ UNCHANGED <<ui, consent, posts, intents, svc, ch, daemon, dropper>>
    /\ UNCHANGED xray

\* connect() timed out.
Watchdog ==
    /\ Settled
    /\ ike.watchdog
    /\ \/ /\ ike.active /\ ike.state # "CONNECTED"
          /\ Disconnect
          /\ ui' = "ERROR"
       \/ /\ ~ike.active \/ ike.state = "CONNECTED"
          /\ ike' = [ike EXCEPT !.watchdog = FALSE]
          /\ UNCHANGED <<ui, consent, posts, intents, svc, ch, daemon, dropper>>
    /\ UNCHANGED xray

\* The Xray service stops and says so; VpnBridge listens unless IKEv2 owns the
\* tunnel.
XrayDisconnected ==
    /\ MainIdle
    /\ xray
    /\ xray' = FALSE
    /\ ui' = IF ike.active THEN ui ELSE "DISCONNECTED"
    /\ UNCHANGED <<ike, consent, posts, intents, svc, ch, daemon, dropper>>
-----------------------------------------------------------------------------
(* VpnStateService, on the main thread *)

\* pushState(), which every change of the state service ends with.
PushState(s) ==
    CASE s.state = "CONNECTED" ->
           /\ ike' = [ike EXCEPT !.state = s.state, !.watchdog = FALSE]
           /\ ui' = "CONNECTED"
      [] s.state = "DISABLED" /\ ike.active ->
           /\ ike' = [ike EXCEPT !.state = s.state, !.watchdog = FALSE, !.active = FALSE]
           /\ ui' = IF s.error THEN "ERROR" ELSE "DISCONNECTED"
      [] OTHER ->
           /\ ike' = [ike EXCEPT !.state = s.state]
           /\ UNCHANGED ui

\* startConnection(), setState() and setError(), run from the looper.  The first
\* error starts the retry timer.
Change(s, post) ==
    CASE post = "start" -> [s EXCEPT !.state = "CONNECTING", !.error = FALSE, !.retry = FALSE]
      [] post \in State -> [s EXCEPT !.state = post]
      [] post = "error" ->
           IF s.error THEN s
           ELSE [s EXCEPT !.error = TRUE, !.retry = TRUE,
                          !.msgs = IF @ < MaxRetryMsg THEN @ + 1 ELSE @]
      [] post = "noError" -> IF s.error THEN [s EXCEPT !.error = FALSE, !.retry = FALSE] ELSE s

\* The listener is told of a change, also of one error to another.
RunPost ==
    /\ posts # <<>>
    /\ posts' = Tail(posts)
    /\ svc' = Change(svc, Head(posts))
    /\ \/ /\ svc' # svc \/ Head(posts) \in {"start", "error"}
          /\ PushState(svc')
       \/ /\ svc' = svc /\ Head(posts) # "start"
          /\ UNCHANGED <<ui, ike>>
    /\ UNCHANGED <<consent, xray, intents, ch, daemon, dropper>>

\* RetryHandler: the countdown goes on, or ends and the profile is started again.
RetryTick ==
    /\ MainIdle
    /\ svc.msgs > 0
    /\ \/ /\ ~svc.retry
          /\ svc' = [svc EXCEPT !.msgs = @ - 1]
          /\ UNCHANGED <<ui, ike, intents>>
       \/ /\ svc.retry
          /\ PushState(svc)
          /\ UNCHANGED <<svc, intents>>
       \/ /\ svc.retry /\ Settled
          /\ svc' = [svc EXCEPT !.msgs = @ - 1]
          /\ intents' = Append(intents, "retry")
          /\ UNCHANGED <<ui, ike>>
    /\ UNCHANGED <<consent, xray, posts, ch, daemon, dropper>>
-----------------------------------------------------------------------------
(* CharonVpnService *)

\* setNextProfile() waits for the monitor.
SetNextProfile(profile) ==
    /\ ch.at = "waiting"
    /\ ch' = [ch EXCEPT !.next = profile, !.updated = TRUE]

OnStartCommand ==
    /\ MainIdle
    /\ intents # <<>>
    /\ intents' = Tail(intents)
    /\ SetNextProfile(Head(intents) # "disconnect")
    /\ UNCHANGED <<appVars, posts, svc, daemon, dropper>>

OnRevoke ==
    /\ MainIdle
    /\ consent = "granted" /\ (daemon.tunfd \/ dropper)
    /\ consent' = "unknown"
    /\ SetNextProfile(FALSE)
    /\ UNCHANGED <<ui, ike, xray, posts, intents, svc, daemon, dropper>>

\* run() wakes up; stopCurrentConnection() blocks traffic if another profile is
\* next, and announces the end of the current one ...
Wake ==
    /\ ch.at = "waiting" /\ ch.updated
    /\ ch' = [ch EXCEPT !.updated = FALSE, !.at = IF ch.current THEN "stopping" ELSE "next"]
    /\ dropper' \in {dropper, dropper \/ ch.next}
    /\ posts' = IF ch.current THEN Append(posts, "DISCONNECTING") ELSE posts
    /\ UNCHANGED <<appVars, intents, svc, daemon>>

\* ... sets mIsDisconnecting ...
Mark ==
    /\ ch.at = "stopping"
    /\ ch' = [ch EXCEPT !.at = "deinit", !.disconnecting = TRUE]
    /\ UNCHANGED <<appVars, posts, intents, svc, daemon, dropper>>

\* Mutant of DeinitializeCharon: a callback in progress is not waited for.
DeinitializeCharonNow ==
    /\ ch.at = "deinit"
    /\ daemon' = [Off EXCEPT !.down = daemon.down]
    /\ ch' = [ch EXCEPT !.at = "next", !.current = FALSE]
    /\ dropper' = (dropper /\ ch.next)
    /\ UNCHANGED <<appVars, posts, intents, svc>>

\* ... and deinitializeCharon() waits for the daemon's threads.
DeinitializeCharon ==
    /\ ch.at = "deinit" /\ ~daemon.down
    /\ daemon' = Off
    /\ ch' = [ch EXCEPT !.at = "next", !.current = FALSE]
    /\ dropper' = (dropper /\ ch.next)
    /\ UNCHANGED <<appVars, posts, intents, svc>>

\* The rest of run(): nothing is next, or the daemon is started and initiates
\* the profile, or it cannot be started.
StartNext ==
    /\ ch.at = "next"
    /\ \/ /\ ~ch.next
          /\ posts' = Append(posts, "DISABLED")
          /\ ch' = [ch EXCEPT !.at = "waiting"]
          /\ UNCHANGED daemon
       \/ /\ ch.next
          /\ posts' = Append(posts, "start")
          /\ ch' = [ch EXCEPT !.at = "waiting", !.next = FALSE, !.current = TRUE,
                              !.disconnecting = FALSE]
          /\ daemon' = [Off EXCEPT !.on = TRUE, !.listening = TRUE]
       \/ /\ ch.next
          /\ posts' = posts \o <<"start", "error", "DISABLED">>
          /\ ch' = [ch EXCEPT !.at = "waiting", !.next = FALSE, !.disconnecting = FALSE]
          /\ UNCHANGED daemon
    /\ UNCHANGED <<appVars, intents, svc, dropper>>
-----------------------------------------------------------------------------
(* The daemon's threads, through update_status() and updateStatus() *)

\* The Android service is on the bus and hears of an event.
Hears == daemon.on /\ daemon.listening /\ ~daemon.down /\ Len(posts) < MaxPosts

Report(post) == posts' = IF ch.disconnecting THEN posts ELSE Append(posts, post)

\* child_updown(): the CHILD_SA is up; the TUN device is set up or not.
ChildUp ==
    /\ Hears /\ ~daemon.child
    /\ \/ /\ daemon' = [daemon EXCEPT !.child = TRUE, !.tunfd = TRUE]
          /\ dropper' = FALSE
          /\ posts' = Append(posts, "CONNECTED")
       \/ /\ daemon' = [daemon EXCEPT !.listening = FALSE]
          /\ Report("error")
          /\ UNCHANGED dropper
    /\ UNCHANGED <<appVars, intents, svc, ch>>

\* child_updown() and ike_reestablish_post(): the CHILD_SA is down.
ChildDown ==
    /\ Hears /\ daemon.child
    /\ daemon' = [daemon EXCEPT !.child = FALSE, !.down = ~ch.disconnecting]
    /\ UNCHANGED <<appVars, posts, intents, svc, ch, dropper>>

ReportDown ==
    /\ daemon.down
    /\ daemon' = [daemon EXCEPT !.down = FALSE]
    /\ posts' = Append(posts, "CONNECTING")
    /\ UNCHANGED <<appVars, intents, svc, ch, dropper>>

\* alert(), ike_updown(), ike_reestablish_pre() and initiate() report an error;
\* the first two end the registration on the bus.
Fail ==
    /\ Hears
    /\ Report("error")
    /\ \E stay \in {l \in BOOLEAN : l => daemon.child} :
          daemon' = [daemon EXCEPT !.listening = stay]
    /\ UNCHANGED <<appVars, intents, svc, ch, dropper>>

Next ==
    \/ TapConnect \/ VpnPermission \/ ClaimTick \/ TapDisconnect \/ Watchdog
    \/ XrayDisconnected \/ RunPost \/ RetryTick \/ OnStartCommand \/ OnRevoke
    \/ Wake \/ Mark \/ DeinitializeCharon \/ StartNext
    \/ ChildUp \/ ChildDown \/ ReportDown \/ Fail

Spec == Init /\ [][Next]_vars

\* The looper runs what is queued and due, intents are delivered, timers expire
\* and the threads go on.  Nothing is assumed about the user or the peer.
Fairness ==
    /\ SF_vars(ClaimTick) /\ SF_vars(Watchdog) /\ SF_vars(XrayDisconnected)
    /\ SF_vars(RetryTick) /\ SF_vars(OnStartCommand) /\ WF_vars(RunPost)
    /\ WF_vars(Wake) /\ WF_vars(Mark) /\ WF_vars(DeinitializeCharon)
    /\ WF_vars(StartNext) /\ WF_vars(ReportDown)

LiveSpec == Spec /\ Fairness
-----------------------------------------------------------------------------
(* Properties *)

TypeOK ==
    /\ ui \in Connection
    /\ ike \in IkeController
    /\ consent \in {"unknown", "dialog", "granted"}
    /\ {xray, dropper} \subseteq BOOLEAN
    /\ posts \in Seq(Post)
    /\ intents \in Seq({"profile", "retry", "disconnect"})
    /\ svc \in StateService
    /\ ch \in CharonService
    /\ daemon \in Daemon

Quiet == posts = <<>> /\ ch.at = "waiting" /\ ~daemon.down

\* When everything posted has run, the state service tells what became of the
\* daemon: no report of a daemon that was stopped outlives it, and a tunnel is
\* shown as connected only over an open TUN device.
StateSettles ==
    Quiet =>
       /\ svc.state = "DISABLED" <=> ~daemon.on
       /\ svc.state = "CONNECTED" <=> daemon.on /\ daemon.child
       /\ svc.state = "CONNECTED" => daemon.tunfd /\ ~dropper

\* connect() does not show "connecting" forever: the tunnel comes up, fails, or
\* the watchdog gives up, provided nothing keeps the looper and the handler
\* thread busy forever.
ConnectEnds ==
    []<>Settled => ((ui = "CONNECTING" /\ ike.watchdog) ~> (ui # "CONNECTING"))

\* VpnStateService.disconnect() resets the retry timer: once the user has
\* disconnected, or the watchdog has given up, no retry brings the tunnel back.
DisconnectIsFinal == [][intents' = Append(intents, "retry") => ike.claimed]_vars
=============================================================================
