# A TLA+ model of GRoute

GRoute (package `net.gozar.app`) is an Android VPN client. This directory holds
TLA+ modules that model its tunnel logic and the part of the vendored strongSwan
that carries its IKEv2 tunnels, TLC configurations that check them on small
instances, and TLAPS proofs of the properties that matter most for every size of
the instance. Every definition is a translation of the source;
`PROJECT.json` gives the lines each one stands for. The definitions marked
*external* there are Android itself, modelled as the code uses it.

## The system

The app runs in two processes. The Xray tunnel lives in the `:vpn` process; an
IKEv2 tunnel is strongSwan's and lives in the UI process.

| Part | State | Operations | Talks to |
|---|---|---|---|
| `GozarVpnService` (`:vpn` process) | `tunFd`, `blockFd`, `tearingDown`, `pollJob`, `aetherSpec`, `torSpec` | `onStartCommand` with START / STOP / WARM / null intent, the start coroutine, the polling loop, `die`, `enterKillSwitch`, `onDestroy` | gozarcore, the helpers, broadcasts to the UI |
| `gozarcore.go` (same process) | `instance`, `tunFd`, both under a mutex | `Start`, `Stop`, counters | the detached descriptor |
| `TorController`, `AetherController` | helper process, `stopping`, `bootstrapped` | `start`, `waitForPort`, `stop` | called by the service |
| `VpnBridge`, `VpnState` | `registered`, `state`, `activeId`, `picking` | four broadcasts, four setters | the one way back from the service to the UI |
| `MainActivity` (connect logic) | pending permissions, pin fetches, pick job, switch coroutines, auto-switch loop, warm-up collector | connect, disconnect, switch, pick, warm | intents to the service |
| `QsTileService` | none of its own | `toggle` | intents, `VpnState` |
| `ConfigStore` | configs, subscriptions, selected id, preferences | setters, load, import | read by both processes, each with its own copy |
| `IkeController` | `active`, `claimedId`, watchdog, claim coroutine | `claim`, `connect`, `disconnect`, `pushState` | a second owner of `VpnState`; listens to `VpnStateService` |
| `VpnStateService`, `CharonVpnService` | state, error, retry timer; current and next profile, `mIsDisconnecting`, handler thread | `connect`, `disconnect`, `setState`, `setError`, `onStartCommand`, `run` | Runnables posted to the main looper, intents, JNI |
| libandroidbridge | the listener on the bus, the TUN descriptor, connectivity | `child_updown`, `ike_updown`, `alert`, `initializeCharon`, `deinitializeCharon`, `roam` | reports to `CharonVpnService`, runs libcharon |
| IKEv2 task manager | queued, active and passive tasks, both message IDs, packets kept for retransmission | `initiate`, `retransmit`, `process_message`, `queue_task` | the peer, over UDP; retransmit and roam jobs |
| IKE_SA manager | table of entries with owner, waiting threads, driveout flags | `checkout`, `checkin`, `checkin_and_destroy`, `flush` | every worker thread of charon |
| libipsec | SA list with locks, anti-replay windows, sequence numbers | `checkout_by_spi`, `checkout_by_reqid`, `checkin`, `del_sa`, `expire`, ESP in and out | two processor threads, the control threads |
| `UsageStore` | five maps of counters, their copies on disk | `init` (loads in a thread), `add`, `flush`, `syncDirect` | fed by the receiver |
| `AutoSelector`, `Pinger` | results of the probes | `pickFastest` | `MainActivity` |
| `SubscriptionRefresher`, `SubscriptionFetcher` | none | `refreshStale` | `ConfigStore` |
| Config conversion, crypto, diagnostics, SSH, screens | mostly none | pure functions, network I/O, drawing | |

What is hard here:

* **Interleavings in the service.** No lock protects the fields of
  `GozarVpnService`. The main thread handles intents; every accepted START
  launches a coroutine on `Dispatchers.IO`; a STOP, another START, an error and
  the polling loop come in between its steps. `startTunnel` tests
  `tunFd != null` on one thread and sets it on another.
* **Ownership of descriptors.** A VPN interface is a `ParcelFileDescriptor`
  until `detachFd()`, a bare number from then on. Closing one twice closes
  somebody else's file; not closing it keeps the VPN up without an engine.
* **Two processes, asynchronous messages.** What the UI shows is what the last
  broadcast said. Either process may die. Android restarts a sticky service with
  a null intent. Preferences are cached once per process.
* **Time instead of synchronisation.** `killProcess` comes 60 ms after `die`;
  `switchTo` waits for at most 6 s and then 400 ms; the warm-up waits 500 ms; a
  probe takes up to 25 s, and what was tested before it may be stale after it.

* **An unreliable network.** IKE messages are lost, repeated, late and out of
  order; a request is carried out once all the same. The phone loses its route
  in the middle of an exchange, and a timer then finds nothing to send.
* **Hand-made reader/writer protocols.** The IKE_SA manager and libipsec hand out
  entries to many threads with one mutex, a condvar per entry, an owner, a count
  of waiting threads and a flag that drives them out. A signal goes to one
  thread, which may not be the one that can use it; an entry is freed when
  nobody is *counted* at it.
* **Wrap-around arithmetic.** The anti-replay window is a ring of bits behind an
  index that moves with the highest sequence number.
* **Callbacks that outlive their cause.** What a stopped daemon reported is still
  in the looper's queue; the retry timer and the watchdog run on.

What makes the parts correct: no descriptor leaks or has two owners; a service
that is going down really goes, with its process; a START ends; the kill switch
blocks and keeps blocking; and the app shows a connection exactly when there is
one. Below it: an exchange runs once and ends, an IKE_SA has one user, nothing is
freed while a thread is at it, no wakeup is lost, no packet is accepted twice and
none is wrongly refused. The list of hazards in `PROJECT.json` names each at its line.

## The modules

**`Channels`** — the two queues between the processes: intents
(`startService`) and broadcasts (`VpnBridge.send`). Android keeps each in order.
START without a config is the null intent; DESTROY is the `onDestroy` call that
Android queues behind the intents that came before `stopSelf()`.

**`TunnelService`** — the `:vpn` process. `svc` holds the fields of each service
object (Android may create a second one in the same process after
`onDestroy`), `jobs` the start coroutines with their program counters, `core`
gozarcore's `instance` and `tunFd`, `fds` and `vpn` the kernel's and Android's
view of the interfaces, `killPref`/`killCache` the preference as stored and as
cached by this process.

| Code | Actions |
|---|---|
| `onStartCommand`: STOP, WARM, START, null intent | `OnStop`, `OnWarm`, `OnStart`, `OnNullStart` |
| start coroutine of `startTunnel` | `JobEstablish`, `JobAether`, `JobAetherWait`, `JobCore`, `JobStart`, `JobTor`, `JobTorWait`, `JobAnnounce` |
| `die(error)` in that coroutine | `JobDie`, then `JobBlock` for the second half of `enterKillSwitch` |
| the same on the main thread | inside `OnStop`/`OnNullStart`, then `MainBlock` |
| `onDestroy` | `OnDestroy` |
| polling loop | `PollCheck`, `PollSend` |
| `killProcess` after 60 ms; process death; sticky restart; another VPN app | `KillProcess`, `Crash`, `RestartSticky`, `OnRevoke` |
| `setKillSwitch` in the UI process | `SetKillSwitch` |

A step of a coroutine runs up to the next point where another thread can see or
disturb it. The body of `die` is one step, except that `enterKillSwitch` is cut
between closing the tunnel and establishing the block. `Cancel` leaves a polling
loop that has passed its check one last broadcast: coroutine cancellation takes
effect only at `delay`.

**`Session`** — the UI process: `MainActivity`'s connect logic, `VpnState`, the
receiver and the tile. Everything runs on the main thread, so a handler is one
step, and so is what lies between two suspension points of a coroutine.
Dialogs, the pin fetch (`FetchDone`), the search for the fastest server
(`PickDone`), `switchTo` (`SwitchTo`, `SwitchWait`, `SwitchLaunch`) and Smart
connect (`AutoProbe`, `AutoKeep`, `AutoSwitch`) are the suspension points. The
collector that warms the service after a disconnect sees a conflated
`StateFlow`: `WarmCollect` compares the last value it saw with the present one.

**`GRoute`** — both processes together, and the user. `Settled` says that
nothing is on its way. A disturbance (a tap, a probe's verdict, a crash, a
restart of the UI, another VPN app) that is not in the constant `Anytime` waits
for `Settled`; what the app then does about it interleaves freely. A crash may
also hit a start that is under way.

**`UsageStore`** — the data-usage history: five maps in memory (`mem`), in
`SharedPreferences` (`prefs`) and on disk (`disk`). `Start`, `LoadRead` and
`LoadMerge` are `init` and its thread; `AddCounters` and `Flush` are what the
receiver calls; `SyncDirect` samples the device's counters. `apply()` returns
before anything is written and the five maps are stored one by one, so an
operation may leave any of the contents it went through on disk. An upload and a
download counter are one number, a missing key is 0, and time only moves
forward. The thread reads its five maps one by one, without the lock, and stores may
come at any time, as in the code. `due`, `passed` and `early` are auxiliary: the
history as it should be, the bytes that passed, and the stores that came before the
thread was done. `early.life` says that a map was replaced before the process read it,
`early.ever` that this happened at some time, `early.torn` that such a store was
written only in part or fell between two reads, so that old and new maps are mixed.

**`Exchange`** — what the task managers of two peers promise each other: `Issue` a
request under the next message ID when none is open, `Answer` requests once and
in order, `Finish` a request with the answer that was given to it. A peer may give
up or disappear at any time.

**`TaskManager`** — libcharon's `task_manager_v2.c` on both ends of an established
IKE_SA, with what `ike_sa.c` and the Android bridge add to it. A handler runs with
the IKE_SA checked out, so it is one step. Message IDs count from the first
exchange after IKE_AUTH. A CHILD_SA task may need several exchanges (`NeedMore`), which
are of its own exchange type; a `delete()` with force destroys the IKE_SA in the same
step as the request goes out (`Forced`). A callback of the network manager that
`connectivity_cb` drops comes before `next_roam`, when the job scheduled for
`next_roam` is still to run, so `ConnectivityCb` leaves a roam job due either way.
`ImplementsExchange` maps the auxiliary fields `issued`,
`ran`, `result` and `completed` of each peer to the variables of `Exchange`.

| Code | Actions |
|---|---|
| `queue_task` from `initiate`, `send_dpd`, `delete` | `InitiateChild`, `SendDpd`, `Delete` (through `Queue`) |
| `initiate()`: the choice of the task, the request | `Initiate`, `NextTask`, `BuildRequest` inside the actions that call it |
| `retransmit_job`, `retransmit()` | `RetransmitJob`, `Retransmit` |
| connectivity callback, `roam_job`, MOBIKE with and without path probing | `ConnectivityCb`, `RouteAppears`, `RoamJob` |
| `process_message()` | `Receive`: `ProcessRequest` with `IsRetransmit`, `ProcessResponse` |
| the network | `net` is a set: `Receive` may leave the message there, `Lose` removes it |

**`SaManager`** — `ike_sa_manager.c` with its one segment. What runs between
locking the mutex and unlocking it or waiting on a condvar is one step. A thread in
a condvar is blocked until `woken`, by `Signal`, by `Broadcast` or for no reason
(`Spurious`).

| Code | Actions |
|---|---|
| `create_new`, `checkout_new`, `checkin` and `checkin_and_destroy` of an IKE_SA that is not in the table | `CreateNew`, `CheckoutNew`, `CheckinNew`, `CheckinAndDestroyNew` |
| `checkout*`, `wait_for_entry` | `Checkout`, `Resume`, both with `Acquire` |
| `checkin` | `Checkin` |
| `checkin_and_destroy`, `entry_destroy` | `CheckinAndDestroy`, `ResumeDestroy` (the loop is `DriveOut`), `Free` |
| `flush` | `Flush`, `FlushNext`, `ResumeFlush` (one entry is `FlushEntry`) |
| the manager's `destroy` | `Destroy` |

**`Ipsec`** — libipsec: `ipsec_sa_mgr.c`, the ESP context and the two threads of
`ipsec_processor.c`. `VerifySeqno` and `SetAuthenticatedSeqno` are the window, a set
of bit indices behind `seqno_index`. `accepted` is auxiliary: how often each number
was accepted.

| Code | Actions |
|---|---|
| `process_inbound`: checkout, decryption, checkin | `CheckoutBySpi`, `ProcessInbound` (an SA that is not inbound is checked in again) |
| `process_outbound` | `CheckoutByReqid`, `ProcessOutbound`, `Acquire` and `AcquireTimeout` when there is no SA (`Acquires`: or it is being removed) |
| `query_sa` | `Query` |
| `wait_for_entry` after a wake-up | `Resume` |
| `add_sa` | `AddSa` |
| `del_sa`, `sa_expired`, `wait_remove_entry` | `Remove`, `ResumeRemove` (the loops are `WaitRemove`) |

**`IkeTunnel`** — the IKEv2 path above libcharon, one config.

| Code | Actions |
|---|---|
| the connect and disconnect taps, the VPN dialog | `TapConnect`, `VpnPermission`, `TapDisconnect` |
| `IkeController`: claim coroutine, watchdog | `ClaimTick`, `Watchdog` |
| the Xray service's last broadcast | `XrayDisconnected` |
| Runnables of `VpnStateService` (`setState`, `setError`, `startConnection`), followed by `pushState` | `RunPost` |
| the retry countdown | `RetryTick` |
| `CharonVpnService`: intents, `onRevoke` | `OnStartCommand`, `OnRevoke` |
| its handler thread: `run`, `stopCurrentConnection`, the next profile | `Wake`, `Mark`, `DeinitializeCharon`, `StartNext` |
| the bus listener in `android_service.c` | `ChildUp`, `ChildDown` then `ReportDown`, `Fail` |

**`TunnelServiceProofs`**, **`GRouteProofs`**, **`UsageStoreProofs`**,
**`TaskManagerProofs`**, **`RetransmissionProofs`**, **`SaManagerProofs`**,
**`IpsecProofs`**, **`IkeTunnelProofs`** — the theorems. `GRouteProofs` builds on
`TunnelServiceProofs`, `RetransmissionProofs` on `TaskManagerProofs`.
**`MCTunnelService`**, **`MCGRoute`**, **`MCUsageStore`**, **`MCTaskManager`**,
**`MCSaManager`**, **`MCIpsec`**, **`MCIkeTunnel`** — the modules TLC starts from, with
symmetry sets where used.

How they fit together: `Channels` joins `TunnelService` and `Session` into `GRoute`,
which is a behaviour of `TunnelService` with `Session` as its client.
`TaskManager` implements `Exchange`. The atomicity of a handler in `TaskManager` is
`Exclusive` of `SaManager`; the daemon of `IkeTunnel` is the phone's end of
`TaskManager`; what it negotiates is installed in `Ipsec` by `AddSa`.

Timing assumption of `GRoute` (`StopDone`): 60 ms are over before 400 ms, 500 ms
and a human's next tap. `IkeTunnel` assumes (`Settled`) that intents are delivered
and the handler thread is done before a timer of many seconds expires.
`TunnelService` alone assumes nothing about time.

## The runs

Passing:

| Run | Shows |
|---|---|
| `tunnel_races` | Two start coroutines, the main thread, two queued intents and three interfaces: `FdOwnership` and `DetachedFdHasOneOwner` hold in every interleaving, although nothing is locked: `Gozarcore.start` and `stop` close what they recorded, `Start` records before it can fail, and `detachFd` throws on a closed object. `BlockHolds` (no coroutine and no further error closes a block that stands) and `KillSwitchKeepsService`, also with two coroutines that fail; the gap before the block, a refused `establish()` and a START whose tunnel replaces the block are not excluded. |
| `tunnel_liveness` | Both helpers and two service objects: `StopEndsProcess` and `StartEnds`. A START between `die` and the kill resets `tearingDown`; the process goes all the same, because the timer does not look at it again. |
| `app_one_at_a_time` | `UiTellsTruth`: whenever everything has settled, CONNECTED is shown exactly if the engine runs, on the interface that carries the traffic and with the config the app names; CONNECTING never stays. Survives crashes of either process, failing starts, denied permissions, the kill switch, switches and the tile, one at a time, and another VPN app at any moment until the next START. |
| `usage` | Stores at any time. `KeptUnlessEarly`: a process that replaces no map before reading it keeps the history; what is counted while the thread reads, or stored between its last read and its merge, is neither lost nor doubled. `ViewsAgree`: a crash between two stores never makes the shares of the configs exceed the totals, because the totals are stored first; only an early store that was torn can. `DirectOnce`: the sample is stored before the bytes are counted, so a crash may lose bytes but never counts them twice; with early stores never more than twice. |
| `exchanges` | Both peers initiate over a network that loses, repeats, delays and reorders: `RetransmissionSuffices` (nobody gives up on a live peer unless the network failed it more often than there are retransmissions; a notify that the responder does not keep is excepted) and `ImplementsExchange` (a request is carried out once and completed by its own answer). |
| `exchanges_roam` | The phone loses and regains its route in the middle of exchanges and path checks: `NothingStuck` (a request that could not be sent is picked up again, a queued task is not forgotten) and `ExchangeEnds`. A task of either exchange type, path checks and updates follow one another, with a loss in each exchange: no late message of one meets the next (`ResponsesExpected`: `process_response` never destroys the IKE_SA over the exchange type), and `ImplementsExchange` across the sequence. |
| `sa_table` | Workers and the flush: `Exclusive`, `WaitersSafe`, `NoLostWakeup`, `FlushEnds`. |
| `data_plane` | Repeated, reordered and forged packets while SAs are installed, queried, expired and removed: `AcceptedOnce`, `WindowExact` (a number in the window is refused only if it was accepted), `LockedSafe`, `NoLostWakeup`, `RemovalEnds`. |
| `ike_app` | `StateSettles`: when all posts have run, the state service says what became of the daemon, and CONNECTED stands over an open TUN device. `ConnectEnds`: CONNECTING does not last. |

Violations, each a disagreement between the code and what the repository says:

| Run | What happens |
|---|---|
| `kill_switch_stale` | The switch is turned on while the `:vpn` process (already warmed up) lives. Its `ConfigStore` was read before; the next error ends the service instead of blocking. |
| `usage_early_store` | `flush()` on a "disconnected" broadcast, or a second tick, comes while the load thread is still to read: the stored map is replaced by what was counted since the start, the thread reads that and adds it once more. The history shown is neither what was stored nor what was counted (`HistoryKept`). |
| `ike_disconnect` | `disconnect()` resets the retry timer and sends the intent that stops the daemon; an error the daemon posted before it is stopped starts the timer again, and its end connects the profile the user has disconnected. |

### Bounds, and why they are enough

* `Job`, `Fd`, `Inst`: two coroutines are what it takes for one to disturb the
  other; three interfaces let each have one beside the engine's. The theorems
  remove these bounds for the properties they cover. Two service objects: the old
  one and the one created by the next intent. `OnRevoke` leaves the old object in
  place, since its polling loop refers to it, and asks for room for the next.
* `MaxIntents`, `MaxBroadcasts`: one or two waiting messages. With two, a START
  waits behind a STOP or a WARM. A sender waits in the model while the
  queue is full, which it never does in the code: this removes some
  interleavings and adds none. At most one "counters" broadcast waits.
* `Switcher`: one `switchTo` at a time in `app_one_at_a_time`. `UiIsTruthful` removes its
  bounds.
* `dialog`: one permission dialog at a time.
* Two configs where switching matters, one of them without a certificate pin;
  one config with both helpers where the helpers matter.
* `UsageStore`: the direct traffic and the counts without a config, with no config
  beside them (a config's counts take the direct traffic's way through the maps,
  under another key; the theorems hold for any set of configs); two hours of a day,
  one of them retained; maps stored every second tick instead of every fifth; three
  counts, one of them direct, and one crash: two to get a store, and one to count
  the same byte again after the crash.
* `TaskManager`: a fault is a lost message or a timer that is early, counted per
  exchange. `exchanges`: one task on each side, which may need two exchanges, two
  faults, one retransmission, so that both giving up and answering a
  retransmission happen, also at once from both ends. `exchanges_roam`: one task
  on the phone, one loss of the route, one fault in each exchange, three exchanges
  to complete and a fourth that may be opened: a task, a path check and the update
  after it, so that messages and jobs of finished exchanges of another type are
  about when the next is open.
* `SaManager`: three workers (one has the entry, one waits, one comes or destroys)
  and three IKE_SAs; the theorems remove these bounds.
* `Ipsec`: a window of four and numbers to seven, so that the window moves past
  its own size and the ring wraps; one SA, two control threads beside the two
  processor threads. `MaxSeqno` stands for 2^32 - 1. The theorems remove all of
  these bounds.
* `IkeTunnel`: one waiting post, intent and retry message. An event that posts
  waits while the queue is full; a post and an event commute unless the event is
  the post's own, so a longer queue would show the same states later.

### Fairness

`FairSpec`: the main thread and each start coroutine keep running (strong
fairness, which makes up for `MaxBroadcasts` disabling a sender on and off; in
the code `sendBroadcast` never waits), the timer of `die` fires, Android
restarts a sticky service, the receiver receives. The helpers' waits have
deadlines (`READY_TIMEOUT_MS`), which is the failing branch of `JobAetherWait`
and `JobTorWait`. Nobody has to send an intent and no crash has to happen.

`TaskManager`: the scheduler runs every job that is due (`RetransmitJob`,
`RoamJob`). The network owes nothing; `ExchangeEnds` asks for a route in the end.

`SaManager`: a job ends by checking in what it has; a woken thread gets the mutex
(threads do not starve at a mutex); the flush and the destruction go on. No
fairness for `Spurious`, and none that a waiting thread is ever woken.

`Ipsec`: the two processor threads finish a packet, woken threads go on. A thread
that is woken again and again and always finds the SA locked may starve, so
nothing is claimed of it; `RemovalEnds` is about the removal, for which the
other threads are turned away.

`IkeTunnel`: the looper and the handler thread run (strong fairness for the
actions that wait for an empty queue, weak for the others). Nothing is assumed
about the user or the gateway.

## The proofs

### `TunnelServiceProofs`

For any `Configs`, `Fd`, `Inst` and `Job`, finite or not, from
`ChannelAssumption` and `ServiceAssumption` alone:

* `TypeCorrect`: `Spec => []TypeOK`.
* `OwnershipCorrect`: `Spec => []FdOwnership` (with `InterfaceIsOpen`), and
  `OneOwner`: `Spec => []DetachedFdHasOneOwner`.
* `KillSwitchStays`: `Spec => KillSwitchKeepsService`, and `BlockStays`:
  `Spec => BlockHolds`, two action properties.

`DetachedFdHasOneOwner` is not inductive: it says nothing of a descriptor before
it is detached, so a step `JobCore` from an arbitrary state could detach one that
another coroutine has detached already. `FdOwnership` adds what is missing:
what the engine recorded is open (`EngineFdOpen`); two coroutines never hold the
same descriptor (`JobFdsDistinct`); before `JobCore` a coroutine's descriptor is
not detached (`AttachedUntilCore`) and between `detachFd` and `Start` it is
detached and not yet the engine's (`DetachedUntilStart`); every detached
descriptor is held by one of the two (`NativeIsHeld`). `establish` returns a
descriptor nobody holds, which is what makes `JobFdsDistinct` hold, and the
engine's mutex makes each of `JobCore`'s and `JobStart`'s exchanges one step. The
proof has a lemma for closing descriptors, one per group of actions, and a case
for every action in the final step.

`BlockHolds` needs `BlocksApart`: a blocking interface is not the engine's, not the
tunnel of any service object and not that of a coroutine. What `die()`, `Gozarcore.stop`
and `Gozarcore.start` close is one of those. It is kept because `establish` returns a
descriptor nobody refers to and because descriptors only move from a coroutine to the
engine. `JobsLaunched` adds that a coroutine under way belongs to a service object.

### `GRouteProofs`

For any constants of the app and every `Anytime`, that is, with disturbances at any time:

* `AppRunsService`: `AppSpec => Spec`. The app is one of the surroundings that
  `TunnelService` allows for its service: each handler and coroutine of the UI process
  sends one of `Requests` or nothing, takes one broadcast, or dies and loses all of them.
* `AppSafe`: so the theorems of `TunnelServiceProofs` hold of the app.
* `AppTypes`: `AppSpec => []AppTypeOK`.

The invariant `UiInv` adds to the types what `AppRunsService` needs: while a dialog is
on the screen, the field its callback goes on with holds a config, and so does a
switching coroutine. Without it, `VpnPermission` might send a START without a config, which
is the null intent of a sticky restart and none of a client's requests.

* `UiIsTruthful`: `Anytime \subseteq {"revoke"} => (AppSpec => []UiTellsTruth)`, for any
  number of configs, coroutines, switches, objects, descriptors and messages. Taps, probe
  results and restarts of the UI wait for the app to settle, and a crash for the UI and
  its intents; the answers to dialogs, failing starts and the start a crash hits come when
  they come, and another VPN app may take over at any moment.

The hypothesis is the weakest one on `Anytime`: with any of `"user"`, `"smart"`, `"crash"`
and `"restart"` in it TLC finds a settled app that shows something else (see "Seen while
modelling"). It is satisfied by the constants of `app_one_at_a_time`.

`UiTellsTruth` speaks of settled states only and is far from inductive. The invariant
`Phase` says what is true on the way, as one of eight cases:

| Phase | Under way | What it says of the two processes |
|---|---|---|
| `Resting` | nothing, or requests to warm up | no tunnel (`Off`) and the broadcasts end with a state that says so; or a tunnel (`On`) and CONNECTED is shown, on its way, or will be the answer to a warm-up still to come |
| `Launching` | a probe, a pin, a dialog or a waiting `switchTo` | the service has no tunnel, and no broadcast is left but the goodbye `switchTo` waits for |
| `Starting` | a START | it is the last intent, and the service that gets it has no tunnel |
| `Working(j)` | one coroutine | what it has established and recorded so far, step by step |
| `Stopping` | a STOP | nobody warms the service up meanwhile |
| `Killing` | the 60 ms after `die()` | the engine is off and the UI shows that or will |
| `Restarting` | the null intent of a sticky restart | the UI may be wrong, but then no WARM comes first, which would undo the stickiness and with it the correction |
| `Wreck` | whatever another VPN app interrupted | the object it belongs to is destroyed or will be, so nothing it does reaches the next one |

`FreshStart` adds that a service that is sticky has been started since the last
revocation. The queues appear through predicates (`Warms`, `Behind`, `Closing`, `Tells`,
`Farewell`, ...) whose lemmas say what sending and taking a message does to them; the
proofs of the phases use nothing else about sequences. There is one lemma per handler,
coroutine and fault; `FdOwnership`, `TearingDownIsDoomed` (an object that is tearing
down is in a process whose kill is scheduled), `JobsLaunched` and `UiInv` are used there. TLC has checked `Phase` and `FreshStart` on the constants of the run.

### `TaskManagerProofs` and `RetransmissionProofs`

For any number of message IDs, tasks, faults, tries and changes of connectivity, from the
assumptions of `TaskManager` alone: `TypeCorrect`, `NoneStuck` (`NothingStuck`),
`TypesMatch` (`ResponsesExpected`), `Refinement` (`ImplementsExchange`) and `GivesUpLate`
(`RetransmissionSuffices`).

The invariant `IInv` has, beside the types, four parts. `Local`, about one peer: message IDs are used
in order in both roles (`History`), the exchange `imid` is open if and only if its
request is kept, and that is the request of the active task (`OpenRequest`), and there is
a job for what is open (`Scheduled`). `Agreement`, about both: an answered request was
issued, and a completed exchange has the answer that was given. `Messages`: whatever is in
flight, or kept as the last response, is a request that was issued or an answer that was
given (`Genuine`), so a repeated or late message says nothing new. `Deferral`: a deferred
request waits for a roam job or for a network. `ResponsesExpected` follows from `Messages`
and `OpenRequest`: a response with the open message ID answers the request of the active
task. For the refinement, each action maps to `Issue`, `Answer`, `Finish`, the end
of a peer, or a stutter; the lemmas give the effect of `initiate()`, `process_request` and
`process_response` on the four auxiliary fields. That `initiate()` finds a first task in a
queue that is not empty rests on the well-foundedness of the naturals.

`RetransmissionSuffices` needs more. `Kept`: the responder has its last answer and the
request it belongs to, unless it was a notify for an unsupported exchange. `Budget`: every
transmission of the open request was made up for by a fault, but for one that is still on
its way; so when the tries are used up, the faults exceed them. Only a request that the
responder has destroyed the IKE_SA for, or answered by a notify it does not keep, is
excused.

### `UsageStoreProofs`

For every set of configs, retention, period of storing and number of hours, counts and
crashes, and with stores at any time: `UsageTypes` (`UsageTypeOK`), `NothingForgotten`
(`KeptUnlessEarly`), `NoByteTwice` (`DirectOnce`) and `SharesNeverExceed` (`ViewsAgree`).
What they say of a process with early stores is in the properties, not in a hypothesis.

`AsRead`: as long as no map is replaced under the thread, what it has read is what is
stored. `Recorded` relates the history as it should be to the maps in each state of the
load: until the merge it is the sum of what is stored (or in the thread's copy) and what
was counted since; afterwards it is in memory. `Budget` bounds what was counted as
direct, plus what `syncDirect` may still count after its last sample, by the bytes that
passed, both for the process that runs and for one that starts from the disk. The second
half is what makes it survive a crash between two stores: the sample is stored first.
After an early store the map to be merged is no larger than the one in memory that
replaced it, so the sum is at most twice what passed; and since that bound is again one
on what is stored, another early store, which replaces it by a session's own counts,
cannot compound it.

`ViewsAgree` compares sums over sets of any size. `LeastNumber` (from `WFMin`, the
well-foundedness theorem that takes a relation and no operator) gives `PartInduction`,
induction over the parts of a finite set; with it `SumsExist` shows that the recursive
function inside `MapThenSumSet` exists, and `TotalFacts` that sums are numbers, add up and
grow with what is summed. The inductive invariant is `Agreed`: unless an early store was
torn, the maps agree in memory, in the preferences, on disk and in the thread's copy, and once the merge is done no share in memory is below the
stored one (`Grows`; for hours only while they are kept, since trimming drops older ones).
`Grows` is what the crash between two stores needs: old shares beside new totals are still
covered, so storing the totals first is enough (`AgreePersisting`).

### `IkeTunnelProofs`

For every length of the looper's queue and every number of intents and retries:
`TypeCorrect` and `Settles` (`StateSettles`).

`StateSettles` speaks of the state with nothing posted, so the invariant has to say
where the posts lead: `Ends(v, q, w)`, once the posts `q` have run on top of state `v` the
state is `w`. `Posted`: while the handler thread waits, the posts lead to `Told`, what was
reported of the daemon that runs. `Handler`: a daemon that is off has nothing left, and
reports are suppressed (`mIsDisconnecting`) only while one is being stopped, so the DISABLED of the
old daemon is posted before anything of the next. `Tunnel`: a CHILD_SA has its TUN
device, and the blocking device is closed.

### `IpsecProofs`

For every `WindowSize` and `MaxSeqno`, any number of SAs and control threads, from
`IpsecAssumption` alone: `TypeCorrect`, `NeverReplayed` (`AcceptedOnce`),
`WindowIsExact` (`WindowExact`), `NoUseAfterFree` (`LockedSafe`) and `WakeupsArrive`
(`NoLostWakeup`).

The invariant `IInv` has five parts. `Window`: for an inbound SA the context is
`Exact`, that is, no number above `last_seqno` was accepted, none was accepted
twice, and inside the window a bit is set if and only if its number was accepted.
Below the window nothing need be known, because `VerifySeqno` refuses it. The
arithmetic is in lemmas about `Back` and `Forward`: they stay inside the ring, are
injective over a window, and the indices the window moves over are those of the
numbers that leave it; `SetExact` then covers both branches of
`SetAuthenticatedSeqno`. `Lock` relates the place of every thread to the entry it is
at (`Placed`) and the places of two threads to each other (`Apart`: one user, one
remover), which is what lets `wait_remove_entry` free the SA. `Direction` keeps the
outbound thread away from inbound windows, and `Fresh` says that an SA not installed
yet has an empty window and that none is installed twice. `AcceptedOnce` and `LockedSafe` are not inductive: the first
needs the bits, the second who is counted where.

`NoLostWakeup` has an invariant of its own on top. `Waiters`: whoever is counted in
`waiting_threads` is in `wait_for_entry`. `Awake`: at an SA that is not locked a
woken thread is among those that sleep. Each action either leaves the SA locked,
takes it from the list, or signals.

### `SaManagerProofs`

For any number of workers and IKE_SAs, from `ManagerAssumption` alone:
`UsersAreAlone` (`Exclusive`), `WaitersFindTheirEntry` (`WaitersSafe`) and
`WakeupsArrive` (`NoLostWakeup`).

`Exclusive` and `WaitersSafe` rest on `Lock` and `Private`. `Lock`: a thread that uses
or destroys an entry is its owner, a waiting one is counted, and a thread that has
taken an entry from the table remains its owner until it is freed, which keeps both
the flush and another `checkin_and_destroy` away. `Private`: an IKE_SA that was created
and not put into the table is known to one thread only, so `put_entry` never
overwrites an entry in use. The flush's own sleep in a condvar is not covered,
since nothing counts it (see below). For the wakeups, `Waiters` is needed in one
place: the flush sleeps at an entry without owner only behind a thread that is
counted there and that its broadcast has woken.

### Only model-checked

* The liveness properties (`StopEndsProcess`, `StartEnds`, `ExchangeEnds`, `FlushEnds`,
  `RemovalEnds`, `ConnectEnds`): fairness and ENABLED are beyond the prover.

## Seen while modelling

The app:

* `enterKillSwitch` stops the engine and closes the tunnel before it establishes the
  blocking interface (`GozarVpnService.kt:287`): there is a moment with no interface,
  and for good if `establish` returns null.
* STOP while a start coroutine is about to announce: "connected" follows
  "disconnected" (`GozarVpnService.kt:139`), the process is killed, and the app stays
  at CONNECTED over nothing. `app_one_at_a_time` lets the user wait instead.
* The user disconnects during a probe of Smart connect; the verdict connects again
  (`MainActivity.kt:987`). With `"smart"` in `Anytime`, `UiTellsTruth` shows it.
* After the warm-up an idle service is running; the tile takes it for a tunnel, and a
  tap sends STOP (`Qstileservice.kt:128`).
* A "disconnected" broadcast that reaches a UI process whose load thread has not read
  the stored maps overwrites the history (`UsageStore.kt:231`, run
  `usage_early_store`). If that store is cut short by a crash, small new totals stand
  beside large old shares (`ViewsAgree` excepts it: `early.torn`).
* A WARM that reaches a sticky service's dead process takes the place of the null
  intent: the crash is not reported, the block not established. A WARM handled while
  `tunFd` is still null returns `START_NOT_STICKY` and undoes the stickiness of the
  START before it. A START queued behind a null intent whose handling dies is accepted
  in a process that will be killed within 60 ms.

The IKEv2 path:

* A CONNECTED that was posted before `disconnect()` sets `VpnState` to CONNECTED while
  `active` is false; after a quick reconnect, a late DISABLED of the first daemon clears
  `active` and the watchdog of the second.
* A tunnel that is lost after CONNECTED leaves `VpnState` at CONNECTED, while the
  comment at `Vpnbridge.kt:45-48` has `IkeController` drive it from strongSwan's
  callbacks.
* Denied VPN consent leaves `active` set, without a watchdog.
* If `initializeCharon` fails after `establishBlocking()`, the blocking TUN device stays
  open; `onRevoke` does not reset the retry timer.

strongSwan:

* `flush()` sleeps in the condvar of an entry without being counted in
  `waiting_threads`. A worker that waits for the same entry and then a
  `checkin_and_destroy` can free the entry under it; `FlushEnds` leaves that case out
  (`ResumeFlush` keeps it).
* A waiting thread may starve in both managers: a thread that comes along takes the
  entry before the woken one has the mutex.
* The task manager keeps no copy of the notify it sends for an unsupported exchange:
  if that answer is lost, the retransmissions are not answered
  (`RetransmissionSuffices` excepts it).
* libipsec's window size "should be a multiple of 8", but the ring is exact over a
  wrapping 32-bit counter only if it divides 2^32; the configured 128 does.
* `checkout_by_reqid` triggers an acquire if the newest SA of the request awaits its
  deletion, although an older one could be used.

## What the properties leave open

* `StopEndsProcess` is about the process. It says nothing of the "connected" that a
  coroutine announces after the STOP.
* `UiTellsTruth` holds at the pace that `Settled` and `StopDone` set: a process that
  handles its STOP later than the six seconds of `switchTo` is assumed away.
* `BlockHolds` excludes one step, from a standing block to no interface; see above.
* `KillSwitchKeepsService` reads the preference as the process cached it; that the cache
  is stale is `kill_switch_stale`.
* `FlushEnds` excepts an entry that is freed under the flush, `RetransmissionSuffices` a
  notify that is lost and not kept: both happen in the model and are described above.
* `LockedSafe`: the two processor threads contend for one SA only when an inbound packet
  names an outbound SA; the removers and queries are what contends.

## Not modelled

* `startAutoSelect` and `switchTunnel` of the service are never called.
* The values of the service's counters, texts, notifications' contents.
* Two calls of `die` at the same time inside each other: the body is one step.
* The tile's wait for `awaitReady` counts as immediate.
* IKEv2 app path: always-on VPN, an Xray connect while IKEv2 is active, incomplete
  profiles, `onDestroy`, binding of `VpnStateService`.
* Task manager: IKE_SA_INIT and IKE_AUTH, rekeying of the IKE_SA, `reset`, delayed
  tasks, fragmentation, message ID synchronisation. The further exchanges of a CHILD_SA
  are CREATE_CHILD_SA exchanges, not IKE_FOLLOWUP_KE ones. A MOBIKE task whose source
  address is there but differs turns into a path check only through the roam job's
  `changed`, not inside `retransmit()`; `CheckTries` is then used later than in the code.
* IKE_SA manager: half-open counts, the hashes of initial messages, the uniqueness
  policy, more than one segment.
* libipsec: SPI allocation, policies, encryption, the event relay.
* Network probes, parsers and builders of configs, cryptography, SSH, screens:
  pure functions, I/O or drawing.
* The rest of strongSwan, more than 600,000 lines of C that the repository vendors
  whole: plugins for other platforms, other daemons and their tools, cryptographic
  primitives and test vectors, certificate and message parsers, IKEv1. Most of it is
  not compiled into the app. What is compiled and left out is parsing and
  cryptography, whose correctness is about data and not about the order of steps.

## Plan

1. *Done:* `Channels`, `TunnelService`, `Session`, `GRoute`, `UsageStore`, `Exchange`,
   `TaskManager`, `SaManager`, `Ipsec`, `IkeTunnel`, their runs; theorems about each of
   them, the truth of the UI, and the refinement of `Exchange`.
2. `ConfigStore` with `SubscriptionRefresher`: deleted subscriptions that come back,
   a selected id without a config, loading against writing.
3. `EngineController`: `start`/`stop` of the helpers with `stopping`, refined into the
   two flags of `TunnelService`.
4. An abstract tunnel (down, starting, up, blocked, going) that `TunnelService`
   implements.
5. Pure algorithms as operators against reference definitions: the choice with its
   margin, duplicate ids, merging of counters.
