------------------------- MODULE TunnelService -------------------------
(***************************************************************************)
(* The :vpn process: GozarVpnService, the gozarcore engine it drives, and  *)
(* the file descriptors of the VPN interfaces they share.                  *)
(*                                                                         *)
(* Threads.  The main thread handles the queued intents one at a time.     *)
(* Every accepted START launches a coroutine on Dispatchers.IO (a job)     *)
(* that establishes the interface, starts the engines and announces the    *)
(* result; several may be in flight.  No lock protects the fields of the   *)
(* service, so the steps of jobs and of the main thread interleave.        *)
(*                                                                         *)
(* A step of a job runs up to the next point where another thread can      *)
(* observe or disturb it.  A failing step leaves the job at "die", the     *)
(* call of die(error).                                                     *)
(***************************************************************************)
EXTENDS Channels, FiniteSets

CONSTANTS Fd,            \* ParcelFileDescriptors of VPN interfaces
          Inst,          \* service objects of one process
          Job,           \* bound: start coroutines in flight
          NoFd, NoInst

ASSUME ServiceAssumption ==
    /\ NoFd \notin Fd
    /\ NoInst \notin Inst

VARIABLES
  alive,        \* the process exists
  current,      \* the service object Android delivers intents to
  svc,          \* the fields of every service object
  jobs,         \* the start coroutines
  main,         \* "block" while the main thread is inside enterKillSwitch
  core,         \* gozarcore: recorded descriptor, config of the instance
  engines,      \* helper processes running
  fds,          \* "closed", "pfd" (owned by the Java object), "native" (detached)
  vpn,          \* the interface Android routes the device's traffic to
  killPending,  \* killProcess is scheduled
  sticky,       \* Android restarts the service when the process dies
  killPref,     \* the kill-switch preference, as the UI process stores it
  killCache     \* the same, as ConfigStore of this process read it

osVars  == <<fds, vpn>>
prefs   == <<killPref, killCache>>
svcVars == <<alive, current, svc, jobs, main, core, engines, fds, vpn,
             killPending, sticky, killPref, killCache>>
vars    == <<intents, broadcasts, svcVars>>

Pc == {"idle", "establish", "aether", "aetherWait", "core", "start",
       "tor", "torWait", "announce", "die", "block"}

Service == [tun : Fd \cup {NoFd}, block : Fd \cup {NoFd}, tearing : BOOLEAN,
            poll : {"off", "wait", "send", "late"},
            aether : BOOLEAN, tor : BOOLEAN]

Fresh   == [tun |-> NoFd, block |-> NoFd, tearing |-> FALSE, poll |-> "off",
            aether |-> FALSE, tor |-> FALSE]
IdleJob == [pc |-> "idle", inst |-> NoInst, cfg |-> NoConfig, fd |-> NoFd]
NoCore  == [fd |-> NoFd, cfg |-> NoConfig]

Init == /\ intents = <<>> /\ broadcasts = <<>>
        /\ alive = FALSE /\ current = NoInst
        /\ svc = [i \in Inst |-> Fresh]
        /\ jobs = [j \in Job |-> IdleJob]
        /\ main = "idle"
        /\ core = NoCore /\ engines = {}
        /\ fds = [f \in Fd |-> "closed"] /\ vpn = NoFd
        /\ killPending = FALSE /\ sticky = FALSE
        /\ killPref \in {"on", "off"} /\ killCache = "unread"

-----------------------------------------------------------------------------
(* Descriptors and the engine. *)

\* The descriptors of S are closed; an interface goes with its descriptor.
CloseAll(S) == /\ fds' = [f \in Fd |-> IF f \in S THEN "closed" ELSE fds[f]]
               /\ vpn' = IF vpn \in S THEN NoFd ELSE vpn

\* ParcelFileDescriptor.close(): nothing if it is closed or detached.
Pfd(x) == {f \in Fd : f = x /\ fds[f] = "pfd"}

\* What gozarcore.Stop and the head of gozarcore.Start close.
CoreFds == {core.fd} \cap Fd

\* Descriptors no object refers to.
FreeFds == {f \in Fd : /\ fds[f] = "closed" /\ core.fd # f
                       /\ \A i \in Inst : svc[i].tun # f /\ svc[i].block # f
                       /\ \A j \in Job : jobs[j].fd # f}

\* Builder.establish() succeeds: the new interface takes over the routes.
Establish(f) == /\ fds' = [fds EXCEPT ![f] = "pfd"]
                /\ vpn' = f

\* ConfigStore.get(..).killSwitch: read from disk once per process.
KillSwitch == IF killCache = "unread" THEN killPref ELSE killCache
ReadPrefs  == killCache' = KillSwitch /\ UNCHANGED killPref

\* Mutant of Cancel: the reference to the cancelled job is kept.
CancelKeepsJob(poll) == IF poll \in {"send", "late"} THEN "late" ELSE "cancelled"

\* Job.cancel(): a loop between its test and its send still sends once.
Cancel(poll) == IF poll \in {"send", "late"} THEN "late" ELSE "off"

-----------------------------------------------------------------------------
(* stopSelf() and die(). *)

HasDestroy(q) == \E n \in 1..Len(q) : q[n].act = "DESTROY"

\* stopSelf() of object i: onDestroy queues up; nothing for an object that is
\* already on its way out.
StopSelf(i, q) == IF i = current' /\ ~HasDestroy(q) THEN Append(q, Destroy) ELSE q

\* The part of die() behind its two tests: i has fields s, and S is what the
\* caller closed before.
TearDown(i, s, S, msg) ==
    /\ svc' = [svc EXCEPT ![i] = [s EXCEPT !.tearing = TRUE, !.poll = Cancel(s.poll)]]
    /\ core' = NoCore
    /\ engines' = {}
    /\ CloseAll(S \cup CoreFds)
    /\ Broadcast(msg)
    /\ killPending' = TRUE

\* Mutant of CloseTunnel: the old blocking interface is closed as well.
CloseTunnelAndBlock(i, s) ==
    /\ svc' = [svc EXCEPT ![i] = [s EXCEPT !.tun = NoFd, !.block = NoFd,
                                           !.poll = Cancel(s.poll)]]
    /\ core' = NoCore
    /\ engines' = {}
    /\ CloseAll(Pfd(s.tun) \cup Pfd(s.block) \cup CoreFds)
    /\ UNCHANGED <<killPending, broadcasts>>

\* enterKillSwitch up to the point where the tunnel is closed.
CloseTunnel(i, s) ==
    /\ svc' = [svc EXCEPT ![i] = [s EXCEPT !.tun = NoFd, !.poll = Cancel(s.poll)]]
    /\ core' = NoCore
    /\ engines' = {}
    /\ CloseAll(Pfd(s.tun) \cup CoreFds)
    /\ UNCHANGED <<killPending, broadcasts>>

\* The rest of enterKillSwitch: the blocking interface, which may be refused.
BlockTraffic(i) ==
    /\ \/ \E f \in FreeFds : /\ Establish(f)
                             /\ svc' = [svc EXCEPT ![i].block = f]
       \/ /\ svc' = [svc EXCEPT ![i].block = NoFd]
          /\ UNCHANGED osVars
    /\ Broadcast("error")
    /\ UNCHANGED <<core, engines, killPending>>

\* die() returns at once.
DieIgnored(i, s, S) ==
    /\ s.tearing
    /\ svc' = [svc EXCEPT ![i] = s]
    /\ CloseAll(S)
    /\ UNCHANGED <<core, engines, killPending, killCache, killPref, broadcasts>>

-----------------------------------------------------------------------------
(* onStartCommand and onDestroy: the main thread. *)

\* A new object can only take a place no coroutine refers to.
Collectable(i) == /\ svc[i].poll = "off"
                  /\ \A j \in Job : jobs[j].inst # i

\* The intent at the head goes to the current object, or to a new one.
Receives(i, act) == /\ main = "idle"
                    /\ intents # <<>>
                    /\ Head(intents).act = act
                    /\ current = i \/ (current = NoInst /\ Collectable(i))
                    /\ alive' = TRUE
                    /\ current' = i

Fields(i) == IF current = i THEN svc[i] ELSE Fresh

OnStop(i) ==
    LET s == [Fields(i) EXCEPT !.block = NoFd]
        S == Pfd(Fields(i).block)
    IN  /\ Receives(i, "STOP")
        /\ \/ /\ DieIgnored(i, s, S)
              /\ intents' = Tail(intents)
           \/ /\ ~s.tearing
              /\ TearDown(i, s, S, "disconnected")
              /\ ReadPrefs
              /\ intents' = StopSelf(i, Tail(intents))
        /\ sticky' = FALSE
        /\ UNCHANGED <<jobs, main>>

\* Mutant of OnWarm: a running tunnel is not reported.
OnWarmSilent(i) ==
    /\ Receives(i, "WARM")
    /\ svc' = [svc EXCEPT ![i] = Fields(i)]
    /\ sticky' = (Fields(i).tun # NoFd /\ ~HasDestroy(Tail(intents)))
    /\ intents' = Tail(intents)
    /\ UNCHANGED <<broadcasts, jobs, main, core, engines, fds, vpn, killPending, prefs>>

OnWarm(i) ==
    /\ Receives(i, "WARM")
    /\ svc' = [svc EXCEPT ![i] = Fields(i)]
    /\ IF Fields(i).tun # NoFd THEN Broadcast("connected") ELSE UNCHANGED broadcasts
    /\ sticky' = (Fields(i).tun # NoFd /\ ~HasDestroy(Tail(intents)))
    /\ intents' = Tail(intents)
    /\ UNCHANGED <<jobs, main, core, engines, fds, vpn, killPending, prefs>>

\* startTunnel: the specs of the intent are stored even when the call returns
\* because a tunnel is up.
OnStart(i) ==
    LET c == Head(intents).cfg
        s == [Fields(i) EXCEPT !.aether = c \in AetherConfigs, !.tor = c \in TorConfigs]
    IN  /\ Receives(i, "START")
        /\ c # NoConfig
        /\ \/ /\ s.tun # NoFd
              /\ svc' = [svc EXCEPT ![i] = s]
              /\ UNCHANGED jobs
           \/ /\ s.tun = NoFd
              /\ svc' = [svc EXCEPT ![i] = [s EXCEPT !.tearing = FALSE]]
              /\ \E j \in Job :
                    /\ jobs[j].pc = "idle"
                    /\ jobs' = [jobs EXCEPT ![j] = [pc |-> "establish", inst |-> i,
                                                    cfg |-> c, fd |-> NoFd]]
        /\ sticky' = ~HasDestroy(Tail(intents))
        /\ intents' = Tail(intents)
        /\ UNCHANGED <<main, core, engines, fds, vpn, killPending, prefs, broadcasts>>

\* The null intent of a sticky restart: die("No config provided").
OnNullStart(i) ==
    LET s == [Fields(i) EXCEPT !.aether = FALSE, !.tor = FALSE]
    IN  /\ Receives(i, "START")
        /\ Head(intents).cfg = NoConfig
        /\ \/ /\ DieIgnored(i, s, {})
              /\ intents' = Tail(intents)
              /\ sticky' = FALSE
              /\ UNCHANGED main
           \/ /\ ~s.tearing /\ KillSwitch = "on"
              /\ CloseTunnel(i, s)
              /\ ReadPrefs
              /\ main' = "block"
              /\ intents' = Tail(intents)
              /\ UNCHANGED sticky
           \/ /\ ~s.tearing /\ KillSwitch = "off"
              /\ TearDown(i, s, {}, "error")
              /\ ReadPrefs
              /\ intents' = StopSelf(i, Tail(intents))
              /\ sticky' = FALSE
              /\ UNCHANGED main
        /\ UNCHANGED jobs

\* The main thread finishes enterKillSwitch and returns START_NOT_STICKY.
MainBlock ==
    /\ main = "block"
    /\ BlockTraffic(current)
    /\ main' = "idle"
    /\ sticky' = FALSE
    /\ UNCHANGED <<intents, alive, current, jobs, prefs>>

OnDestroy(i) ==
    /\ main = "idle" /\ current = i
    /\ intents # <<>> /\ Head(intents).act = "DESTROY"
    /\ intents' = Tail(intents)
    /\ engines' = {}
    /\ CloseAll(Pfd(svc[i].block))
    /\ svc' = [svc EXCEPT ![i].block = NoFd]
    /\ current' = NoInst
    /\ UNCHANGED <<broadcasts, alive, jobs, main, core, killPending, sticky, prefs>>

-----------------------------------------------------------------------------
(* startTunnel's coroutine. *)

At(j, pc) == jobs[j].pc = pc
Goto(j, pc) == jobs' = [jobs EXCEPT ![j].pc = pc]
JobFrame == UNCHANGED <<alive, current, main, killPending>>

JobEstablish(j) ==
    /\ At(j, "establish")
    /\ \/ \E f \in FreeFds :
             /\ Establish(f)
             /\ svc' = [svc EXCEPT ![jobs[j].inst].tun = f]
             /\ jobs' = [jobs EXCEPT ![j].pc = "aether", ![j].fd = f]
       \/ /\ Goto(j, "die")
          /\ UNCHANGED <<svc, osVars>>
    /\ ReadPrefs
    /\ UNCHANGED <<intents, broadcasts, core, engines, sticky>> /\ JobFrame

\* The spec is the service's, not the one the job was launched with.
JobAether(j) ==
    /\ At(j, "aether")
    /\ IF svc[jobs[j].inst].aether
       THEN \/ Goto(j, "die") /\ UNCHANGED engines
            \/ Goto(j, "aetherWait") /\ engines' = engines \cup {"aether"}
       ELSE Goto(j, "core") /\ UNCHANGED engines
    /\ UNCHANGED <<intents, broadcasts, svc, core, osVars, sticky, prefs>> /\ JobFrame

JobAetherWait(j) ==
    /\ At(j, "aetherWait")
    /\ \/ "aether" \in engines /\ Goto(j, "core") /\ UNCHANGED engines
       \/ Goto(j, "die") /\ engines' = {}
    /\ UNCHANGED <<intents, broadcasts, svc, core, osVars, sticky, prefs>> /\ JobFrame

\* Gozarcore.stop() and pfd.detachFd(), which throws when another thread
\* closed the descriptor.
JobCore(j) ==
    LET f == jobs[j].fd
    IN  /\ At(j, "core")
        /\ core' = NoCore
        /\ \/ /\ fds[f] = "pfd"
              /\ fds' = [g \in Fd |-> IF g = f THEN "native"
                                      ELSE IF g \in CoreFds THEN "closed" ELSE fds[g]]
              /\ vpn' = IF vpn \in CoreFds THEN NoFd ELSE vpn
              /\ Goto(j, "start")
           \/ /\ fds[f] # "pfd"
              /\ CloseAll(CoreFds)
              /\ Goto(j, "die")
        /\ UNCHANGED <<intents, broadcasts, svc, engines, sticky, prefs>> /\ JobFrame

\* Mutant of JobStart: the descriptor is recorded after the config is loaded.
JobStartRecordsLate(j) ==
    /\ At(j, "start")
    /\ CloseAll(CoreFds)
    /\ \/ /\ core' = [fd |-> jobs[j].fd, cfg |-> jobs[j].cfg]
          /\ Goto(j, "tor")
       \/ /\ core' = NoCore
          /\ Goto(j, "die")
    /\ UNCHANGED <<intents, broadcasts, svc, engines, sticky, prefs>> /\ JobFrame

\* Mutant of JobStart: what an earlier start recorded is not closed.
JobStartOverOld(j) ==
    /\ At(j, "start")
    /\ \/ /\ core' = [fd |-> jobs[j].fd, cfg |-> jobs[j].cfg]
          /\ Goto(j, "tor")
       \/ /\ core' = [fd |-> jobs[j].fd, cfg |-> NoConfig]
          /\ Goto(j, "die")
    /\ UNCHANGED <<intents, broadcasts, svc, engines, osVars, sticky, prefs>> /\ JobFrame

\* gozarcore.Start: the descriptor is recorded before the config is loaded, so
\* it is the engine's even when the start fails.
JobStart(j) ==
    /\ At(j, "start")
    /\ CloseAll(CoreFds)
    /\ \/ /\ core' = [fd |-> jobs[j].fd, cfg |-> jobs[j].cfg]
          /\ Goto(j, "tor")
       \/ /\ core' = [fd |-> jobs[j].fd, cfg |-> NoConfig]
          /\ Goto(j, "die")
    /\ UNCHANGED <<intents, broadcasts, svc, engines, sticky, prefs>> /\ JobFrame

JobTor(j) ==
    /\ At(j, "tor")
    /\ IF svc[jobs[j].inst].tor
       THEN \/ Goto(j, "die") /\ UNCHANGED engines
            \/ Goto(j, "torWait") /\ engines' = engines \cup {"tor"}
       ELSE Goto(j, "announce") /\ UNCHANGED engines
    /\ UNCHANGED <<intents, broadcasts, svc, core, osVars, sticky, prefs>> /\ JobFrame

\* Mutant of JobTorWait: the wait for the port has no end.
JobTorWaitForever(j) ==
    /\ At(j, "torWait")
    /\ "tor" \in engines /\ Goto(j, "announce")
    /\ UNCHANGED <<intents, broadcasts, svc, core, engines, osVars, sticky, prefs>> /\ JobFrame

JobTorWait(j) ==
    /\ At(j, "torWait")
    /\ \/ "tor" \in engines /\ Goto(j, "announce") /\ UNCHANGED engines
       \/ Goto(j, "die") /\ engines' = engines \ {"tor"}
    /\ UNCHANGED <<intents, broadcasts, svc, core, osVars, sticky, prefs>> /\ JobFrame

\* sendConnected and startPolling.
JobAnnounce(j) ==
    /\ At(j, "announce")
    /\ Broadcast("connected")
    /\ svc' = [svc EXCEPT ![jobs[j].inst].poll = "wait"]
    /\ jobs' = [jobs EXCEPT ![j] = IdleJob]
    /\ UNCHANGED <<intents, core, engines, osVars, sticky, prefs>> /\ JobFrame

\* Mutant of JobDie: the kill switch is not asked.
JobDieAlways(j) ==
    LET i == jobs[j].inst
    IN  /\ At(j, "die")
        /\ UNCHANGED <<alive, current, main>>
        /\ jobs' = [jobs EXCEPT ![j] = IdleJob]
        /\ \/ /\ DieIgnored(i, svc[i], {})
              /\ UNCHANGED <<intents, sticky>>
           \/ /\ ~svc[i].tearing
              /\ TearDown(i, svc[i], {}, "error")
              /\ ReadPrefs
              /\ intents' = StopSelf(i, intents)
              /\ sticky' = (sticky /\ i # current)

\* die(error) on the coroutine's thread.
JobDie(j) ==
    LET i == jobs[j].inst
    IN  /\ At(j, "die")
        /\ UNCHANGED <<alive, current, main>>
        /\ \/ /\ DieIgnored(i, svc[i], {})
              /\ jobs' = [jobs EXCEPT ![j] = IdleJob]
              /\ UNCHANGED <<intents, sticky>>
           \/ /\ ~svc[i].tearing /\ KillSwitch = "on"
              /\ CloseTunnel(i, svc[i])
              /\ ReadPrefs
              /\ Goto(j, "block")
              /\ UNCHANGED <<intents, sticky>>
           \/ /\ ~svc[i].tearing /\ KillSwitch = "off"
              /\ TearDown(i, svc[i], {}, "error")
              /\ ReadPrefs
              /\ jobs' = [jobs EXCEPT ![j] = IdleJob]
              /\ intents' = StopSelf(i, intents)
              /\ sticky' = (sticky /\ i # current)

JobBlock(j) ==
    /\ At(j, "block")
    /\ BlockTraffic(jobs[j].inst)
    /\ jobs' = [jobs EXCEPT ![j] = IdleJob]
    /\ UNCHANGED <<intents, alive, current, main, sticky, prefs>>

-----------------------------------------------------------------------------
(* startPolling's loop. *)

PollCheck(i) ==
    /\ svc[i].poll = "wait"
    /\ svc' = [svc EXCEPT ![i].poll = IF svc[i].tearing THEN "off" ELSE "send"]
    /\ UNCHANGED <<intents, broadcasts, alive, current, jobs, main, core, engines,
                   osVars, killPending, sticky, prefs>>

\* Bound: at most one counters broadcast waits for the receiver.
PollSend(i) ==
    /\ svc[i].poll \in {"send", "late"}
    /\ \A n \in 1..Len(broadcasts) : broadcasts[n] # "counters"
    /\ Broadcast("counters")
    /\ svc' = [svc EXCEPT ![i].poll = IF svc[i].poll = "send" THEN "wait" ELSE "off"]
    /\ UNCHANGED <<intents, alive, current, jobs, main, core, engines,
                   osVars, killPending, sticky, prefs>>

-----------------------------------------------------------------------------
(* Android (external) and the process's end. *)

\* Intents for an object that was told to stop go with the process; the ones
\* behind its onDestroy wait for a new object.
Undelivered(q) ==
    IF HasDestroy(q)
    THEN LET n == CHOOSE k \in 1..Len(q) : q[k].act = "DESTROY"
         IN  SubSeq(q, n + 1, Len(q))
    ELSE q

ProcessDeath ==
    /\ alive' = FALSE /\ current' = NoInst
    /\ svc' = [i \in Inst |-> Fresh]
    /\ jobs' = [j \in Job |-> IdleJob]
    /\ main' = "idle"
    /\ core' = NoCore /\ engines' = {}
    /\ fds' = [f \in Fd |-> "closed"] /\ vpn' = NoFd
    /\ killPending' = FALSE
    /\ killCache' = "unread"
    /\ intents' = Undelivered(intents)
    /\ UNCHANGED <<broadcasts, sticky, killPref>>

\* Mutant of KillProcess: the timer looks at tearingDown again, which a START
\* in the meantime has reset.
KillIfTearing == alive /\ killPending /\ (\E i \in Inst : svc[i].tearing) /\ ProcessDeath

\* killProcess, 60 ms after die().
KillProcess == alive /\ killPending /\ ProcessDeath

\* The process is killed from outside or crashes.
Crash == alive /\ ProcessDeath

\* Android restarts a sticky service with a null intent.
RestartSticky == /\ ~alive /\ sticky /\ intents = <<>>
                 /\ intents' = <<Start(NoConfig)>>
                 /\ UNCHANGED <<broadcasts, svcVars>>

\* Another VPN app takes over: the interface goes, and onRevoke, which the
\* service does not override, is stopSelf().  Nothing ends the polling loop, so
\* the object stays; bound: there is a place for the object that comes next.
OnRevoke == /\ current # NoInst /\ vpn # NoFd
            /\ \E i \in Inst \ {current} : Collectable(i)
            /\ vpn' = NoFd
            /\ UNCHANGED <<broadcasts, alive, current, svc, jobs, main, core, engines,
                           fds, killPending, prefs>>
            /\ intents' = StopSelf(current, intents)
            /\ sticky' = FALSE

-----------------------------------------------------------------------------
(* The other process, as far as the service can tell. *)

Send(m) == StartService(m) /\ UNCHANGED <<broadcasts, svcVars>>

SetKillSwitch == /\ killPref' = IF killPref = "on" THEN "off" ELSE "on"
                 /\ UNCHANGED <<intents, broadcasts, alive, current, svc, jobs, main, core,
                                engines, fds, vpn, killPending, sticky, killCache>>

\* The receiver takes a broadcast, or its process dies with all of them.
Receive == /\ broadcasts # <<>>
           /\ broadcasts' \in {Tail(broadcasts), <<>>}
           /\ UNCHANGED <<intents, svcVars>>

-----------------------------------------------------------------------------
MainThread == MainBlock \/ \E i \in Inst : \/ OnStop(i) \/ OnWarm(i) \/ OnStart(i)
                                           \/ OnNullStart(i) \/ OnDestroy(i)

JobStep(j) == \/ JobEstablish(j) \/ JobAether(j) \/ JobAetherWait(j) \/ JobCore(j)
              \/ JobStart(j) \/ JobTor(j) \/ JobTorWait(j) \/ JobAnnounce(j)
              \/ JobDie(j) \/ JobBlock(j)

ServiceNext == \/ MainThread
               \/ \E j \in Job : JobStep(j)
               \/ \E i \in Inst : PollCheck(i) \/ PollSend(i)
               \/ KillProcess \/ Crash \/ RestartSticky \/ OnRevoke

ClientNext == Receive \/ SetKillSwitch \/ \E m \in Requests : Send(m)

Next == ServiceNext \/ ClientNext

Spec == Init /\ [][Next]_vars

\* The threads of the process and of the receiver keep running, the 60 ms
\* timer of die() fires, and Android restarts a sticky service.  Nobody is
\* obliged to send an intent, and no crash has to happen.  sendBroadcast never
\* waits in the code: strong fairness makes up for the bound MaxBroadcasts,
\* which disables a sender while the model's queue is full.
Fairness == /\ SF_vars(MainThread) /\ WF_vars(KillProcess)
            /\ WF_vars(RestartSticky) /\ WF_vars(Receive)
            /\ \A j \in Job : SF_vars(JobStep(j))

FairSpec == Spec /\ Fairness

-----------------------------------------------------------------------------
(* Properties. *)

\* Every variable of the process has its type.
TypeOK ==
    /\ ChannelsOK
    /\ alive \in BOOLEAN
    /\ current \in Inst \cup {NoInst}
    /\ svc \in [Inst -> Service]
    /\ jobs \in [Job -> [pc : Pc, inst : Inst \cup {NoInst},
                         cfg : Configs \cup {NoConfig}, fd : Fd \cup {NoFd}]]
    /\ main \in {"idle", "block"}
    /\ core \in [fd : Fd \cup {NoFd}, cfg : Configs \cup {NoConfig}]
    /\ engines \subseteq {"aether", "tor"}
    /\ fds \in [Fd -> {"closed", "pfd", "native"}]
    /\ vpn \in Fd \cup {NoFd}
    /\ killPending \in BOOLEAN /\ sticky \in BOOLEAN
    /\ killPref \in {"on", "off"}
    /\ killCache \in {"unread", "on", "off"}

\* detachFd() hands a descriptor to gozarcore for good.  However the start
\* coroutines interleave, a detached descriptor has exactly one owner: the
\* engine, which closes it, or the one coroutine between detachFd() and
\* Gozarcore.start.  Nothing leaks and nothing is closed twice.
DetachedFdHasOneOwner ==
    \A f \in Fd : fds[f] = "native" =>
        \/ /\ core.fd = f
           /\ \A j \in Job : ~(At(j, "start") /\ jobs[j].fd = f)
        \/ /\ core.fd # f
           /\ \E j \in Job : /\ At(j, "start") /\ jobs[j].fd = f
                             /\ \A k \in Job \ {j} : ~(At(k, "start") /\ jobs[k].fd = f)

\* Who holds which descriptor, strong enough to be preserved by every step:
\* what gozarcore.Start recorded is open, also when the start failed; a
\* coroutine keeps its own descriptor, which is not detached before it does
\* that itself and not the engine's before it hands it over; and every detached
\* descriptor is held by the engine or by such a coroutine.
EngineFdOpen == core.fd # NoFd => fds[core.fd] = "native"
JobFdsDistinct == \A j, k \in Job : jobs[j].fd = jobs[k].fd /\ j # k => jobs[j].fd = NoFd
AttachedUntilCore ==
    \A j \in Job : jobs[j].pc \in {"aether", "aetherWait", "core"}
                     => jobs[j].fd # NoFd /\ fds[jobs[j].fd] # "native"
DetachedUntilStart ==
    \A j \in Job : At(j, "start")
                     => /\ jobs[j].fd # NoFd /\ fds[jobs[j].fd] = "native"
                        /\ core.fd # jobs[j].fd
NativeIsHeld ==
    \A f \in Fd : fds[f] = "native"
                    => core.fd = f \/ \E j \in Job : At(j, "start") /\ jobs[j].fd = f
FdOwnership == /\ EngineFdOpen /\ JobFdsDistinct /\ AttachedUntilCore
               /\ DetachedUntilStart /\ NativeIsHeld

\* Android routes traffic only into a descriptor that somebody holds open.
InterfaceIsOpen == vpn # NoFd => vpn \in Fd /\ fds[vpn] # "closed"

\* No step leads from the interface that blocks traffic straight to none at
\* all, except the handling of STOP or onDestroy, a revocation and the death of
\* the process: no start coroutine and no error of an engine closes the block.
\* It is a START's tunnel that may replace the block, and what becomes of that
\* tunnel later, like the gap before the block exists, is not spoken of here.
BlockHolds ==
    [][ (\E i \in Inst : vpn = svc[i].block /\ vpn # NoFd) /\ vpn' = NoFd
        => \/ intents # <<>> /\ Head(intents).act \in {"STOP", "DESTROY"} /\ main = "idle"
           \/ OnRevoke \/ ~alive' ]_vars

\* With the kill switch on, as this process has read it, an error never ends
\* the service: only a STOP schedules the kill.
KillSwitchKeepsService ==
    [][ KillSwitch = "on" /\ ~killPending /\ killPending'
        => intents # <<>> /\ Head(intents).act = "STOP" ]_vars

\* A STOP that has been delivered ends the process, whatever the start
\* coroutines are doing.
StopEndsProcess == (intents # <<>> /\ Head(intents).act = "STOP") ~> ~alive

\* Every start coroutine ends, with an announcement or in die().
StartEnds == \A j \in Job : (jobs[j].pc # "idle") ~> (jobs[j].pc = "idle")

\* README: with the kill switch on, an error of the tunnel blocks traffic
\* instead of ending the service - for the preference the user has set.
ErrorEntersKillSwitch ==
    [][ /\ killPref = "on" /\ Len(broadcasts') > Len(broadcasts)
        /\ broadcasts'[Len(broadcasts')] = "error"
        => ~killPending' \/ killPending ]_vars
=============================================================================
