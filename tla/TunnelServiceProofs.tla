---------------------- MODULE TunnelServiceProofs ----------------------
(***************************************************************************)
(* Proofs about TunnelService, for any number of descriptors, service      *)
(* objects, coroutines and configs, and any bound on the channels.         *)
(***************************************************************************)
EXTENDS TunnelService, TLAPS

-----------------------------------------------------------------------------
(* Lemmas about the operators the actions are built from. *)

\* The queue operations keep a sequence of intents one.
LEMMA QueueType ==
    ASSUME NEW q \in Seq(Intent), NEW i
    PROVE  /\ StopSelf(i, q) \in Seq(Intent)
           /\ q # <<>> => Tail(q) \in Seq(Intent) /\ Head(q) \in Intent
           /\ Undelivered(q) \in Seq(Intent)
<1>1. Destroy \in Intent
  BY DEF Destroy, Intent
<1>2. StopSelf(i, q) \in Seq(Intent)
  BY <1>1 DEF StopSelf
<1>3. Undelivered(q) \in Seq(Intent)
  <2>1. CASE HasDestroy(q)
    <3> DEFINE n == CHOOSE k \in 1..Len(q) : q[k].act = "DESTROY"
    <3>1. n \in 1..Len(q)
      BY <2>1 DEF HasDestroy
    <3>2. SubSeq(q, n + 1, Len(q)) \in Seq(Intent)
      <4>1. \A k \in (n+1)..Len(q) : q[k] \in Intent
        BY <3>1
      <4> QED BY <3>1, <4>1
    <3> QED BY <2>1, <3>2 DEF Undelivered
  <2>2. CASE ~HasDestroy(q)
    BY <2>2 DEF Undelivered
  <2> QED BY <2>1, <2>2
<1> QED BY <1>2, <1>3

\* A broadcast keeps the channel a sequence of messages.
LEMMA BroadcastType ==
    ASSUME broadcasts \in Seq(Message), NEW m \in Message, Broadcast(m)
    PROVE  broadcasts' \in Seq(Message)
BY DEF Broadcast

\* Closing descriptors keeps the types of fds and vpn.
LEMMA CloseType ==
    ASSUME TypeOK, NEW S, CloseAll(S)
    PROVE  /\ fds' \in [Fd -> {"closed", "pfd", "native"}]
           /\ vpn' \in Fd \cup {NoFd}
BY DEF TypeOK, CloseAll

\* The bodies of die() keep the types of what they assign.
LEMMA DieType ==
    ASSUME TypeOK, NEW i, NEW s, i \in Inst => s \in Service
    PROVE  /\ \A S, m : m \in Message /\ TearDown(i, s, S, m)
                => /\ svc' \in [Inst -> Service] /\ broadcasts' \in Seq(Message)
                   /\ core' = NoCore /\ engines' = {} /\ killPending' = TRUE
                   /\ fds' \in [Fd -> {"closed", "pfd", "native"}]
                   /\ vpn' \in Fd \cup {NoFd}
           /\ CloseTunnel(i, s)
                => /\ svc' \in [Inst -> Service] /\ broadcasts' \in Seq(Message)
                   /\ core' = NoCore /\ engines' = {} /\ killPending' = killPending
                   /\ fds' \in [Fd -> {"closed", "pfd", "native"}]
                   /\ vpn' \in Fd \cup {NoFd}
           /\ \A S : DieIgnored(i, s, S)
                => /\ svc' \in [Inst -> Service] /\ broadcasts' \in Seq(Message)
                   /\ UNCHANGED <<core, engines, killPending, killPref, killCache>>
                   /\ fds' \in [Fd -> {"closed", "pfd", "native"}]
                   /\ vpn' \in Fd \cup {NoFd}
           /\ BlockTraffic(i)
                => /\ svc' \in [Inst -> Service] /\ broadcasts' \in Seq(Message)
                   /\ UNCHANGED <<core, engines, killPending>>
                   /\ fds' \in [Fd -> {"closed", "pfd", "native"}]
                   /\ vpn' \in Fd \cup {NoFd}
<1>1. broadcasts \in Seq(Message) /\ svc \in [Inst -> Service]
  BY DEF TypeOK, ChannelsOK
<1>2. \A t : (i \in Inst => t \in Service) => [svc EXCEPT ![i] = t] \in [Inst -> Service]
  BY <1>1
<1>3. i \in Inst => /\ [s EXCEPT !.tearing = TRUE, !.poll = Cancel(s.poll)] \in Service
                    /\ [s EXCEPT !.tun = NoFd, !.poll = Cancel(s.poll)] \in Service
  BY DEF Service, Cancel
<1>4. ASSUME NEW S, NEW m \in Message, TearDown(i, s, S, m)
      PROVE  /\ svc' \in [Inst -> Service] /\ broadcasts' \in Seq(Message)
             /\ core' = NoCore /\ engines' = {} /\ killPending' = TRUE
             /\ fds' \in [Fd -> {"closed", "pfd", "native"}]
             /\ vpn' \in Fd \cup {NoFd}
  <2>1. CloseAll(S \cup CoreFds) /\ Broadcast(m)
    BY <1>4 DEF TearDown
  <2>2. svc' \in [Inst -> Service]
    BY <1>2, <1>3, <1>4 DEF TearDown
  <2> QED BY <1>1, <1>4, <2>1, <2>2, CloseType, BroadcastType DEF TearDown
<1>5. ASSUME CloseTunnel(i, s)
      PROVE  /\ svc' \in [Inst -> Service] /\ broadcasts' \in Seq(Message)
             /\ core' = NoCore /\ engines' = {} /\ killPending' = killPending
             /\ fds' \in [Fd -> {"closed", "pfd", "native"}]
             /\ vpn' \in Fd \cup {NoFd}
  <2>1. CloseAll(Pfd(s.tun) \cup CoreFds)
    BY <1>5 DEF CloseTunnel
  <2>2. svc' \in [Inst -> Service]
    BY <1>2, <1>3, <1>5 DEF CloseTunnel
  <2> QED BY <1>1, <1>5, <2>1, <2>2, CloseType DEF CloseTunnel
<1>6. ASSUME NEW S, DieIgnored(i, s, S)
      PROVE  /\ svc' \in [Inst -> Service] /\ broadcasts' \in Seq(Message)
             /\ UNCHANGED <<core, engines, killPending, killPref, killCache>>
             /\ fds' \in [Fd -> {"closed", "pfd", "native"}]
             /\ vpn' \in Fd \cup {NoFd}
  <2>1. CloseAll(S) /\ svc' \in [Inst -> Service]
    BY <1>2, <1>6 DEF DieIgnored
  <2> QED BY <1>1, <1>6, <2>1, CloseType DEF DieIgnored
<1>7. ASSUME BlockTraffic(i)
      PROVE  /\ svc' \in [Inst -> Service] /\ broadcasts' \in Seq(Message)
             /\ UNCHANGED <<core, engines, killPending>>
             /\ fds' \in [Fd -> {"closed", "pfd", "native"}]
             /\ vpn' \in Fd \cup {NoFd}
  <2>1. Broadcast("error") /\ "error" \in Message
    BY <1>7 DEF BlockTraffic, Message
  <2>2. broadcasts' \in Seq(Message)
    BY <1>1, <2>1, BroadcastType
  <2>3. \A f \in Fd \cup {NoFd} : [svc EXCEPT ![i].block = f] \in [Inst -> Service]
    BY <1>1 DEF Service
  <2>4. svc' \in [Inst -> Service]
    <3>1. \E f \in Fd \cup {NoFd} : svc' = [svc EXCEPT ![i].block = f]
      BY <1>7 DEF BlockTraffic, FreeFds
    <3> QED BY <2>3, <3>1
  <2>5. /\ fds' \in [Fd -> {"closed", "pfd", "native"}]
        /\ vpn' \in Fd \cup {NoFd}
    BY <1>7 DEF BlockTraffic, FreeFds, Establish, TypeOK, osVars
  <2> QED BY <1>7, <2>2, <2>4, <2>5 DEF BlockTraffic
<1> QED BY <1>4, <1>5, <1>6, <1>7

-----------------------------------------------------------------------------
(* Type correctness. *)

JobType == [pc : Pc, inst : Inst \cup {NoInst},
            cfg : Configs \cup {NoConfig}, fd : Fd \cup {NoFd}]

\* The fields an intent finds, of the current object or of a new one.
LEMMA FieldsType ==
    ASSUME TypeOK, NEW i \in Inst
    PROVE  Fields(i) \in Service
BY DEF TypeOK, Fields, Fresh, Service

\* Moving a coroutine to another state, with or without a new descriptor, and
\* ending it keep the type of jobs.
LEMMA JobUpdateType ==
    ASSUME TypeOK, NEW j \in Job
    PROVE  /\ \A r \in JobType : [jobs EXCEPT ![j] = r] \in [Job -> JobType]
           /\ \A pc \in Pc : Goto(j, pc) => jobs' \in [Job -> JobType]
           /\ \A pc \in Pc, f \in Fd :
                 [jobs EXCEPT ![j].pc = pc, ![j].fd = f] \in [Job -> JobType]
           /\ IdleJob \in JobType
<1>1. jobs \in [Job -> JobType]
  BY DEF TypeOK, JobType
<1>2. IdleJob \in JobType
  BY DEF IdleJob, JobType, Pc
<1>3. ASSUME NEW pc \in Pc, Goto(j, pc)
      PROVE  jobs' \in [Job -> JobType]
  <2>1. jobs' = [jobs EXCEPT ![j].pc = pc]
    BY <1>3 DEF Goto
  <2> QED BY <1>1, <2>1 DEF JobType
<1>4. ASSUME NEW pc \in Pc, NEW f \in Fd
      PROVE  [jobs EXCEPT ![j].pc = pc, ![j].fd = f] \in [Job -> JobType]
  BY <1>1 DEF JobType
<1> QED BY <1>1, <1>2, <1>3, <1>4

\* Reading the kill-switch preference keeps the types of both copies.
LEMMA PrefsType ==
    ASSUME TypeOK, ReadPrefs
    PROVE  killPref' \in {"on", "off"} /\ killCache' \in {"unread", "on", "off"}
BY DEF TypeOK, ReadPrefs, KillSwitch

\* Every step of the main thread (onStartCommand, the end of enterKillSwitch,
\* onDestroy) keeps the types.
LEMMA MainTypes ==
    ASSUME TypeOK, NEW i \in Inst,
           OnStop(i) \/ OnWarm(i) \/ OnStart(i) \/ OnNullStart(i) \/ OnDestroy(i)
    PROVE  TypeOK'
<1>0. /\ intents \in Seq(Intent) /\ broadcasts \in Seq(Message)
      /\ svc \in [Inst -> Service] /\ Fields(i) \in Service
  BY FieldsType DEF TypeOK, ChannelsOK
<1>m. /\ "disconnected" \in Message /\ "error" \in Message /\ "connected" \in Message
  BY DEF Message
<1>1. CASE OnStop(i)
  <2> DEFINE s == [Fields(i) EXCEPT !.block = NoFd]
             S == Pfd(Fields(i).block)
  <2>1. s \in Service
    BY <1>0 DEF Service
  <2> HIDE DEF s, S
  <2>2. /\ intents # <<>> /\ alive' = TRUE /\ current' = i /\ sticky' = FALSE
        /\ UNCHANGED <<jobs, main>>
        /\ \/ DieIgnored(i, s, S) /\ intents' = Tail(intents)
           \/ /\ TearDown(i, s, S, "disconnected") /\ ReadPrefs
              /\ intents' = StopSelf(i, Tail(intents))
    BY <1>1 DEF OnStop, Receives, s, S
  <2>3. intents' \in Seq(Intent)
    BY <1>0, <2>2, QueueType
  <2>4. /\ svc' \in [Inst -> Service] /\ broadcasts' \in Seq(Message)
        /\ fds' \in [Fd -> {"closed", "pfd", "native"}] /\ vpn' \in Fd \cup {NoFd}
    BY <1>m, <2>1, <2>2, DieType
  <2>5. killPref' \in {"on", "off"} /\ killCache' \in {"unread", "on", "off"}
    BY <2>2, PrefsType DEF TypeOK, DieIgnored
  <2>6. /\ core' = NoCore \/ UNCHANGED core
        /\ engines' = {} \/ UNCHANGED engines
        /\ killPending' = TRUE \/ UNCHANGED killPending
    BY <2>2 DEF DieIgnored, TearDown, CloseTunnel
  <2>7. core' \in [fd : Fd \cup {NoFd}, cfg : Configs \cup {NoConfig}]
    BY <2>6 DEF TypeOK, NoCore
  <2>8. killPending' \in BOOLEAN
    BY <2>6 DEF TypeOK
  <2>9. engines' \subseteq {"aether", "tor"}
    BY <2>6 DEF TypeOK
  <2> QED BY <2>2, <2>3, <2>4, <2>5, <2>7, <2>8, <2>9 DEF TypeOK, ChannelsOK
<1>2. CASE OnWarm(i)
  <2>1. intents' \in Seq(Intent)
    BY <1>0, <1>2, QueueType DEF OnWarm, Receives
  <2>2. broadcasts' \in Seq(Message)
    BY <1>0, <1>2, <1>m, BroadcastType DEF OnWarm
  <2>3. svc' \in [Inst -> Service]
    BY <1>0, <1>2 DEF OnWarm
  <2> QED BY <1>2, <2>1, <2>2, <2>3 DEF TypeOK, ChannelsOK, OnWarm, Receives, prefs
<1>3. CASE OnStart(i)
  <2>0. intents # <<>> /\ Head(intents) \in Intent
    BY <1>0, <1>3, QueueType DEF OnStart, Receives
  <2>1. intents' \in Seq(Intent)
    BY <1>0, <1>3, <2>0, QueueType DEF OnStart
  <2> DEFINE c == Head(intents).cfg
             s == [Fields(i) EXCEPT !.aether = c \in AetherConfigs, !.tor = c \in TorConfigs]
  <2>2. c \in Configs \cup {NoConfig}
    BY <2>0 DEF Intent
  <2>3. s \in Service /\ [s EXCEPT !.tearing = FALSE] \in Service
    <3>1. \A a, b \in BOOLEAN : [Fields(i) EXCEPT !.aether = a, !.tor = b] \in Service
      BY <1>0 DEF Service
    <3>2. (c \in AetherConfigs) \in BOOLEAN /\ (c \in TorConfigs) \in BOOLEAN
      BY SMT
    <3>3. s \in Service
      BY <3>1, <3>2, Zenon
    <3> HIDE DEF s
    <3> QED BY <3>3 DEF Service
  <2>4. /\ \/ svc' = [svc EXCEPT ![i] = s] /\ UNCHANGED jobs
           \/ /\ svc' = [svc EXCEPT ![i] = [s EXCEPT !.tearing = FALSE]]
              /\ \E j \in Job :
                    jobs' = [jobs EXCEPT ![j] = [pc |-> "establish", inst |-> i,
                                                 cfg |-> c, fd |-> NoFd]]
        /\ sticky' \in BOOLEAN /\ alive' = TRUE /\ current' = i
        /\ UNCHANGED <<main, core, engines, fds, vpn, killPending, prefs, broadcasts>>
    BY <1>3 DEF OnStart, Receives
  <2> HIDE DEF s
  <2>5. svc' \in [Inst -> Service]
    BY <1>0, <2>3, <2>4
  <2>6. [pc |-> "establish", inst |-> i, cfg |-> c, fd |-> NoFd] \in JobType
    BY <2>2 DEF JobType, Pc
  <2>7. jobs' \in [Job -> JobType]
    BY <2>4, <2>6, JobUpdateType DEF TypeOK, JobType
  <2> QED BY <2>1, <2>4, <2>5, <2>7 DEF TypeOK, ChannelsOK, JobType, prefs
<1>4. CASE OnNullStart(i)
  <2> DEFINE s == [Fields(i) EXCEPT !.aether = FALSE, !.tor = FALSE]
  <2>1. s \in Service
    BY <1>0 DEF Service
  <2> HIDE DEF s
  <2>2. /\ intents # <<>> /\ alive' = TRUE /\ current' = i /\ UNCHANGED jobs
        /\ \/ DieIgnored(i, s, {}) /\ intents' = Tail(intents)
              /\ sticky' = FALSE /\ UNCHANGED main
           \/ CloseTunnel(i, s) /\ ReadPrefs /\ main' = "block"
              /\ intents' = Tail(intents) /\ UNCHANGED sticky
           \/ TearDown(i, s, {}, "error") /\ ReadPrefs /\ UNCHANGED main
              /\ intents' = StopSelf(i, Tail(intents)) /\ sticky' = FALSE
    BY <1>4 DEF OnNullStart, Receives, s
  <2>3. intents' \in Seq(Intent)
    BY <1>0, <2>2, QueueType
  <2>4. /\ svc' \in [Inst -> Service] /\ broadcasts' \in Seq(Message)
        /\ fds' \in [Fd -> {"closed", "pfd", "native"}] /\ vpn' \in Fd \cup {NoFd}
    BY <1>m, <2>1, <2>2, DieType
  <2>5. killPref' \in {"on", "off"} /\ killCache' \in {"unread", "on", "off"}
    BY <2>2, PrefsType DEF TypeOK, DieIgnored
  <2>6. /\ core' = NoCore \/ UNCHANGED core
        /\ engines' = {} \/ UNCHANGED engines
        /\ killPending' = TRUE \/ UNCHANGED killPending
    BY <2>2 DEF DieIgnored, TearDown, CloseTunnel
  <2>7. core' \in [fd : Fd \cup {NoFd}, cfg : Configs \cup {NoConfig}]
    BY <2>6 DEF TypeOK, NoCore
  <2>8. killPending' \in BOOLEAN
    BY <2>6 DEF TypeOK
  <2>9. engines' \subseteq {"aether", "tor"}
    BY <2>6 DEF TypeOK
  <2> QED BY <2>2, <2>3, <2>4, <2>5, <2>7, <2>8, <2>9 DEF TypeOK, ChannelsOK
<1>5. CASE OnDestroy(i)
  <2>1. intents' \in Seq(Intent)
    BY <1>0, <1>5, QueueType DEF OnDestroy
  <2>2. /\ fds' \in [Fd -> {"closed", "pfd", "native"}] /\ vpn' \in Fd \cup {NoFd}
    BY <1>5, CloseType DEF OnDestroy
  <2>3. svc' \in [Inst -> Service]
    BY <1>0, <1>5 DEF OnDestroy, Service
  <2> QED BY <1>5, <2>1, <2>2, <2>3 DEF TypeOK, ChannelsOK, OnDestroy, prefs
<1> QED BY <1>1, <1>2, <1>3, <1>4, <1>5

\* Every step of a start coroutine keeps the types.
LEMMA JobTypes ==
    ASSUME TypeOK, NEW j \in Job, JobStep(j)
    PROVE  TypeOK'
<1>0. /\ intents \in Seq(Intent) /\ broadcasts \in Seq(Message)
      /\ svc \in [Inst -> Service] /\ jobs \in [Job -> JobType]
      /\ jobs[j] \in JobType
  BY DEF TypeOK, ChannelsOK, JobType
<1>p. Pc = {"idle", "establish", "aether", "aetherWait", "core", "start",
            "tor", "torWait", "announce", "die", "block"}
  BY DEF Pc
<1>i. \A k : k \in Inst => svc[k] \in Service
  BY <1>0
<1>1. CASE JobEstablish(j)
  <2>1. \A f \in Fd : [svc EXCEPT ![jobs[j].inst].tun = f] \in [Inst -> Service]
    BY <1>0 DEF Service
  <2>2. /\ svc' \in [Inst -> Service] /\ jobs' \in [Job -> JobType]
        /\ fds' \in [Fd -> {"closed", "pfd", "native"}] /\ vpn' \in Fd \cup {NoFd}
    <3>1. CASE \E f \in FreeFds :
                  /\ Establish(f)
                  /\ svc' = [svc EXCEPT ![jobs[j].inst].tun = f]
                  /\ jobs' = [jobs EXCEPT ![j].pc = "aether", ![j].fd = f]
      <4>1. PICK f \in FreeFds :
                  /\ Establish(f)
                  /\ svc' = [svc EXCEPT ![jobs[j].inst].tun = f]
                  /\ jobs' = [jobs EXCEPT ![j].pc = "aether", ![j].fd = f]
        BY <3>1
      <4>2. f \in Fd /\ "aether" \in Pc
        BY <1>p DEF FreeFds
      <4>3. jobs' \in [Job -> JobType]
        BY <4>1, <4>2, JobUpdateType
      <4>4. fds' \in [Fd -> {"closed", "pfd", "native"}] /\ vpn' \in Fd \cup {NoFd}
        BY <4>1, <4>2 DEF Establish, TypeOK
      <4> QED BY <2>1, <4>1, <4>2, <4>3, <4>4
    <3>2. CASE Goto(j, "die") /\ UNCHANGED <<svc, osVars>>
      BY <1>0, <1>p, <3>2, JobUpdateType DEF TypeOK, osVars
    <3> QED BY <1>1, <3>1, <3>2 DEF JobEstablish
  <2>3. killPref' \in {"on", "off"} /\ killCache' \in {"unread", "on", "off"}
    BY <1>1, PrefsType DEF JobEstablish
  <2> QED BY <1>1, <2>2, <2>3 DEF TypeOK, ChannelsOK, JobEstablish, JobFrame, JobType
<1>2. CASE JobAether(j) \/ JobAetherWait(j) \/ JobTor(j) \/ JobTorWait(j)
  <2>1. \E pc \in Pc : Goto(j, pc)
    BY <1>2, <1>p DEF JobAether, JobAetherWait, JobTor, JobTorWait
  <2>2. jobs' \in [Job -> JobType]
    BY <2>1, JobUpdateType
  <2>3. engines' \subseteq {"aether", "tor"}
    BY <1>2 DEF TypeOK, JobAether, JobAetherWait, JobTor, JobTorWait
  <2>4. /\ UNCHANGED <<intents, broadcasts, svc, core, osVars, sticky, prefs>>
        /\ UNCHANGED <<alive, current, main, killPending>>
    BY <1>2 DEF JobAether, JobAetherWait, JobTor, JobTorWait, JobFrame
  <2> QED BY <2>2, <2>3, <2>4 DEF TypeOK, ChannelsOK, JobType, osVars, prefs
<1>3. CASE JobCore(j)
  <2>1. jobs' \in [Job -> JobType]
    BY <1>3, <1>p, JobUpdateType DEF JobCore
  <2>2. fds' \in [Fd -> {"closed", "pfd", "native"}] /\ vpn' \in Fd \cup {NoFd}
    BY <1>3 DEF TypeOK, JobCore, CloseAll
  <2>3. core' \in [fd : Fd \cup {NoFd}, cfg : Configs \cup {NoConfig}]
    BY <1>3 DEF JobCore, NoCore
  <2> QED BY <1>3, <2>1, <2>2, <2>3 DEF TypeOK, ChannelsOK, JobCore, JobFrame, JobType, prefs
<1>4. CASE JobStart(j)
  <2>1. jobs' \in [Job -> JobType]
    BY <1>4, <1>p, JobUpdateType DEF JobStart
  <2>2. fds' \in [Fd -> {"closed", "pfd", "native"}] /\ vpn' \in Fd \cup {NoFd}
    BY <1>4, CloseType DEF JobStart
  <2>3. core' \in [fd : Fd \cup {NoFd}, cfg : Configs \cup {NoConfig}]
    BY <1>0, <1>4 DEF JobStart, JobType
  <2> QED BY <1>4, <2>1, <2>2, <2>3 DEF TypeOK, ChannelsOK, JobStart, JobFrame, JobType, prefs
<1>5. CASE JobAnnounce(j)
  <2>1. jobs' \in [Job -> JobType]
    BY <1>5, JobUpdateType DEF JobAnnounce
  <2>2. broadcasts' \in Seq(Message)
    BY <1>0, <1>5, BroadcastType DEF JobAnnounce, Message
  <2>3. svc' \in [Inst -> Service]
    BY <1>0, <1>5 DEF JobAnnounce, Service
  <2> QED BY <1>5, <2>1, <2>2, <2>3
        DEF TypeOK, ChannelsOK, JobAnnounce, JobFrame, JobType, osVars, prefs
<1>6. CASE JobDie(j)
  <2> DEFINE i == jobs[j].inst
  <2>1. /\ UNCHANGED <<alive, current, main>>
        /\ \/ DieIgnored(i, svc[i], {}) /\ jobs' = [jobs EXCEPT ![j] = IdleJob]
              /\ UNCHANGED <<intents, sticky>>
           \/ CloseTunnel(i, svc[i]) /\ ReadPrefs /\ Goto(j, "block")
              /\ UNCHANGED <<intents, sticky>>
           \/ TearDown(i, svc[i], {}, "error") /\ ReadPrefs
              /\ jobs' = [jobs EXCEPT ![j] = IdleJob]
              /\ intents' = StopSelf(i, intents) /\ sticky' = (sticky /\ i # current)
    BY <1>6 DEF JobDie
  <2> HIDE DEF i
  <2>2. jobs' \in [Job -> JobType]
    <3>1. jobs' = [jobs EXCEPT ![j] = IdleJob] \/ Goto(j, "block")
      BY <2>1
    <3>2. "block" \in Pc
      BY <1>p
    <3> QED BY <3>1, <3>2, JobUpdateType
  <2>3. intents' \in Seq(Intent)
    BY <1>0, <2>1, QueueType
  <2>4. "error" \in Message
    BY DEF Message
  <2>5. /\ svc' \in [Inst -> Service] /\ broadcasts' \in Seq(Message)
        /\ fds' \in [Fd -> {"closed", "pfd", "native"}] /\ vpn' \in Fd \cup {NoFd}
    BY <1>i, <2>1, <2>4, DieType
  <2>6. killPref' \in {"on", "off"} /\ killCache' \in {"unread", "on", "off"}
    BY <2>1, PrefsType DEF TypeOK, DieIgnored
  <2>7. /\ core' = NoCore \/ UNCHANGED core
        /\ engines' = {} \/ UNCHANGED engines
        /\ killPending' = TRUE \/ UNCHANGED killPending
    BY <2>1 DEF DieIgnored, TearDown, CloseTunnel
  <2>8. core' \in [fd : Fd \cup {NoFd}, cfg : Configs \cup {NoConfig}]
    BY <2>7 DEF TypeOK, NoCore
  <2>9. killPending' \in BOOLEAN
    BY <2>7 DEF TypeOK
  <2>10. engines' \subseteq {"aether", "tor"}
    BY <2>7 DEF TypeOK
  <2>11. sticky' \in BOOLEAN
    BY <2>1 DEF TypeOK
  <2> QED BY <2>1, <2>2, <2>3, <2>5, <2>6, <2>8, <2>9, <2>10, <2>11 DEF TypeOK, ChannelsOK, JobType
<1>7. CASE JobBlock(j)
  <2>1. jobs' \in [Job -> JobType]
    BY <1>7, JobUpdateType DEF JobBlock
  <2>2. /\ svc' \in [Inst -> Service] /\ broadcasts' \in Seq(Message)
        /\ UNCHANGED <<core, engines, killPending>>
        /\ fds' \in [Fd -> {"closed", "pfd", "native"}] /\ vpn' \in Fd \cup {NoFd}
    BY <1>7, <1>i, DieType DEF JobBlock
  <2> QED BY <1>7, <2>1, <2>2 DEF TypeOK, ChannelsOK, JobBlock, JobType, prefs
<1> QED BY <1>1, <1>2, <1>3, <1>4, <1>5, <1>6, <1>7 DEF JobStep

\* The polling loop, the end and the restart of the process, a takeover by
\* another VPN app and the clients keep the types.
LEMMA SystemTypes ==
    ASSUME TypeOK,
           \/ MainBlock \/ KillProcess \/ Crash \/ RestartSticky \/ OnRevoke
           \/ Receive \/ SetKillSwitch
           \/ \E i \in Inst : PollCheck(i) \/ PollSend(i)
           \/ \E m \in Requests : Send(m)
    PROVE  TypeOK'
<1>0. /\ intents \in Seq(Intent) /\ broadcasts \in Seq(Message)
      /\ svc \in [Inst -> Service]
  BY DEF TypeOK, ChannelsOK
<1>1. CASE MainBlock
  <2>1. /\ svc' \in [Inst -> Service] /\ broadcasts' \in Seq(Message)
        /\ UNCHANGED <<core, engines, killPending>>
        /\ fds' \in [Fd -> {"closed", "pfd", "native"}] /\ vpn' \in Fd \cup {NoFd}
    BY <1>0, <1>1, DieType DEF MainBlock
  <2> QED BY <1>1, <2>1 DEF TypeOK, ChannelsOK, MainBlock, prefs
<1>2. CASE KillProcess \/ Crash
  <2>1. ProcessDeath
    BY <1>2 DEF KillProcess, Crash
  <2>2. intents' \in Seq(Intent)
    BY <1>0, <2>1, QueueType DEF ProcessDeath
  <2>3. Fresh \in Service /\ IdleJob \in JobType
    BY DEF Fresh, Service, IdleJob, JobType, Pc
  <2>4. svc' \in [Inst -> Service] /\ jobs' \in [Job -> JobType]
    BY <2>1, <2>3 DEF ProcessDeath
  <2>5. core' \in [fd : Fd \cup {NoFd}, cfg : Configs \cup {NoConfig}]
    BY <2>1 DEF ProcessDeath, NoCore
  <2> QED BY <2>1, <2>2, <2>4, <2>5 DEF TypeOK, ChannelsOK, ProcessDeath, JobType
<1>3. CASE RestartSticky
  <2>1. intents' \in Seq(Intent)
    BY <1>3 DEF RestartSticky, Start, Intent
  <2> QED BY <1>3, <2>1 DEF TypeOK, ChannelsOK, RestartSticky, svcVars
<1>4. CASE OnRevoke
  <2>1. intents' \in Seq(Intent)
    BY <1>0, <1>4, QueueType DEF OnRevoke
  <2> QED BY <1>4, <2>1 DEF TypeOK, ChannelsOK, OnRevoke, prefs
<1>5. CASE Receive
  <2>1. broadcasts # <<>> => Tail(broadcasts) \in Seq(Message)
    BY <1>0
  <2>2. <<>> \in Seq(Message)
    OBVIOUS
  <2>3. broadcasts' \in Seq(Message) /\ UNCHANGED <<intents, svcVars>>
    BY <1>5, <2>1, <2>2 DEF Receive
  <2> QED BY <1>0, <2>3 DEF TypeOK, ChannelsOK, svcVars
<1>6. CASE SetKillSwitch
  BY <1>6 DEF TypeOK, ChannelsOK, SetKillSwitch
<1>7. CASE \E i \in Inst : PollCheck(i) \/ PollSend(i)
  <2>1. PICK i \in Inst : PollCheck(i) \/ PollSend(i)
    BY <1>7
  <2>2. svc' \in [Inst -> Service]
    <3>1. PICK v \in {"off", "wait", "send", "late"} : svc' = [svc EXCEPT ![i].poll = v]
      BY <2>1 DEF PollCheck, PollSend
    <3>2. [svc[i] EXCEPT !.poll = v] \in Service
      <4>1. svc[i] \in Service
        BY <1>0
      <4> QED BY <4>1 DEF Service
    <3> QED BY <1>0, <3>1, <3>2
  <2>3. broadcasts' \in Seq(Message)
    BY <1>0, <2>1, BroadcastType DEF PollCheck, PollSend, Message
  <2>4. /\ UNCHANGED <<intents, alive, current, jobs, main, core, engines>>
        /\ UNCHANGED <<fds, vpn, killPending, sticky, killPref, killCache>>
    BY <2>1 DEF PollCheck, PollSend, osVars, prefs
  <2> QED BY <2>2, <2>3, <2>4 DEF TypeOK, ChannelsOK
<1>8. CASE \E m \in Requests : Send(m)
  <2>1. Requests \subseteq Intent
    BY DEF Requests, Start, Stop, Warm, Intent
  <2>2. intents' \in Seq(Intent)
    BY <1>0, <1>8, <2>1 DEF Send, StartService
  <2>3. UNCHANGED <<broadcasts, svcVars>>
    BY <1>8 DEF Send
  <2> QED BY <2>2, <2>3 DEF TypeOK, ChannelsOK, svcVars
<1> QED BY <1>1, <1>2, <1>3, <1>4, <1>5, <1>6, <1>7, <1>8

\* Every reachable state of the service process is well typed, whatever
\* intents its clients send and however its threads interleave.
THEOREM TypeCorrect == Spec => []TypeOK
<1>1. Init => TypeOK
  <2> SUFFICES ASSUME Init PROVE TypeOK
    OBVIOUS
  <2>1. Fresh \in Service /\ IdleJob \in JobType
    BY DEF Fresh, Service, IdleJob, JobType, Pc
  <2>2. svc \in [Inst -> Service] /\ jobs \in [Job -> JobType]
    BY <2>1 DEF Init
  <2>3. core \in [fd : Fd \cup {NoFd}, cfg : Configs \cup {NoConfig}]
    BY DEF Init, NoCore
  <2>4. intents \in Seq(Intent) /\ broadcasts \in Seq(Message)
    BY DEF Init
  <2>5. /\ current \in Inst \cup {NoInst} /\ main \in {"idle", "block"}
        /\ engines \subseteq {"aether", "tor"} /\ vpn \in Fd \cup {NoFd}
        /\ fds \in [Fd -> {"closed", "pfd", "native"}]
        /\ killPref \in {"on", "off"} /\ killCache \in {"unread", "on", "off"}
    BY DEF Init
  <2>6. alive \in BOOLEAN /\ killPending \in BOOLEAN /\ sticky \in BOOLEAN
    BY DEF Init
  <2> QED BY <2>2, <2>3, <2>4, <2>5, <2>6 DEF TypeOK, ChannelsOK, JobType
<1>2. TypeOK /\ [Next]_vars => TypeOK'
  <2> SUFFICES ASSUME TypeOK, [Next]_vars PROVE TypeOK'
    OBVIOUS
  <2>1. CASE MainThread
    BY <2>1, MainTypes, SystemTypes DEF MainThread
  <2>2. CASE \E j \in Job : JobStep(j)
    BY <2>2, JobTypes
  <2>3. CASE (\E i \in Inst : PollCheck(i) \/ PollSend(i)) \/ ClientNext
    BY <2>3, SystemTypes DEF ClientNext
  <2>4. CASE KillProcess \/ Crash \/ RestartSticky \/ OnRevoke
    BY <2>4, SystemTypes
  <2>5. CASE UNCHANGED vars
    BY <2>5 DEF vars, svcVars, TypeOK, ChannelsOK
  <2> QED BY <2>1, <2>2, <2>3, <2>4, <2>5 DEF Next, ServiceNext
<1> QED BY <1>1, <1>2, PTL DEF Spec

-----------------------------------------------------------------------------
(* Ownership of the descriptors. *)

Attached == {"aether", "aetherWait", "core"}

\* A step that hands no descriptor over: every coroutine keeps its descriptor
\* or drops it, and none enters or leaves the states that are tied to one.
JobsKeep ==
    \A j \in Job : /\ jobs'[j].fd = jobs[j].fd \/ jobs'[j].fd = NoFd
                   /\ jobs'[j].pc \in Attached => jobs[j].pc \in Attached /\ jobs'[j].fd = jobs[j].fd
                   /\ jobs'[j].pc = "start" => jobs'[j].fd = jobs[j].fd
                   /\ jobs'[j].pc = "start" <=> jobs[j].pc = "start"

\* Closing attached descriptors, and the engine's with the engine, keeps the
\* ownership and never leaves the interface on a closed descriptor.
LEMMA CloseKeeps ==
    ASSUME TypeOK, FdOwnership, InterfaceIsOpen, JobsKeep,
           NEW S, \A f \in S : f \in Fd /\ fds[f] = "pfd",
           \/ CloseAll(S) /\ core' = core
           \/ CloseAll(S \cup CoreFds) /\ core' = NoCore
    PROVE  FdOwnership' /\ InterfaceIsOpen'
<1>0. /\ fds \in [Fd -> {"closed", "pfd", "native"}] /\ vpn \in Fd \cup {NoFd}
      /\ core.fd \in Fd \cup {NoFd} /\ NoFd \notin Fd
      /\ \A j \in Job : jobs[j].fd \in Fd \cup {NoFd}
  BY ServiceAssumption DEF TypeOK
<1>1. \/ CloseAll(S) /\ core' = core
      \/ CloseAll(S \cup CoreFds) /\ core' = NoCore /\ core'.fd = NoFd
  BY DEF NoCore
<1>2. PICK U : /\ CloseAll(U)
               /\ \/ core' = core /\ U = S
                  \/ core'.fd = NoFd /\ U = S \cup CoreFds
  BY <1>1
<1>3. \A f \in Fd : /\ fds'[f] = "native" <=> fds[f] = "native" /\ f \notin U
                    /\ f \in U => f \in S \/ f = core.fd
                    /\ f \in U => fds'[f] = "closed"
                    /\ f \notin U => fds'[f] = fds[f]
  BY <1>0, <1>2 DEF CloseAll, CoreFds
<1>4. EngineFdOpen'
  BY <1>0, <1>2, <1>3 DEF FdOwnership, EngineFdOpen
<1>5. JobFdsDistinct'
  BY DEF FdOwnership, JobFdsDistinct, JobsKeep
<1>6. AttachedUntilCore'
  BY <1>0, <1>3 DEF FdOwnership, AttachedUntilCore, JobsKeep, Attached
<1>7. DetachedUntilStart'
  BY <1>0, <1>2, <1>3 DEF FdOwnership, DetachedUntilStart, JobsKeep, At
<1>8. NativeIsHeld'
  <2> SUFFICES ASSUME NEW f \in Fd, fds'[f] = "native"
               PROVE  core'.fd = f \/ \E j \in Job : jobs'[j].pc = "start" /\ jobs'[j].fd = f
    BY DEF NativeIsHeld, At
  <2>1. fds[f] = "native" /\ f \notin U
    BY <1>3
  <2>2. CASE core.fd = f
    <3>1. U # S \cup CoreFds
      BY <2>1, <2>2 DEF CoreFds
    <3> QED BY <1>2, <2>2, <3>1
  <2>3. CASE core.fd # f
    <3>1. PICK j \in Job : jobs[j].pc = "start" /\ jobs[j].fd = f
      BY <2>1, <2>3 DEF FdOwnership, NativeIsHeld, At
    <3> QED BY <3>1 DEF JobsKeep
  <2> QED BY <2>2, <2>3
<1>9. InterfaceIsOpen'
  BY <1>0, <1>2, <1>3 DEF InterfaceIsOpen, CloseAll
<1> QED BY <1>4, <1>5, <1>6, <1>7, <1>8, <1>9 DEF FdOwnership

\* A blocking interface that nobody else refers to keeps the ownership.
LEMMA BlockKeeps ==
    ASSUME TypeOK, FdOwnership, InterfaceIsOpen, JobsKeep, NEW i, BlockTraffic(i)
    PROVE  FdOwnership' /\ InterfaceIsOpen'
<1>0. /\ fds \in [Fd -> {"closed", "pfd", "native"}] /\ vpn \in Fd \cup {NoFd}
      /\ core.fd \in Fd \cup {NoFd} /\ NoFd \notin Fd
      /\ \A j \in Job : jobs[j].fd \in Fd \cup {NoFd}
      /\ core' = core
  BY ServiceAssumption DEF TypeOK, BlockTraffic
<1>1. CASE \E f \in FreeFds : Establish(f)
  <2>1. PICK f \in FreeFds : Establish(f)
    BY <1>1
  <2>2. /\ f \in Fd /\ fds[f] = "closed" /\ core.fd # f
        /\ \A j \in Job : jobs[j].fd # f
    BY DEF FreeFds
  <2>3. /\ \A g \in Fd \ {f} : fds'[g] = fds[g]
        /\ fds'[f] = "pfd" /\ vpn' = f
    BY <1>0, <2>1, <2>2 DEF Establish
  <2>4. EngineFdOpen'
    BY <1>0, <2>2, <2>3 DEF FdOwnership, EngineFdOpen
  <2>5. JobFdsDistinct'
    BY DEF FdOwnership, JobFdsDistinct, JobsKeep
  <2>6. AttachedUntilCore'
    BY <1>0, <2>2, <2>3 DEF FdOwnership, AttachedUntilCore, JobsKeep, Attached
  <2>7. DetachedUntilStart'
    BY <1>0, <2>2, <2>3 DEF FdOwnership, DetachedUntilStart, JobsKeep, At
  <2>8. NativeIsHeld'
    BY <1>0, <2>2, <2>3 DEF FdOwnership, NativeIsHeld, JobsKeep, At
  <2>9. InterfaceIsOpen'
    BY <2>2, <2>3 DEF InterfaceIsOpen
  <2> QED BY <2>4, <2>5, <2>6, <2>7, <2>8, <2>9 DEF FdOwnership
<1>2. CASE UNCHANGED osVars
  <2>1. CloseAll({})
    BY <1>0, <1>2 DEF CloseAll, osVars
  <2> QED BY <1>0, <2>1, CloseKeeps
<1> QED BY <1>1, <1>2 DEF BlockTraffic

\* TearDown, CloseTunnel and DieIgnored close only what CloseKeeps allows.
LEMMA DieKeeps ==
    ASSUME TypeOK, FdOwnership, InterfaceIsOpen, JobsKeep, NEW i, NEW s, NEW x,
           \/ \E m : TearDown(i, s, {}, m) \/ TearDown(i, s, Pfd(x), m)
           \/ CloseTunnel(i, s)
           \/ DieIgnored(i, s, {}) \/ DieIgnored(i, s, Pfd(x))
    PROVE  FdOwnership' /\ InterfaceIsOpen'
<1>1. \A y : \A f \in Pfd(y) : f \in Fd /\ fds[f] = "pfd"
  BY DEF Pfd
<1>2. \E S : /\ S = {} \/ \E y : S = Pfd(y)
             /\ \/ CloseAll(S) /\ core' = core
                \/ CloseAll(S \cup CoreFds) /\ core' = NoCore
  BY DEF TearDown, CloseTunnel, DieIgnored
<1>3. PICK S : /\ \A f \in S : f \in Fd /\ fds[f] = "pfd"
               /\ \/ CloseAll(S) /\ core' = core
                  \/ CloseAll(S \cup CoreFds) /\ core' = NoCore
  BY <1>1, <1>2
<1> QED BY <1>3, CloseKeeps

\* A coroutine that ends, or moves between states that hold no descriptor.
LEMMA JobMoves ==
    ASSUME TypeOK, NEW j \in Job, jobs[j].pc # "start"
    PROVE  /\ jobs' = [jobs EXCEPT ![j] = IdleJob] => JobsKeep
           /\ \A pc \in Pc : /\ pc # "start" /\ Goto(j, pc)
                             /\ pc \in Attached => jobs[j].pc \in Attached
                             => JobsKeep
<1>0. jobs \in [Job -> JobType]
  BY DEF TypeOK, JobType
<1>1. jobs' = [jobs EXCEPT ![j] = IdleJob] => JobsKeep
  BY <1>0 DEF IdleJob, JobsKeep, Attached, JobType
<1>2. ASSUME NEW pc \in Pc, pc # "start", Goto(j, pc),
             pc \in Attached => jobs[j].pc \in Attached
      PROVE  JobsKeep
  <2>1. jobs' = [jobs EXCEPT ![j].pc = pc]
    BY <1>2 DEF Goto
  <2>2. /\ jobs'[j].pc = pc /\ jobs'[j].fd = jobs[j].fd
        /\ \A k \in Job \ {j} : jobs'[k] = jobs[k]
    BY <1>0, <2>1 DEF JobType
  <2> QED BY <1>2, <2>2 DEF JobsKeep
<1> QED BY <1>1, <1>2

\* A coroutine establishes a new interface, detaches its descriptor, or hands
\* it to the engine: the three steps that move a descriptor.
LEMMA HandOverKeeps ==
    ASSUME TypeOK, FdOwnership, InterfaceIsOpen, NEW j \in Job,
           JobEstablish(j) \/ JobCore(j) \/ JobStart(j)
    PROVE  FdOwnership' /\ InterfaceIsOpen'
<1>0. /\ fds \in [Fd -> {"closed", "pfd", "native"}] /\ vpn \in Fd \cup {NoFd}
      /\ core.fd \in Fd \cup {NoFd} /\ NoFd \notin Fd
      /\ \A k \in Job : jobs[k].fd \in Fd \cup {NoFd}
      /\ jobs \in [Job -> JobType]
  BY ServiceAssumption DEF TypeOK, JobType
<1>s. \A pc \in Pc : Goto(j, pc) => /\ jobs'[j].pc = pc /\ jobs'[j].fd = jobs[j].fd
                                    /\ \A k \in Job \ {j} : jobs'[k] = jobs[k]
  <2> SUFFICES ASSUME NEW pc \in Pc, jobs' = [jobs EXCEPT ![j].pc = pc]
               PROVE  /\ jobs'[j].pc = pc /\ jobs'[j].fd = jobs[j].fd
                      /\ \A k \in Job \ {j} : jobs'[k] = jobs[k]
    BY DEF Goto
  <2> QED BY <1>0 DEF JobType
<1>1. CASE JobEstablish(j)
  <2>1. CASE \E f \in FreeFds :
                 /\ Establish(f)
                 /\ jobs' = [jobs EXCEPT ![j].pc = "aether", ![j].fd = f]
    <3>1. PICK f \in FreeFds :
                 /\ Establish(f)
                 /\ jobs' = [jobs EXCEPT ![j].pc = "aether", ![j].fd = f]
      BY <2>1
    <3>2. /\ f \in Fd /\ fds[f] = "closed" /\ core.fd # f /\ core' = core
          /\ \A k \in Job : jobs[k].fd # f
      BY <1>1 DEF FreeFds, JobEstablish
    <3>3. /\ \A g \in Fd \ {f} : fds'[g] = fds[g]
          /\ fds'[f] = "pfd" /\ vpn' = f
      BY <1>0, <3>1, <3>2 DEF Establish
    <3>4. /\ jobs'[j].pc = "aether" /\ jobs'[j].fd = f
          /\ \A k \in Job \ {j} : jobs'[k] = jobs[k]
      BY <1>0, <3>1 DEF JobType
    <3>5. jobs[j].pc = "establish"
      BY <1>1 DEF JobEstablish, At
    <3>6. EngineFdOpen'
      BY <1>0, <3>2, <3>3 DEF FdOwnership, EngineFdOpen
    <3>7. JobFdsDistinct'
      BY <3>2, <3>4 DEF FdOwnership, JobFdsDistinct
    <3>8. AttachedUntilCore'
      BY <1>0, <3>2, <3>3, <3>4 DEF FdOwnership, AttachedUntilCore
    <3>9. DetachedUntilStart'
      BY <1>0, <3>2, <3>3, <3>4 DEF FdOwnership, DetachedUntilStart, At
    <3>10. NativeIsHeld'
      BY <1>0, <3>2, <3>3, <3>4, <3>5 DEF FdOwnership, NativeIsHeld, At
    <3>11. InterfaceIsOpen'
      BY <3>2, <3>3 DEF InterfaceIsOpen
    <3> QED BY <3>6, <3>7, <3>8, <3>9, <3>10, <3>11 DEF FdOwnership
  <2>2. CASE Goto(j, "die") /\ UNCHANGED osVars
    <3>1. CloseAll({}) /\ core' = core /\ jobs[j].pc # "start"
      BY <1>0, <1>1, <2>2 DEF CloseAll, osVars, JobEstablish, At
    <3>2. JobsKeep
      BY <2>2, <3>1, JobMoves DEF Pc, Attached
    <3> QED BY <3>1, <3>2, CloseKeeps
  <2> QED BY <1>1, <2>1, <2>2 DEF JobEstablish, osVars
<1>2. CASE JobCore(j)
  <2> DEFINE f == jobs[j].fd
  <2>0. /\ jobs[j].pc = "core" /\ f \in Fd /\ fds[f] # "native" /\ core'.fd = NoFd
    BY <1>0, <1>2 DEF JobCore, At, FdOwnership, AttachedUntilCore, NoCore
  <2>1. CASE fds[f] = "pfd"
    <3>1. /\ fds' = [g \in Fd |-> IF g = f THEN "native"
                                  ELSE IF g \in CoreFds THEN "closed" ELSE fds[g]]
          /\ vpn' = IF vpn \in CoreFds THEN NoFd ELSE vpn
          /\ Goto(j, "start")
      BY <1>2, <2>1 DEF JobCore
    <3>2. /\ fds'[f] = "native"
          /\ \A g \in Fd \ {f} : /\ g # core.fd => fds'[g] = fds[g]
                                 /\ g = core.fd => fds'[g] = "closed"
      BY <2>0, <3>1 DEF CoreFds
    <3>3. /\ jobs'[j].pc = "start" /\ jobs'[j].fd = f
          /\ \A k \in Job \ {j} : jobs'[k] = jobs[k]
      BY <1>s, <3>1 DEF Pc
    <3>a. \A k \in Job \ {j} : jobs[k].fd # f
      BY <1>0, <2>0 DEF FdOwnership, JobFdsDistinct
    <3>4. EngineFdOpen'
      BY <2>0 DEF EngineFdOpen
    <3>5. JobFdsDistinct'
      BY <3>3 DEF FdOwnership, JobFdsDistinct
    <3>6. AttachedUntilCore'
      BY <1>0, <3>2, <3>3, <3>a DEF FdOwnership, AttachedUntilCore
    <3>7. DetachedUntilStart'
      BY <1>0, <2>0, <3>2, <3>3, <3>a DEF FdOwnership, DetachedUntilStart, At
    <3>8. NativeIsHeld'
      BY <1>0, <2>0, <3>2, <3>3 DEF FdOwnership, NativeIsHeld, At
    <3>9. InterfaceIsOpen'
      BY <1>0, <2>0, <3>1, <3>2 DEF InterfaceIsOpen, CoreFds
    <3> QED BY <3>4, <3>5, <3>6, <3>7, <3>8, <3>9 DEF FdOwnership
  <2>2. CASE fds[f] # "pfd"
    <3>1. CloseAll(CoreFds) /\ core' = NoCore /\ Goto(j, "die")
      BY <1>2, <2>2 DEF JobCore
    <3>2. JobsKeep
      BY <2>0, <3>1, JobMoves DEF Pc, Attached
    <3>3. PICK S : S = {}
      OBVIOUS
    <3>4. CloseAll(S \cup CoreFds)
      BY <3>1, <3>3, S \cup CoreFds = CoreFds
    <3> QED BY <3>1, <3>2, <3>3, <3>4, CloseKeeps
  <2> QED BY <2>1, <2>2
<1>3. CASE JobStart(j)
  <2> DEFINE f == jobs[j].fd
  <2>0. /\ jobs[j].pc = "start" /\ f \in Fd /\ fds[f] = "native" /\ core.fd # f
        /\ core'.fd = f /\ CloseAll(CoreFds)
        /\ Goto(j, "tor") \/ Goto(j, "die")
    BY <1>0, <1>3 DEF JobStart, At, FdOwnership, DetachedUntilStart
  <2>1. /\ \A g \in Fd : /\ g # core.fd => fds'[g] = fds[g]
                         /\ g = core.fd => fds'[g] = "closed"
        /\ vpn' = IF vpn \in CoreFds THEN NoFd ELSE vpn
    BY <2>0 DEF CloseAll, CoreFds
  <2>2. /\ jobs'[j].pc \in {"tor", "die"} /\ jobs'[j].fd = f
        /\ \A k \in Job \ {j} : jobs'[k] = jobs[k]
    BY <1>s, <2>0 DEF Pc
  <2>3. \A k \in Job \ {j} : jobs[k].fd # f
    BY <1>0, <2>0 DEF FdOwnership, JobFdsDistinct
  <2>4. EngineFdOpen'
    BY <2>0, <2>1 DEF EngineFdOpen
  <2>5. JobFdsDistinct'
    BY <2>2 DEF FdOwnership, JobFdsDistinct
  <2>6. AttachedUntilCore'
    BY <1>0, <2>1, <2>2 DEF FdOwnership, AttachedUntilCore
  <2>7. DetachedUntilStart'
    BY <1>0, <2>0, <2>1, <2>2, <2>3 DEF FdOwnership, DetachedUntilStart, At
  <2>8. NativeIsHeld'
    BY <1>0, <2>0, <2>1, <2>2 DEF FdOwnership, NativeIsHeld, At
  <2>9. InterfaceIsOpen'
    BY <1>0, <2>1 DEF InterfaceIsOpen, CoreFds
  <2> QED BY <2>4, <2>5, <2>6, <2>7, <2>8, <2>9 DEF FdOwnership
<1> QED BY <1>1, <1>2, <1>3

\* Every step keeps the ownership.
LEMMA OwnershipStep ==
    ASSUME TypeOK, FdOwnership, InterfaceIsOpen, [Next]_vars
    PROVE  FdOwnership' /\ InterfaceIsOpen'
<1>0. /\ jobs \in [Job -> JobType] /\ fds \in [Fd -> {"closed", "pfd", "native"}]
  BY DEF TypeOK, JobType
<1>k. UNCHANGED jobs => JobsKeep
  BY DEF JobsKeep
<1>c. UNCHANGED <<jobs, core, fds, vpn>> => FdOwnership' /\ InterfaceIsOpen'
  BY DEF FdOwnership, EngineFdOpen, JobFdsDistinct, AttachedUntilCore,
         DetachedUntilStart, NativeIsHeld, At, InterfaceIsOpen
<1>1. CASE \E i \in Inst : OnStop(i) \/ OnNullStart(i)
  <2>1. PICK i \in Inst : OnStop(i) \/ OnNullStart(i)
    BY <1>1
  <2>2. UNCHANGED jobs
    BY <2>1 DEF OnStop, OnNullStart
  <2>3. \E s, x : \/ \E m : TearDown(i, s, {}, m) \/ TearDown(i, s, Pfd(x), m)
                  \/ CloseTunnel(i, s)
                  \/ DieIgnored(i, s, {}) \/ DieIgnored(i, s, Pfd(x))
    BY <2>1 DEF OnStop, OnNullStart
  <2> QED BY <1>k, <2>2, <2>3, DieKeeps
<1>2. CASE \E i \in Inst : OnWarm(i) \/ PollCheck(i) \/ PollSend(i)
  BY <1>2, <1>c DEF OnWarm, PollCheck, PollSend, osVars
<1>3. CASE \E i \in Inst : OnStart(i)
  <2>1. PICK i \in Inst : OnStart(i)
    BY <1>3
  <2>2. UNCHANGED <<core, fds, vpn>>
    BY <2>1 DEF OnStart
  <2>3. \/ UNCHANGED jobs
        \/ \E j \in Job : \E c :
              /\ jobs[j].pc = "idle"
              /\ jobs' = [jobs EXCEPT ![j] = [pc |-> "establish", inst |-> i,
                                              cfg |-> c, fd |-> NoFd]]
    BY <2>1 DEF OnStart
  <2>4. JobsKeep
    BY <1>0, <2>3 DEF JobsKeep, Attached, JobType
  <2>5. CloseAll({})
    BY <1>0, <2>2 DEF CloseAll
  <2> QED BY <2>2, <2>4, <2>5, CloseKeeps
<1>4. CASE \E i \in Inst : OnDestroy(i)
  <2>1. PICK i \in Inst : OnDestroy(i)
    BY <1>4
  <2>2. CloseAll(Pfd(svc[i].block)) /\ UNCHANGED <<core, jobs>>
    BY <2>1 DEF OnDestroy
  <2>3. \A f \in Pfd(svc[i].block) : f \in Fd /\ fds[f] = "pfd"
    BY DEF Pfd
  <2> QED BY <1>k, <2>2, <2>3, CloseKeeps
<1>5. CASE MainBlock
  BY <1>5, <1>k, BlockKeeps DEF MainBlock
<1>6. CASE \E j \in Job : JobEstablish(j) \/ JobCore(j) \/ JobStart(j)
  BY <1>6, HandOverKeeps
<1>7. CASE \E j \in Job : JobAether(j) \/ JobAetherWait(j) \/ JobTor(j) \/ JobTorWait(j)
                          \/ JobAnnounce(j)
  <2>1. PICK j \in Job : JobAether(j) \/ JobAetherWait(j) \/ JobTor(j) \/ JobTorWait(j)
                         \/ JobAnnounce(j)
    BY <1>7
  <2>2. jobs[j].pc # "start"
    BY <2>1 DEF JobAether, JobAetherWait, JobTor, JobTorWait, JobAnnounce, At
  <2>3. \/ jobs' = [jobs EXCEPT ![j] = IdleJob]
        \/ \E pc \in Pc : /\ pc # "start" /\ Goto(j, pc)
                          /\ pc \in Attached => jobs[j].pc \in Attached
    BY <2>1 DEF JobAether, JobAetherWait, JobTor, JobTorWait, JobAnnounce, At, Attached, Pc
  <2>4. JobsKeep
    BY <2>2, <2>3, JobMoves
  <2>5. CloseAll({}) /\ core' = core
    BY <1>0, <2>1 DEF JobAether, JobAetherWait, JobTor, JobTorWait, JobAnnounce, osVars, CloseAll
  <2> QED BY <2>4, <2>5, CloseKeeps
<1>8. CASE \E j \in Job : JobDie(j)
  <2>1. PICK j \in Job : JobDie(j)
    BY <1>8
  <2>2. jobs[j].pc = "die" /\ (jobs' = [jobs EXCEPT ![j] = IdleJob] \/ Goto(j, "block"))
    BY <2>1 DEF JobDie, At
  <2>3. JobsKeep
    BY <2>2, JobMoves DEF Pc, Attached
  <2>4. \E i, s, x : \/ \E m : TearDown(i, s, {}, m) \/ TearDown(i, s, Pfd(x), m)
                     \/ CloseTunnel(i, s)
                     \/ DieIgnored(i, s, {}) \/ DieIgnored(i, s, Pfd(x))
    BY <2>1 DEF JobDie
  <2> QED BY <2>3, <2>4, DieKeeps
<1>9. CASE \E j \in Job : JobBlock(j)
  <2>1. PICK j \in Job : JobBlock(j)
    BY <1>9
  <2>2. jobs[j].pc = "block" /\ jobs' = [jobs EXCEPT ![j] = IdleJob]
    BY <2>1 DEF JobBlock, At
  <2>3. JobsKeep
    BY <2>2, JobMoves
  <2> QED BY <2>1, <2>3, BlockKeeps DEF JobBlock
<1>10. CASE KillProcess \/ Crash
  <2>1. /\ jobs' = [j \in Job |-> IdleJob] /\ core' = NoCore
        /\ fds' = [f \in Fd |-> "closed"] /\ vpn' = NoFd
    BY <1>10 DEF KillProcess, Crash, ProcessDeath
  <2> QED BY <2>1 DEF FdOwnership, EngineFdOpen, JobFdsDistinct, AttachedUntilCore,
                      DetachedUntilStart, NativeIsHeld, At, InterfaceIsOpen, IdleJob, NoCore
<1>11. CASE OnRevoke
  <2>1. vpn' = NoFd /\ UNCHANGED <<jobs, core, fds>>
    BY <1>11 DEF OnRevoke
  <2> QED BY <2>1 DEF FdOwnership, EngineFdOpen, JobFdsDistinct, AttachedUntilCore,
                      DetachedUntilStart, NativeIsHeld, At, InterfaceIsOpen
<1>12. CASE RestartSticky \/ ClientNext \/ UNCHANGED vars
  BY <1>12, <1>c DEF RestartSticky, ClientNext, Receive, SetKillSwitch, Send, vars, svcVars
<1> QED BY <1>1, <1>2, <1>3, <1>4, <1>5, <1>6, <1>7, <1>8, <1>9, <1>10, <1>11, <1>12
        DEF Next, ServiceNext, MainThread, JobStep

\* In every reachable state the engine's descriptor is open and a detached
\* descriptor is held by the engine or by the one coroutine that detached it,
\* for any number of start coroutines in flight.
THEOREM OwnershipCorrect == Spec => [](FdOwnership /\ InterfaceIsOpen)
<1>1. Init => FdOwnership /\ InterfaceIsOpen
  BY DEF Init, FdOwnership, EngineFdOpen, JobFdsDistinct, AttachedUntilCore,
         DetachedUntilStart, NativeIsHeld, At, InterfaceIsOpen, IdleJob, NoCore
<1>2. TypeOK /\ FdOwnership /\ InterfaceIsOpen /\ [Next]_vars
        => FdOwnership' /\ InterfaceIsOpen'
  BY OwnershipStep
<1> QED BY <1>1, <1>2, TypeCorrect, PTL DEF Spec

\* No detached descriptor leaks or has two owners that could both close it.
THEOREM OneOwner == Spec => []DetachedFdHasOneOwner
<1>1. TypeOK /\ FdOwnership => DetachedFdHasOneOwner
  <2> SUFFICES ASSUME TypeOK, FdOwnership, NEW f \in Fd, fds[f] = "native"
               PROVE  \/ /\ core.fd = f
                         /\ \A j \in Job : ~(At(j, "start") /\ jobs[j].fd = f)
                      \/ /\ core.fd # f
                         /\ \E j \in Job :
                               /\ At(j, "start") /\ jobs[j].fd = f
                               /\ \A k \in Job \ {j} : ~(At(k, "start") /\ jobs[k].fd = f)
    BY DEF DetachedFdHasOneOwner
  <2>1. CASE core.fd = f
    BY <2>1 DEF FdOwnership, DetachedUntilStart
  <2>2. CASE core.fd # f
    <3>1. PICK j \in Job : At(j, "start") /\ jobs[j].fd = f
      BY <2>2 DEF FdOwnership, NativeIsHeld
    <3>2. \A k \in Job \ {j} : jobs[k].fd # f
      BY <3>1, ServiceAssumption DEF FdOwnership, JobFdsDistinct
    <3> QED BY <2>2, <3>1, <3>2
  <2> QED BY <2>1, <2>2
<1> QED BY <1>1, TypeCorrect, OwnershipCorrect, PTL

-----------------------------------------------------------------------------
(* die() and the kill switch. *)

\* What the proofs about the kill switch and about the app need to know of
\* die(): an object that is tearing down is in a process whose kill is scheduled.
TearingDownIsDoomed == \A i \in Inst : svc[i].tearing => killPending

\* A step of a coroutine or of the main thread that does not end the process
\* leaves no object tearing down unless the kill is scheduled.
LEMMA DoomedStep ==
    ASSUME TypeOK, TearingDownIsDoomed, [Next]_vars
    PROVE  TearingDownIsDoomed'
<1>0. svc \in [Inst -> Service] /\ killPending \in BOOLEAN
  BY DEF TypeOK
<1>1. CASE killPending' = TRUE
  BY <1>1 DEF TearingDownIsDoomed
<1>2. CASE \E i \in Inst, s \in Service :
              /\ svc' = [svc EXCEPT ![i] = s]
              /\ s.tearing => svc[i].tearing
              /\ UNCHANGED killPending
  BY <1>0, <1>2 DEF TearingDownIsDoomed
<1>3. CASE \E i, f, g : /\ \/ svc' = [svc EXCEPT ![i].tun = f]
                           \/ svc' = [svc EXCEPT ![i].block = f]
                           \/ svc' = [svc EXCEPT ![i].poll = f]
                        /\ UNCHANGED killPending
  BY <1>0, <1>3 DEF TearingDownIsDoomed, Service
<1>4. CASE UNCHANGED <<svc, killPending>>
  BY <1>4 DEF TearingDownIsDoomed
<1>5. ASSUME NEW i, NEW s, i \in Inst => s \in Service,
             i \in Inst => (s.tearing => svc[i].tearing),
             CloseTunnel(i, s) \/ \E S : DieIgnored(i, s, S)
      PROVE  TearingDownIsDoomed'
  <2>1. UNCHANGED killPending
    BY <1>5 DEF CloseTunnel, DieIgnored
  <2>2. \E t : /\ svc' = [svc EXCEPT ![i] = t]
               /\ i \in Inst => t \in Service /\ (t.tearing => svc[i].tearing)
    <3>1. CASE CloseTunnel(i, s)
      <4> DEFINE t == [s EXCEPT !.tun = NoFd, !.poll = Cancel(s.poll)]
      <4>1. i \in Inst => t \in Service /\ t.tearing = s.tearing
        BY <1>5 DEF Service, Cancel
      <4> QED BY <1>5, <3>1, <4>1 DEF CloseTunnel
    <3>2. CASE \E S : DieIgnored(i, s, S)
      BY <1>5, <3>2 DEF DieIgnored
    <3> QED BY <1>5, <3>1, <3>2
  <2> QED BY <1>0, <2>1, <2>2 DEF TearingDownIsDoomed
<1>6. CASE \E i \in Inst : OnStop(i) \/ OnNullStart(i)
  <2>1. PICK i \in Inst : OnStop(i) \/ OnNullStart(i)
    BY <1>6
  <2>2. Fields(i) \in Service /\ (Fields(i).tearing => svc[i].tearing)
    BY FieldsType DEF Fields, Fresh
  <2>3. CASE OnStop(i)
    <3> DEFINE s == [Fields(i) EXCEPT !.block = NoFd]
    <3>1. s \in Service /\ (s.tearing => svc[i].tearing)
      BY <2>2 DEF Service
    <3> HIDE DEF s
    <3>2. killPending' = TRUE \/ \E S : DieIgnored(i, s, S)
      BY <2>3 DEF OnStop, TearDown, s
    <3> QED BY <1>1, <1>5, <3>1, <3>2
  <2>4. CASE OnNullStart(i)
    <3> DEFINE s == [Fields(i) EXCEPT !.aether = FALSE, !.tor = FALSE]
    <3>1. s \in Service /\ (s.tearing => svc[i].tearing)
      BY <2>2 DEF Service
    <3> HIDE DEF s
    <3>2. killPending' = TRUE \/ CloseTunnel(i, s) \/ \E S : DieIgnored(i, s, S)
      BY <2>4 DEF OnNullStart, TearDown, s
    <3> QED BY <1>1, <1>5, <3>1, <3>2
  <2> QED BY <2>1, <2>3, <2>4
<1>7. CASE \E i \in Inst : OnWarm(i)
  <2>1. PICK i \in Inst : OnWarm(i)
    BY <1>7
  <2>2. Fields(i) \in Service /\ (Fields(i).tearing => svc[i].tearing)
    BY FieldsType DEF Fields, Fresh
  <2>3. svc' = [svc EXCEPT ![i] = Fields(i)] /\ UNCHANGED killPending
    BY <2>1 DEF OnWarm
  <2> QED BY <1>2, <2>2, <2>3
<1>8. CASE \E i \in Inst : OnStart(i)
  <2>1. PICK i \in Inst : OnStart(i)
    BY <1>8
  <2>2. Fields(i) \in Service /\ (Fields(i).tearing => svc[i].tearing)
    BY FieldsType DEF Fields, Fresh
  <2>3. \A a, b \in BOOLEAN :
          /\ [Fields(i) EXCEPT !.aether = a, !.tor = b] \in Service
          /\ [Fields(i) EXCEPT !.aether = a, !.tor = b].tearing = Fields(i).tearing
          /\ [[Fields(i) EXCEPT !.aether = a, !.tor = b] EXCEPT !.tearing = FALSE] \in Service
          /\ [[Fields(i) EXCEPT !.aether = a, !.tor = b] EXCEPT !.tearing = FALSE].tearing = FALSE
    BY <2>2 DEF Service
  <2> DEFINE a == Head(intents).cfg \in AetherConfigs
             b == Head(intents).cfg \in TorConfigs
             s == [Fields(i) EXCEPT !.aether = a, !.tor = b]
  <2>4. a \in BOOLEAN /\ b \in BOOLEAN
    BY SMT
  <2>5. /\ \/ svc' = [svc EXCEPT ![i] = s]
           \/ svc' = [svc EXCEPT ![i] = [s EXCEPT !.tearing = FALSE]]
        /\ UNCHANGED killPending
    BY <2>1 DEF OnStart
  <2>6. /\ s \in Service /\ s.tearing = Fields(i).tearing
        /\ [s EXCEPT !.tearing = FALSE] \in Service
        /\ [s EXCEPT !.tearing = FALSE].tearing = FALSE
    BY <2>3, <2>4, Zenon
  <2> HIDE DEF s
  <2> QED BY <1>2, <2>2, <2>5, <2>6
<1>9. CASE (\E i \in Inst : OnDestroy(i) \/ PollCheck(i) \/ PollSend(i)) \/ MainBlock
  BY <1>3, <1>9 DEF OnDestroy, PollCheck, PollSend, MainBlock, BlockTraffic
<1>10. CASE \E j \in Job : JobStep(j)
  <2>1. PICK j \in Job : JobStep(j)
    BY <1>10
  <2>2. CASE JobEstablish(j) \/ JobAnnounce(j) \/ JobBlock(j)
    BY <1>3, <1>4, <2>2 DEF JobEstablish, JobAnnounce, JobBlock, BlockTraffic, JobFrame
  <2>3. CASE JobDie(j)
    <3>1. \/ killPending' = TRUE
          \/ CloseTunnel(jobs[j].inst, svc[jobs[j].inst])
          \/ DieIgnored(jobs[j].inst, svc[jobs[j].inst], {})
      BY <2>3 DEF JobDie, TearDown
    <3> QED BY <1>0, <1>1, <1>5, <3>1
  <2>4. CASE JobAether(j) \/ JobAetherWait(j) \/ JobCore(j) \/ JobStart(j)
             \/ JobTor(j) \/ JobTorWait(j)
    BY <1>4, <2>4 DEF JobAether, JobAetherWait, JobCore, JobStart, JobTor, JobTorWait, JobFrame
  <2> QED BY <2>1, <2>2, <2>3, <2>4 DEF JobStep
<1>11. CASE KillProcess \/ Crash
  BY <1>11 DEF KillProcess, Crash, ProcessDeath, TearingDownIsDoomed, Fresh
<1>12. CASE RestartSticky \/ OnRevoke \/ ClientNext \/ UNCHANGED vars
  BY <1>4, <1>12 DEF RestartSticky, OnRevoke, ClientNext, Receive, SetKillSwitch, Send, vars, svcVars
<1> QED BY <1>6, <1>7, <1>8, <1>9, <1>10, <1>11, <1>12 DEF Next, ServiceNext, MainThread

\* A service object is tearing down only in a process that killProcess is
\* about to end.
LEMMA DoomedCorrect == Spec => []TearingDownIsDoomed
<1>1. Init => TearingDownIsDoomed
  BY DEF Init, TearingDownIsDoomed, Fresh
<1>2. TypeOK /\ TearingDownIsDoomed /\ [Next]_vars => TearingDownIsDoomed'
  BY DoomedStep
<1> QED BY <1>1, <1>2, TypeCorrect, PTL DEF Spec

\* While the process has the kill switch on, only a STOP schedules its end:
\* every error path of the coroutines and of the sticky restart stays in the
\* service and blocks.
THEOREM KillSwitchStays == Spec => KillSwitchKeepsService
<1> DEFINE A == KillSwitch = "on" /\ ~killPending /\ killPending'
                => intents # <<>> /\ Head(intents).act = "STOP"
<1>1. ASSUME [Next]_vars PROVE [A]_vars
  <2> SUFFICES ASSUME KillSwitch = "on", ~killPending, killPending'
               PROVE  intents # <<>> /\ Head(intents).act = "STOP"
    OBVIOUS
  <2>1. CASE \E i \in Inst : OnStop(i)
    BY <2>1 DEF OnStop, Receives
  <2>2. CASE \E i \in Inst : OnWarm(i) \/ OnStart(i) \/ OnDestroy(i) \/ PollCheck(i) \/ PollSend(i)
    BY <2>2 DEF OnWarm, OnStart, OnDestroy, PollCheck, PollSend
  <2>3. CASE \E i \in Inst : OnNullStart(i)
    BY <2>3 DEF OnNullStart, DieIgnored, CloseTunnel
  <2>4. CASE \E j \in Job : JobDie(j)
    BY <2>4 DEF JobDie, DieIgnored, CloseTunnel
  <2>5. CASE MainBlock \/ \E j \in Job : JobBlock(j)
    BY <2>5 DEF MainBlock, JobBlock, BlockTraffic
  <2>6. CASE \E j \in Job : \/ JobEstablish(j) \/ JobAether(j) \/ JobAetherWait(j) \/ JobCore(j)
                            \/ JobStart(j) \/ JobTor(j) \/ JobTorWait(j) \/ JobAnnounce(j)
    BY <2>6 DEF JobEstablish, JobAether, JobAetherWait, JobCore, JobStart, JobTor,
                JobTorWait, JobAnnounce, JobFrame
  <2>7. CASE KillProcess \/ Crash
    BY <2>7 DEF KillProcess, Crash, ProcessDeath
  <2>8. CASE RestartSticky \/ OnRevoke \/ ClientNext \/ UNCHANGED vars
    BY <2>8 DEF RestartSticky, OnRevoke, ClientNext, Receive, SetKillSwitch, Send, vars, svcVars
  <2> QED BY <1>1, <2>1, <2>2, <2>3, <2>4, <2>5, <2>6, <2>7, <2>8
          DEF Next, ServiceNext, MainThread, JobStep
<1> QED BY <1>1, PTL DEF Spec, KillSwitchKeepsService

-----------------------------------------------------------------------------
(* The interface that blocks traffic. *)

\* A blocking interface is nobody else's: not the engine's, not the tunnel of
\* any service object, not that of a coroutine.
BlocksApart ==
    \A i \in Inst : svc[i].block # NoFd =>
        /\ core.fd # svc[i].block
        /\ \A k \in Inst : svc[k].tun # svc[i].block
        /\ \A j \in Job : jobs[j].fd # svc[i].block

\* A coroutine under way belongs to a service object.
JobsLaunched == \A j \in Job : jobs[j].pc # "idle" => jobs[j].inst \in Inst

\* A step that only moves or drops descriptors.
SvcDrops == \A i \in Inst : /\ svc'[i].block \in {svc[i].block, NoFd}
                            /\ svc'[i].tun \in {svc[i].tun, NoFd}
CoreMoves == core'.fd \in {core.fd, NoFd} \cup {jobs[j].fd : j \in Job}
JobsDrop == \A j \in Job : /\ jobs'[j].fd \in {jobs[j].fd, NoFd}
                           /\ jobs'[j].pc # "idle" =>
                                 \/ jobs'[j].inst \in Inst
                                 \/ jobs'[j].inst = jobs[j].inst /\ jobs[j].pc # "idle"

\* Such a step keeps the blocking interfaces apart.
LEMMA DropKeeps ==
    ASSUME BlocksApart, JobsLaunched, SvcDrops, CoreMoves, JobsDrop
    PROVE  BlocksApart' /\ JobsLaunched'
<1>1. JobsLaunched'
  BY DEF JobsLaunched, JobsDrop
<1>2. ASSUME NEW i \in Inst, svc'[i].block # NoFd
      PROVE  /\ core'.fd # svc'[i].block
             /\ \A k \in Inst : svc'[k].tun # svc'[i].block
             /\ \A j \in Job : jobs'[j].fd # svc'[i].block
  <2>1. svc'[i].block = svc[i].block
    BY <1>2 DEF SvcDrops
  <2>2. /\ core.fd # svc[i].block
        /\ \A k \in Inst : svc[k].tun # svc[i].block
        /\ \A j \in Job : jobs[j].fd # svc[i].block
    BY <1>2, <2>1 DEF BlocksApart
  <2> QED BY <1>2, <2>1, <2>2 DEF SvcDrops, CoreMoves, JobsDrop
<1>3. BlocksApart'
  BY <1>2 DEF BlocksApart
<1> QED BY <1>1, <1>3

\* The object that a step replaces keeps its descriptors or drops them.
LEMMA ReplaceDrops ==
    ASSUME TypeOK, NEW i, NEW s, svc' = [svc EXCEPT ![i] = s],
           i \in Inst => s.block \in {svc[i].block, NoFd} /\ s.tun \in {svc[i].tun, NoFd}
    PROVE  SvcDrops
<1>1. svc \in [Inst -> Service]
  BY DEF TypeOK
<1>2. \A k \in Inst : svc'[k] = IF k = i THEN s ELSE svc[k]
  BY <1>1
<1> QED BY <1>2 DEF SvcDrops

\* The fields an intent finds are those of the object it is delivered to, or
\* those of a new object, which holds nothing.
LEMMA FieldsDrop ==
    ASSUME TypeOK, NEW i \in Inst
    PROVE  /\ Fields(i) \in Service
           /\ Fields(i).block \in {svc[i].block, NoFd}
           /\ Fields(i).tun \in {svc[i].tun, NoFd}
BY FieldsType DEF Fields, Fresh

\* What die() and its parts do to the object and to the engine.
LEMMA DieDrops ==
    ASSUME TypeOK, NEW i, NEW s,
           i \in Inst => /\ s \in Service
                         /\ s.block \in {svc[i].block, NoFd} /\ s.tun \in {svc[i].tun, NoFd},
           \/ CloseTunnel(i, s)
           \/ \E S : DieIgnored(i, s, S)
           \/ \E S, m : TearDown(i, s, S, m)
    PROVE  SvcDrops /\ CoreMoves
<1>1. CoreMoves
  <2>1. core' \in {core, NoCore}
    BY DEF CloseTunnel, DieIgnored, TearDown
  <2> QED BY <2>1 DEF CoreMoves, NoCore
<1>2. CASE \E S : DieIgnored(i, s, S)
  BY <1>1, <1>2, ReplaceDrops DEF DieIgnored
<1>3. CASE CloseTunnel(i, s)
  <2> DEFINE t == [s EXCEPT !.tun = NoFd, !.poll = Cancel(s.poll)]
  <2>1. i \in Inst => t.block = s.block /\ t.tun = NoFd
    BY DEF Service
  <2>2. svc' = [svc EXCEPT ![i] = t]
    BY <1>3 DEF CloseTunnel
  <2> HIDE DEF t
  <2> QED BY <1>1, <2>1, <2>2, ReplaceDrops
<1>4. CASE \E S, m : TearDown(i, s, S, m)
  <2> DEFINE t == [s EXCEPT !.tearing = TRUE, !.poll = Cancel(s.poll)]
  <2>1. i \in Inst => t.block = s.block /\ t.tun = s.tun
    BY DEF Service
  <2>2. svc' = [svc EXCEPT ![i] = t]
    BY <1>4 DEF TearDown
  <2> HIDE DEF t
  <2> QED BY <1>1, <2>1, <2>2, ReplaceDrops
<1> QED BY <1>2, <1>3, <1>4

\* A blocking interface, or a tunnel, on a descriptor that nobody refers to.
LEMMA FreshApart ==
    ASSUME TypeOK, BlocksApart, JobsLaunched, NEW f \in FreeFds, NEW i, UNCHANGED core,
           \/ /\ svc' = [svc EXCEPT ![i].block = f]
              /\ JobsDrop
           \/ /\ svc' = [svc EXCEPT ![i].tun = f]
              /\ \E j \in Job : /\ jobs[j].pc # "idle"
                                /\ jobs' = [jobs EXCEPT ![j].pc = "aether", ![j].fd = f]
    PROVE  BlocksApart' /\ JobsLaunched'
<1>0. svc \in [Inst -> Service] /\ jobs \in [Job -> JobType] /\ NoFd \notin Fd
  BY ServiceAssumption DEF TypeOK, JobType
<1>1. /\ f \in Fd /\ core.fd # f
      /\ \A k \in Inst : svc[k].tun # f /\ svc[k].block # f
      /\ \A j \in Job : jobs[j].fd # f
  BY DEF FreeFds
<1>2. CASE svc' = [svc EXCEPT ![i].block = f] /\ JobsDrop
  <2>1. \A k \in Inst : /\ svc'[k].tun = svc[k].tun
                        /\ svc'[k].block = IF k = i THEN f ELSE svc[k].block
    BY <1>0, <1>2 DEF Service
  <2>2. \A j \in Job : jobs'[j].fd \in {jobs[j].fd, NoFd}
    BY <1>2 DEF JobsDrop
  <2>3. JobsLaunched'
    BY <1>2 DEF JobsDrop, JobsLaunched
  <2>4. BlocksApart'
    BY <1>0, <1>1, <2>1, <2>2 DEF BlocksApart
  <2> QED BY <2>3, <2>4
<1>3. CASE /\ svc' = [svc EXCEPT ![i].tun = f]
           /\ \E j \in Job : /\ jobs[j].pc # "idle"
                             /\ jobs' = [jobs EXCEPT ![j].pc = "aether", ![j].fd = f]
  <2>1. PICK j \in Job : /\ jobs[j].pc # "idle"
                         /\ jobs' = [jobs EXCEPT ![j].pc = "aether", ![j].fd = f]
    BY <1>3
  <2>2. \A k \in Inst : /\ svc'[k].block = svc[k].block
                        /\ svc'[k].tun = IF k = i THEN f ELSE svc[k].tun
    BY <1>0, <1>3 DEF Service
  <2>3. /\ \A k \in Job \ {j} : jobs'[k] = jobs[k]
        /\ jobs'[j].fd = f /\ jobs'[j].inst = jobs[j].inst
    BY <1>0, <2>1 DEF JobType
  <2>4. JobsLaunched'
    BY <2>1, <2>3 DEF JobsLaunched
  <2>5. BlocksApart'
    BY <1>0, <1>1, <2>2, <2>3 DEF BlocksApart
  <2> QED BY <2>4, <2>5
<1> QED BY <1>2, <1>3

\* A coroutine that ends, or that moves on with the descriptor it has.
LEMMA JobDrops ==
    ASSUME TypeOK, NEW j \in Job,
           \/ jobs' = [jobs EXCEPT ![j] = IdleJob]
           \/ jobs[j].pc # "idle" /\ \E pc : Goto(j, pc)
    PROVE  JobsDrop
<1>0. jobs \in [Job -> JobType]
  BY DEF TypeOK, JobType
<1>1. CASE jobs' = [jobs EXCEPT ![j] = IdleJob]
  BY <1>0, <1>1 DEF IdleJob, JobsDrop
<1>2. CASE jobs[j].pc # "idle" /\ \E pc : Goto(j, pc)
  <2>1. PICK pc : jobs' = [jobs EXCEPT ![j].pc = pc]
    BY <1>2 DEF Goto
  <2>2. /\ \A k \in Job \ {j} : jobs'[k] = jobs[k]
        /\ jobs'[j].fd = jobs[j].fd /\ jobs'[j].inst = jobs[j].inst
    BY <1>0, <2>1 DEF JobType
  <2> QED BY <1>2, <2>2 DEF JobsDrop
<1> QED BY <1>1, <1>2

\* Every step keeps the blocking interfaces apart from the others.
LEMMA ApartStep ==
    ASSUME TypeOK, BlocksApart, JobsLaunched, [Next]_vars
    PROVE  BlocksApart' /\ JobsLaunched'
<1>0. svc \in [Inst -> Service] /\ jobs \in [Job -> JobType]
  BY DEF TypeOK, JobType
<1>s. UNCHANGED svc => SvcDrops
  BY DEF SvcDrops
<1>c. core' \in {core, NoCore} => CoreMoves
  BY DEF CoreMoves, NoCore
<1>j. UNCHANGED jobs => JobsDrop
  BY DEF JobsDrop
<1>p. ASSUME NEW i, NEW p, svc' = [svc EXCEPT ![i].poll = p] PROVE SvcDrops
  BY <1>0, <1>p DEF SvcDrops, Service
<1>n. ASSUME NEW i, svc' = [svc EXCEPT ![i].block = NoFd] PROVE SvcDrops
  BY <1>0, <1>n DEF SvcDrops, Service
<1>b. ASSUME NEW i, BlockTraffic(i), JobsDrop PROVE BlocksApart' /\ JobsLaunched'
  <2>1. UNCHANGED core
    BY <1>b DEF BlockTraffic
  <2>2. CASE \E f \in FreeFds : svc' = [svc EXCEPT ![i].block = f]
    BY <1>b, <2>1, <2>2, FreshApart
  <2>3. CASE svc' = [svc EXCEPT ![i].block = NoFd]
    BY <1>b, <1>c, <1>n, <2>1, <2>3, DropKeeps
  <2> QED BY <1>b, <2>2, <2>3 DEF BlockTraffic
<1>1. CASE \E i \in Inst : OnStop(i) \/ OnNullStart(i)
  <2>1. PICK i \in Inst : OnStop(i) \/ OnNullStart(i)
    BY <1>1
  <2>2. UNCHANGED jobs
    BY <2>1 DEF OnStop, OnNullStart
  <2>3. CASE OnStop(i)
    <3> DEFINE s == [Fields(i) EXCEPT !.block = NoFd]
    <3>1. s \in Service /\ s.block = NoFd /\ s.tun \in {svc[i].tun, NoFd}
      BY FieldsDrop DEF Service
    <3> HIDE DEF s
    <3>2. (\E S : DieIgnored(i, s, S)) \/ \E S, m : TearDown(i, s, S, m)
      BY <2>3 DEF OnStop, s
    <3> QED BY <1>j, <2>2, <3>1, <3>2, DieDrops, DropKeeps
  <2>4. CASE OnNullStart(i)
    <3> DEFINE s == [Fields(i) EXCEPT !.aether = FALSE, !.tor = FALSE]
    <3>1. /\ s \in Service
          /\ s.block \in {svc[i].block, NoFd} /\ s.tun \in {svc[i].tun, NoFd}
      BY FieldsDrop DEF Service
    <3> HIDE DEF s
    <3>2. \/ CloseTunnel(i, s)
          \/ \E S : DieIgnored(i, s, S)
          \/ \E S, m : TearDown(i, s, S, m)
      BY <2>4 DEF OnNullStart, s
    <3> QED BY <1>j, <2>2, <3>1, <3>2, DieDrops, DropKeeps
  <2> QED BY <2>1, <2>3, <2>4
<1>2. CASE \E i \in Inst : OnWarm(i)
  <2>1. PICK i \in Inst : OnWarm(i)
    BY <1>2
  <2>2. svc' = [svc EXCEPT ![i] = Fields(i)] /\ UNCHANGED <<jobs, core>>
    BY <2>1 DEF OnWarm
  <2>3. SvcDrops
    BY <2>2, FieldsDrop, ReplaceDrops
  <2> QED BY <1>c, <1>j, <2>2, <2>3, DropKeeps
<1>3. CASE \E i \in Inst : OnStart(i)
  <2>1. PICK i \in Inst : OnStart(i)
    BY <1>3
  <2> DEFINE a == Head(intents).cfg \in AetherConfigs
             b == Head(intents).cfg \in TorConfigs
             s == [Fields(i) EXCEPT !.aether = a, !.tor = b]
             t == [s EXCEPT !.tearing = FALSE]
  <2>2. /\ s.block = Fields(i).block /\ s.tun = Fields(i).tun
        /\ t.block = Fields(i).block /\ t.tun = Fields(i).tun
    BY FieldsDrop DEF Service
  <2>3. /\ svc' = [svc EXCEPT ![i] = s] \/ svc' = [svc EXCEPT ![i] = t]
        /\ UNCHANGED core
    BY <2>1 DEF OnStart
  <2> HIDE DEF s, t
  <2>4. SvcDrops
    BY <2>2, <2>3, FieldsDrop, ReplaceDrops
  <2>5. \/ UNCHANGED jobs
        \/ \E j \in Job : \E c :
              jobs' = [jobs EXCEPT ![j] = [pc |-> "establish", inst |-> i,
                                           cfg |-> c, fd |-> NoFd]]
    BY <2>1 DEF OnStart
  <2>6. JobsDrop
    BY <1>0, <2>5 DEF JobsDrop
  <2> QED BY <1>c, <2>3, <2>4, <2>6, DropKeeps
<1>4. CASE \E i \in Inst : OnDestroy(i)
  <2>1. PICK i \in Inst : OnDestroy(i)
    BY <1>4
  <2>2. svc' = [svc EXCEPT ![i].block = NoFd] /\ UNCHANGED <<jobs, core>>
    BY <2>1 DEF OnDestroy
  <2> QED BY <1>c, <1>j, <1>n, <2>2, DropKeeps
<1>5. CASE \E i \in Inst : PollCheck(i) \/ PollSend(i)
  <2>1. PICK i \in Inst : PollCheck(i) \/ PollSend(i)
    BY <1>5
  <2>2. (\E p : svc' = [svc EXCEPT ![i].poll = p]) /\ UNCHANGED <<jobs, core>>
    BY <2>1 DEF PollCheck, PollSend
  <2> QED BY <1>c, <1>j, <1>p, <2>2, DropKeeps
<1>6. CASE MainBlock
  BY <1>6, <1>b, <1>j DEF MainBlock
<1>7. CASE \E j \in Job : JobEstablish(j)
  <2>1. PICK j \in Job : JobEstablish(j)
    BY <1>7
  <2>2. jobs[j].pc # "idle" /\ UNCHANGED core
    BY <2>1 DEF JobEstablish, At
  <2>3. CASE \E f \in FreeFds :
                /\ svc' = [svc EXCEPT ![jobs[j].inst].tun = f]
                /\ jobs' = [jobs EXCEPT ![j].pc = "aether", ![j].fd = f]
    BY <2>2, <2>3, FreshApart
  <2>4. CASE Goto(j, "die") /\ UNCHANGED svc
    BY <1>c, <1>s, <2>2, <2>4, JobDrops, DropKeeps
  <2> QED BY <2>1, <2>3, <2>4 DEF JobEstablish
<1>8. CASE \E j \in Job : JobAether(j) \/ JobAetherWait(j) \/ JobTor(j) \/ JobTorWait(j) \/ JobCore(j)
  <2>1. PICK j \in Job : JobAether(j) \/ JobAetherWait(j) \/ JobTor(j) \/ JobTorWait(j) \/ JobCore(j)
    BY <1>8
  <2>2. /\ jobs[j].pc # "idle" /\ \E pc : Goto(j, pc)
        /\ UNCHANGED svc /\ core' \in {core, NoCore}
    BY <2>1 DEF JobAether, JobAetherWait, JobTor, JobTorWait, JobCore, At
  <2> QED BY <1>c, <1>s, <2>2, JobDrops, DropKeeps
<1>9. CASE \E j \in Job : JobStart(j)
  <2>1. PICK j \in Job : JobStart(j)
    BY <1>9
  <2>2. /\ jobs[j].pc # "idle" /\ \E pc : Goto(j, pc)
        /\ UNCHANGED svc /\ core'.fd = jobs[j].fd
    BY <2>1 DEF JobStart, At
  <2>3. CoreMoves
    BY <2>2 DEF CoreMoves
  <2> QED BY <1>s, <2>2, <2>3, JobDrops, DropKeeps
<1>10. CASE \E j \in Job : JobAnnounce(j)
  <2>1. PICK j \in Job : JobAnnounce(j)
    BY <1>10
  <2>2. /\ svc' = [svc EXCEPT ![jobs[j].inst].poll = "wait"]
        /\ jobs' = [jobs EXCEPT ![j] = IdleJob] /\ UNCHANGED core
    BY <2>1 DEF JobAnnounce
  <2> QED BY <1>c, <1>p, <2>2, JobDrops, DropKeeps
<1>11. CASE \E j \in Job : JobDie(j)
  <2>1. PICK j \in Job : JobDie(j)
    BY <1>11
  <2> DEFINE i == jobs[j].inst
  <2>2. /\ jobs[j].pc # "idle"
        /\ jobs' = [jobs EXCEPT ![j] = IdleJob] \/ Goto(j, "block")
    BY <2>1 DEF JobDie, At
  <2>3. JobsDrop
    BY <2>2, JobDrops
  <2>4. \/ CloseTunnel(i, svc[i])
        \/ \E S : DieIgnored(i, svc[i], S)
        \/ \E S, m : TearDown(i, svc[i], S, m)
    BY <2>1 DEF JobDie
  <2>5. i \in Inst => svc[i] \in Service
    BY <1>0
  <2> HIDE DEF i
  <2>6. SvcDrops /\ CoreMoves
    BY <2>4, <2>5, DieDrops
  <2> QED BY <2>3, <2>6, DropKeeps
<1>12. CASE \E j \in Job : JobBlock(j)
  BY <1>12, <1>b, JobDrops DEF JobBlock
<1>13. CASE KillProcess \/ Crash
  BY <1>13 DEF KillProcess, Crash, ProcessDeath, BlocksApart, JobsLaunched, Fresh, IdleJob
<1>14. CASE RestartSticky \/ OnRevoke \/ ClientNext \/ UNCHANGED vars
  <2>1. UNCHANGED <<svc, core, jobs>>
    BY <1>14 DEF RestartSticky, OnRevoke, ClientNext, Receive, SetKillSwitch, Send, vars, svcVars
  <2> QED BY <1>c, <1>j, <1>s, <2>1, DropKeeps
<1> QED BY <1>1, <1>2, <1>3, <1>4, <1>5, <1>6, <1>7, <1>8, <1>9, <1>10, <1>11, <1>12, <1>13, <1>14
        DEF Next, ServiceNext, MainThread, JobStep

\* The interface that blocks traffic is given up only by the user's STOP, by
\* onDestroy, by another VPN app or with the process: whatever the coroutines
\* close, they never close that one.
THEOREM BlockStays == Spec => BlockHolds
<1> DEFINE Given == \/ intents # <<>> /\ Head(intents).act \in {"STOP", "DESTROY"} /\ main = "idle"
                    \/ OnRevoke \/ ~alive'
           A == (\E i \in Inst : vpn = svc[i].block /\ vpn # NoFd) /\ vpn' = NoFd => Given
<1>1. Init => BlocksApart /\ JobsLaunched
  BY DEF Init, BlocksApart, JobsLaunched, Fresh, IdleJob
<1>2. TypeOK /\ BlocksApart /\ JobsLaunched /\ [Next]_vars => BlocksApart' /\ JobsLaunched'
  BY ApartStep
<1>3. ASSUME TypeOK, BlocksApart, JobsLaunched, [Next]_vars PROVE [A]_vars
  <2> SUFFICES ASSUME NEW b \in Inst, vpn = svc[b].block, vpn # NoFd, vpn' = NoFd
               PROVE  Given
    OBVIOUS
  <2>0. /\ vpn \in Fd /\ vpn \notin CoreFds
        /\ \A i \in Inst : vpn \notin Pfd(svc[i].tun)
        /\ NoFd \notin Fd /\ NoFd \notin FreeFds
    BY <1>3, ServiceAssumption DEF TypeOK, BlocksApart, CoreFds, Pfd, FreeFds
  <2>x. \A S : CloseAll(S) => vpn \in S
    BY DEF CloseAll
  <2>b. ASSUME NEW i PROVE ~BlockTraffic(i)
    BY <2>0 DEF BlockTraffic, Establish, osVars
  <2>d. ASSUME NEW i, NEW s PROVE /\ ~DieIgnored(i, s, {})
                                  /\ \A m : ~TearDown(i, s, {}, m)
                                  /\ CloseTunnel(i, s) => vpn \in Pfd(s.tun)
    BY <2>0, <2>x DEF DieIgnored, TearDown, CloseTunnel
  <2>1. CASE \E i \in Inst : OnStop(i) \/ OnDestroy(i)
    BY <2>1 DEF OnStop, OnDestroy, Receives
  <2>2. CASE \E i \in Inst : OnWarm(i) \/ OnStart(i) \/ PollCheck(i) \/ PollSend(i)
    BY <2>2 DEF OnWarm, OnStart, PollCheck, PollSend, osVars
  <2>3. CASE \E i \in Inst : OnNullStart(i)
    <3>1. PICK i \in Inst : OnNullStart(i)
      BY <2>3
    <3> DEFINE s == [Fields(i) EXCEPT !.aether = FALSE, !.tor = FALSE]
    <3>2. s.tun \in {svc[i].tun, NoFd}
      BY <1>3, FieldsDrop DEF Service
    <3> HIDE DEF s
    <3>3. CloseTunnel(i, s) \/ DieIgnored(i, s, {}) \/ TearDown(i, s, {}, "error")
      BY <3>1 DEF OnNullStart, s
    <3>4. vpn \in Pfd(s.tun)
      BY <2>d, <3>3
    <3> QED BY <2>0, <3>2, <3>4 DEF Pfd
  <2>4. CASE \E j \in Job : JobDie(j)
    <3>1. PICK j \in Job : JobDie(j)
      BY <2>4
    <3> DEFINE i == jobs[j].inst
    <3>2. i \in Inst
      BY <1>3, <3>1 DEF JobsLaunched, JobDie, At
    <3>3. \/ CloseTunnel(i, svc[i]) \/ DieIgnored(i, svc[i], {})
          \/ TearDown(i, svc[i], {}, "error")
      BY <3>1 DEF JobDie
    <3> HIDE DEF i
    <3> QED BY <2>0, <2>d, <3>2, <3>3
  <2>5. CASE MainBlock \/ \E j \in Job : JobBlock(j)
    BY <2>5, <2>b DEF MainBlock, JobBlock
  <2>6. CASE \E j \in Job : JobEstablish(j)
    BY <2>6, <2>0 DEF JobEstablish, Establish, osVars
  <2>7. CASE \E j \in Job : JobCore(j) \/ JobStart(j)
    BY <2>7, <2>0, <2>x DEF JobCore, JobStart
  <2>8. CASE \E j \in Job : \/ JobAether(j) \/ JobAetherWait(j) \/ JobTor(j) \/ JobTorWait(j)
                            \/ JobAnnounce(j)
    BY <2>8 DEF JobAether, JobAetherWait, JobTor, JobTorWait, JobAnnounce, osVars
  <2>9. CASE KillProcess \/ Crash \/ OnRevoke
    BY <2>9 DEF KillProcess, Crash, ProcessDeath
  <2>10. CASE RestartSticky \/ ClientNext \/ UNCHANGED vars
    BY <2>10 DEF RestartSticky, ClientNext, Receive, SetKillSwitch, Send, vars, svcVars
  <2> QED BY <1>3, <2>1, <2>2, <2>3, <2>4, <2>5, <2>6, <2>7, <2>8, <2>9, <2>10
          DEF Next, ServiceNext, MainThread, JobStep
<1> QED BY <1>1, <1>2, <1>3, TypeCorrect, PTL DEF Spec, BlockHolds
=============================================================================
