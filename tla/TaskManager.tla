----------------------------- MODULE TaskManager -----------------------------
(***************************************************************************)
(* The IKEv2 task manager of libcharon on the two ends of one established  *)
(* IKE_SA: the phone, which set it up, and the gateway.  Message IDs count *)
(* from the first exchange after IKE_AUTH.  The network loses, duplicates, *)
(* delays and reorders messages.  A handler runs with the IKE_SA checked   *)
(* out, so it is one step; record s is the task manager and its IKE_SA.    *)
(***************************************************************************)
EXTENDS Naturals, FiniteSets

CONSTANTS MaxMid,      \* bound: exchanges per direction
          PhoneTasks,  \* bound: tasks the phone's application queues
          GateTasks,   \* bound: tasks the gateway queues
          MaxFlips,    \* bound: changes of the phone's connectivity
          MaxFaults,   \* bound: lost messages and early timers of an exchange
          Tries,       \* retransmission.tries
          CheckTries   \* ROUTABILITY_CHECK_TRIES

ASSUME Bounds == /\ MaxMid \in Nat \ {0}
                 /\ {PhoneTasks, GateTasks, MaxFlips, MaxFaults, Tries, CheckTries} \subseteq Nat

Phone == "phone"
Gateway == "gateway"
Peer == {Phone, Gateway}
Other(p) == IF p = Phone THEN Gateway ELSE Phone

Mid == 0..MaxMid
Kind == {"MOBIKE", "DELETE", "CHILD", "DPD"}
Task == [kind : Kind, n : Nat]
NoTask == [kind |-> "none", n |-> 0]
Result == {"done", "unsupported", "syntax"}
NoResult == "none"

\* The exchange type a task is run in.
ExchangeType(kind) == IF kind = "CHILD" THEN "CREATE_CHILD_SA" ELSE "INFORMATIONAL"

Request == [from : Peer, type : {"CREATE_CHILD_SA", "INFORMATIONAL"},
            request : {TRUE}, mid : Mid, body : Task]
Response == [from : Peer, type : {"CREATE_CHILD_SA", "INFORMATIONAL"},
             request : {FALSE}, mid : Mid, body : Result]
NoMsg == [from |-> "none", type |-> "UNDEFINED"]

VARIABLES tm,         \* tm[p]: the task manager of p and the state of its IKE_SA
          net,        \* messages in flight
          route,      \* the phone finds a source address to the gateway
          connected,  \* what the last connectivity callback said
          roamDue,    \* a roam job is scheduled, not before next_roam
          flips       \* changes of connectivity so far

vars == <<tm, net, route, connected, roamDue, flips>>

Manager ==
    [state : {"ESTABLISHED", "DELETING", "DESTROYED"},
     imid : Nat, rmid : Nat,            \* initiating.mid, responding.mid
     queue : SUBSET Task,               \* queued_tasks
     check : BOOLEAN,                   \* the queued MOBIKE task probes paths
     active : Task \cup {NoTask},       \* active_tasks
     probing : BOOLEAN,                 \* the active MOBIKE task probes paths
     packets : Request \cup {NoMsg},    \* initiating.packets
     retransmitted : Nat, deferred : BOOLEAN,
     timers : SUBSET Nat,               \* message IDs with a retransmit job
     response : Response \cup {NoMsg},  \* responding.packets
     prevHash : Request \cup {NoMsg},   \* responding.prev_hash
     created : Nat,                     \* tasks created so far
     faults : Nat,                      \* faults of the network in this exchange
     gaveUp : BOOLEAN,                  \* destroyed by the last retransmit
     issued : [Mid -> Task \cup {NoTask}],       \* history: requests sent,
     completed : [Mid -> Result \cup {NoResult}],\* answers taken,
     ran : [Mid -> Nat],                         \* requests carried out
     result : [Mid -> Result \cup {NoResult}]]   \* and answered

Fresh ==
    [state |-> "ESTABLISHED", imid |-> 0, rmid |-> 0, queue |-> {}, check |-> FALSE,
     active |-> NoTask, probing |-> FALSE, packets |-> NoMsg, retransmitted |-> 0,
     deferred |-> FALSE, timers |-> {}, response |-> NoMsg, prevHash |-> NoMsg,
     created |-> 0, faults |-> 0, gaveUp |-> FALSE,
     issued |-> [k \in Mid |-> NoTask], completed |-> [k \in Mid |-> NoResult],
     ran |-> [k \in Mid |-> 0], result |-> [k \in Mid |-> NoResult]]

Init ==
    /\ tm = [p \in Peer |-> Fresh]
    /\ net = {}
    /\ route = TRUE
    /\ connected = TRUE
    /\ roamDue = FALSE
    /\ flips = 0
-----------------------------------------------------------------------------
(* Initiator *)

\* The IKE_SA is destroyed with all its tasks.
Destroyed(s) ==
    [s EXCEPT !.state = "DESTROYED", !.queue = {}, !.active = NoTask,
              !.packets = NoMsg, !.timers = {}, !.response = NoMsg, !.deferred = FALSE]

\* initiate() activates the first queued task of the first of these kinds.
Rank(kind) == CASE kind = "MOBIKE" -> 1 [] kind = "DELETE" -> 2
                [] kind = "CHILD" -> 3 [] kind = "DPD" -> 4

Precedes(t, u) == \/ Rank(t.kind) < Rank(u.kind)
                  \/ t.kind = u.kind /\ t.n <= u.n

NextTask(s) ==
    IF s.state = "ESTABLISHED" /\ s.queue # {}
    THEN CHOOSE t \in s.queue : \A u \in s.queue : Precedes(t, u)
    ELSE NoTask

\* A MOBIKE task looks for a source address before it sends; a path check uses
\* its own number of tries.
IsMobike(s) == s.active.kind = "MOBIKE"
Limit(s) == IF IsMobike(s) /\ s.probing THEN CheckTries ELSE Tries

\* What a handler leaves: the task manager, the messages it sent, and whether a
\* look-up of the source address failed.
Left(s, out) == [tm |-> s, out |-> out, lookup |-> FALSE]

\* retransmit(): also sends the request for the first time.  A MOBIKE task that
\* finds no source address turns into a path check and is deferred.
Retransmit(s, mid, found) ==
    IF mid # s.imid \/ s.packets = NoMsg THEN Left(s, {})
    ELSE IF s.retransmitted > Limit(s) THEN Left([Destroyed(s) EXCEPT !.gaveUp = TRUE], {})
    ELSE IF IsMobike(s) /\ ~found
         THEN [tm |-> [s EXCEPT !.deferred = TRUE, !.probing = TRUE], out |-> {}, lookup |-> TRUE]
    ELSE Left([s EXCEPT !.retransmitted = @ + 1, !.timers = @ \cup {mid}], {s.packets})

\* The request initiate() builds for task t.
BuildRequest(p, s, t) ==
    [s EXCEPT
       !.active = t, !.queue = @ \ {t},
       !.probing = IF s.active # NoTask THEN @ ELSE t.kind = "MOBIKE" /\ s.check,
       !.check = IF s.active = NoTask /\ t.kind = "MOBIKE" THEN FALSE ELSE @,
       !.packets = [from |-> p, type |-> ExchangeType(t.kind),
                    request |-> TRUE, mid |-> s.imid, body |-> t],
       !.retransmitted = 0, !.deferred = FALSE, !.faults = 0,
       !.state = IF t.kind = "DELETE" THEN "DELETING" ELSE @,
       !.issued[s.imid] = t]

\* Mutant of Initiate: a deferred exchange is not taken up.
InitiateNotDeferred(p, s, found) ==
    IF s.packets # NoMsg THEN Left(s, {})
    ELSE LET t == IF s.active # NoTask THEN s.active ELSE NextTask(s)
         IN IF t = NoTask THEN Left(s, {})
            ELSE Retransmit(BuildRequest(p, s, t), s.imid, found)

\* initiate(): nothing while an exchange is open, unless it was deferred; else
\* the active task (one that needs another exchange) or a new one.
Initiate(p, s, found) ==
    IF s.packets # NoMsg
    THEN IF s.deferred
         THEN Retransmit([s EXCEPT !.deferred = FALSE, !.retransmitted = 0], s.imid, found)
         ELSE Left(s, {})
    ELSE LET t == IF s.active # NoTask THEN s.active ELSE NextTask(s)
         IN IF t = NoTask THEN Left(s, {})
            ELSE Retransmit(BuildRequest(p, s, t), s.imid, found)

\* Only the phone can be without a route.
Found(p) == p = Phone => route

\* The step of p that leaves l; rest is what else is in flight.  A look-up by
\* get_source_addr() that fails although a network is reported schedules another
\* roam job.
Apply(p, l, rest) ==
    /\ tm' = [tm EXCEPT ![p] = l.tm]
    /\ net' = rest \cup l.out
    /\ roamDue' = (roamDue \/ (l.lookup /\ connected))
    /\ UNCHANGED <<route, connected, flips>>
-----------------------------------------------------------------------------
(* Requests of the application and of timers *)

\* queue_mobike_task(): at most one MOBIKE task is queued.
QueueMobike(s, probe) ==
    LET queued == \E t \in s.queue : t.kind = "MOBIKE"
    IN [s EXCEPT !.queue = IF queued THEN @ ELSE @ \cup {[kind |-> "MOBIKE", n |-> s.created + 1]},
                 !.created = IF queued THEN @ ELSE @ + 1,
                 !.check = @ \/ probe,
                 !.probing = @ \/ (probe /\ IsMobike(s))]

\* The SA is up and the bound allows one more task.
Usable(p) ==
    /\ tm[p].state # "DESTROYED"
    /\ tm[p].created < IF p = Phone THEN PhoneTasks ELSE GateTasks

Queue(s, kind) ==
    [s EXCEPT !.queue = @ \cup {[kind |-> kind, n |-> s.created + 1]}, !.created = @ + 1]

\* A CHILD_SA is to be set up or rekeyed.
InitiateChild(p) ==
    /\ Usable(p)
    /\ tm[p].state = "ESTABLISHED"
    /\ Apply(p, Initiate(p, Queue(tm[p], "CHILD"), Found(p)), net)

\* send_dpd(): only when idle.  The phone, which set the IKE_SA up, uses a
\* MOBIKE exchange.
SendDpd(p) ==
    /\ Usable(p)
    /\ tm[p].active = NoTask
    /\ LET s == IF p = Phone THEN QueueMobike(tm[p], FALSE) ELSE Queue(tm[p], "DPD")
       IN Apply(p, Initiate(p, s, Found(p)), net)

\* The IKE_SA is destroyed by the caller, after what l sent.
Forced(l) == [tm |-> Destroyed(l.tm), out |-> l.out, lookup |-> l.lookup]

\* delete(): queued behind an open exchange.  Without an established IKE_SA, or
\* with force (flush() at shutdown), the SA is destroyed at once.
Delete(p) ==
    /\ Usable(p)
    /\ LET l == Initiate(p, Queue(tm[p], "DELETE"), Found(p))
       IN \/ tm[p].state = "ESTABLISHED" /\ Apply(p, l, net)
          \/ tm[p].state = "ESTABLISHED" /\ Apply(p, Forced(l), net)
          \/ tm[p].state # "ESTABLISHED" /\ Apply(p, Left(Destroyed(tm[p]), {}), net)

\* The messages of p's open exchange in flight.
InFlight(p) == {m \in net : /\ m.mid = tm[p].imid
                            /\ m.request = (m.from = p)}

\* A retransmit job.  If it runs while the exchange is in flight the network was
\* too slow, which counts as one of its faults.
RetransmitJob(p) ==
    \E mid \in tm[p].timers :
       /\ tm[p].state # "DESTROYED"
       /\ LET s == [tm[p] EXCEPT !.timers = @ \ {mid},
                                 !.faults = IF InFlight(p) # {} /\ mid = tm[p].imid
                                            THEN @ + 1 ELSE @]
          IN Apply(p, Retransmit(s, mid, Found(p)), net)

\* The phone's network changes, and the connectivity callback schedules a roam
\* job.  It does nothing up to next_roam, and the job scheduled for next_roam has
\* not run by then: a job is due either way.  An address may be missing although
\* a network is reported ...
ConnectivityCb ==
    /\ flips < MaxFlips
    /\ flips' = flips + 1
    /\ connected' \in BOOLEAN
    /\ route' \in {r \in BOOLEAN : r => connected'}
    /\ roamDue' = TRUE
    /\ UNCHANGED <<tm, net>>

\* ... and appear later without another callback.
RouteAppears ==
    /\ connected /\ ~route
    /\ route' = TRUE
    /\ UNCHANGED <<tm, net, connected, roamDue, flips>>

\* Mutant of RoamJob: without a route the look-up is not repeated.
RoamJobOnce ==
    /\ roamDue
    /\ roamDue' = FALSE
    /\ LET s == tm[Phone]
           up == s.state = "ESTABLISHED"
       IN \/ /\ up /\ route
             /\ \E changed \in BOOLEAN :
                  LET l == Initiate(Phone, QueueMobike(s, changed), TRUE)
                  IN tm' = [tm EXCEPT ![Phone] = l.tm] /\ net' = net \cup l.out
          \/ (~up \/ ~route) /\ UNCHANGED <<tm, net>>
    /\ UNCHANGED <<route, connected, flips>>

\* The roam job: with a route the peer is told (the path is checked if the
\* address changed), without one the IKE_SA waits and the look-up is repeated.
RoamJob ==
    /\ roamDue
    /\ LET s == tm[Phone]
           up == s.state = "ESTABLISHED"
       IN \/ /\ up /\ route
             /\ \E changed \in BOOLEAN :
                  LET l == Initiate(Phone, QueueMobike(s, changed), TRUE)
                  IN tm' = [tm EXCEPT ![Phone] = l.tm] /\ net' = net \cup l.out
             /\ roamDue' = FALSE
          \/ /\ ~up \/ ~route
             /\ roamDue' = (up /\ connected)
             /\ UNCHANGED <<tm, net>>
    /\ UNCHANGED <<route, connected, flips>>
-----------------------------------------------------------------------------
(* Responder *)

\* The answer to request m.
Answer(p, m, r) == [from |-> p, type |-> m.type, request |-> FALSE, mid |-> m.mid, body |-> r]

\* Mutant of Process: the expected message ID stays.
ProcessKeepsMid(p, s, m, r) ==
    LET t == [s EXCEPT !.result[m.mid] = r]
        done == [t EXCEPT !.ran[m.mid] = @ + 1, !.prevHash = m, !.response = Answer(p, m, r)]
    IN CASE r = "unsupported" -> t
         [] r = "syntax" -> Destroyed(t)
         [] r = "done" /\ m.body.kind = "DELETE" -> Destroyed(done)
         [] r = "done" /\ m.body.kind # "DELETE" -> done

\* Outcomes of parse_message() and process_request().  A request with an unknown
\* critical payload or an invalid one is answered by a notify that is not kept
\* for retransmission; a DELETE is answered, then the IKE_SA is gone.
Process(p, s, m, r) ==
    LET t == [s EXCEPT !.rmid = @ + 1, !.result[m.mid] = r]
        done == [t EXCEPT !.ran[m.mid] = @ + 1, !.prevHash = m, !.response = Answer(p, m, r)]
    IN CASE r = "unsupported" -> t
         [] r = "syntax" -> Destroyed(t)
         [] r = "done" /\ m.body.kind = "DELETE" -> Destroyed(done)
         [] r = "done" /\ m.body.kind # "DELETE" -> done

\* Mutant of IsRetransmit: the ID is compared with the expected one.
IsRetransmitExpected(s, m) ==
    m.mid = s.rmid /\ s.response # NoMsg /\ m = s.prevHash

\* is_retransmit(): the request before the expected one, unchanged.
IsRetransmit(s, m) ==
    m.mid + 1 = s.rmid /\ s.response # NoMsg /\ m = s.prevHash

ProcessRequest(p, m, rest) ==
    LET s == tm[p]
    IN \/ /\ m.mid = s.rmid
          /\ \E r \in Result : Apply(p, Left(Process(p, s, m, r), {Answer(p, m, r)}), rest)
       \/ /\ IsRetransmit(s, m)
          /\ Apply(p, Left(s, {s.response}), rest)
       \/ /\ m.mid # s.rmid /\ ~IsRetransmit(s, m)
          /\ Apply(p, Left(s, {}), rest)
-----------------------------------------------------------------------------
(* Responses *)

\* Mutant of Completed: the message ID stays.
CompletedKeepsMid(s, m, more) ==
    [s EXCEPT !.packets = NoMsg, !.completed[m.mid] = m.body,
              !.active = IF more THEN @ ELSE NoTask, !.probing = FALSE]

\* The response completes the exchange: next message ID, no packets, and the
\* next task, or the same one if it needs more.
Completed(s, m, more) ==
    [s EXCEPT !.imid = @ + 1, !.packets = NoMsg, !.completed[m.mid] = m.body,
              !.active = IF more THEN @ ELSE NoTask, !.probing = FALSE]

\* is_newer_update_queued(): the result of this path check is obsolete.
NewerQueued(s) == s.check /\ \E t \in s.queue : t.kind = "MOBIKE"

\* The task may return NEED_MORE and stay active: another exchange of a CHILD_SA,
\* or the update that follows a path check.
NeedMore(s) == s.active.kind = "CHILD" \/ (IsMobike(s) /\ s.probing /\ ~NewerQueued(s))

ProcessResponse(p, m, rest) ==
    LET s == tm[p]
        closed == Destroyed([s EXCEPT !.completed[m.mid] = m.body])
    IN \/ /\ m.mid # s.imid
          /\ Apply(p, Left(s, {}), rest)
       \/ /\ m.mid = s.imid
          /\ \/ m.type # s.packets.type
             \/ m.body = "syntax"
             \/ s.active.kind = "DELETE"
             \/ s.active.kind = "MOBIKE" /\ m.body = "unsupported"
          /\ Apply(p, Left(closed, {}), rest)
       \/ /\ m.mid = s.imid
          /\ m.type = s.packets.type /\ m.body # "syntax"
          /\ s.active.kind # "DELETE"
          /\ \E more \in BOOLEAN :
                /\ more => NeedMore(s) /\ m.body = "done"
                /\ Apply(p, Initiate(p, Completed(s, m, more), Found(p)), rest)
-----------------------------------------------------------------------------
(* Network *)

\* A message arrives at p; without an IKE_SA checkout_by_message() finds none
\* and drops it.  A copy may stay in flight.
Receive(p, m) ==
    /\ m.from = Other(p)
    /\ tm[p].state # "DESTROYED"
    /\ tm[p].imid < MaxMid /\ tm[p].rmid < MaxMid
    /\ \E rest \in {net, net \ {m}} :
          IF m.request THEN ProcessRequest(p, m, rest) ELSE ProcessResponse(p, m, rest)

\* p's message is lost; a message of an open exchange counts as its fault.
Lose(m) ==
    /\ net' = net \ {m}
    /\ LET p == IF m.request THEN m.from ELSE Other(m.from)
           open == m \in InFlight(p) /\ tm[p].packets # NoMsg
       IN /\ open => tm[p].faults < MaxFaults
          /\ tm' = [tm EXCEPT ![p].faults = IF open THEN @ + 1 ELSE @]
    /\ UNCHANGED <<route, connected, roamDue, flips>>

Next ==
    \/ \E p \in Peer : \/ InitiateChild(p)
                       \/ SendDpd(p)
                       \/ Delete(p)
                       \/ RetransmitJob(p)
                       \/ \E m \in net : Receive(p, m)
    \/ \E m \in net : Lose(m)
    \/ ConnectivityCb
    \/ RouteAppears
    \/ RoamJob

Spec == Init /\ [][Next]_vars

\* The scheduler runs every job that is due.
Fairness ==
    /\ \A p \in Peer : WF_vars(RetransmitJob(p))
    /\ WF_vars(RoamJob)

LiveSpec == Spec /\ Fairness
-----------------------------------------------------------------------------
(* Properties *)

TypeOK ==
    /\ tm \in [Peer -> Manager]
    /\ net \subseteq Request \cup Response
    /\ {route, connected, roamDue} \subseteq BOOLEAN
    /\ flips \in Nat

\* The peers' message IDs, packets and kept responses implement the exchanges
\* of module Exchange: whatever is lost, repeated or late, every request is
\* carried out at most once and completed by the answer that was given to it.
Abs == INSTANCE Exchange WITH
         issued <- [p \in Peer |-> tm[p].issued],
         ran <- [p \in Peer |-> tm[p].ran],
         result <- [p \in Peer |-> tm[p].result],
         completed <- [p \in Peer |-> tm[p].completed],
         alive <- [p \in Peer |-> tm[p].state # "DESTROYED"]

ImplementsExchange == Abs!Spec

\* Nothing is forgotten: an open request has a retransmit job or was deferred,
\* a deferred one has a roam job unless no network is reported, and no task
\* stays queued while the IKE_SA is idle.
NothingStuck ==
    \A p \in Peer : LET s == tm[p] IN
       /\ s.packets # NoMsg => s.imid \in s.timers \/ s.deferred
       /\ s.deferred => p = Phone /\ (roamDue \/ ~connected)
       /\ s.state = "ESTABLISHED" /\ s.packets = NoMsg => s.queue = {}

\* process_response() destroys the IKE_SA on a response of another exchange
\* type than the open one: two strongSwan peers never send one another such a
\* response, however late a message arrives.
ResponsesExpected ==
    \A p \in Peer, m \in net :
       (m.from = Other(p) /\ ~m.request /\ m.mid = tm[p].imid /\ tm[p].state # "DESTROYED")
       => m.type = tm[p].packets.type

\* The initiator gives up on a peer that still has the IKE_SA only if the
\* network failed it more often than there are retransmissions, or if the
\* request was answered by a notify the responder does not keep.
RetransmissionSuffices ==
    \A p \in Peer : tm[p].gaveUp =>
       \/ tm[p].faults > Tries \/ tm[p].faults > CheckTries
       \/ tm[Other(p)].state = "DESTROYED"
       \/ tm[Other(p)].result[tm[p].imid] = "unsupported"

\* Every exchange ends, with an answer or with the IKE_SA, provided the phone has
\* a route in the end.  (There are finitely many message IDs: one that stays open
\* is the same as always having one open.)
ExchangeEnds ==
    \A p \in Peer : (p = Phone => <>[]route) => []<>(tm[p].packets = NoMsg)
=============================================================================
