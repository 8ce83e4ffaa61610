-------------------------- MODULE TaskManagerProofs --------------------------
(***************************************************************************)
(* Proofs about TaskManager: it implements Exchange and forgets no request,*)
(* for every number of exchanges, tasks, faults, changes of connectivity   *)
(* and retransmissions.                                                    *)
(***************************************************************************)
EXTENDS TaskManager, WellFoundedInduction, TLAPS

-----------------------------------------------------------------------------
(* The invariant *)

\* The request of p with message ID k for task t.
Req(p, k, t) ==
    [from |-> p, type |-> ExchangeType(t.kind), request |-> TRUE, mid |-> k, body |-> t]

\* Message IDs are used in order, in both roles: every exchange before imid was
\* issued and completed, none after it; every request before rmid was answered.
History(s) ==
    /\ s.imid \in Mid /\ s.rmid \in Mid
    /\ \A k \in Mid : k < s.imid => s.issued[k] # NoTask /\ s.completed[k] # NoResult
    /\ \A k \in Mid : k > s.imid => s.issued[k] = NoTask /\ s.completed[k] = NoResult
    /\ \A k \in Mid : s.result[k] # NoResult <=> k < s.rmid
    /\ \A k \in Mid : s.ran[k] = IF s.result[k] = "done" THEN 1 ELSE 0

\* While the IKE_SA is up, the exchange imid is open if and only if its request
\* is kept, and the request is the one of the active task.  A request to delete
\* the IKE_SA is the last one.
OpenRequest(p, s) ==
    IF s.state = "DESTROYED"
    THEN s.packets = NoMsg /\ ~s.deferred
    ELSE /\ s.completed[s.imid] = NoResult
         /\ s.packets = NoMsg => s.active = NoTask /\ s.issued[s.imid] = NoTask
         /\ s.packets # NoMsg => /\ s.active \in Task
                                 /\ s.issued[s.imid] = s.active
                                 /\ s.packets = Req(p, s.imid, s.active)
         /\ s.state = "DELETING" => s.packets # NoMsg /\ s.active.kind = "DELETE" /\ ~s.deferred

\* The jobs that take an exchange up again; see NothingStuck.
Scheduled(s) ==
    /\ s.packets # NoMsg => s.imid \in s.timers \/ s.deferred
    /\ s.state = "ESTABLISHED" /\ s.packets = NoMsg => s.queue = {}

Local == \A p \in Peer : History(tm[p]) /\ OpenRequest(p, tm[p]) /\ Scheduled(tm[p])

\* What initiator s and responder o know of the exchanges s initiates: answered
\* requests were issued, and completed exchanges have the answer that was given.
Agree(s, o) ==
    \A k \in Mid : /\ o.result[k] # NoResult => s.issued[k] # NoTask
                   /\ s.completed[k] # NoResult => s.completed[k] = o.result[k]

Agreement == \A p \in Peer : Agree(tm[p], tm[Other(p)])

\* A message is a request that was issued or an answer that was given.
Genuine(m) ==
    IF m.request
    THEN /\ tm[m.from].issued[m.mid] \in Task
         /\ m = Req(m.from, m.mid, tm[m.from].issued[m.mid])
    ELSE /\ m.body = tm[m.from].result[m.mid]
         /\ m.type = ExchangeType(tm[Other(m.from)].issued[m.mid].kind)

\* Every message in flight is genuine, and so is the response that is kept.
Messages ==
    /\ \A m \in net : Genuine(m)
    /\ \A p \in Peer : tm[p].response # NoMsg => Genuine(tm[p].response)

Deferral ==
    \A p \in Peer : tm[p].deferred => p = Phone /\ (roamDue \/ ~connected)

IInv == TypeOK /\ Local /\ Agreement /\ Messages /\ Deferral
-----------------------------------------------------------------------------
(* The tasks in the queue *)

\* A set of naturals has a least element.
LEMMA Least ==
    ASSUME NEW S, S \subseteq Nat, S # {}
    PROVE  \E x \in S : \A y \in S : x <= y
<1>1. PICK x \in S : \A y \in S : ~(<<y, x>> \in OpToRel(<, Nat))
  BY NatLessThanWellFounded, WFMin
<1>2. \A y, z \in Nat : <<y, z>> \in OpToRel(<, Nat) <=> y < z
  BY DEF OpToRel
<1>3. \A y \in S : ~(y < x)
  BY <1>1, <1>2
<1> QED BY <1>3

\* A queue has a first task of its first kind.
LEMMA FirstOfKind ==
    ASSUME NEW Q, Q \subseteq Task, NEW t \in Q, \A u \in Q : Rank(t.kind) <= Rank(u.kind)
    PROVE  \E v \in Q : \A u \in Q : Precedes(v, u)
<1> DEFINE S == {u.n : u \in {v \in Q : v.kind = t.kind}}
<1>1. S \subseteq Nat /\ S # {}
  BY DEF Task
<1>2. PICK n \in S : \A y \in S : n <= y
  BY <1>1, Least
<1>3. PICK v \in Q : v.kind = t.kind /\ v.n = n
  BY <1>2
<1>4. ASSUME NEW u \in Q PROVE Precedes(v, u)
  <2>1. CASE u.kind = t.kind
    BY <1>2, <1>3, <2>1 DEF Precedes
  <2>2. CASE u.kind # t.kind
    <3>1. Rank(t.kind) <= Rank(u.kind) /\ u.kind \in Kind /\ t.kind \in Kind
      BY DEF Task
    <3>2. Rank(t.kind) < Rank(u.kind)
      BY <2>2, <3>1 DEF Rank, Kind
    <3> QED BY <1>3, <3>2 DEF Precedes
  <2> QED BY <2>1, <2>2
<1> QED BY <1>4

\* initiate() finds a task in every queue that holds one.
LEMMA QueueHasFirst ==
    ASSUME NEW Q, Q \subseteq Task, Q # {}
    PROVE  \E t \in Q : \A u \in Q : Precedes(t, u)
<1> DEFINE S == {Rank(u.kind) : u \in Q}
<1>1. \A u \in Q : Rank(u.kind) \in Nat
  BY DEF Task, Kind, Rank
<1>2. S \subseteq Nat /\ S # {}
  BY <1>1
<1>3. PICK r \in S : \A y \in S : r <= y
  BY <1>2, Least
<1>4. PICK t \in Q : Rank(t.kind) = r
  BY <1>3
<1>5. \A u \in Q : Rank(t.kind) <= Rank(u.kind)
  BY <1>3, <1>4
<1> QED BY <1>5, FirstOfKind

\* The task initiate() activates is a queued one, and there is one unless the
\* queue is empty or the IKE_SA is being closed.
LEMMA NextTaskType ==
    ASSUME NEW s \in Manager
    PROVE  /\ NextTask(s) \in s.queue \cup {NoTask}
           /\ NextTask(s) \in Task \cup {NoTask}
           /\ s.state = "ESTABLISHED" /\ s.queue # {} => NextTask(s) \in Task
           /\ NextTask(s) # NoTask => s.state = "ESTABLISHED"
<1>1. s.queue \subseteq Task
  BY DEF Manager
<1>2. s.queue # {} => \E t \in s.queue : \A u \in s.queue : Precedes(t, u)
  BY <1>1, QueueHasFirst
<1>3. CASE s.state = "ESTABLISHED" /\ s.queue # {}
  <2>1. NextTask(s) \in s.queue
    BY <1>2, <1>3 DEF NextTask
  <2> QED BY <1>1, <1>3, <2>1
<1>4. CASE ~(s.state = "ESTABLISHED" /\ s.queue # {})
  BY <1>4 DEF NextTask
<1> QED BY <1>3, <1>4

\* No task is no task.
LEMMA NoTaskNoMsg ==
    /\ NoTask \notin Task
    /\ NoMsg \notin Request \cup Response
    /\ NoTask.kind = "none"
    /\ NoResult \notin Result
BY DEF NoTask, Task, Kind, NoMsg, Request, Response, NoResult, Result, Peer, Phone, Gateway
-----------------------------------------------------------------------------
(* Messages and peers *)

\* There are two peers.
LEMMA PeerFacts ==
    ASSUME NEW p \in Peer
    PROVE  /\ Other(p) \in Peer /\ Other(p) # p /\ Other(Other(p)) = p
           /\ \A q \in Peer : q = p \/ q = Other(p)
           /\ p # Phone => Other(p) = Phone
BY DEF Peer, Other, Phone, Gateway

\* The fields of a request.
LEMMA ReqFacts ==
    ASSUME NEW p \in Peer, NEW k \in Mid, NEW t \in Task
    PROVE  /\ Req(p, k, t) \in Request /\ Req(p, k, t) # NoMsg
           /\ Req(p, k, t).from = p /\ Req(p, k, t).request
           /\ Req(p, k, t).mid = k /\ Req(p, k, t).body = t
           /\ Req(p, k, t).type = ExchangeType(t.kind)
<1>1. Req(p, k, t) \in Request
  BY DEF Req, Request, ExchangeType
<1> QED BY <1>1, NoTaskNoMsg DEF Req

\* The fields of a response.
LEMMA AnswerFacts ==
    ASSUME NEW p \in Peer, NEW m \in Request, NEW r \in Result
    PROVE  /\ Answer(p, m, r) \in Response /\ Answer(p, m, r) # NoMsg
           /\ Answer(p, m, r).from = p /\ ~Answer(p, m, r).request
           /\ Answer(p, m, r).mid = m.mid /\ Answer(p, m, r).body = r
           /\ Answer(p, m, r).type = m.type
<1>1. Answer(p, m, r) \in Response
  BY DEF Answer, Request, Response
<1> QED BY <1>1, NoTaskNoMsg DEF Answer
-----------------------------------------------------------------------------
(* The initiator's operators *)

\* s and t differ in nothing the peer, or the exchanges so far, can see.
SameExchanges(s, t) ==
    /\ t.imid = s.imid /\ t.rmid = s.rmid
    /\ t.completed = s.completed /\ t.ran = s.ran /\ t.result = s.result
    /\ t.response = s.response /\ t.prevHash = s.prevHash /\ t.gaveUp = s.gaveUp

\* Destroying an IKE_SA keeps its history and drops what was open.
LEMMA DestroyedFacts ==
    ASSUME NEW s \in Manager
    PROVE  LET d == Destroyed(s) IN
           /\ d \in Manager
           /\ d.state = "DESTROYED" /\ d.packets = NoMsg /\ d.deferred = FALSE
           /\ d.imid = s.imid /\ d.rmid = s.rmid /\ d.issued = s.issued
           /\ d.completed = s.completed /\ d.ran = s.ran /\ d.result = s.result
           /\ d.response = NoMsg /\ d.faults = s.faults /\ d.gaveUp = s.gaveUp
BY DEF Destroyed, Manager

\* b is s with a request for task t.
Built(p, s, t, b) ==
    /\ b \in Manager /\ SameExchanges(s, b)
    /\ b.active = t /\ b.packets = Req(p, s.imid, t)
    /\ b.retransmitted = 0 /\ b.deferred = FALSE
    /\ b.state = IF t.kind = "DELETE" THEN "DELETING" ELSE s.state
    /\ b.issued = [s.issued EXCEPT ![s.imid] = t]

\* What initiate() makes of the task manager when it builds a request.
LEMMA BuildRequestFacts ==
    ASSUME NEW p \in Peer, NEW s \in Manager, s.imid \in Mid, NEW t \in Task
    PROVE  Built(p, s, t, BuildRequest(p, s, t))
<1> DEFINE b == BuildRequest(p, s, t)
<1>1. Req(p, s.imid, t) \in Request
  BY ReqFacts
<1>2. [s.issued EXCEPT ![s.imid] = t] \in [Mid -> Task \cup {NoTask}]
  BY DEF Manager
<1> DEFINE probing == IF s.active # NoTask THEN s.probing ELSE t.kind = "MOBIKE" /\ s.check
           check == IF s.active = NoTask /\ t.kind = "MOBIKE" THEN FALSE ELSE s.check
           state == IF t.kind = "DELETE" THEN "DELETING" ELSE s.state
<1>a. /\ probing \in BOOLEAN /\ check \in BOOLEAN
      /\ state \in {"ESTABLISHED", "DELETING", "DESTROYED"}
  BY DEF Manager
<1>b. b = [s EXCEPT !.active = t, !.queue = @ \ {t}, !.probing = probing, !.check = check,
                    !.packets = Req(p, s.imid, t), !.retransmitted = 0, !.deferred = FALSE,
                    !.faults = 0, !.state = state, !.issued = [s.issued EXCEPT ![s.imid] = t]]
  BY DEF BuildRequest, Req
<1>3. b \in Manager
  <2> HIDE DEF b, probing, check, state
  <2> QED BY <1>1, <1>2, <1>a, <1>b DEF Manager
<1>4. /\ b.active = t /\ b.packets = Req(p, s.imid, t)
      /\ b.retransmitted = 0 /\ b.deferred = FALSE
      /\ b.state = IF t.kind = "DELETE" THEN "DELETING" ELSE s.state
      /\ b.issued = [s.issued EXCEPT ![s.imid] = t]
  BY DEF BuildRequest, Manager, Req
<1>5. SameExchanges(s, b)
  BY DEF SameExchanges, BuildRequest, Manager
<1> HIDE DEF b
<1>6. Built(p, s, t, b)
  BY <1>3, <1>4, <1>5 DEF Built
<1> QED BY <1>6 DEF b

\* The number of tries is a natural number.
LEMMA LimitFacts ==
    ASSUME NEW s
    PROVE  Limit(s) \in {Tries, CheckTries} /\ Limit(s) \in Nat
BY Bounds DEF Limit

\* What l leaves of s differs in nothing but the jobs of the open request.
SameRequest(s, t) ==
    /\ SameExchanges(s, t)
    /\ t.issued = s.issued /\ t.state = s.state /\ t.queue = s.queue
    /\ t.active = s.active /\ t.packets = s.packets /\ t.faults = s.faults

\* retransmit() of the open request, with tries left, sends it and schedules the
\* next try, or defers it because a MOBIKE task found no source address.
Sent(s, found, l) ==
    /\ l.tm \in Manager /\ SameRequest(s, l.tm)
    /\ \/ /\ l.lookup /\ ~found /\ l.out = {} /\ IsMobike(s)
          /\ l.tm.deferred /\ l.tm.retransmitted = s.retransmitted
          /\ l.tm.timers = s.timers
       \/ /\ ~l.lookup /\ l.out = {s.packets} /\ l.tm.deferred = s.deferred
          /\ l.tm.retransmitted = s.retransmitted + 1
          /\ l.tm.timers = s.timers \cup {s.imid}

\* retransmit() does so.
LEMMA RetransmitSends ==
    ASSUME NEW s \in Manager, NEW found \in BOOLEAN, s.packets # NoMsg,
           ~(s.retransmitted > Limit(s))
    PROVE  Sent(s, found, Retransmit(s, s.imid, found))
<1> DEFINE l == Retransmit(s, s.imid, found)
           d == [s EXCEPT !.deferred = TRUE, !.probing = TRUE]
           e == [s EXCEPT !.retransmitted = @ + 1, !.timers = @ \cup {s.imid}]
<1>1. CASE IsMobike(s) /\ ~found
  <2>1. l = [tm |-> d, out |-> {}, lookup |-> TRUE]
    BY <1>1 DEF Retransmit
  <2>2. d \in Manager /\ d.deferred /\ d.retransmitted = s.retransmitted /\ d.timers = s.timers
    BY DEF Manager
  <2>3. SameRequest(s, d)
    BY DEF SameRequest, SameExchanges, Manager
  <2> HIDE DEF d, l
  <2>4. l.tm = d /\ l.out = {} /\ l.lookup
    BY <2>1
  <2>5. Sent(s, found, l)
    BY <1>1, <2>2, <2>3, <2>4 DEF Sent
  <2> QED BY <2>5 DEF l
<1>2. CASE ~(IsMobike(s) /\ ~found)
  <2>1. l = [tm |-> e, out |-> {s.packets}, lookup |-> FALSE]
    BY <1>2 DEF Retransmit, Left
  <2>2. /\ e \in Manager /\ e.deferred = s.deferred /\ e.retransmitted = s.retransmitted + 1
        /\ e.timers = s.timers \cup {s.imid}
    <3>1. s.timers \cup {s.imid} \in SUBSET Nat /\ s.retransmitted + 1 \in Nat
      BY DEF Manager
    <3> QED BY <3>1 DEF Manager
  <2>3. SameRequest(s, e)
    BY DEF SameRequest, SameExchanges, Manager
  <2> HIDE DEF e, l
  <2>4. l.tm = e /\ l.out = {s.packets} /\ l.lookup = FALSE
    BY <2>1
  <2>5. Sent(s, found, l)
    BY <2>2, <2>3, <2>4 DEF Sent
  <2> QED BY <2>5 DEF l
<1> QED BY <1>1, <1>2

\* A task manager for which initiate() is called: the local part of the invariant,
\* except that there may be tasks to take up.
Ready(p, s) ==
    /\ s \in Manager /\ History(s) /\ s.state # "DESTROYED"
    /\ s.completed[s.imid] = NoResult
    /\ s.packets = NoMsg => s.issued[s.imid] = NoTask
    /\ s.packets # NoMsg => /\ s.active \in Task
                            /\ s.issued[s.imid] = s.active
                            /\ s.packets = Req(p, s.imid, s.active)
                            /\ s.imid \in s.timers \/ s.deferred
    /\ s.state = "DELETING" => s.packets # NoMsg /\ s.active.kind = "DELETE" /\ ~s.deferred

\* What initiate() and retransmit() leave.
Outcome(p, s, found, l) ==
    /\ l.tm \in Manager /\ History(l.tm) /\ OpenRequest(p, l.tm) /\ Scheduled(l.tm)
    /\ l.tm.state # "DESTROYED" /\ SameExchanges(s, l.tm)
    /\ \/ l.tm.issued = s.issued
       \/ /\ s.issued[s.imid] = NoTask
          /\ \E t \in Task : l.tm.issued = [s.issued EXCEPT ![s.imid] = t]
    /\ \/ l.out = {}
       \/ l.out = {l.tm.packets} /\ l.tm.packets # NoMsg
    /\ l.lookup => ~found
    /\ l.tm.deferred => l.lookup \/ s.deferred

\* A queued task is taken up or waits for an exchange that was not deferred, and
\* a new or resumed request has been sent once if at all.
TakenUp(s, l) ==
    /\ l.tm.deferred => l.lookup \/ s.queue = {} \/ s.state # "ESTABLISHED"
    /\ l.tm.packets # NoMsg =>
          \/ /\ l.tm.packets = s.packets /\ l.tm.retransmitted = s.retransmitted
             /\ l.tm.faults = s.faults
          \/ l.tm.retransmitted = 0
          \/ l.tm.retransmitted = 1 /\ l.out = {l.tm.packets}

\* initiate() with nothing to do.
LEMMA NothingToInitiate ==
    ASSUME NEW p \in Peer, NEW s, Ready(p, s), NEW found \in BOOLEAN,
           \/ s.packets # NoMsg /\ ~s.deferred
           \/ s.packets = NoMsg /\ s.active = NoTask /\ NextTask(s) = NoTask
    PROVE  Outcome(p, s, found, Left(s, {})) /\ TakenUp(s, Left(s, {}))
<1> DEFINE l == Left(s, {})
<1>1. l.tm = s /\ l.out = {} /\ ~l.lookup
  BY DEF Left
<1> HIDE DEF l
<1>2. s \in Manager
  BY DEF Ready
<1>3. s.packets = NoMsg => s.active = NoTask /\ (s.state = "ESTABLISHED" => s.queue = {})
  BY <1>2, NextTaskType, NoTaskNoMsg
<1>4. OpenRequest(p, s)
  BY <1>3 DEF Ready, OpenRequest
<1>5. Scheduled(s)
  BY <1>3 DEF Ready, Scheduled
<1>6. SameExchanges(s, s)
  BY DEF SameExchanges
<1>7. Outcome(p, s, found, l)
  BY <1>1, <1>4, <1>5, <1>6 DEF Ready, Outcome
<1>8. TakenUp(s, l)
  BY <1>1, <1>3 DEF TakenUp
<1> QED BY <1>7, <1>8 DEF l

\* The history with a request at imid.
LEMMA IssueKeepsHistory ==
    ASSUME NEW s \in Manager, History(s), NEW t \in Task, NEW u, SameExchanges(s, u),
           u.issued = s.issued \/ u.issued = [s.issued EXCEPT ![s.imid] = t]
    PROVE  History(u)
<1>1. /\ u.imid = s.imid /\ u.rmid = s.rmid
      /\ u.completed = s.completed /\ u.ran = s.ran /\ u.result = s.result
  BY DEF SameExchanges
<1>2. \A k \in Mid : k # s.imid => u.issued[k] = s.issued[k]
  BY DEF Manager
<1>3. s.imid \in Nat /\ Mid \subseteq Nat
  BY DEF Manager, Mid
<1> QED BY <1>1, <1>2, <1>3 DEF History

\* A request that is open and has not been sent since it was built or taken up.
Unsent(p, b) ==
    /\ b \in Manager /\ History(b) /\ b.state # "DESTROYED"
    /\ b.completed[b.imid] = NoResult
    /\ b.active \in Task /\ b.issued[b.imid] = b.active
    /\ b.packets = Req(p, b.imid, b.active) /\ b.packets # NoMsg
    /\ b.retransmitted = 0 /\ ~b.deferred
    /\ b.state = "DELETING" => b.active.kind = "DELETE"

\* It is sent or deferred.
LEMMA UnsentOutcome ==
    ASSUME NEW p \in Peer, NEW s \in Manager, NEW b, Unsent(p, b), SameExchanges(s, b),
           \/ b.issued = s.issued
           \/ /\ s.issued[s.imid] = NoTask
              /\ \E t \in Task : b.issued = [s.issued EXCEPT ![s.imid] = t],
           NEW found \in BOOLEAN
    PROVE  /\ Outcome(p, s, found, Retransmit(b, b.imid, found))
           /\ TakenUp(s, Retransmit(b, b.imid, found))
<1> DEFINE l == Retransmit(b, b.imid, found)
<1>1. Sent(b, found, l)
  BY LimitFacts, RetransmitSends DEF Unsent
<1> HIDE DEF l
<1>2. /\ l.tm \in Manager /\ l.tm.issued = b.issued /\ l.tm.state = b.state
      /\ l.tm.active = b.active /\ l.tm.packets = b.packets /\ SameExchanges(b, l.tm)
  BY <1>1 DEF Sent, SameRequest
<1>3. SameExchanges(s, l.tm)
  BY <1>2 DEF SameExchanges
<1>4. l.tm.imid = b.imid /\ l.tm.completed = b.completed
  BY <1>2 DEF SameExchanges
<1>5. History(l.tm)
  BY <1>2, IssueKeepsHistory DEF Unsent
<1>6. \/ l.tm.deferred /\ l.lookup /\ ~found /\ IsMobike(b) /\ l.out = {} /\ l.tm.retransmitted = 0
      \/ /\ ~l.tm.deferred /\ ~l.lookup /\ l.tm.imid \in l.tm.timers
         /\ l.out = {b.packets} /\ l.tm.retransmitted = 1
  BY <1>1, <1>4 DEF Sent, Unsent
<1>7. b.state = "DELETING" => ~l.tm.deferred
  BY <1>6 DEF Unsent, IsMobike
<1>8. OpenRequest(p, l.tm)
  BY <1>2, <1>4, <1>7 DEF OpenRequest, Unsent
<1>9. Scheduled(l.tm)
  BY <1>2, <1>6 DEF Scheduled, Unsent
<1>10. Outcome(p, s, found, l)
  BY <1>2, <1>3, <1>5, <1>6, <1>8, <1>9 DEF Outcome, Unsent
<1>11. TakenUp(s, l)
  BY <1>2, <1>6 DEF TakenUp
<1> QED BY <1>10, <1>11 DEF l

\* initiate() leaves an exchange open whenever there is one to open.
LEMMA InitiateOutcome ==
    ASSUME NEW p \in Peer, NEW s, Ready(p, s), NEW found \in BOOLEAN
    PROVE  /\ Outcome(p, s, found, Initiate(p, s, found))
           /\ TakenUp(s, Initiate(p, s, found))
<1>m. s \in Manager /\ s.imid \in Mid
  BY DEF Ready, History
<1>1. CASE s.packets # NoMsg /\ s.deferred
  <2> DEFINE b == [s EXCEPT !.deferred = FALSE, !.retransmitted = 0]
  <2>1. /\ b \in Manager /\ SameExchanges(s, b) /\ b.issued = s.issued /\ b.state = s.state
        /\ b.active = s.active /\ b.packets = s.packets
        /\ b.retransmitted = 0 /\ b.deferred = FALSE
    BY <1>m DEF Manager, SameExchanges
  <2>2. Initiate(p, s, found) = Retransmit(b, s.imid, found)
    BY <1>1 DEF Initiate
  <2> HIDE DEF b
  <2>3. b.imid = s.imid /\ b.completed = s.completed
    BY <2>1 DEF SameExchanges
  <2>4. NoTask \notin Task /\ s.active \in Task
    BY <1>1, NoTaskNoMsg DEF Ready
  <2>5. History(b)
    BY <1>m, <2>1, <2>4, IssueKeepsHistory DEF Ready
  <2>6. Unsent(p, b)
    BY <1>1, <2>1, <2>3, <2>5 DEF Ready, Unsent
  <2> QED BY <1>m, <2>1, <2>2, <2>3, <2>6, UnsentOutcome
<1>2. CASE s.packets # NoMsg /\ ~s.deferred
  <2>1. Initiate(p, s, found) = Left(s, {})
    BY <1>2 DEF Initiate
  <2> QED BY <1>2, <2>1, NothingToInitiate
<1>3. CASE s.packets = NoMsg
  <2> DEFINE t == IF s.active # NoTask THEN s.active ELSE NextTask(s)
  <2>1. /\ t \in Task \cup {NoTask}
        /\ t = NoTask => s.active = NoTask /\ NextTask(s) = NoTask
    BY <1>m, NextTaskType DEF Manager
  <2>2. Initiate(p, s, found) = IF t = NoTask THEN Left(s, {})
                                ELSE Retransmit(BuildRequest(p, s, t), s.imid, found)
    BY <1>3 DEF Initiate
  <2> HIDE DEF t
  <2>3. CASE t = NoTask
    BY <1>3, <2>1, <2>2, <2>3, NothingToInitiate
  <2>4. CASE t # NoTask
    <3> DEFINE b == BuildRequest(p, s, t)
    <3>1. t \in Task
      BY <2>1, <2>4
    <3> HIDE DEF b
    <3>2. /\ b \in Manager /\ SameExchanges(s, b)
          /\ b.active = t /\ b.packets = Req(p, s.imid, t)
          /\ b.retransmitted = 0 /\ b.deferred = FALSE
          /\ b.state = IF t.kind = "DELETE" THEN "DELETING" ELSE s.state
          /\ b.issued = [s.issued EXCEPT ![s.imid] = t]
      <4>1. Built(p, s, t, BuildRequest(p, s, t))
        BY <1>m, <3>1, BuildRequestFacts
      <4>2. Built(p, s, t, b)
        BY <4>1 DEF b
      <4> QED BY <4>2 DEF Built
    <3>3. b.imid = s.imid /\ b.completed = s.completed
      BY <3>2 DEF SameExchanges
    <3>4. b.packets # NoMsg
      BY <1>m, <3>1, <3>2, ReqFacts
    <3>5. b.issued[s.imid] = t
      BY <1>m, <3>2 DEF Manager
    <3>6. History(b)
      BY <1>m, <3>1, <3>2, IssueKeepsHistory DEF Ready
    <3>7. s.state = "ESTABLISHED"
      BY <1>m, <1>3 DEF Ready, Manager
    <3>a. b.state # "DESTROYED" /\ (b.state = "DELETING" => t.kind = "DELETE")
      BY <3>2, <3>7
    <3>8. Unsent(p, b)
      BY <3>1, <3>2, <3>3, <3>4, <3>5, <3>6, <3>a DEF Ready, Unsent
    <3>9. s.issued[s.imid] = NoTask
      BY <1>3 DEF Ready
    <3>10. /\ Outcome(p, s, found, Retransmit(b, b.imid, found))
           /\ TakenUp(s, Retransmit(b, b.imid, found))
      BY <1>m, <3>1, <3>2, <3>8, <3>9, UnsentOutcome
    <3>11. Initiate(p, s, found) = Retransmit(b, b.imid, found)
      BY <2>2, <2>4, <3>3 DEF b
    <3> QED BY <3>10, <3>11
  <2> QED BY <2>3, <2>4
<1> QED BY <1>1, <1>2, <1>3
-----------------------------------------------------------------------------
(* The steps keep the invariant *)

\* The invariant of one task manager.
Sound(p, s) == s \in Manager /\ History(s) /\ OpenRequest(p, s) /\ Scheduled(s)

\* s adds to the history of p: p issues requests, answers requests that were
\* issued and takes answers that were given, and alters none of them later.
AddsTo(p, s) ==
    \A k \in Mid :
       /\ tm[p].issued[k] # NoTask => s.issued[k] = tm[p].issued[k]
       /\ tm[p].result[k] # NoResult => s.result[k] = tm[p].result[k]
       /\ s.result[k] = tm[p].result[k] \/ tm[Other(p)].issued[k] # NoTask
       /\ \/ s.completed[k] = tm[p].completed[k]
          \/ s.completed[k] = tm[Other(p)].result[k]

\* A step sends messages of the two kinds, and only genuine ones.
Sends ==
    /\ net' \subseteq Request \cup Response
    /\ \A m \in net' \ net : Genuine(m)'

\* A step of p that adds to the history, and sends genuine messages.
LEMMA PeerStep ==
    ASSUME IInv, NEW p \in Peer, NEW s, Sound(p, s), tm' = [tm EXCEPT ![p] = s],
           AddsTo(p, s), Sends, s.response \in {NoMsg, tm[p].response} \/ s.response \in net'
    PROVE  tm' \in [Peer -> Manager] /\ Local' /\ Agreement' /\ Messages'
<1> DEFINE q == Other(p)
<1>q. q \in Peer /\ q # p /\ Other(q) = p /\ \A x \in Peer : x = p \/ x = q
  BY PeerFacts
<1> HIDE DEF q
<1>t. tm \in [Peer -> Manager] /\ net \subseteq Request \cup Response
  BY DEF IInv, TypeOK
<1>1. tm'[p] = s /\ tm'[q] = tm[q]
  BY <1>t, <1>q
<1>2. tm' \in [Peer -> Manager]
  BY <1>t DEF Sound
<1>3. Local'
  BY <1>1, <1>q DEF Local, IInv, Sound
<1>4. Agree(tm[p], tm[q]) /\ Agree(tm[q], tm[p])
  BY <1>q DEF Agreement, IInv, q
<1>5. Agree(s, tm[q])
  BY <1>4 DEF Agree, AddsTo, q
<1>6. Agree(tm[q], s)
  BY <1>4 DEF Agree, AddsTo, q
<1>7. Agreement'
  BY <1>1, <1>5, <1>6, <1>q DEF Agreement, q
<1>8. ASSUME NEW m \in Request \cup Response, Genuine(m) PROVE Genuine(m)'
  <2>1. Genuine(m) /\ m \in Request \cup Response
    BY <1>8
  <2>2. CASE m \in Request
    <3>1. m.request /\ m.from \in Peer /\ m.mid \in Mid
      BY <2>2 DEF Request
    <3>2. tm'[m.from].issued[m.mid] = tm[m.from].issued[m.mid]
      BY <1>1, <1>q, <2>1, <3>1, NoTaskNoMsg DEF Genuine, AddsTo
    <3> QED BY <2>1, <3>1, <3>2 DEF Genuine
  <2>3. CASE m \in Response
    <3>1. m.request = FALSE /\ m.from \in Peer /\ m.mid \in Mid /\ m.body # NoResult
      BY <2>3, NoTaskNoMsg DEF Response
    <3>2. m.body = tm[m.from].result[m.mid]
      BY <2>1, <3>1 DEF Genuine
    <3>3. tm'[m.from].result[m.mid] = tm[m.from].result[m.mid]
      BY <1>1, <1>q, <3>1, <3>2 DEF AddsTo
    <3>4. tm[Other(m.from)].issued[m.mid] # NoTask
      BY <1>4, <1>q, <3>1, <3>2 DEF Agree, q
    <3>5. tm'[Other(m.from)].issued[m.mid] = tm[Other(m.from)].issued[m.mid]
      BY <1>1, <1>q, <3>1, <3>4 DEF AddsTo, q
    <3> QED BY <2>1, <3>1, <3>3, <3>5 DEF Genuine
  <2> QED BY <2>1, <2>2, <2>3
<1>9. \A m \in net' : Genuine(m)'
  BY <1>8, <1>t DEF IInv, Messages, Sends
<1>10. ASSUME NEW x \in Peer, NEW m, m = tm'[x].response, m # NoMsg PROVE Genuine(m)'
  <2>1. m = tm[x].response \/ m \in net'
    BY <1>1, <1>q, <1>10
  <2>2. CASE m \in net'
    BY <1>9, <2>2
  <2>3. CASE m = tm[x].response
    <3>1. m \in Response /\ Genuine(m)
      BY <1>t, <1>10, <2>3 DEF Manager, IInv, Messages
    <3> QED BY <1>8, <3>1
  <2> QED BY <2>1, <2>2, <2>3
<1>11. Messages'
  BY <1>9, <1>10 DEF Messages
<1> QED BY <1>2, <1>3, <1>7, <1>11

\* u is s with tasks to take up.
Requeued(s, u) ==
    /\ u \in Manager /\ SameExchanges(s, u)
    /\ u.issued = s.issued /\ u.state = s.state /\ u.active = s.active
    /\ u.packets = s.packets /\ u.retransmitted = s.retransmitted /\ u.faults = s.faults
    /\ u.deferred = s.deferred /\ u.timers = s.timers /\ u.queue # {}

\* Queueing a task.
LEMMA QueueFacts ==
    ASSUME NEW s \in Manager, NEW kind \in Kind
    PROVE  Requeued(s, Queue(s, kind))
<1> DEFINE t == [kind |-> kind, n |-> s.created + 1]
           u == [s EXCEPT !.queue = @ \cup {t}, !.created = @ + 1]
<1>1. t \in Task /\ s.queue \cup {t} \in SUBSET Task /\ s.created + 1 \in Nat
  BY DEF Manager, Task
<1>2. u = Queue(s, kind)
  BY DEF Queue
<1> HIDE DEF t
<1>3. u \in Manager
  BY <1>1 DEF Manager
<1>4. SameExchanges(s, u)
  BY DEF SameExchanges, Manager
<1>5. /\ u.issued = s.issued /\ u.state = s.state /\ u.active = s.active
      /\ u.packets = s.packets /\ u.retransmitted = s.retransmitted /\ u.faults = s.faults
      /\ u.deferred = s.deferred /\ u.timers = s.timers /\ u.queue # {}
  BY DEF Manager
<1> HIDE DEF u
<1>6. Requeued(s, u)
  BY <1>3, <1>4, <1>5 DEF Requeued
<1> QED BY <1>2, <1>6

\* Queueing a MOBIKE task, unless there is one.
LEMMA QueueMobikeFacts ==
    ASSUME NEW s \in Manager, NEW probe \in BOOLEAN
    PROVE  Requeued(s, QueueMobike(s, probe))
<1> DEFINE t == [kind |-> "MOBIKE", n |-> s.created + 1]
           queued == \E x \in s.queue : x.kind = "MOBIKE"
           queue == IF queued THEN s.queue ELSE s.queue \cup {t}
           created == IF queued THEN s.created ELSE s.created + 1
           check == s.check \/ probe
           probing == s.probing \/ (probe /\ IsMobike(s))
           u == [s EXCEPT !.queue = queue, !.created = created, !.check = check, !.probing = probing]
<1>1. t \in Task /\ s.queue \in SUBSET Task /\ s.created \in Nat
  BY DEF Manager, Task, Kind
<1>2. u = QueueMobike(s, probe)
  BY DEF QueueMobike
<1> HIDE DEF t
<1>3. queue \in SUBSET Task /\ queue # {} /\ created \in Nat
  BY <1>1
<1>4. check \in BOOLEAN /\ probing \in BOOLEAN
  BY DEF Manager, IsMobike
<1> HIDE DEF queue, created, check, probing
<1>5. u \in Manager
  BY <1>3, <1>4 DEF Manager
<1>6. SameExchanges(s, u)
  BY DEF SameExchanges, Manager
<1>7. /\ u.issued = s.issued /\ u.state = s.state /\ u.active = s.active
      /\ u.packets = s.packets /\ u.retransmitted = s.retransmitted /\ u.faults = s.faults
      /\ u.deferred = s.deferred /\ u.timers = s.timers /\ u.queue # {}
  BY <1>3 DEF Manager
<1> HIDE DEF u
<1>8. Requeued(s, u)
  BY <1>5, <1>6, <1>7 DEF Requeued
<1> QED BY <1>2, <1>8

\* A task manager with a task to take up is ready for initiate().
LEMMA RequeuedReady ==
    ASSUME NEW p \in Peer, NEW s, Sound(p, s), s.state # "DESTROYED", NEW u, Requeued(s, u)
    PROVE  Ready(p, u)
<1>1. u.imid = s.imid /\ u.completed = s.completed
  BY DEF Requeued, SameExchanges
<1>2. History(u)
  <2>1. [kind |-> "DPD", n |-> 0] \in Task
    BY DEF Task, Kind
  <2> QED BY <2>1, IssueKeepsHistory DEF Requeued, Sound
<1> QED BY <1>1, <1>2 DEF Requeued, Ready, Sound, OpenRequest, Scheduled

\* The invariant gives every peer its part, and the message IDs their order.
LEMMA IInvParts ==
    ASSUME IInv, NEW p \in Peer
    PROVE  /\ tm[p] \in Manager /\ Sound(p, tm[p])
           /\ tm[Other(p)] \in Manager /\ Sound(Other(p), tm[Other(p)])
           /\ Agree(tm[p], tm[Other(p)]) /\ Agree(tm[Other(p)], tm[p])
           /\ net \subseteq Request \cup Response
           /\ Found(p) \in BOOLEAN
<1>1. Other(p) \in Peer /\ Other(Other(p)) = p
  BY PeerFacts
<1>2. tm[p] \in Manager /\ tm[Other(p)] \in Manager /\ net \subseteq Request \cup Response
  BY <1>1 DEF IInv, TypeOK
<1>3. Sound(p, tm[p]) /\ Sound(Other(p), tm[Other(p)])
  BY <1>1, <1>2 DEF IInv, Local, Sound
<1>4. Agree(tm[p], tm[Other(p)]) /\ Agree(tm[Other(p)], tm[p])
  BY <1>1 DEF IInv, Agreement
<1>5. Found(p) \in BOOLEAN
  BY DEF Found
<1> QED BY <1>2, <1>3, <1>4, <1>5

\* The rest of the invariant after a step that changes p's task manager.
LEMMA Conclude ==
    ASSUME IInv, NEW p \in Peer, NEW s, tm' = [tm EXCEPT ![p] = s],
           tm' \in [Peer -> Manager] /\ Local' /\ Agreement' /\ Messages',
           net' \subseteq Request \cup Response,
           roamDue' \in BOOLEAN, UNCHANGED <<route, connected, flips>>,
           s.deferred => p = Phone /\ (roamDue' \/ ~connected),
           roamDue => roamDue' \/ p = Phone
    PROVE  IInv'
<1>1. TypeOK'
  BY DEF IInv, TypeOK
<1>2. tm'[p] = s /\ \A q \in Peer \ {p} : tm'[q] = tm[q]
  BY DEF IInv, TypeOK
<1>3. Deferral'
  BY <1>2 DEF Deferral, IInv
<1> QED BY <1>1, <1>3 DEF IInv

\* What a step of p that calls initiate() may have done before: taken an answer.
Before(p, s) ==
    /\ s \in Manager /\ s.imid \in Mid
    /\ s.issued = tm[p].issued /\ s.result = tm[p].result /\ s.response = tm[p].response
    /\ s.deferred => tm[p].deferred
    /\ \A k \in Mid : \/ s.completed[k] = tm[p].completed[k]
                      \/ s.completed[k] = tm[Other(p)].result[k]

\* Such a step adds to the history.
LEMMA OutcomeAdds ==
    ASSUME NEW p \in Peer, NEW s, Before(p, s), NEW found, NEW l, Outcome(p, s, found, l)
    PROVE  AddsTo(p, l.tm)
<1>1. s \in Manager /\ s.imid \in Mid
  BY DEF Before
<1>2. l.tm.completed = s.completed /\ l.tm.result = s.result
  BY DEF Outcome, SameExchanges
<1>3. \A k \in Mid : s.issued[k] # NoTask => l.tm.issued[k] = s.issued[k]
  BY <1>1 DEF Outcome, Manager
<1> QED BY <1>2, <1>3 DEF Before, AddsTo

\* Such a step keeps the part of the invariant that is about exchanges.
LEMMA InitiateStep ==
    ASSUME IInv, NEW p \in Peer, NEW s, Before(p, s), NEW l, NEW found \in BOOLEAN,
           Outcome(p, s, found, l), tm' = [tm EXCEPT ![p] = l.tm], net' \subseteq net \cup l.out
    PROVE  /\ tm' \in [Peer -> Manager] /\ Local' /\ Agreement' /\ Messages'
           /\ net' \subseteq Request \cup Response
<1> DEFINE u == l.tm
<1>1. /\ Sound(p, u) /\ SameExchanges(s, u)
      /\ \/ u.issued = s.issued
         \/ s.issued[s.imid] = NoTask /\ \E t \in Task : u.issued = [s.issued EXCEPT ![s.imid] = t]
      /\ l.out = {} \/ (l.out = {u.packets} /\ u.packets # NoMsg)
      /\ u.state # "DESTROYED"
  BY DEF Outcome, Sound
<1> HIDE DEF u
<1>3. u.completed = s.completed /\ u.result = s.result /\ u.response = tm[p].response
  BY <1>1 DEF SameExchanges, Before
<1>5. tm'[p] = u
  BY DEF IInv, TypeOK, u
<1>6. ASSUME NEW m \in net' \ net PROVE m \in Request /\ Genuine(m)'
  <2>1. m = u.packets /\ u.packets # NoMsg
    BY <1>1, <1>6
  <2>2. /\ u.active \in Task /\ u.imid \in Mid /\ u.issued[u.imid] = u.active
        /\ u.packets = Req(p, u.imid, u.active)
    BY <1>1, <2>1 DEF Sound, OpenRequest, History
  <2>3. /\ m \in Request /\ m.from = p /\ m.request /\ m.mid = u.imid
        /\ m = Req(p, u.imid, u.active)
    BY <2>1, <2>2, ReqFacts
  <2>4. Genuine(m)'
    BY <1>5, <2>2, <2>3 DEF Genuine
  <2> QED BY <2>3, <2>4
<1>7. net' \subseteq Request \cup Response
  BY <1>6 DEF IInv, TypeOK
<1>8. AddsTo(p, u)
  BY OutcomeAdds DEF u
<1>9. tm' = [tm EXCEPT ![p] = u] /\ Sends
  BY <1>6, <1>7 DEF u, Sends
<1>10. tm' \in [Peer -> Manager] /\ Local' /\ Agreement' /\ Messages'
  BY <1>1, <1>3, <1>8, <1>9, PeerStep
<1> QED BY <1>7, <1>10

\* A step that calls initiate() or retransmit() last keeps the invariant.
LEMMA ApplyOutcome ==
    ASSUME IInv, NEW p \in Peer, NEW s, Before(p, s), NEW rest, rest \subseteq net,
           NEW l, Outcome(p, s, Found(p), l), Apply(p, l, rest)
    PROVE  IInv'
<1>1. Found(p) \in BOOLEAN
  BY IInvParts
<1>3. /\ tm' = [tm EXCEPT ![p] = l.tm] /\ net' = rest \cup l.out
      /\ roamDue' = (roamDue \/ (l.lookup /\ connected)) /\ UNCHANGED <<route, connected, flips>>
  BY DEF Apply
<1>4. /\ tm' \in [Peer -> Manager] /\ Local' /\ Agreement' /\ Messages'
      /\ net' \subseteq Request \cup Response
  BY <1>1, <1>3, InitiateStep
<1>5. ASSUME l.tm.deferred PROVE p = Phone /\ (roamDue' \/ ~connected)
  <2>1. (l.lookup /\ ~Found(p)) \/ tm[p].deferred
    BY <1>5 DEF Outcome, Before
  <2>2. tm[p].deferred => p = Phone /\ (roamDue \/ ~connected)
    BY DEF IInv, Deferral
  <2>3. ~Found(p) => p = Phone
    BY DEF Found
  <2> QED BY <1>3, <2>1, <2>2, <2>3
<1>6. roamDue' \in BOOLEAN /\ (roamDue => roamDue')
  BY <1>3
<1> QED BY <1>3, <1>4, <1>5, <1>6, Conclude

\* A step that sends nothing new of its own.
LEMMA ApplyLeft ==
    ASSUME IInv, NEW p \in Peer, NEW s, Sound(p, s), s.deferred => tm[p].deferred, AddsTo(p, s),
           NEW rest, NEW out, rest \subseteq net, out \subseteq Request \cup Response,
           s.response \in {NoMsg, tm[p].response} \/ s.response \in out, \A m \in out : Genuine(m)',
           Apply(p, Left(s, out), rest)
    PROVE  IInv'
<1>1. /\ tm' = [tm EXCEPT ![p] = s] /\ net' = rest \cup out
      /\ roamDue' = (roamDue \/ (FALSE /\ connected)) /\ UNCHANGED <<route, connected, flips>>
  BY DEF Apply, Left
<1>2. net' \subseteq Request \cup Response /\ \A m \in net' \ net : Genuine(m)'
  BY <1>1 DEF IInv, TypeOK
<1>s. Sends
  BY <1>2 DEF Sends
<1>3. tm' \in [Peer -> Manager] /\ Local' /\ Agreement' /\ Messages'
  BY <1>1, <1>s, PeerStep
<1>4. roamDue \in BOOLEAN
  BY DEF IInv, TypeOK
<1>5. roamDue' \in BOOLEAN /\ (roamDue <=> roamDue')
  BY <1>1
<1>6. s.deferred => p = Phone /\ (roamDue' \/ ~connected)
  BY <1>5 DEF IInv, Deferral
<1> QED BY <1>1, <1>2, <1>3, <1>5, <1>6, Conclude

\* Destroying the IKE_SA, possibly after an answer was taken.
LEMMA ApplyDestroyed ==
    ASSUME IInv, NEW p \in Peer, NEW s, NEW d, s \in Manager, History(s),
           d = Destroyed(s) \/ d = [Destroyed(s) EXCEPT !.gaveUp = TRUE],
           AddsTo(p, s),
           NEW rest, NEW out, rest \subseteq net,
           out \subseteq Request \cup Response, \A m \in out : Genuine(m)',
           Apply(p, Left(d, out), rest)
    PROVE  IInv'
<1> DEFINE e == Destroyed(s)
<1>1. /\ e \in Manager
      /\ e.state = "DESTROYED" /\ e.packets = NoMsg /\ e.deferred = FALSE
      /\ e.imid = s.imid /\ e.rmid = s.rmid /\ e.issued = s.issued
      /\ e.completed = s.completed /\ e.ran = s.ran /\ e.result = s.result
      /\ e.response = NoMsg
  BY DestroyedFacts
<1>2. d = e \/ d = [e EXCEPT !.gaveUp = TRUE]
  OBVIOUS
<1> HIDE DEF e
<1>3. /\ d \in Manager
      /\ d.state = "DESTROYED" /\ d.packets = NoMsg /\ d.deferred = FALSE
      /\ d.imid = s.imid /\ d.rmid = s.rmid /\ d.issued = s.issued
      /\ d.completed = s.completed /\ d.ran = s.ran /\ d.result = s.result
      /\ d.response = NoMsg
  <2>1. CASE d = e
    BY <1>1, <2>1
  <2>2. CASE d = [e EXCEPT !.gaveUp = TRUE]
    BY <1>1, <2>2 DEF Manager
  <2> QED BY <1>2, <2>1, <2>2
<1>4. History(d)
  BY <1>3 DEF History
<1>5. Sound(p, d)
  BY <1>3, <1>4 DEF Sound, OpenRequest, Scheduled
<1>6. AddsTo(p, d)
  BY <1>3 DEF AddsTo
<1> QED BY <1>3, <1>5, <1>6, ApplyLeft

\* Destroying the IKE_SA after initiate(), whose request is on its way.
LEMMA ApplyForced ==
    ASSUME IInv, NEW p \in Peer, NEW s, Before(p, s), NEW l, Outcome(p, s, Found(p), l),
           Apply(p, Forced(l), net)
    PROVE  IInv'
<1> DEFINE u == l.tm
           d == Destroyed(u)
<1>1. /\ Sound(p, u) /\ u \in Manager /\ History(u) /\ u.state # "DESTROYED"
      /\ l.out = {} \/ (l.out = {u.packets} /\ u.packets # NoMsg)
  BY DEF Outcome, Sound
<1>2. AddsTo(p, u)
  BY OutcomeAdds
<1>3. /\ tm' = [tm EXCEPT ![p] = d] /\ net' = net \cup l.out
      /\ roamDue' = (roamDue \/ (l.lookup /\ connected)) /\ UNCHANGED <<route, connected, flips>>
  BY DEF Apply, Forced
<1> HIDE DEF u
<1>4. /\ d \in Manager
      /\ d.state = "DESTROYED" /\ d.packets = NoMsg /\ d.deferred = FALSE
      /\ d.imid = u.imid /\ d.rmid = u.rmid /\ d.issued = u.issued
      /\ d.completed = u.completed /\ d.ran = u.ran /\ d.result = u.result
      /\ d.response = NoMsg
  BY <1>1, DestroyedFacts
<1> HIDE DEF d
<1>5. History(d)
  BY <1>1, <1>4 DEF History
<1>6. Sound(p, d) /\ AddsTo(p, d)
  BY <1>2, <1>4, <1>5 DEF Sound, OpenRequest, Scheduled, AddsTo
<1>7. tm'[p] = d
  BY <1>3 DEF IInv, TypeOK
<1>8. ASSUME NEW m \in net' \ net PROVE m \in Request /\ Genuine(m)'
  <2>1. m = u.packets /\ u.packets # NoMsg
    BY <1>1, <1>3, <1>8
  <2>2. /\ u.active \in Task /\ u.imid \in Mid /\ u.issued[u.imid] = u.active
        /\ u.packets = Req(p, u.imid, u.active)
    BY <1>1, <2>1 DEF Sound, OpenRequest, History
  <2>3. /\ m \in Request /\ m.from = p /\ m.request /\ m.mid = u.imid
        /\ m = Req(p, u.imid, u.active)
    BY <2>1, <2>2, ReqFacts
  <2>4. Genuine(m)'
    BY <1>4, <1>7, <2>2, <2>3 DEF Genuine
  <2> QED BY <2>3, <2>4
<1>9. net' \subseteq Request \cup Response /\ Sends
  BY <1>8 DEF IInv, TypeOK, Sends
<1>10. tm' \in [Peer -> Manager] /\ Local' /\ Agreement' /\ Messages'
  BY <1>3, <1>4, <1>6, <1>9, PeerStep
<1>11. roamDue' \in BOOLEAN /\ (roamDue => roamDue')
  BY <1>3
<1> QED BY <1>3, <1>4, <1>9, <1>10, <1>11, Conclude

\* A task was queued: nothing of the exchanges changed.
LEMMA RequeuedBefore ==
    ASSUME IInv, NEW p \in Peer, tm[p].state # "DESTROYED", NEW u, Requeued(tm[p], u)
    PROVE  Before(p, u) /\ Ready(p, u)
<1>1. Ready(p, u)
  BY IInvParts, RequeuedReady
<1>2. u \in Manager /\ u.imid \in Mid
  BY <1>1 DEF Ready, History
<1>3. Before(p, u)
  BY <1>2 DEF Before, Requeued, SameExchanges
<1> QED BY <1>1, <1>3

\* A queued task and initiate() keep the invariant.
LEMMA ApplyRequeued ==
    ASSUME IInv, NEW p \in Peer, tm[p].state # "DESTROYED", NEW u, Requeued(tm[p], u),
           Apply(p, Initiate(p, u, Found(p)), net)
    PROVE  IInv'
<1>1. Before(p, u) /\ Ready(p, u)
  BY RequeuedBefore
<1>2. Found(p) \in BOOLEAN
  BY IInvParts
<1>3. Outcome(p, u, Found(p), Initiate(p, u, Found(p)))
  BY <1>1, <1>2, InitiateOutcome
<1> QED BY <1>1, <1>3, ApplyOutcome

\* Nothing is added to a history that stays as it is.
LEMMA NothingAdded ==
    ASSUME NEW p \in Peer
    PROVE  AddsTo(p, tm[p])
BY DEF AddsTo

\* A request for a CHILD_SA keeps the invariant.
LEMMA InitiateChildKeeps ==
    ASSUME IInv, NEW p \in Peer, InitiateChild(p)
    PROVE  IInv'
<1>1. tm[p] \in Manager
  BY IInvParts
<1>2. Requeued(tm[p], Queue(tm[p], "CHILD"))
  BY <1>1, QueueFacts DEF Kind
<1> QED BY <1>2, ApplyRequeued DEF InitiateChild, Usable

\* A liveness check keeps the invariant.
LEMMA SendDpdKeeps ==
    ASSUME IInv, NEW p \in Peer, SendDpd(p)
    PROVE  IInv'
<1> DEFINE s == IF p = Phone THEN QueueMobike(tm[p], FALSE) ELSE Queue(tm[p], "DPD")
<1>1. tm[p] \in Manager
  BY IInvParts
<1>2. Requeued(tm[p], QueueMobike(tm[p], FALSE)) /\ Requeued(tm[p], Queue(tm[p], "DPD"))
  BY <1>1, QueueFacts, QueueMobikeFacts DEF Kind
<1>3. Requeued(tm[p], s)
  BY <1>2
<1>4. tm[p].state # "DESTROYED" /\ Apply(p, Initiate(p, s, Found(p)), net)
  BY DEF SendDpd, Usable
<1> HIDE DEF s
<1> QED BY <1>3, <1>4, ApplyRequeued

\* A request to delete the IKE_SA keeps the invariant.
LEMMA DeleteKeeps ==
    ASSUME IInv, NEW p \in Peer, Delete(p)
    PROVE  IInv'
<1>1. tm[p] \in Manager /\ Sound(p, tm[p])
  BY IInvParts
<1>2. CASE tm[p].state = "ESTABLISHED"
  <2>1. Requeued(tm[p], Queue(tm[p], "DELETE"))
    BY <1>1, QueueFacts DEF Kind
  <2> DEFINE l == Initiate(p, Queue(tm[p], "DELETE"), Found(p))
  <2>2. Apply(p, l, net) \/ Apply(p, Forced(l), net)
    BY <1>2 DEF Delete
  <2>3. CASE Apply(p, l, net)
    BY <1>2, <2>1, <2>3, ApplyRequeued
  <2>4. CASE Apply(p, Forced(l), net)
    <3>1. Before(p, Queue(tm[p], "DELETE")) /\ Ready(p, Queue(tm[p], "DELETE"))
      BY <1>2, <2>1, RequeuedBefore
    <3>2. Outcome(p, Queue(tm[p], "DELETE"), Found(p), l)
      BY <3>1, IInvParts, InitiateOutcome
    <3> HIDE DEF l
    <3> QED BY <2>4, <3>1, <3>2, ApplyForced
  <2> QED BY <2>2, <2>3, <2>4
<1>3. CASE tm[p].state # "ESTABLISHED"
  <2>1. Apply(p, Left(Destroyed(tm[p]), {}), net)
    BY <1>3 DEF Delete
  <2>2. History(tm[p]) /\ AddsTo(p, tm[p])
    BY <1>1, NothingAdded DEF Sound
  <2> QED BY <1>1, <2>1, <2>2, ApplyDestroyed
<1> QED BY <1>2, <1>3

\* s is the task manager without the job that runs.
Unscheduled(s, t, mid) ==
    /\ t \in Manager /\ SameExchanges(s, t)
    /\ t.issued = s.issued /\ t.state = s.state /\ t.queue = s.queue /\ t.active = s.active
    /\ t.packets = s.packets /\ t.retransmitted = s.retransmitted /\ t.deferred = s.deferred
    /\ t.timers = s.timers \ {mid}

\* What a retransmit job starts from.
LEMMA UnscheduledFacts ==
    ASSUME NEW s \in Manager, NEW mid, NEW n \in Nat
    PROVE  /\ Unscheduled(s, [s EXCEPT !.timers = @ \ {mid}, !.faults = n], mid)
           /\ [s EXCEPT !.timers = @ \ {mid}, !.faults = n].faults = n
<1> DEFINE t == [s EXCEPT !.timers = @ \ {mid}, !.faults = n]
<1>1. t \in Manager
  <2>1. s.timers \ {mid} \in SUBSET Nat
    BY DEF Manager
  <2> QED BY <2>1 DEF Manager
<1>2. /\ t.issued = s.issued /\ t.state = s.state /\ t.queue = s.queue /\ t.active = s.active
      /\ t.packets = s.packets /\ t.retransmitted = s.retransmitted /\ t.deferred = s.deferred
      /\ t.timers = s.timers \ {mid} /\ t.faults = n
  BY DEF Manager
<1>3. SameExchanges(s, t)
  BY DEF SameExchanges, Manager
<1> HIDE DEF t
<1>4. Unscheduled(s, t, mid) /\ t.faults = n
  BY <1>1, <1>2, <1>3 DEF Unscheduled
<1> QED BY <1>4 DEF t

\* An open request that is retransmitted.
LEMMA SentOutcome ==
    ASSUME NEW p \in Peer, NEW s, Sound(p, s), s.state # "DESTROYED", s.packets # NoMsg,
           NEW mid, NEW t, Unscheduled(s, t, mid), NEW found \in BOOLEAN, NEW l, Sent(t, found, l)
    PROVE  Outcome(p, t, found, l)
<1> DEFINE u == l.tm
<1>1. /\ u \in Manager /\ u.issued = s.issued /\ u.state = s.state
      /\ u.active = s.active /\ u.packets = s.packets /\ u.queue = s.queue
      /\ SameExchanges(t, u) /\ SameExchanges(s, u) /\ t.imid = s.imid
  BY DEF Sent, SameRequest, Unscheduled, SameExchanges
<1>2. \/ /\ u.deferred /\ l.lookup /\ ~found /\ IsMobike(s) /\ l.out = {}
      \/ /\ u.deferred = t.deferred /\ ~l.lookup /\ l.out = {u.packets} /\ s.imid \in u.timers
  BY <1>1 DEF Sent, Unscheduled, IsMobike
<1> HIDE DEF u
<1>3. u.imid = s.imid /\ u.completed = s.completed
  BY <1>1 DEF SameExchanges
<1>4. History(u)
  <2>1. s.active \in Task
    BY DEF Sound, OpenRequest
  <2> QED BY <1>1, <2>1, IssueKeepsHistory DEF Sound
<1>5. s.state = "DELETING" => ~u.deferred
  BY <1>2 DEF Sound, OpenRequest, IsMobike, Unscheduled
<1>6. OpenRequest(p, u)
  BY <1>1, <1>3, <1>5 DEF OpenRequest, Sound
<1>7. Scheduled(u)
  BY <1>1, <1>2, <1>3 DEF Scheduled
<1>8. u.issued = t.issued
  BY <1>1 DEF Unscheduled
<1>9. u.packets # NoMsg /\ u.state # "DESTROYED"
  BY <1>1
<1> QED BY <1>1, <1>2, <1>4, <1>6, <1>7, <1>8, <1>9 DEF Outcome, u

\* A retransmit job is late, gives up, or sends.
RetransmitCases(p, mid, s) ==
    /\ tm[p].state # "DESTROYED" /\ Unscheduled(tm[p], s, mid)
    /\ s.faults = IF InFlight(p) # {} /\ mid = tm[p].imid THEN tm[p].faults + 1 ELSE tm[p].faults
    /\ \/ /\ mid # s.imid \/ s.packets = NoMsg
          /\ Apply(p, Left(s, {}), net)
       \/ /\ mid = s.imid /\ s.packets # NoMsg /\ s.retransmitted > Limit(s)
          /\ Apply(p, Left([Destroyed(s) EXCEPT !.gaveUp = TRUE], {}), net)
       \/ /\ mid = s.imid /\ s.packets # NoMsg
          /\ \E l : Sent(s, Found(p), l) /\ Apply(p, l, net)

\* It does one of these.
LEMMA RetransmitJobCases ==
    ASSUME IInv, NEW p \in Peer, RetransmitJob(p)
    PROVE  \E mid \in Nat, s \in Manager : RetransmitCases(p, mid, s)
<1>1. tm[p] \in Manager /\ Found(p) \in BOOLEAN
  BY IInvParts
<1>2. PICK mid \in tm[p].timers :
        /\ tm[p].state # "DESTROYED"
        /\ Apply(p, Retransmit([tm[p] EXCEPT !.timers = @ \ {mid},
                                             !.faults = IF InFlight(p) # {} /\ mid = tm[p].imid
                                                        THEN @ + 1 ELSE @],
                               mid, Found(p)), net)
  BY DEF RetransmitJob
<1> DEFINE n == IF InFlight(p) # {} /\ mid = tm[p].imid THEN tm[p].faults + 1 ELSE tm[p].faults
           s == [tm[p] EXCEPT !.timers = @ \ {mid}, !.faults = n]
<1>3. n \in Nat /\ mid \in Nat
  BY <1>1 DEF Manager
<1>4. Apply(p, Retransmit(s, mid, Found(p)), net)
  BY <1>2
<1> HIDE DEF n
<1>5. Unscheduled(tm[p], s, mid) /\ s.faults = n
  BY <1>1, <1>3, UnscheduledFacts
<1> HIDE DEF s
<1>6. s \in Manager
  BY <1>5 DEF Unscheduled
<1>7. CASE mid # s.imid \/ s.packets = NoMsg
  <2>1. Apply(p, Left(s, {}), net)
    BY <1>4, <1>7 DEF Retransmit
  <2>2. RetransmitCases(p, mid, s)
    BY <1>2, <1>5, <1>7, <2>1 DEF RetransmitCases, n
  <2> QED BY <1>3, <1>6, <2>2
<1>8. CASE mid = s.imid /\ s.packets # NoMsg /\ s.retransmitted > Limit(s)
  <2>1. Apply(p, Left([Destroyed(s) EXCEPT !.gaveUp = TRUE], {}), net)
    BY <1>4, <1>8 DEF Retransmit
  <2>2. RetransmitCases(p, mid, s)
    BY <1>2, <1>5, <1>8, <2>1 DEF RetransmitCases, n
  <2> QED BY <1>3, <1>6, <2>2
<1>9. CASE mid = s.imid /\ s.packets # NoMsg /\ ~(s.retransmitted > Limit(s))
  <2>1. Sent(s, Found(p), Retransmit(s, mid, Found(p)))
    BY <1>1, <1>6, <1>9, RetransmitSends
  <2>2. RetransmitCases(p, mid, s)
    BY <1>2, <1>4, <1>5, <1>9, <2>1 DEF RetransmitCases, n
  <2> QED BY <1>3, <1>6, <2>2
<1> QED BY <1>7, <1>8, <1>9

\* A retransmit job keeps the invariant.
LEMMA RetransmitJobKeeps ==
    ASSUME IInv, NEW p \in Peer, RetransmitJob(p)
    PROVE  IInv'
<1>1. tm[p] \in Manager /\ Sound(p, tm[p]) /\ Found(p) \in BOOLEAN
  BY IInvParts
<1>2. PICK mid \in Nat, s \in Manager : RetransmitCases(p, mid, s)
  BY RetransmitJobCases
<1>4. tm[p].state # "DESTROYED" /\ Unscheduled(tm[p], s, mid)
  BY <1>2 DEF RetransmitCases
<1>6. s \in Manager /\ History(s) /\ Before(p, s) /\ AddsTo(p, s)
  <2>1. [kind |-> "DPD", n |-> 0] \in Task
    BY DEF Task, Kind
  <2>2. History(s)
    BY <1>1, <1>4, <2>1, IssueKeepsHistory DEF Unscheduled, Sound
  <2>3. s.imid \in Mid
    BY <2>2 DEF History
  <2>4. Before(p, s)
    BY <1>4, <2>3 DEF Before, Unscheduled, SameExchanges
  <2>5. AddsTo(p, s)
    BY <1>4 DEF AddsTo, Unscheduled, SameExchanges
  <2> QED BY <1>4, <2>2, <2>4, <2>5 DEF Unscheduled
<1>7. CASE (mid # s.imid \/ s.packets = NoMsg) /\ Apply(p, Left(s, {}), net)
  <2>2. /\ s.imid = tm[p].imid /\ s.completed = tm[p].completed /\ s.issued = tm[p].issued
        /\ s.state = tm[p].state /\ s.queue = tm[p].queue /\ s.active = tm[p].active
        /\ s.packets = tm[p].packets /\ s.deferred = tm[p].deferred
        /\ s.timers = tm[p].timers \ {mid} /\ s.response = tm[p].response
    BY <1>4 DEF Unscheduled, SameExchanges
  <2>3. OpenRequest(p, s)
    BY <1>1, <2>2 DEF Sound, OpenRequest
  <2>4. Scheduled(s)
    BY <1>1, <1>7, <2>2 DEF Sound, Scheduled
  <2>5. Sound(p, s)
    BY <1>6, <2>3, <2>4 DEF Sound
  <2> QED BY <1>6, <1>7, <2>2, <2>5, ApplyLeft
<1>8. CASE Apply(p, Left([Destroyed(s) EXCEPT !.gaveUp = TRUE], {}), net)
  BY <1>6, <1>8, ApplyDestroyed
<1>9. ASSUME s.packets # NoMsg, NEW l, Sent(s, Found(p), l), Apply(p, l, net)
      PROVE  IInv'
  <2>1. tm[p].packets # NoMsg
    BY <1>4, <1>9 DEF Unscheduled
  <2>2. Outcome(p, s, Found(p), l)
    BY <1>1, <1>4, <1>9, <2>1, SentOutcome
  <2> QED BY <1>6, <1>9, <2>2, ApplyOutcome
<1> QED BY <1>2, <1>7, <1>8, <1>9 DEF RetransmitCases
-----------------------------------------------------------------------------
(* Messages arrive *)

\* The responder has carried out request m or refused it.
Processed(s, m, r, u) ==
    /\ u \in Manager
    /\ u.imid = s.imid /\ u.issued = s.issued /\ u.completed = s.completed /\ u.gaveUp = s.gaveUp
    /\ u.rmid = s.rmid + 1 /\ u.result = [s.result EXCEPT ![m.mid] = r]
    /\ u.ran = IF r = "done" THEN [s.ran EXCEPT ![m.mid] = @ + 1] ELSE s.ran

\* Process does so; it keeps the exchange that p itself has open unless it
\* destroys the IKE_SA.
LEMMA ProcessFacts ==
    ASSUME NEW p \in Peer, NEW s \in Manager, NEW m \in Request, NEW r \in Result
    PROVE  \E u : /\ Processed(s, m, r, u)
                  /\ \/ Process(p, s, m, r) = Destroyed(u)
                     \/ /\ Process(p, s, m, r) = u
                        /\ u.state = s.state /\ u.queue = s.queue /\ u.active = s.active
                        /\ u.packets = s.packets /\ u.deferred = s.deferred
                        /\ u.timers = s.timers /\ u.gaveUp = s.gaveUp
                        /\ u.retransmitted = s.retransmitted /\ u.faults = s.faults
                        /\ r # "syntax"
                        /\ IF r = "done" THEN u.prevHash = m /\ u.response = Answer(p, m, r)
                           ELSE u.prevHash = s.prevHash /\ u.response = s.response
<1> DEFINE t == [s EXCEPT !.rmid = @ + 1, !.result[m.mid] = r]
           d == [t EXCEPT !.ran[m.mid] = @ + 1, !.prevHash = m, !.response = Answer(p, m, r)]
<1>1. m.mid \in Mid /\ Answer(p, m, r) \in Response
  BY AnswerFacts DEF Request
<1>2. t \in Manager
  <2>1. [s.result EXCEPT ![m.mid] = r] \in [Mid -> Result \cup {NoResult}] /\ s.rmid + 1 \in Nat
    BY <1>1 DEF Manager
  <2>2. t = [s EXCEPT !.rmid = @ + 1, !.result = [s.result EXCEPT ![m.mid] = r]]
    OBVIOUS
  <2> HIDE DEF t
  <2> QED BY <2>1, <2>2 DEF Manager
<1>3. /\ t.imid = s.imid /\ t.issued = s.issued /\ t.completed = s.completed
      /\ t.rmid = s.rmid + 1 /\ t.result = [s.result EXCEPT ![m.mid] = r] /\ t.ran = s.ran
      /\ t.state = s.state /\ t.queue = s.queue /\ t.active = s.active
      /\ t.packets = s.packets /\ t.deferred = s.deferred
      /\ t.timers = s.timers /\ t.gaveUp = s.gaveUp
      /\ t.retransmitted = s.retransmitted /\ t.faults = s.faults
      /\ t.prevHash = s.prevHash /\ t.response = s.response
  BY DEF Manager
<1>4. Process(p, s, m, r) = CASE r = "unsupported" -> t
                              [] r = "syntax" -> Destroyed(t)
                              [] r = "done" /\ m.body.kind = "DELETE" -> Destroyed(d)
                              [] r = "done" /\ m.body.kind # "DELETE" -> d
  BY DEF Process
<1> HIDE DEF t
<1>5. d \in Manager
  <2>1. [t.ran EXCEPT ![m.mid] = @ + 1] \in [Mid -> Nat]
    BY <1>1, <1>2 DEF Manager
  <2>2. d = [t EXCEPT !.ran = [t.ran EXCEPT ![m.mid] = @ + 1], !.prevHash = m,
                      !.response = Answer(p, m, r)]
    OBVIOUS
  <2> HIDE DEF d
  <2> QED BY <1>1, <1>2, <2>1, <2>2 DEF Manager
<1>6. /\ d.imid = t.imid /\ d.issued = t.issued /\ d.completed = t.completed
      /\ d.rmid = t.rmid /\ d.result = t.result /\ d.ran = [t.ran EXCEPT ![m.mid] = @ + 1]
      /\ d.state = t.state /\ d.queue = t.queue /\ d.active = t.active
      /\ d.packets = t.packets /\ d.deferred = t.deferred
      /\ d.timers = t.timers /\ d.gaveUp = t.gaveUp
      /\ d.retransmitted = t.retransmitted /\ d.faults = t.faults
      /\ d.prevHash = m /\ d.response = Answer(p, m, r)
  BY <1>2 DEF Manager
<1> HIDE DEF d
<1>7. CASE r = "done"
  <2>1. Processed(s, m, r, d)
    BY <1>3, <1>5, <1>6, <1>7 DEF Processed
  <2>2. Process(p, s, m, r) = Destroyed(d) \/ Process(p, s, m, r) = d
    BY <1>4, <1>7
  <2> QED BY <1>3, <1>6, <1>7, <2>1, <2>2
<1>8. CASE r # "done"
  <2>1. Processed(s, m, r, t)
    BY <1>2, <1>3, <1>8 DEF Processed
  <2>2. \/ Process(p, s, m, r) = Destroyed(t)
        \/ Process(p, s, m, r) = t /\ r # "syntax"
    BY <1>4, <1>8 DEF Result
  <2> QED BY <1>3, <1>8, <2>1, <2>2
<1> QED BY <1>7, <1>8

\* The history after request rmid was processed.
LEMMA ProcessedHistory ==
    ASSUME NEW s \in Manager, History(s), NEW m \in Request, m.mid = s.rmid, s.rmid < MaxMid,
           NEW r \in Result, NEW u, Processed(s, m, r, u)
    PROVE  /\ History(u)
           /\ \A k \in Mid : k # m.mid => u.result[k] = s.result[k]
           /\ u.result[m.mid] = r
<1>1. /\ u.imid = s.imid /\ u.issued = s.issued /\ u.completed = s.completed
      /\ u.rmid = s.rmid + 1 /\ u.result = [s.result EXCEPT ![m.mid] = r]
      /\ u.ran = IF r = "done" THEN [s.ran EXCEPT ![m.mid] = @ + 1] ELSE s.ran
  BY DEF Processed
<1>2. m.mid \in Mid /\ MaxMid \in Nat /\ r # NoResult
  BY Bounds, NoTaskNoMsg DEF Request
<1>3. u.rmid \in Mid
  BY <1>1, <1>2 DEF Mid
<1>4. (\A k \in Mid : k # m.mid => u.result[k] = s.result[k]) /\ u.result[m.mid] = r
  BY <1>1, <1>2 DEF Manager
<1>5. \A k \in Mid : u.result[k] # NoResult <=> k < u.rmid
  BY <1>1, <1>2, <1>4 DEF History, Mid
<1>6. s.result[m.mid] = NoResult
  BY <1>2 DEF History, Mid
<1>7. s.ran[m.mid] = 0
  BY <1>2, <1>6 DEF History, NoResult
<1>8. /\ \A k \in Mid : k # m.mid => u.ran[k] = s.ran[k]
      /\ u.ran[m.mid] = IF r = "done" THEN 1 ELSE 0
  BY <1>1, <1>2, <1>7 DEF Manager
<1>9. \A k \in Mid : u.ran[k] = IF u.result[k] = "done" THEN 1 ELSE 0
  BY <1>4, <1>8 DEF History
<1> QED BY <1>1, <1>3, <1>4, <1>5, <1>9 DEF History

\* A message to p that is in flight.
LEMMA Arriving ==
    ASSUME IInv, NEW p \in Peer, NEW m \in net, m.from = Other(p)
    PROVE  /\ Genuine(m)
           /\ m.request => /\ m \in Request /\ m.mid \in Mid
                           /\ tm[Other(p)].issued[m.mid] \in Task
                           /\ m = Req(Other(p), m.mid, tm[Other(p)].issued[m.mid])
                           /\ m.type = ExchangeType(tm[Other(p)].issued[m.mid].kind)
           /\ ~m.request => /\ m \in Response /\ m.mid \in Mid /\ m.body \in Result
                            /\ m.body = tm[Other(p)].result[m.mid] /\ m.body # NoResult
                            /\ tm[p].issued[m.mid] # NoTask
                            /\ m.type = ExchangeType(tm[p].issued[m.mid].kind)
<1>1. Other(p) \in Peer /\ Other(Other(p)) = p
  BY PeerFacts
<1>2. Genuine(m) /\ m \in Request \cup Response
  BY DEF IInv, Messages, TypeOK
<1>3. CASE m \in Request
  <2>1. m.request = TRUE /\ m.mid \in Mid
    BY <1>3 DEF Request
  <2>2. /\ tm[Other(p)].issued[m.mid] \in Task
        /\ m = Req(Other(p), m.mid, tm[Other(p)].issued[m.mid])
    BY <1>2, <2>1 DEF Genuine
  <2>3. m.type = ExchangeType(tm[Other(p)].issued[m.mid].kind)
    BY <1>1, <2>1, <2>2, ReqFacts
  <2> QED BY <1>2, <1>3, <2>1, <2>2, <2>3
<1>4. CASE m \in Response
  <2>1. m.request = FALSE /\ m.mid \in Mid /\ m.body \in Result /\ m.body # NoResult
    BY <1>4, NoTaskNoMsg DEF Response
  <2>2. /\ m.body = tm[Other(p)].result[m.mid]
        /\ m.type = ExchangeType(tm[p].issued[m.mid].kind)
    BY <1>1, <1>2, <2>1 DEF Genuine
  <2>3. tm[p].issued[m.mid] # NoTask
    BY <2>1, <2>2, IInvParts DEF Agree
  <2> QED BY <1>2, <1>4, <2>1, <2>2, <2>3
<1> QED BY <1>2, <1>3, <1>4

\* A message that is dropped, or answered by the response that is kept.
LEMMA KeptAnswer ==
    ASSUME IInv, NEW p \in Peer, NEW rest, rest \subseteq net, NEW out,
           out = {} \/ (out = {tm[p].response} /\ tm[p].response # NoMsg),
           Apply(p, Left(tm[p], out), rest)
    PROVE  IInv'
<1>1. Sound(p, tm[p]) /\ AddsTo(p, tm[p]) /\ tm[p] \in Manager
  BY IInvParts, NothingAdded
<1>2. out \subseteq Request \cup Response /\ \A m \in out : Genuine(m)
  BY <1>1 DEF Manager, IInv, Messages
<1>3. tm' = tm
  <2>1. tm' = [tm EXCEPT ![p] = tm[p]]
    BY DEF Apply, Left
  <2> QED BY <2>1 DEF IInv, TypeOK
<1>4. \A m \in out : Genuine(m)'
  BY <1>2, <1>3 DEF Genuine
<1> QED BY <1>1, <1>2, <1>4, ApplyLeft

\* A request with the expected message ID is answered.
LEMMA AnswerKeeps ==
    ASSUME IInv, NEW p \in Peer, tm[p].state # "DESTROYED", tm[p].rmid < MaxMid,
           NEW m \in net, m.from = Other(p), m.request, m.mid = tm[p].rmid,
           NEW r \in Result, NEW rest, rest \subseteq net,
           Apply(p, Left(Process(p, tm[p], m, r), {Answer(p, m, r)}), rest)
    PROVE  IInv'
<1> DEFINE s == tm[p]
           a == Answer(p, m, r)
<1>1. s \in Manager /\ Sound(p, s) /\ History(s)
  BY IInvParts DEF Sound
<1>2. /\ m \in Request /\ m.mid \in Mid /\ tm[Other(p)].issued[m.mid] \in Task
      /\ m.type = ExchangeType(tm[Other(p)].issued[m.mid].kind)
  BY Arriving
<1>3. a \in Response /\ a.from = p /\ ~a.request /\ a.mid = m.mid /\ a.body = r /\ a.type = m.type
  BY <1>2, AnswerFacts
<1>4. PICK u : /\ Processed(s, m, r, u)
               /\ \/ Process(p, s, m, r) = Destroyed(u)
                  \/ /\ Process(p, s, m, r) = u
                     /\ u.state = s.state /\ u.queue = s.queue /\ u.active = s.active
                     /\ u.packets = s.packets /\ u.deferred = s.deferred
                     /\ u.timers = s.timers /\ u.gaveUp = s.gaveUp
                     /\ u.retransmitted = s.retransmitted /\ u.faults = s.faults
                     /\ r # "syntax"
                     /\ IF r = "done" THEN u.prevHash = m /\ u.response = Answer(p, m, r)
                        ELSE u.prevHash = s.prevHash /\ u.response = s.response
  BY <1>1, <1>2, ProcessFacts
<1> HIDE DEF a
<1>5. /\ History(u) /\ u.result[m.mid] = r
      /\ \A k \in Mid : k # m.mid => u.result[k] = s.result[k]
  BY <1>1, <1>2, <1>4, ProcessedHistory
<1>6. u \in Manager /\ u.issued = s.issued /\ u.completed = s.completed /\ u.imid = s.imid
  BY <1>4 DEF Processed
<1>7. s.result[m.mid] = NoResult
  BY <1>1, <1>2 DEF History, Mid
<1>8. AddsTo(p, u)
  BY <1>2, <1>5, <1>6, <1>7, NoTaskNoMsg DEF AddsTo
<1>9. ASSUME NEW d, tm' = [tm EXCEPT ![p] = d], d.result = u.result PROVE Genuine(a)'
  <2>1. tm'[p] = d /\ tm'[Other(p)] = tm[Other(p)]
    BY <1>9, PeerFacts DEF IInv, TypeOK
  <2>2. r = tm'[p].result[m.mid] /\ a.type = ExchangeType(tm'[Other(p)].issued[m.mid].kind)
    BY <1>2, <1>3, <1>5, <1>9, <2>1
  <2> QED BY <1>3, <2>2 DEF Genuine
<1>10. CASE Process(p, s, m, r) = Destroyed(u)
  <2>1. tm' = [tm EXCEPT ![p] = Destroyed(u)] /\ Apply(p, Left(Destroyed(u), {a}), rest)
    BY <1>10 DEF Apply, Left, a
  <2>2. Destroyed(u).result = u.result
    BY <1>6, DestroyedFacts
  <2>3. Genuine(a)'
    BY <1>9, <2>1, <2>2
  <2> QED BY <1>3, <1>5, <1>6, <1>8, <2>1, <2>3, ApplyDestroyed
<1>11. CASE Process(p, s, m, r) = u /\ Process(p, s, m, r) # Destroyed(u)
  <2>1. tm' = [tm EXCEPT ![p] = u] /\ Apply(p, Left(u, {a}), rest)
    BY <1>11 DEF Apply, Left, a
  <2>2. Genuine(a)'
    BY <1>9, <2>1
  <2>3. /\ u.state = s.state /\ u.queue = s.queue /\ u.active = s.active
        /\ u.packets = s.packets /\ u.deferred = s.deferred /\ u.timers = s.timers
    BY <1>4, <1>11
  <2>4. OpenRequest(p, u) /\ Scheduled(u)
    BY <1>1, <1>6, <2>3 DEF Sound, OpenRequest, Scheduled
  <2>5. Sound(p, u)
    BY <1>5, <1>6, <2>4 DEF Sound
  <2>6. u.response = s.response \/ u.response = a
    BY <1>4, <1>11 DEF a
  <2> QED BY <1>3, <1>8, <2>1, <2>2, <2>3, <2>5, <2>6, ApplyLeft
<1> QED BY <1>4, <1>10, <1>11

\* The step of a responder keeps the invariant.
LEMMA ProcessRequestKeeps ==
    ASSUME IInv, NEW p \in Peer, tm[p].state # "DESTROYED", tm[p].rmid < MaxMid,
           NEW m \in net, m.from = Other(p), m.request, NEW rest, rest \subseteq net,
           ProcessRequest(p, m, rest)
    PROVE  IInv'
<1>1. ASSUME m.mid = tm[p].rmid, NEW r \in Result,
             Apply(p, Left(Process(p, tm[p], m, r), {Answer(p, m, r)}), rest)
      PROVE  IInv'
  BY <1>1, AnswerKeeps
<1>2. CASE IsRetransmit(tm[p], m) /\ Apply(p, Left(tm[p], {tm[p].response}), rest)
  BY <1>2, KeptAnswer DEF IsRetransmit
<1>3. CASE Apply(p, Left(tm[p], {}), rest)
  BY <1>3, KeptAnswer
<1> QED BY <1>1, <1>2, <1>3 DEF ProcessRequest

\* c is s with the answer of m taken.
Taken(s, m, c) ==
    /\ c \in Manager /\ c.rmid = s.rmid /\ c.issued = s.issued /\ c.result = s.result
    /\ c.ran = s.ran /\ c.state = s.state /\ c.response = s.response /\ c.prevHash = s.prevHash
    /\ c.completed = [s.completed EXCEPT ![m.mid] = m.body]
    /\ c.deferred = s.deferred /\ c.gaveUp = s.gaveUp /\ c.faults = s.faults

\* The answer to the open request adds to the history.
LEMMA TakenAdds ==
    ASSUME IInv, NEW p \in Peer, tm[p].state # "DESTROYED", tm[p].imid < MaxMid,
           NEW m \in net, m.from = Other(p), ~m.request, m.mid = tm[p].imid,
           NEW c, Taken(tm[p], m, c), c.imid \in {tm[p].imid, tm[p].imid + 1}
    PROVE  /\ c \in Manager /\ History(c) /\ AddsTo(p, c)
           /\ \A k \in Mid : \/ c.completed[k] = tm[p].completed[k]
                             \/ c.completed[k] = tm[Other(p)].result[k]
           /\ c.imid = tm[p].imid + 1 => /\ c.completed[c.imid] = NoResult
                                         /\ c.issued[c.imid] = NoTask
<1> DEFINE s == tm[p]
<1>1. s \in Manager /\ Sound(p, s) /\ History(s)
  BY IInvParts DEF Sound
<1>2. /\ m.mid \in Mid /\ m.body = tm[Other(p)].result[m.mid] /\ m.body # NoResult
      /\ s.issued[m.mid] # NoTask
  BY Arriving
<1>3. /\ c \in Manager /\ c.rmid = s.rmid /\ c.issued = s.issued /\ c.result = s.result
      /\ c.ran = s.ran /\ c.completed = [s.completed EXCEPT ![m.mid] = m.body]
  BY DEF Taken
<1>4. (\A k \in Mid : k # m.mid => c.completed[k] = s.completed[k]) /\ c.completed[m.mid] = m.body
  BY <1>1, <1>2, <1>3 DEF Manager
<1>5. s.imid + 1 \in Mid /\ MaxMid \in Nat /\ s.imid \in Nat
  <2>1. s.imid \in Mid /\ MaxMid \in Nat
    BY <1>1, Bounds DEF History
  <2> QED BY <2>1 DEF Mid
<1>6. /\ c.imid \in Mid
      /\ \A k \in Mid : k < c.imid => c.issued[k] # NoTask /\ c.completed[k] # NoResult
      /\ \A k \in Mid : k > c.imid => c.issued[k] = NoTask /\ c.completed[k] = NoResult
  <2>1. /\ \A k \in Mid : k < s.imid => s.issued[k] # NoTask /\ s.completed[k] # NoResult
        /\ \A k \in Mid : k > s.imid => s.issued[k] = NoTask /\ s.completed[k] = NoResult
        /\ s.imid \in Mid /\ Mid \subseteq Nat
    BY <1>1 DEF History, Mid
  <2>2. ASSUME NEW k \in Mid
        PROVE  /\ k < c.imid => c.issued[k] # NoTask /\ c.completed[k] # NoResult
               /\ k > c.imid => c.issued[k] = NoTask /\ c.completed[k] = NoResult
    <3>1. CASE k = m.mid
      BY <1>2, <1>3, <1>4, <1>5, <2>1, <3>1
    <3>2. CASE k # m.mid
      BY <1>3, <1>4, <1>5, <2>1, <3>2
    <3> QED BY <3>1, <3>2
  <2> QED BY <1>5, <2>1, <2>2
<1>7. History(c)
  BY <1>1, <1>3, <1>6 DEF History
<1>8. AddsTo(p, c)
  BY <1>2, <1>3, <1>4 DEF AddsTo
<1>9. s.completed[s.imid + 1] = NoResult /\ s.issued[s.imid + 1] = NoTask
  BY <1>1, <1>5 DEF History
<1>10. c.imid = s.imid + 1 => c.completed[c.imid] = NoResult /\ c.issued[c.imid] = NoTask
  BY <1>3, <1>4, <1>5, <1>9
<1> QED BY <1>2, <1>3, <1>4, <1>7, <1>8, <1>10

\* The answer that closes the IKE_SA.
LEMMA TakenFacts ==
    ASSUME NEW s \in Manager, NEW m \in Response
    PROVE  /\ Taken(s, m, [s EXCEPT !.completed[m.mid] = m.body])
           /\ [s EXCEPT !.completed[m.mid] = m.body].imid = s.imid
<1> DEFINE c == [s EXCEPT !.completed = [s.completed EXCEPT ![m.mid] = m.body]]
<1>1. c = [s EXCEPT !.completed[m.mid] = m.body]
  OBVIOUS
<1>2. [s.completed EXCEPT ![m.mid] = m.body] \in [Mid -> Result \cup {NoResult}]
  BY DEF Manager, Response
<1>3. c \in Manager
  BY <1>2 DEF Manager
<1>4. /\ c.rmid = s.rmid /\ c.issued = s.issued /\ c.result = s.result
      /\ c.ran = s.ran /\ c.state = s.state /\ c.response = s.response /\ c.prevHash = s.prevHash
      /\ c.completed = [s.completed EXCEPT ![m.mid] = m.body]
      /\ c.deferred = s.deferred /\ c.gaveUp = s.gaveUp /\ c.faults = s.faults
      /\ c.imid = s.imid
  BY DEF Manager
<1> HIDE DEF c
<1>5. Taken(s, m, c) /\ c.imid = s.imid
  BY <1>3, <1>4 DEF Taken
<1> QED BY <1>1, <1>5

\* The answer that completes the exchange.
LEMMA CompletedFacts ==
    ASSUME NEW s \in Manager, NEW m \in Response, NEW more \in BOOLEAN
    PROVE  LET c == Completed(s, m, more) IN
           Taken(s, m, c) /\ c.imid = s.imid + 1 /\ c.packets = NoMsg
<1> DEFINE f == [s.completed EXCEPT ![m.mid] = m.body]
           t == IF more THEN s.active ELSE NoTask
           c == [s EXCEPT !.imid = @ + 1, !.packets = NoMsg, !.completed = f,
                          !.active = t, !.probing = FALSE]
<1>1. c = Completed(s, m, more)
  BY DEF Completed
<1>2. f \in [Mid -> Result \cup {NoResult}] /\ s.imid + 1 \in Nat /\ t \in Task \cup {NoTask}
  BY DEF Manager, Response
<1>3. c \in Manager
  <2> HIDE DEF f, t
  <2> QED BY <1>2 DEF Manager
<1>4. /\ c.rmid = s.rmid /\ c.issued = s.issued /\ c.result = s.result
      /\ c.ran = s.ran /\ c.state = s.state /\ c.response = s.response /\ c.prevHash = s.prevHash
      /\ c.completed = [s.completed EXCEPT ![m.mid] = m.body]
      /\ c.deferred = s.deferred /\ c.gaveUp = s.gaveUp /\ c.faults = s.faults
      /\ c.imid = s.imid + 1 /\ c.packets = NoMsg
  BY DEF Manager
<1> HIDE DEF c
<1>5. Taken(s, m, c) /\ c.imid = s.imid + 1 /\ c.packets = NoMsg
  BY <1>3, <1>4 DEF Taken
<1> QED BY <1>1, <1>5

\* The task manager is ready for the next exchange.
LEMMA CompletedReady ==
    ASSUME IInv, NEW p \in Peer, tm[p].state # "DESTROYED", tm[p].imid < MaxMid,
           NEW m \in net, m.from = Other(p), ~m.request, m.mid = tm[p].imid,
           tm[p].active.kind # "DELETE", NEW more \in BOOLEAN
    PROVE  LET c == Completed(tm[p], m, more) IN Ready(p, c) /\ Before(p, c)
<1> DEFINE s == tm[p]
           c == Completed(s, m, more)
<1>1. s \in Manager /\ Sound(p, s) /\ m \in Response
  BY IInvParts, Arriving
<1>2. Taken(s, m, c) /\ c.imid = s.imid + 1 /\ c.packets = NoMsg
  BY <1>1, CompletedFacts
<1> HIDE DEF c
<1>3. /\ c \in Manager /\ History(c)
      /\ \A k \in Mid : \/ c.completed[k] = s.completed[k]
                        \/ c.completed[k] = tm[Other(p)].result[k]
      /\ c.completed[c.imid] = NoResult /\ c.issued[c.imid] = NoTask
  BY <1>2, TakenAdds
<1>4. s.state = "ESTABLISHED"
  BY <1>1 DEF Sound, OpenRequest, Manager
<1>5. c.state = s.state /\ c.issued = s.issued /\ c.result = s.result
      /\ c.response = s.response /\ c.deferred = s.deferred
  BY <1>2 DEF Taken
<1>6. Ready(p, c)
  BY <1>2, <1>3, <1>4, <1>5 DEF Ready
<1>7. c.imid \in Mid
  BY <1>3 DEF History
<1>8. Before(p, c)
  BY <1>3, <1>5, <1>7 DEF Before
<1> QED BY <1>6, <1>8 DEF c

\* The step of an initiator that gets an answer keeps the invariant.
LEMMA ProcessResponseKeeps ==
    ASSUME IInv, NEW p \in Peer, tm[p].state # "DESTROYED", tm[p].imid < MaxMid,
           NEW m \in net, m.from = Other(p), ~m.request, NEW rest, rest \subseteq net,
           ProcessResponse(p, m, rest)
    PROVE  IInv'
<1>1. tm[p] \in Manager /\ m \in Response /\ Found(p) \in BOOLEAN
  BY IInvParts, Arriving
<1>2. CASE Apply(p, Left(tm[p], {}), rest)
  BY <1>2, KeptAnswer
<1>3. CASE m.mid = tm[p].imid
           /\ Apply(p, Left(Destroyed([tm[p] EXCEPT !.completed[m.mid] = m.body]), {}), rest)
  <2> DEFINE c == [tm[p] EXCEPT !.completed[m.mid] = m.body]
  <2>1. Taken(tm[p], m, c) /\ c.imid = tm[p].imid
    BY <1>1, TakenFacts
  <2>2. Apply(p, Left(Destroyed(c), {}), rest)
    BY <1>3
  <2> HIDE DEF c
  <2>3. c \in Manager /\ History(c) /\ AddsTo(p, c)
    BY <1>3, <2>1, TakenAdds
  <2> QED BY <2>2, <2>3, ApplyDestroyed
<1>4. ASSUME m.mid = tm[p].imid, tm[p].active.kind # "DELETE", NEW more \in BOOLEAN,
             Apply(p, Initiate(p, Completed(tm[p], m, more), Found(p)), rest)
      PROVE  IInv'
  <2> DEFINE c == Completed(tm[p], m, more)
  <2>1. Ready(p, c) /\ Before(p, c)
    BY <1>4, CompletedReady
  <2>2. Apply(p, Initiate(p, c, Found(p)), rest)
    BY <1>4
  <2> HIDE DEF c
  <2>3. Outcome(p, c, Found(p), Initiate(p, c, Found(p)))
    BY <1>1, <2>1, InitiateOutcome
  <2> QED BY <2>1, <2>2, <2>3, ApplyOutcome
<1> QED BY <1>2, <1>3, <1>4 DEF ProcessResponse

\* A message that arrives keeps the invariant.
LEMMA ReceiveKeeps ==
    ASSUME IInv, NEW p \in Peer, NEW m \in net, Receive(p, m)
    PROVE  IInv'
<1>1. /\ m.from = Other(p) /\ tm[p].state # "DESTROYED"
      /\ tm[p].imid < MaxMid /\ tm[p].rmid < MaxMid
  BY DEF Receive
<1>2. PICK rest \in {net, net \ {m}} :
        IF m.request THEN ProcessRequest(p, m, rest) ELSE ProcessResponse(p, m, rest)
  BY DEF Receive
<1>3. rest \subseteq net
  BY <1>2
<1>4. CASE m.request
  BY <1>1, <1>2, <1>3, <1>4, ProcessRequestKeeps
<1>5. CASE ~m.request
  BY <1>1, <1>2, <1>3, <1>5, ProcessResponseKeeps
<1> QED BY <1>4, <1>5
-----------------------------------------------------------------------------
(* The network and the phone's connectivity *)

\* A count of faults is all that changes.
LEMMA FaultFacts ==
    ASSUME NEW p \in Peer, NEW s, Sound(p, s), NEW n \in Nat
    PROVE  LET u == [s EXCEPT !.faults = n] IN
           /\ Sound(p, u) /\ SameExchanges(s, u) /\ u.issued = s.issued
           /\ u.deferred = s.deferred /\ u.packets = s.packets /\ u.state = s.state
           /\ u.retransmitted = s.retransmitted /\ u.faults = n
<1> DEFINE u == [s EXCEPT !.faults = n]
<1>1. s \in Manager /\ u \in Manager
  BY DEF Sound, Manager
<1>2. /\ u.issued = s.issued /\ u.state = s.state /\ u.queue = s.queue /\ u.active = s.active
      /\ u.packets = s.packets /\ u.deferred = s.deferred /\ u.timers = s.timers
      /\ u.retransmitted = s.retransmitted /\ u.faults = n
  BY <1>1 DEF Manager
<1>3. SameExchanges(s, u)
  BY <1>1 DEF SameExchanges, Manager
<1> HIDE DEF u
<1>4. [kind |-> "DPD", n |-> 0] \in Task
  BY DEF Task, Kind
<1>5. History(u)
  BY <1>1, <1>2, <1>3, <1>4, IssueKeepsHistory DEF Sound
<1>6. OpenRequest(p, u)
  BY <1>2, <1>3 DEF OpenRequest, Sound, SameExchanges
<1>7. Scheduled(u)
  BY <1>2, <1>3 DEF Scheduled, Sound, SameExchanges
<1>8. Sound(p, u)
  BY <1>1, <1>5, <1>6, <1>7 DEF Sound
<1> QED BY <1>2, <1>3, <1>8 DEF u

\* The initiator of the exchange that m belongs to.
Initiator(m) == IF m.request THEN m.from ELSE Other(m.from)

\* What losing m does.
LEMMA LoseFacts ==
    ASSUME IInv, NEW m \in net, Lose(m)
    PROVE  /\ Initiator(m) \in Peer
           /\ LET p == Initiator(m)
                  open == m \in InFlight(p) /\ tm[p].packets # NoMsg
                  n == IF open THEN tm[p].faults + 1 ELSE tm[p].faults
              IN /\ n \in Nat
                 /\ tm' = [tm EXCEPT ![p] = [tm[p] EXCEPT !.faults = n]]
<1> DEFINE p == Initiator(m)
           open == m \in InFlight(p) /\ tm[p].packets # NoMsg
           n == IF open THEN tm[p].faults + 1 ELSE tm[p].faults
<1>1. m \in Request \cup Response
  BY DEF IInv, TypeOK
<1>2. m.from \in Peer
  BY <1>1 DEF Request, Response
<1>3. p \in Peer
  BY <1>2, PeerFacts DEF Initiator
<1>4. tm' = [tm EXCEPT ![p].faults = IF open THEN @ + 1 ELSE @]
  BY DEF Lose, Initiator
<1> HIDE DEF p, open
<1>5. tm[p].faults \in Nat
  BY <1>3, IInvParts DEF Manager
<1>6. n \in Nat
  BY <1>5
<1>7. tm' = [tm EXCEPT ![p] = [tm[p] EXCEPT !.faults = n]]
  BY <1>4
<1> QED BY <1>3, <1>6, <1>7 DEF p, open

\* A lost message changes a count and nothing else.
LEMMA LoseKeeps ==
    ASSUME IInv, NEW m \in net, Lose(m)
    PROVE  IInv'
<1>1. PICK p \in Peer, n \in Nat : tm' = [tm EXCEPT ![p] = [tm[p] EXCEPT !.faults = n]]
  BY LoseFacts
<1> DEFINE u == [tm[p] EXCEPT !.faults = n]
<1>2. Sound(p, tm[p])
  BY IInvParts
<1>3. /\ Sound(p, u) /\ SameExchanges(tm[p], u) /\ u.issued = tm[p].issued
      /\ u.deferred = tm[p].deferred
  BY <1>2, FaultFacts
<1>4. tm' = [tm EXCEPT ![p] = u]
  BY <1>1
<1> HIDE DEF u
<1>5. AddsTo(p, u) /\ u.response = tm[p].response
  BY <1>3 DEF AddsTo, SameExchanges
<1>6. net' \subseteq net /\ roamDue' = roamDue /\ UNCHANGED <<route, connected, flips>>
  BY DEF Lose
<1>7. Sends
  BY <1>6 DEF Sends, IInv, TypeOK
<1>8. tm' \in [Peer -> Manager] /\ Local' /\ Agreement' /\ Messages'
  BY <1>3, <1>4, <1>5, <1>7, PeerStep
<1>9. net' \subseteq Request \cup Response
  BY <1>7 DEF Sends
<1>10. roamDue' \in BOOLEAN
  BY <1>6 DEF IInv, TypeOK
<1>11. u.deferred => p = Phone /\ (roamDue' \/ ~connected)
  BY <1>3, <1>6 DEF IInv, Deferral
<1> QED BY <1>4, <1>6, <1>8, <1>9, <1>10, <1>11, Conclude

\* A step that leaves the task managers and the messages alone.
LEMMA QuietKeeps ==
    ASSUME IInv, UNCHANGED <<tm, net>>, {route', connected', roamDue'} \subseteq BOOLEAN,
           flips' \in Nat, Deferral'
    PROVE  IInv'
<1>1. TypeOK'
  BY DEF IInv, TypeOK
<1>2. Local' /\ Agreement'
  BY DEF IInv, Local, Agreement
<1>3. Messages'
  BY DEF IInv, Messages, Genuine
<1> QED BY <1>1, <1>2, <1>3 DEF IInv

\* Changes of connectivity schedule a roam job.
LEMMA ConnectivityKeeps ==
    ASSUME IInv, ConnectivityCb \/ RouteAppears
    PROVE  IInv'
<1>1. {route', connected', roamDue'} \subseteq BOOLEAN /\ flips' \in Nat /\ UNCHANGED <<tm, net>>
  <2>0. {route, connected, roamDue} \subseteq BOOLEAN /\ flips \in Nat
    BY DEF IInv, TypeOK
  <2>1. CASE ConnectivityCb
    <3>1. connected' \in BOOLEAN /\ route' \in BOOLEAN /\ roamDue' = TRUE /\ flips' = flips + 1
      BY <2>1 DEF ConnectivityCb
    <3> QED BY <2>0, <2>1, <3>1 DEF ConnectivityCb
  <2>2. CASE RouteAppears
    BY <2>0, <2>2 DEF RouteAppears
  <2> QED BY <2>1, <2>2
<1>2. Deferral'
  BY DEF ConnectivityCb, RouteAppears, IInv, Deferral
<1> QED BY <1>1, <1>2, QuietKeeps

\* The phone is told about its network and takes deferred exchanges up.
LEMMA RoamJobKeeps ==
    ASSUME IInv, RoamJob
    PROVE  IInv'
<1> DEFINE s == tm[Phone]
           up == s.state = "ESTABLISHED"
<1>p. Phone \in Peer
  BY DEF Peer
<1>1. s \in Manager /\ Sound(Phone, s)
  BY <1>p, IInvParts
<1>2. UNCHANGED <<route, connected, flips>>
  BY DEF RoamJob
<1>3. ASSUME up, route, NEW changed \in BOOLEAN, NEW l,
             l = Initiate(Phone, QueueMobike(s, changed), TRUE),
             tm' = [tm EXCEPT ![Phone] = l.tm], net' = net \cup l.out, roamDue' = FALSE
      PROVE  IInv'
  <2> DEFINE u == QueueMobike(s, changed)
  <2>1. Requeued(s, u)
    BY <1>1, QueueMobikeFacts
  <2> HIDE DEF u
  <2>2. Before(Phone, u) /\ Ready(Phone, u)
    BY <1>p, <1>3, <2>1, RequeuedBefore
  <2>3. Outcome(Phone, u, TRUE, l) /\ TakenUp(u, l)
    BY <1>p, <1>3, <2>2, InitiateOutcome DEF u
  <2>4. /\ tm' \in [Peer -> Manager] /\ Local' /\ Agreement' /\ Messages'
        /\ net' \subseteq Request \cup Response
    BY <1>p, <1>3, <2>2, <2>3, InitiateStep
  <2>5. u.queue # {} /\ u.state = "ESTABLISHED"
    BY <1>3, <2>1 DEF Requeued
  <2>6. ~l.tm.deferred
    BY <2>3, <2>5 DEF Outcome, TakenUp
  <2>7. roamDue' \in BOOLEAN
    BY <1>3
  <2> QED BY <1>p, <1>2, <1>3, <2>4, <2>6, <2>7, Conclude
<1>4. CASE (~up \/ ~route) /\ roamDue' = (up /\ connected) /\ UNCHANGED <<tm, net>>
  <2>1. {route', connected', roamDue'} \subseteq BOOLEAN /\ flips' \in Nat
    BY <1>2, <1>4 DEF IInv, TypeOK
  <2>2. s.deferred => up
    BY <1>1 DEF Sound, OpenRequest, Manager
  <2>3. Deferral'
    BY <1>2, <1>4, <2>2 DEF IInv, Deferral
  <2> QED BY <1>4, <2>1, <2>3, QuietKeeps
<1> QED BY <1>3, <1>4 DEF RoamJob
-----------------------------------------------------------------------------
(* The theorems *)

\* The first exchanges begin with nothing open and nothing in flight.
LEMMA InitIInv == Init => IInv
<1> SUFFICES ASSUME Init PROVE IInv
  OBVIOUS
<1>1. /\ tm = [p \in Peer |-> Fresh] /\ net = {} /\ flips = 0
      /\ route = TRUE /\ connected = TRUE /\ roamDue = FALSE
  BY DEF Init
<1>2. 0 \in Mid /\ Mid \subseteq Nat
  BY Bounds DEF Mid
<1>3. Fresh \in Manager
  BY <1>2 DEF Fresh, Manager
<1>4. /\ Fresh.state = "ESTABLISHED" /\ Fresh.imid = 0 /\ Fresh.rmid = 0 /\ Fresh.queue = {}
      /\ Fresh.active = NoTask /\ Fresh.packets = NoMsg /\ Fresh.deferred = FALSE
      /\ Fresh.response = NoMsg
      /\ Fresh.issued = [k \in Mid |-> NoTask] /\ Fresh.completed = [k \in Mid |-> NoResult]
      /\ Fresh.ran = [k \in Mid |-> 0] /\ Fresh.result = [k \in Mid |-> NoResult]
  BY DEF Fresh
<1>5. History(Fresh)
  BY <1>2, <1>4 DEF History, NoResult
<1>6. ASSUME NEW p \in Peer PROVE OpenRequest(p, Fresh) /\ Scheduled(Fresh)
  BY <1>2, <1>4 DEF OpenRequest, Scheduled
<1>7. \A p \in Peer : tm[p] = Fresh /\ tm[Other(p)] = Fresh
  BY <1>1, PeerFacts
<1>8. TypeOK
  BY <1>1, <1>3 DEF TypeOK
<1>9. Local
  BY <1>5, <1>6, <1>7 DEF Local
<1>10. Agreement
  BY <1>4, <1>7 DEF Agreement, Agree
<1>11. Messages /\ Deferral
  BY <1>1, <1>4, <1>7 DEF Messages, Deferral
<1> QED BY <1>8, <1>9, <1>10, <1>11 DEF IInv

\* Every step keeps the invariant.
LEMMA NextIInv == IInv /\ [Next]_vars => IInv'
<1> SUFFICES ASSUME IInv, [Next]_vars PROVE IInv'
  OBVIOUS
<1>1. ASSUME NEW p \in Peer, InitiateChild(p) PROVE IInv'
  BY <1>1, InitiateChildKeeps
<1>2. ASSUME NEW p \in Peer, SendDpd(p) PROVE IInv'
  BY <1>2, SendDpdKeeps
<1>3. ASSUME NEW p \in Peer, Delete(p) PROVE IInv'
  BY <1>3, DeleteKeeps
<1>4. ASSUME NEW p \in Peer, RetransmitJob(p) PROVE IInv'
  BY <1>4, RetransmitJobKeeps
<1>5. ASSUME NEW p \in Peer, NEW m \in net, Receive(p, m) PROVE IInv'
  BY <1>5, ReceiveKeeps
<1>6. ASSUME NEW m \in net, Lose(m) PROVE IInv'
  BY <1>6, LoseKeeps
<1>7. CASE ConnectivityCb \/ RouteAppears
  BY <1>7, ConnectivityKeeps
<1>8. CASE RoamJob
  BY <1>8, RoamJobKeeps
<1>9. CASE UNCHANGED vars
  <2>1. UNCHANGED <<tm, net, route, connected, roamDue, flips>>
    BY <1>9 DEF vars
  <2>2. {route', connected', roamDue'} \subseteq BOOLEAN /\ flips' \in Nat
    BY <2>1 DEF IInv, TypeOK
  <2>3. Deferral'
    BY <2>1 DEF IInv, Deferral
  <2> QED BY <2>1, <2>2, <2>3, QuietKeeps
<1> QED BY <1>1, <1>2, <1>3, <1>4, <1>5, <1>6, <1>7, <1>8, <1>9 DEF Next

\* The records of the task managers and the network have their types in every
\* reachable state.
THEOREM TypeCorrect == Spec => []TypeOK
<1>1. IInv => TypeOK
  BY DEF IInv
<1> QED BY <1>1, InitIInv, NextIInv, PTL DEF Spec

\* No open request is without a retransmit job unless it is deferred, no deferred
\* one without a roam job unless no network is reported, and no task stays queued
\* while the IKE_SA is idle.
THEOREM NoneStuck == Spec => []NothingStuck
<1>1. IInv => NothingStuck
  BY DEF IInv, Local, Scheduled, Deferral, NothingStuck
<1> QED BY <1>1, InitIInv, NextIInv, PTL DEF Spec

\* process_response() never destroys the IKE_SA because of the exchange type of
\* a response.
THEOREM TypesMatch == Spec => []ResponsesExpected
<1>1. IInv => ResponsesExpected
  <2> SUFFICES ASSUME IInv, NEW p \in Peer, NEW m \in net, m.from = Other(p), ~m.request,
                      m.mid = tm[p].imid, tm[p].state # "DESTROYED"
               PROVE  m.type = tm[p].packets.type
    BY DEF ResponsesExpected
  <2>1. tm[p].issued[m.mid] # NoTask /\ m.type = ExchangeType(tm[p].issued[m.mid].kind)
    BY Arriving
  <2>2. Sound(p, tm[p])
    BY IInvParts
  <2>3. /\ tm[p].active \in Task /\ tm[p].imid \in Mid /\ tm[p].issued[tm[p].imid] = tm[p].active
        /\ tm[p].packets = Req(p, tm[p].imid, tm[p].active)
    BY <2>1, <2>2 DEF Sound, OpenRequest, History
  <2> QED BY <2>1, <2>3, ReqFacts
<1> QED BY <1>1, InitIInv, NextIInv, PTL DEF Spec
-----------------------------------------------------------------------------
(* The exchanges are those of module Exchange *)

\* The values the refinement mapping gives to the variables of Exchange.
xissued == [p \in Peer |-> tm[p].issued]
xran == [p \in Peer |-> tm[p].ran]
xresult == [p \in Peer |-> tm[p].result]
xcompleted == [p \in Peer |-> tm[p].completed]
xalive == [p \in Peer |-> tm[p].state # "DESTROYED"]

\* No peer comes back; p may drop the IKE_SA.
Drops(p) == xalive' \in {xalive, [xalive EXCEPT ![p] = FALSE]}

\* A step of p changes the histories of p and of no other peer.
LEMMA OnlyHistory ==
    ASSUME IInv, NEW p \in Peer, NEW u \in Manager, tm' = [tm EXCEPT ![p] = u],
           tm[p].state # "DESTROYED"
    PROVE  /\ xissued' = [xissued EXCEPT ![p] = u.issued]
           /\ xran' = [xran EXCEPT ![p] = u.ran]
           /\ xresult' = [xresult EXCEPT ![p] = u.result]
           /\ xcompleted' = [xcompleted EXCEPT ![p] = u.completed]
           /\ Drops(p)
<1>1. tm \in [Peer -> Manager] /\ tm'[p] = u /\ \A q \in Peer \ {p} : tm'[q] = tm[q]
  BY DEF IInv, TypeOK
<1>2. xissued' = [xissued EXCEPT ![p] = u.issued]
  BY <1>1 DEF xissued
<1>3. xran' = [xran EXCEPT ![p] = u.ran]
  BY <1>1 DEF xran
<1>4. xresult' = [xresult EXCEPT ![p] = u.result]
  BY <1>1 DEF xresult
<1>5. xcompleted' = [xcompleted EXCEPT ![p] = u.completed]
  BY <1>1 DEF xcompleted
<1>6. Drops(p)
  <2>1. CASE u.state # "DESTROYED"
    <3>1. xalive' = xalive
      BY <1>1, <2>1 DEF xalive
    <3> QED BY <3>1 DEF Drops
  <2>2. CASE u.state = "DESTROYED"
    <3>1. xalive' = [xalive EXCEPT ![p] = FALSE]
      BY <1>1, <2>2 DEF xalive
    <3> QED BY <3>1 DEF Drops
  <2> QED BY <2>1, <2>2
<1> QED BY <1>2, <1>3, <1>4, <1>5, <1>6

\* A step of p that is a step of Exchange.
LEMMA AbsStep ==
    ASSUME NEW p \in Peer, tm[p].state # "DESTROYED", Drops(p),
           \/ Abs!Issue(p)
           \/ Abs!Answer(p)
           \/ Abs!Finish(p)
           \/ UNCHANGED <<xissued, xran, xresult, xcompleted>>
    PROVE  Abs!Next
<1>1. xalive[p]
  BY DEF xalive
<1>2. Abs!Step(p)
  BY <1>1 DEF Abs!Step, Drops, xalive, xissued, xran, xresult, xcompleted
<1> QED BY <1>2 DEF Abs!Next, Abs!Peer, Abs!Phone, Abs!Gateway, Peer, Phone, Gateway

\* A step that changes no history.
LEMMA SilentStep ==
    ASSUME IInv, NEW p \in Peer, NEW u \in Manager, tm' = [tm EXCEPT ![p] = u],
           tm[p].state # "DESTROYED",
           u.issued = tm[p].issued, u.ran = tm[p].ran,
           u.result = tm[p].result, u.completed = tm[p].completed
    PROVE  Abs!Next
<1>1. /\ xissued' = [xissued EXCEPT ![p] = u.issued]
      /\ xran' = [xran EXCEPT ![p] = u.ran]
      /\ xresult' = [xresult EXCEPT ![p] = u.result]
      /\ xcompleted' = [xcompleted EXCEPT ![p] = u.completed]
      /\ Drops(p)
  BY OnlyHistory
<1>2. UNCHANGED <<xissued, xran, xresult, xcompleted>>
  BY <1>1 DEF xissued, xran, xresult, xcompleted
<1> QED BY <1>1, <1>2, AbsStep

\* A request with a new message ID.
LEMMA NewRequestStep ==
    ASSUME IInv, NEW p \in Peer, NEW k \in Mid, NEW t \in Task, tm[p].issued[k] = NoTask,
           xissued' = [xissued EXCEPT ![p] = [tm[p].issued EXCEPT ![k] = t]]
    PROVE  Abs!NewRequest(p)
<1>1. tm[p].issued \in [Mid -> Task \cup {NoTask}] /\ xissued[p] = tm[p].issued
  BY IInvParts DEF Manager, xissued
<1>2. xissued \in [Peer -> [Mid -> Task \cup {NoTask}]]
  BY DEF IInv, TypeOK, Manager, xissued
<1>3. xissued'[p] = [tm[p].issued EXCEPT ![k] = t]
  BY <1>2
<1>4. xissued'[p][k] = t
  BY <1>1, <1>3
<1>5. xissued' = [xissued EXCEPT ![p][k] = xissued'[p][k]]
  BY <1>1, <1>2, <1>4
<1> QED BY <1>1, <1>4, <1>5 DEF Abs!NewRequest, xissued

\* What initiate() does without an answer is to issue a request, or nothing; the
\* IKE_SA may be destroyed after it.
LEMMA IssueStep ==
    ASSUME IInv, NEW p \in Peer, tm[p].state # "DESTROYED", NEW s, NEW found, NEW l,
           Outcome(p, s, found, l), SameExchanges(tm[p], s), s.issued = tm[p].issued,
           NEW u, u = l.tm \/ u = Destroyed(l.tm), tm' = [tm EXCEPT ![p] = u]
    PROVE  Abs!Next
<1> DEFINE v == l.tm
           d == Destroyed(v)
<1>a. /\ v \in Manager /\ v.ran = tm[p].ran /\ v.result = tm[p].result
      /\ v.completed = tm[p].completed /\ s.imid = tm[p].imid
  BY DEF Outcome, SameExchanges
<1>b. u = v \/ u = d
  OBVIOUS
<1> HIDE DEF v
<1>c. /\ d \in Manager /\ d.ran = v.ran /\ d.result = v.result
      /\ d.completed = v.completed /\ d.issued = v.issued
  BY <1>a, DestroyedFacts
<1> HIDE DEF d
<1>d. /\ u \in Manager /\ u.ran = tm[p].ran /\ u.result = tm[p].result
      /\ u.completed = tm[p].completed /\ s.imid = tm[p].imid /\ u.issued = v.issued
  BY <1>a, <1>b, <1>c
<1>1. /\ u \in Manager /\ u.ran = tm[p].ran /\ u.result = tm[p].result
      /\ u.completed = tm[p].completed /\ s.imid = tm[p].imid /\ u.issued = l.tm.issued
  BY <1>d DEF v
<1>2. CASE u.issued = tm[p].issued
  BY <1>1, <1>2, SilentStep
<1>3. CASE u.issued # tm[p].issued
  <2>1. PICK t \in Task : /\ tm[p].issued[tm[p].imid] = NoTask
                          /\ u.issued = [tm[p].issued EXCEPT ![tm[p].imid] = t]
    BY <1>1, <1>3 DEF Outcome
  <2>2. History(tm[p]) /\ tm[p].imid \in Mid
    BY IInvParts DEF Sound, History
  <2>3. /\ xissued' = [xissued EXCEPT ![p] = u.issued]
        /\ xran' = [xran EXCEPT ![p] = u.ran]
        /\ xresult' = [xresult EXCEPT ![p] = u.result]
        /\ xcompleted' = [xcompleted EXCEPT ![p] = u.completed]
        /\ Drops(p)
    BY <1>1, OnlyHistory
  <2>4. Abs!NewRequest(p)
    BY <2>1, <2>2, <2>3, NewRequestStep
  <2>5. UNCHANGED <<xran, xresult, xcompleted>>
    BY <1>1, <2>3 DEF xran, xresult, xcompleted
  <2>6. ASSUME NEW k \in Mid PROVE tm[p].issued[k] = NoTask \/ tm[p].completed[k] # NoResult
    <3>1. k \in Nat /\ tm[p].imid \in Nat
      BY <2>2 DEF Mid
    <3> QED BY <2>1, <2>2, <3>1 DEF History
  <2>7. \A k \in Mid : ~Abs!Open(p, k)
    BY <2>6 DEF Abs!Open
  <2>8. Abs!Issue(p)
    BY <2>4, <2>5, <2>7 DEF Abs!Issue, xran, xresult, xcompleted
  <2> QED BY <2>3, <2>8, AbsStep
<1> QED BY <1>2, <1>3

\* The answer to the open request ends the exchange, and the next one may begin.
LEMMA FinishStep ==
    ASSUME IInv, NEW p \in Peer, tm[p].state # "DESTROYED",
           NEW m \in net, m.from = Other(p), ~m.request, m.mid = tm[p].imid,
           NEW u \in Manager, tm' = [tm EXCEPT ![p] = u],
           u.ran = tm[p].ran, u.result = tm[p].result,
           u.completed = [tm[p].completed EXCEPT ![m.mid] = m.body],
           \/ u.issued = tm[p].issued
           \/ \E k \in Mid, t \in Task : /\ tm[p].issued[k] = NoTask
                                         /\ u.issued = [tm[p].issued EXCEPT ![k] = t]
    PROVE  Abs!Next
<1>1. /\ xissued' = [xissued EXCEPT ![p] = u.issued]
      /\ xran' = [xran EXCEPT ![p] = u.ran]
      /\ xresult' = [xresult EXCEPT ![p] = u.result]
      /\ xcompleted' = [xcompleted EXCEPT ![p] = u.completed]
      /\ Drops(p)
  BY OnlyHistory
<1>2. /\ m.mid \in Mid /\ m.body = tm[Other(p)].result[m.mid] /\ m.body # NoResult
      /\ tm[p].issued[m.mid] # NoTask /\ tm[p].completed[m.mid] = NoResult
  BY Arriving, IInvParts DEF Sound, OpenRequest
<1>3. Other(p) \in Peer
  BY PeerFacts
<1>4. UNCHANGED <<xran, xresult>>
  BY <1>1 DEF xran, xresult
<1>5. (UNCHANGED xissued) \/ Abs!NewRequest(p)
  <2>1. CASE u.issued = tm[p].issued
    BY <1>1, <2>1 DEF xissued
  <2>2. ASSUME NEW k \in Mid, NEW t \in Task, tm[p].issued[k] = NoTask,
               u.issued = [tm[p].issued EXCEPT ![k] = t]
        PROVE  Abs!NewRequest(p)
    BY <1>1, <2>2, NewRequestStep
  <2> QED BY <2>1, <2>2
<1>6. Abs!Other(p) = Other(p)
  BY DEF Abs!Other, Abs!Phone, Abs!Gateway, Other, Phone, Gateway
<1>7. Abs!Open(p, m.mid)
  BY <1>2 DEF Abs!Open
<1>8. xcompleted' = [xcompleted EXCEPT ![p][m.mid] = xresult[Other(p)][m.mid]]
  <2>1. xcompleted \in [Peer -> [Mid -> Result \cup {NoResult}]] /\ xcompleted[p] = tm[p].completed
    BY DEF IInv, TypeOK, Manager, xcompleted
  <2>2. xresult[Other(p)][m.mid] = m.body
    BY <1>2, <1>3 DEF xresult
  <2> QED BY <1>1, <2>1, <2>2
<1>9. xresult[Other(p)][m.mid] # NoResult
  BY <1>2, <1>3 DEF xresult
<1>10. Abs!Finish(p)
  BY <1>2, <1>4, <1>5, <1>6, <1>7, <1>8, <1>9
     DEF Abs!Finish, xissued, xran, xresult, xcompleted
<1> QED BY <1>1, <1>10, AbsStep

\* A request is answered once, while its initiator waits for the answer.
LEMMA AnswerStep ==
    ASSUME IInv, NEW p \in Peer, tm[p].state # "DESTROYED",
           NEW m \in net, m.from = Other(p), m.request, m.mid = tm[p].rmid,
           NEW r \in Result, NEW u \in Manager, tm' = [tm EXCEPT ![p] = u],
           u.issued = tm[p].issued, u.completed = tm[p].completed,
           u.result = [tm[p].result EXCEPT ![m.mid] = r],
           u.ran = IF r = "done" THEN [tm[p].ran EXCEPT ![m.mid] = @ + 1] ELSE tm[p].ran
    PROVE  Abs!Next
<1>1. /\ xissued' = [xissued EXCEPT ![p] = u.issued]
      /\ xran' = [xran EXCEPT ![p] = u.ran]
      /\ xresult' = [xresult EXCEPT ![p] = u.result]
      /\ xcompleted' = [xcompleted EXCEPT ![p] = u.completed]
      /\ Drops(p)
  BY OnlyHistory
<1>2. m.mid \in Mid /\ tm[Other(p)].issued[m.mid] \in Task /\ Other(p) \in Peer
  BY Arriving, PeerFacts
<1>3. History(tm[p]) /\ tm[p] \in Manager
  BY IInvParts DEF Sound
<1>4. tm[p].result[m.mid] = NoResult
  BY <1>2, <1>3 DEF History, Mid
<1>5. tm[Other(p)].completed[m.mid] = NoResult
  <2>1. Agree(tm[Other(p)], tm[p])
    BY IInvParts
  <2> QED BY <1>2, <1>4, <2>1 DEF Agree
<1>6. tm[p].ran[m.mid] = 0
  BY <1>2, <1>3, <1>4 DEF History, NoResult
<1>7. UNCHANGED <<xissued, xcompleted>>
  BY <1>1 DEF xissued, xcompleted
<1>8. xresult' = [xresult EXCEPT ![p][m.mid] = r]
  <2>1. xresult \in [Peer -> [Mid -> Result \cup {NoResult}]] /\ xresult[p] = tm[p].result
    BY DEF IInv, TypeOK, Manager, xresult
  <2> QED BY <1>1, <2>1
<1>9. xran' = [xran EXCEPT ![p][m.mid] = IF r = "done" THEN 1 ELSE 0]
  <2>1. xran \in [Peer -> [Mid -> Nat]] /\ xran[p] = tm[p].ran
    BY DEF IInv, TypeOK, Manager, xran
  <2>2. u.ran = [tm[p].ran EXCEPT ![m.mid] = IF r = "done" THEN 1 ELSE 0]
    BY <1>2, <1>3, <1>6 DEF Manager
  <2> QED BY <1>1, <2>1, <2>2
<1>10. Abs!Other(p) = Other(p)
  BY DEF Abs!Other, Abs!Phone, Abs!Gateway, Other, Phone, Gateway
<1>11. Abs!Open(Other(p), m.mid)
  BY <1>2, <1>5, NoTaskNoMsg DEF Abs!Open
<1>12. xresult[p][m.mid] = NoResult /\ r \in Abs!Result
  BY <1>4 DEF xresult, Abs!Result, Result
<1>13. Abs!Open(Abs!Other(p), m.mid)
  BY <1>10, <1>11
<1>14. Abs!Answer(p)
  BY <1>2, <1>7, <1>8, <1>9, <1>12, <1>13, Zenon
     DEF Abs!Answer, xissued, xran, xresult, xcompleted
<1> QED BY <1>1, <1>14, AbsStep

\* Queueing a task and initiate().
LEMMA RequeuedAbs ==
    ASSUME IInv, NEW p \in Peer, tm[p].state # "DESTROYED", NEW u, Requeued(tm[p], u),
           NEW found \in BOOLEAN, NEW e,
           e = Initiate(p, u, found).tm \/ e = Destroyed(Initiate(p, u, found).tm),
           tm' = [tm EXCEPT ![p] = e]
    PROVE  Abs!Next
<1> DEFINE l == Initiate(p, u, found)
<1>1. Ready(p, u)
  BY RequeuedBefore
<1>2. Outcome(p, u, found, l)
  BY <1>1, InitiateOutcome
<1>3. SameExchanges(tm[p], u) /\ u.issued = tm[p].issued
  BY DEF Requeued
<1>4. e = l.tm \/ e = Destroyed(l.tm)
  OBVIOUS
<1> HIDE DEF l
<1> QED BY <1>2, <1>3, <1>4, IssueStep

\* Destroying the IKE_SA without an answer.
LEMMA DestroyedAbs ==
    ASSUME IInv, NEW p \in Peer, tm[p].state # "DESTROYED", NEW s \in Manager,
           s.issued = tm[p].issued, s.ran = tm[p].ran,
           s.result = tm[p].result, s.completed = tm[p].completed,
           NEW d, d = Destroyed(s) \/ d = [Destroyed(s) EXCEPT !.gaveUp = TRUE],
           tm' = [tm EXCEPT ![p] = d]
    PROVE  Abs!Next
<1> DEFINE e == Destroyed(s)
<1>1. /\ e \in Manager /\ e.issued = s.issued
      /\ e.completed = s.completed /\ e.ran = s.ran /\ e.result = s.result
  BY DestroyedFacts
<1>2. d = e \/ d = [e EXCEPT !.gaveUp = TRUE]
  OBVIOUS
<1> HIDE DEF e
<1>3. /\ d \in Manager /\ d.issued = s.issued
      /\ d.completed = s.completed /\ d.ran = s.ran /\ d.result = s.result
  <2>1. CASE d = e
    BY <1>1, <2>1
  <2>2. CASE d = [e EXCEPT !.gaveUp = TRUE]
    BY <1>1, <2>2 DEF Manager
  <2> QED BY <1>2, <2>1, <2>2
<1> QED BY <1>3, SilentStep

\* The application's requests are steps of Exchange.
LEMMA TasksAbs ==
    ASSUME IInv, NEW p \in Peer, InitiateChild(p) \/ SendDpd(p) \/ Delete(p)
    PROVE  Abs!Next
<1>1. tm[p] \in Manager /\ Found(p) \in BOOLEAN /\ tm[p].state # "DESTROYED"
  BY IInvParts DEF InitiateChild, SendDpd, Delete, Usable
<1>2. ASSUME NEW kind \in Kind, NEW l, l = Initiate(p, Queue(tm[p], kind), Found(p)),
             Apply(p, l, net) \/ Apply(p, Forced(l), net)
      PROVE  Abs!Next
  <2>1. Requeued(tm[p], Queue(tm[p], kind))
    BY <1>1, QueueFacts
  <2>2. tm' = [tm EXCEPT ![p] = l.tm] \/ tm' = [tm EXCEPT ![p] = Destroyed(l.tm)]
    BY <1>2 DEF Apply, Forced
  <2> QED BY <1>1, <1>2, <2>1, <2>2, RequeuedAbs
<1>3. CASE InitiateChild(p)
  BY <1>2, <1>3 DEF InitiateChild, Kind
<1>4. CASE SendDpd(p)
  <2>1. CASE p = Phone
    <3>1. Requeued(tm[p], QueueMobike(tm[p], FALSE))
      BY <1>1, QueueMobikeFacts
    <3>2. tm' = [tm EXCEPT ![p] = Initiate(p, QueueMobike(tm[p], FALSE), Found(p)).tm]
      BY <1>4, <2>1 DEF SendDpd, Apply
    <3> QED BY <1>1, <3>1, <3>2, RequeuedAbs
  <2>2. CASE p # Phone
    BY <1>2, <1>4, <2>2 DEF SendDpd, Kind
  <2> QED BY <2>1, <2>2
<1>5. CASE Delete(p)
  <2>1. CASE tm[p].state = "ESTABLISHED"
    BY <1>2, <1>5, <2>1 DEF Delete, Kind
  <2>2. CASE tm[p].state # "ESTABLISHED"
    <3>1. tm' = [tm EXCEPT ![p] = Destroyed(tm[p])]
      BY <1>5, <2>2 DEF Delete, Apply, Left
    <3> QED BY <1>1, <3>1, DestroyedAbs
  <2> QED BY <2>1, <2>2
<1> QED BY <1>3, <1>4, <1>5

\* Retransmissions are invisible to Exchange.
LEMMA RetransmitAbs ==
    ASSUME IInv, NEW p \in Peer, RetransmitJob(p)
    PROVE  Abs!Next
<1>1. PICK mid \in Nat, s \in Manager : RetransmitCases(p, mid, s)
  BY RetransmitJobCases
<1>2. /\ tm[p].state # "DESTROYED" /\ s \in Manager /\ s.issued = tm[p].issued
      /\ s.ran = tm[p].ran /\ s.result = tm[p].result /\ s.completed = tm[p].completed
  BY <1>1 DEF RetransmitCases, Unscheduled, SameExchanges
<1>3. CASE Apply(p, Left(s, {}), net)
  <2>1. tm' = [tm EXCEPT ![p] = s]
    BY <1>3 DEF Apply, Left
  <2> QED BY <1>2, <2>1, SilentStep
<1>4. CASE Apply(p, Left([Destroyed(s) EXCEPT !.gaveUp = TRUE], {}), net)
  <2>1. tm' = [tm EXCEPT ![p] = [Destroyed(s) EXCEPT !.gaveUp = TRUE]]
    BY <1>4 DEF Apply, Left
  <2> QED BY <1>2, <2>1, DestroyedAbs
<1>5. ASSUME NEW l, Sent(s, Found(p), l), Apply(p, l, net)
      PROVE  Abs!Next
  <2>1. tm' = [tm EXCEPT ![p] = l.tm]
    BY <1>5 DEF Apply
  <2>2. /\ l.tm \in Manager /\ l.tm.issued = s.issued
        /\ l.tm.ran = s.ran /\ l.tm.result = s.result /\ l.tm.completed = s.completed
    BY <1>5 DEF Sent, SameRequest, SameExchanges
  <2> QED BY <1>2, <2>1, <2>2, SilentStep
<1> QED BY <1>1, <1>3, <1>4, <1>5 DEF RetransmitCases

\* A request that arrives is answered, or ignored as far as Exchange can see.
LEMMA RequestAbs ==
    ASSUME IInv, NEW p \in Peer, tm[p].state # "DESTROYED",
           NEW m \in net, m.from = Other(p), m.request, NEW rest, ProcessRequest(p, m, rest)
    PROVE  Abs!Next
<1>1. tm[p] \in Manager /\ m \in Request
  BY IInvParts, Arriving
<1>2. ASSUME NEW out, Apply(p, Left(tm[p], out), rest)
      PROVE  Abs!Next
  <2>1. tm' = [tm EXCEPT ![p] = tm[p]]
    BY <1>2 DEF Apply, Left
  <2> QED BY <1>1, <2>1, SilentStep
<1>3. ASSUME m.mid = tm[p].rmid, NEW r \in Result,
             Apply(p, Left(Process(p, tm[p], m, r), {Answer(p, m, r)}), rest)
      PROVE  Abs!Next
  <2>1. PICK u : /\ Processed(tm[p], m, r, u)
                 /\ Process(p, tm[p], m, r) = Destroyed(u) \/ Process(p, tm[p], m, r) = u
    BY <1>1, <1>3, ProcessFacts
  <2> DEFINE d == Process(p, tm[p], m, r)
  <2>2. tm' = [tm EXCEPT ![p] = d]
    BY <1>3 DEF Apply, Left
  <2>3. d = Destroyed(u) \/ d = u
    BY <2>1
  <2> HIDE DEF d
  <2>4. /\ u \in Manager /\ u.issued = tm[p].issued /\ u.completed = tm[p].completed
        /\ u.result = [tm[p].result EXCEPT ![m.mid] = r]
        /\ u.ran = IF r = "done" THEN [tm[p].ran EXCEPT ![m.mid] = @ + 1] ELSE tm[p].ran
    BY <2>1 DEF Processed
  <2>5. /\ d \in Manager /\ d.issued = u.issued /\ d.completed = u.completed
        /\ d.result = u.result /\ d.ran = u.ran
    BY <2>3, <2>4, DestroyedFacts
  <2>6. /\ d.issued = tm[p].issued /\ d.completed = tm[p].completed
        /\ d.result = [tm[p].result EXCEPT ![m.mid] = r]
        /\ d.ran = IF r = "done" THEN [tm[p].ran EXCEPT ![m.mid] = @ + 1] ELSE tm[p].ran
    BY <2>4, <2>5
  <2> QED BY <1>3, <2>2, <2>5, <2>6, AnswerStep
<1> QED BY <1>2, <1>3 DEF ProcessRequest

\* A response that arrives ends the exchange it belongs to, or is ignored.
LEMMA ResponseAbs ==
    ASSUME IInv, NEW p \in Peer, tm[p].state # "DESTROYED", tm[p].imid < MaxMid,
           NEW m \in net, m.from = Other(p), ~m.request, NEW rest, ProcessResponse(p, m, rest)
    PROVE  Abs!Next
<1>1. tm[p] \in Manager /\ m \in Response /\ Found(p) \in BOOLEAN
  BY IInvParts, Arriving
<1>2. CASE Apply(p, Left(tm[p], {}), rest)
  <2>1. tm' = [tm EXCEPT ![p] = tm[p]]
    BY <1>2 DEF Apply, Left
  <2> QED BY <1>1, <2>1, SilentStep
<1>3. CASE m.mid = tm[p].imid
           /\ Apply(p, Left(Destroyed([tm[p] EXCEPT !.completed[m.mid] = m.body]), {}), rest)
  <2> DEFINE c == [tm[p] EXCEPT !.completed[m.mid] = m.body]
             d == Destroyed(c)
  <2>1. Taken(tm[p], m, c)
    BY <1>1, TakenFacts
  <2>2. tm' = [tm EXCEPT ![p] = d]
    BY <1>3 DEF Apply, Left
  <2> HIDE DEF c
  <2>3. /\ c \in Manager /\ c.issued = tm[p].issued /\ c.result = tm[p].result
        /\ c.ran = tm[p].ran /\ c.completed = [tm[p].completed EXCEPT ![m.mid] = m.body]
    BY <2>1 DEF Taken
  <2>4. /\ d \in Manager /\ d.issued = c.issued /\ d.result = c.result
        /\ d.ran = c.ran /\ d.completed = c.completed
    BY <2>3, DestroyedFacts
  <2> HIDE DEF d
  <2> QED BY <1>3, <2>2, <2>3, <2>4, FinishStep
<1>4. ASSUME m.mid = tm[p].imid, tm[p].active.kind # "DELETE", NEW more \in BOOLEAN,
             Apply(p, Initiate(p, Completed(tm[p], m, more), Found(p)), rest)
      PROVE  Abs!Next
  <2> DEFINE c == Completed(tm[p], m, more)
             l == Initiate(p, c, Found(p))
  <2>1. Ready(p, c) /\ Before(p, c)
    BY <1>4, CompletedReady
  <2>2. tm' = [tm EXCEPT ![p] = l.tm]
    BY <1>4 DEF Apply
  <2>3. Outcome(p, c, Found(p), l)
    BY <1>1, <2>1, InitiateOutcome
  <2>4. Taken(tm[p], m, c)
    BY <1>1, CompletedFacts
  <2> HIDE DEF c, l
  <2>5. /\ l.tm \in Manager /\ l.tm.result = tm[p].result /\ l.tm.ran = tm[p].ran
        /\ l.tm.completed = [tm[p].completed EXCEPT ![m.mid] = m.body]
    BY <2>3, <2>4 DEF Outcome, SameExchanges, Taken
  <2>6. c.issued = tm[p].issued /\ c.imid \in Mid
    BY <2>1 DEF Before
  <2>7. \/ l.tm.issued = tm[p].issued
        \/ \E k \in Mid, t \in Task : /\ tm[p].issued[k] = NoTask
                                      /\ l.tm.issued = [tm[p].issued EXCEPT ![k] = t]
    BY <2>3, <2>6 DEF Outcome
  <2> QED BY <1>4, <2>2, <2>5, <2>7, FinishStep
<1> QED BY <1>2, <1>3, <1>4 DEF ProcessResponse

\* The exchanges look the same.
Stutter == UNCHANGED <<xissued, xran, xresult, xcompleted, xalive>>

\* A message that is lost is invisible to Exchange.
LEMMA LoseAbs ==
    ASSUME IInv, NEW m \in net, Lose(m)
    PROVE  Stutter
<1>1. PICK p \in Peer, n \in Nat : tm' = [tm EXCEPT ![p] = [tm[p] EXCEPT !.faults = n]]
  BY LoseFacts
<1> DEFINE u == [tm[p] EXCEPT !.faults = n]
<1>2. Sound(p, tm[p])
  BY IInvParts
<1>3. SameExchanges(tm[p], u) /\ u.issued = tm[p].issued /\ u.state = tm[p].state
  BY <1>2, FaultFacts
<1>4. tm' = [tm EXCEPT ![p] = u]
  BY <1>1
<1> HIDE DEF u
<1>5. tm'[p] = u /\ \A q \in Peer \ {p} : tm'[q] = tm[q]
  BY <1>4 DEF IInv, TypeOK
<1>6. \A q \in Peer : /\ tm'[q].issued = tm[q].issued /\ tm'[q].ran = tm[q].ran
                      /\ tm'[q].result = tm[q].result /\ tm'[q].completed = tm[q].completed
                      /\ tm'[q].state = tm[q].state
  BY <1>3, <1>5 DEF SameExchanges
<1> QED BY <1>6 DEF Stutter, xissued, xran, xresult, xcompleted, xalive

\* A roam job issues a request or changes nothing.
LEMMA RoamJobAbs ==
    ASSUME IInv, RoamJob
    PROVE  Abs!Next \/ Stutter
<1>1. Phone \in Peer /\ tm[Phone] \in Manager
  BY IInvParts DEF Peer
<1>2. ASSUME tm[Phone].state = "ESTABLISHED", NEW changed \in BOOLEAN,
             tm' = [tm EXCEPT ![Phone] = Initiate(Phone, QueueMobike(tm[Phone], changed), TRUE).tm]
      PROVE  Abs!Next
  <2>1. Requeued(tm[Phone], QueueMobike(tm[Phone], changed))
    BY <1>1, QueueMobikeFacts
  <2> QED BY <1>1, <1>2, <2>1, RequeuedAbs
<1>3. CASE UNCHANGED tm
  BY <1>3 DEF Stutter, xissued, xran, xresult, xcompleted, xalive
<1> QED BY <1>2, <1>3 DEF RoamJob

\* Every step is a step of Exchange or invisible to it.
LEMMA NextAbs == IInv /\ [Next]_vars => [Abs!Next]_(Abs!xvars)
<1> SUFFICES ASSUME IInv, [Next]_vars PROVE Abs!Next \/ UNCHANGED Abs!xvars
  OBVIOUS
<1>0. ASSUME Stutter PROVE UNCHANGED Abs!xvars
  BY <1>0 DEF Stutter, Abs!xvars, xissued, xran, xresult, xcompleted, xalive
<1>1. ASSUME NEW p \in Peer, InitiateChild(p) \/ SendDpd(p) \/ Delete(p) PROVE Abs!Next
  BY <1>1, TasksAbs
<1>2. ASSUME NEW p \in Peer, RetransmitJob(p) PROVE Abs!Next
  BY <1>2, RetransmitAbs
<1>3. ASSUME NEW p \in Peer, NEW m \in net, Receive(p, m) PROVE Abs!Next
  <2>1. CASE m.request
    BY <1>3, <2>1, RequestAbs DEF Receive
  <2>2. CASE ~m.request
    BY <1>3, <2>2, ResponseAbs DEF Receive
  <2> QED BY <2>1, <2>2
<1>4. ASSUME NEW m \in net, Lose(m) PROVE Stutter
  BY <1>4, LoseAbs
<1>5. CASE RoamJob
  BY <1>0, <1>5, RoamJobAbs
<1>6. CASE ConnectivityCb \/ RouteAppears \/ UNCHANGED vars
  <2>1. UNCHANGED tm
    BY <1>6 DEF ConnectivityCb, RouteAppears, vars
  <2>2. Stutter
    BY <2>1 DEF Stutter, xissued, xran, xresult, xcompleted, xalive
  <2> QED BY <1>0, <2>2
<1> QED BY <1>0, <1>1, <1>2, <1>3, <1>4, <1>5, <1>6 DEF Next

\* The initial states are those of Exchange.
LEMMA InitAbs == Init => Abs!Init
<1> SUFFICES ASSUME Init PROVE Abs!Init
  OBVIOUS
<1>1. tm = [p \in Peer |-> Fresh]
  BY DEF Init
<1>2. /\ Fresh.state = "ESTABLISHED"
      /\ Fresh.issued = [k \in Mid |-> NoTask] /\ Fresh.completed = [k \in Mid |-> NoResult]
      /\ Fresh.ran = [k \in Mid |-> 0] /\ Fresh.result = [k \in Mid |-> NoResult]
  BY DEF Fresh
<1>3. Abs!Peer = Peer
  BY DEF Abs!Peer, Abs!Phone, Abs!Gateway, Peer, Phone, Gateway
<1> QED BY <1>1, <1>2, <1>3 DEF Abs!Init

\* The task managers of the two peers implement the exchanges of module Exchange
\* over a network that loses, repeats and reorders messages: every request is
\* carried out at most once, and completed by the answer that was given to it.
THEOREM Refinement == Spec => ImplementsExchange
<1>1. Spec => []IInv
  BY InitIInv, NextIInv, PTL DEF Spec
<1> QED BY <1>1, InitAbs, NextAbs, PTL DEF Spec, ImplementsExchange, Abs!Spec
=============================================================================
