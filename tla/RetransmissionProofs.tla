------------------------ MODULE RetransmissionProofs ------------------------
(***************************************************************************)
(* Proof that TaskManager's retransmissions suffice: the initiator gives   *)
(* up on a live peer only after more faults of the network than it has     *)
(* tries, or on an answer that the responder does not keep.                *)
(***************************************************************************)
EXTENDS TaskManagerProofs

-----------------------------------------------------------------------------
(* The invariant *)

\* Responder s, with initiator o, keeps its answer to the last request that it
\* carried out, together with that request.
Keeps(p, s, o) ==
    s.state # "DESTROYED" =>
       \A k \in Mid : k + 1 = s.rmid =>
          /\ s.result[k] # "syntax"
          /\ s.result[k] = "done" => /\ s.prevHash = Req(Other(p), k, o.issued[k])
                                     /\ s.response = Answer(p, s.prevHash, "done")

Kept == \A p \in Peer : Keeps(p, tm[p], tm[Other(p)])

\* Responder o cannot answer the open request of s again.
Excuse(s, o) == o.state = "DESTROYED" \/ o.result[s.imid] = "unsupported"

\* The request k of p, or the answer to it, is among the messages N.
OnTheWay(p, N, k) == \E m \in N : m.mid = k /\ Initiator(m) = p

\* Every transmission of the open request of s was made up for by a fault, but for
\* one that is still on its way.
Paid(p, s, N) ==
    \/ s.retransmitted <= s.faults
    \/ OnTheWay(p, N, s.imid) /\ s.retransmitted <= s.faults + 1

Covered(p, s, o, N) ==
    /\ s.packets # NoMsg => Excuse(s, o) \/ Paid(p, s, N)
    /\ s.gaveUp => /\ s.state = "DESTROYED"
                   /\ s.faults > Tries \/ s.faults > CheckTries \/ Excuse(s, o)

Budget == \A p \in Peer : Covered(p, tm[p], tm[Other(p)], net)

RInv == IInv /\ Kept /\ Budget
-----------------------------------------------------------------------------
(* Messages on their way *)

\* InFlight(p) are the messages of the open exchange that p initiated.
LEMMA InFlightFacts ==
    ASSUME IInv, NEW p \in Peer
    PROVE  /\ \A m \in net : m \in InFlight(p) <=> m.mid = tm[p].imid /\ Initiator(m) = p
           /\ InFlight(p) # {} <=> OnTheWay(p, net, tm[p].imid)
<1>1. ASSUME NEW m \in net PROVE m.request = (m.from = p) <=> Initiator(m) = p
  <2>1. m \in Request \cup Response
    BY DEF IInv, TypeOK
  <2>2. CASE m \in Request
    <3>1. m.request = TRUE
      BY <2>2 DEF Request
    <3> QED BY <3>1 DEF Initiator
  <2>3. CASE m \in Response
    <3>1. m.request = FALSE /\ m.from \in Peer
      BY <2>3 DEF Response
    <3>2. Initiator(m) = Other(m.from)
      BY <3>1 DEF Initiator
    <3>3. m.from # p <=> Other(m.from) = p
      BY <3>1, PeerFacts
    <3> QED BY <3>1, <3>2, <3>3
  <2> QED BY <2>1, <2>2, <2>3
<1>2. \A m \in net : m \in InFlight(p) <=> m.mid = tm[p].imid /\ Initiator(m) = p
  BY <1>1 DEF InFlight
<1>3. InFlight(p) \subseteq net
  BY DEF InFlight
<1> QED BY <1>2, <1>3 DEF OnTheWay
-----------------------------------------------------------------------------
(* Steps of one peer *)

\* What p leaves to its peer q: no message of q's open exchange is taken from the
\* network without another one in its place.
Leaves(p, u) ==
    LET q == Other(p) IN
    \/ \A m \in net : m.mid = tm[q].imid /\ Initiator(m) = q => m \in net'
    \/ OnTheWay(q, net', tm[q].imid)
    \/ Excuse(tm[q], u)
    \/ tm[q].packets = NoMsg

\* Then the peer's open request stays covered.
LEMMA OtherCovered ==
    ASSUME RInv, NEW p \in Peer, NEW u, AddsTo(p, u),
           tm[p].state = "DESTROYED" => u.state = "DESTROYED", Leaves(p, u)
    PROVE  Covered(Other(p), tm[Other(p)], u, net')
<1> DEFINE q == Other(p)
<1>1. q \in Peer /\ Other(q) = p
  BY PeerFacts
<1>2. Covered(q, tm[q], tm[p], net)
  BY <1>1 DEF RInv, Budget
<1>3. tm[q].imid \in Mid
  BY <1>1, IInvParts DEF RInv, Sound, History
<1> HIDE DEF q
<1>4. Excuse(tm[q], tm[p]) => Excuse(tm[q], u)
  BY <1>3 DEF Excuse, AddsTo, NoResult
<1>5. tm[q].packets # NoMsg /\ Paid(q, tm[q], net) => Excuse(tm[q], u) \/ Paid(q, tm[q], net')
  <2>1. CASE \A m \in net : m.mid = tm[q].imid /\ Initiator(m) = q => m \in net'
    BY <2>1 DEF Paid, OnTheWay
  <2>2. CASE OnTheWay(q, net', tm[q].imid)
    BY <2>2 DEF Paid
  <2> QED BY <2>1, <2>2 DEF Leaves, q
<1>6. Covered(q, tm[q], u, net')
  BY <1>2, <1>4, <1>5 DEF Covered
<1> QED BY <1>6 DEF q

\* The responder's part after a step of p: p's own part is given, its peer's stays.
LEMMA KeptAfter ==
    ASSUME RInv, NEW p \in Peer, NEW u, tm' = [tm EXCEPT ![p] = u], AddsTo(p, u),
           Keeps(p, u, tm[Other(p)])
    PROVE  Kept'
<1> DEFINE q == Other(p)
<1>1. q \in Peer /\ q # p /\ Other(q) = p /\ \A x \in Peer : x = p \/ x = q
  BY PeerFacts
<1>2. tm'[p] = u /\ tm'[q] = tm[q]
  BY <1>1 DEF RInv, IInv, TypeOK
<1>3. Keeps(q, tm[q], tm[p]) /\ History(tm[q]) /\ Agree(tm[p], tm[q])
  BY <1>1, IInvParts DEF RInv, Kept, Sound
<1>4. ASSUME NEW k \in Mid, k + 1 = tm[q].rmid PROVE u.issued[k] = tm[p].issued[k]
  <2>1. tm[q].result[k] # NoResult
    BY <1>3, <1>4 DEF History, Mid
  <2>2. tm[p].issued[k] # NoTask
    BY <1>3, <2>1 DEF Agree
  <2> QED BY <2>2 DEF AddsTo
<1> HIDE DEF q
<1>5. Keeps(q, tm[q], u)
  BY <1>1, <1>3, <1>4 DEF Keeps
<1>6. ASSUME NEW x \in Peer PROVE Keeps(x, tm'[x], tm'[Other(x)])
  <2>1. CASE x = p
    BY <1>2, <2>1 DEF q
  <2>2. CASE x = q
    BY <1>1, <1>2, <1>5, <2>2
  <2> QED BY <1>1, <2>1, <2>2
<1> QED BY <1>6 DEF Kept, Keeps

\* A step of p keeps the invariant if it covers p's own request.
LEMMA RStep ==
    ASSUME RInv, IInv', NEW p \in Peer, NEW u, tm' = [tm EXCEPT ![p] = u], AddsTo(p, u),
           tm[p].state = "DESTROYED" => u.state = "DESTROYED",
           Keeps(p, u, tm[Other(p)]), Leaves(p, u), Covered(p, u, tm[Other(p)], net')
    PROVE  RInv'
<1> DEFINE q == Other(p)
<1>1. q \in Peer /\ q # p /\ Other(q) = p /\ \A x \in Peer : x = p \/ x = q
  BY PeerFacts
<1>2. tm'[p] = u /\ tm'[q] = tm[q]
  BY <1>1 DEF RInv, IInv, TypeOK
<1>3. Covered(q, tm[q], u, net')
  BY OtherCovered
<1> HIDE DEF q
<1>4. ASSUME NEW x \in Peer PROVE Covered(x, tm'[x], tm'[Other(x)], net')
  <2>1. CASE x = p
    BY <1>2, <2>1 DEF q
  <2>2. CASE x = q
    BY <1>1, <1>2, <1>3, <2>2
  <2> QED BY <1>1, <2>1, <2>2
<1>5. Budget'
  BY <1>4 DEF Budget, Covered
<1> QED BY <1>5, KeptAfter DEF RInv

\* What p keeps as a responder is not touched.
SameResponder(s, u) ==
    /\ u.rmid = s.rmid /\ u.result = s.result
    /\ u.response = s.response /\ u.prevHash = s.prevHash

\* Then p still keeps its answer.
LEMMA StillKeeps ==
    ASSUME RInv, NEW p \in Peer, tm[p].state # "DESTROYED", NEW u,
           SameResponder(tm[p], u) \/ u.state = "DESTROYED"
    PROVE  Keeps(p, u, tm[Other(p)])
<1>1. Keeps(p, tm[p], tm[Other(p)])
  BY DEF RInv, Kept
<1> QED BY <1>1 DEF Keeps, SameResponder

\* A live peer has not given up.
LEMMA NotGivenUp ==
    ASSUME RInv, NEW p \in Peer, tm[p].state # "DESTROYED"
    PROVE  ~tm[p].gaveUp /\ Covered(p, tm[p], tm[Other(p)], net)
BY DEF RInv, Budget, Covered

\* A peer without an open request is covered.
LEMMA ClosedCovered ==
    ASSUME NEW p, NEW u, NEW o, NEW N, u.packets = NoMsg, ~u.gaveUp
    PROVE  Covered(p, u, o, N)
BY DEF Covered
-----------------------------------------------------------------------------
(* The initiator's steps *)

\* A request that initiate() left open is covered.
LEMMA TakenUpCovered ==
    ASSUME NEW p \in Peer, NEW s, NEW found, NEW l, Outcome(p, s, found, l), TakenUp(s, l),
           NEW o, NEW N, l.out \subseteq N, ~s.gaveUp,
           s.packets # NoMsg => Excuse(s, o) \/ Paid(p, s, N)
    PROVE  Covered(p, l.tm, o, N)
<1> DEFINE u == l.tm
<1>1. u \in Manager /\ u.imid = s.imid /\ u.gaveUp = s.gaveUp /\ OpenRequest(p, u)
  BY DEF Outcome, SameExchanges
<1>2. u.faults \in Nat /\ u.retransmitted \in Nat
  BY <1>1 DEF Manager
<1>3. ASSUME u.packets # NoMsg PROVE Excuse(u, o) \/ Paid(p, u, N)
  <2>1. CASE u.packets = s.packets /\ u.retransmitted = s.retransmitted /\ u.faults = s.faults
    <3>1. Excuse(s, o) \/ Paid(p, s, N)
      BY <1>3, <2>1
    <3> QED BY <1>1, <2>1, <3>1 DEF Excuse, Paid
  <2>2. CASE u.retransmitted = 0
    BY <1>2, <2>2 DEF Paid
  <2>3. CASE u.retransmitted = 1 /\ l.out = {u.packets}
    <3>1. u.active \in Task /\ u.imid \in Mid /\ u.packets = Req(p, u.imid, u.active)
      BY <1>1, <1>3 DEF Outcome, OpenRequest, History
    <3>2. u.packets.mid = u.imid /\ u.packets.request /\ u.packets.from = p
      BY <3>1, ReqFacts
    <3>3. u.packets \in N /\ Initiator(u.packets) = p
      BY <2>3, <3>2 DEF Initiator
    <3>4. OnTheWay(p, N, u.imid)
      BY <3>2, <3>3 DEF OnTheWay
    <3> QED BY <1>2, <2>3, <3>4 DEF Paid
  <2> QED BY <1>3, <2>1, <2>2, <2>3 DEF TakenUp
<1> QED BY <1>1, <1>3 DEF Covered

\* A step of p that calls initiate() last.
LEMMA InitiateCovers ==
    ASSUME RInv, IInv', NEW p \in Peer, tm[p].state # "DESTROYED", NEW s, Before(p, s),
           SameResponder(tm[p], s), ~s.gaveUp, NEW found, NEW l,
           Outcome(p, s, found, l), TakenUp(s, l), tm' = [tm EXCEPT ![p] = l.tm],
           \A m \in net : Initiator(m) = Other(p) => m \in net', l.out \subseteq net',
           s.packets # NoMsg => Excuse(s, tm[Other(p)]) \/ Paid(p, s, net')
    PROVE  RInv'
<1>1. AddsTo(p, l.tm)
  BY OutcomeAdds
<1>2. SameResponder(tm[p], l.tm)
  BY DEF Outcome, SameExchanges, SameResponder
<1>3. Keeps(p, l.tm, tm[Other(p)])
  BY <1>2, StillKeeps
<1>4. Covered(p, l.tm, tm[Other(p)], net')
  BY TakenUpCovered
<1>5. Leaves(p, l.tm)
  BY DEF Leaves
<1> QED BY <1>1, <1>3, <1>4, <1>5, RStep

\* Queueing a task and initiate().
LEMMA RequeuedCovers ==
    ASSUME RInv, IInv', NEW p \in Peer, tm[p].state # "DESTROYED", NEW s, Requeued(tm[p], s),
           NEW found \in BOOLEAN, NEW l, l = Initiate(p, s, found),
           tm' = [tm EXCEPT ![p] = l.tm], net' = net \cup l.out
    PROVE  RInv'
<1>1. Before(p, s) /\ Ready(p, s)
  BY RequeuedBefore DEF RInv
<1>2. Outcome(p, s, found, l) /\ TakenUp(s, l)
  BY <1>1, InitiateOutcome
<1>3. /\ s.imid = tm[p].imid /\ s.packets = tm[p].packets /\ s.faults = tm[p].faults
      /\ s.retransmitted = tm[p].retransmitted /\ s.gaveUp = tm[p].gaveUp
      /\ SameResponder(tm[p], s)
  BY DEF Requeued, SameExchanges, SameResponder
<1>4. ~s.gaveUp /\ Covered(p, tm[p], tm[Other(p)], net)
  BY <1>3, NotGivenUp
<1>5. OnTheWay(p, net, s.imid) => OnTheWay(p, net', s.imid)
  BY DEF OnTheWay
<1>6. s.packets # NoMsg => Excuse(s, tm[Other(p)]) \/ Paid(p, s, net')
  BY <1>3, <1>4, <1>5 DEF Covered, Excuse, Paid
<1>7. (\A m \in net : Initiator(m) = Other(p) => m \in net') /\ l.out \subseteq net'
  OBVIOUS
<1> QED BY <1>1, <1>2, <1>3, <1>4, <1>6, <1>7, InitiateCovers

\* p is destroyed without giving up.
LEMMA DestroyedCovers ==
    ASSUME RInv, IInv', NEW p \in Peer, tm[p].state # "DESTROYED", NEW s \in Manager,
           AddsTo(p, s), ~s.gaveUp, tm' = [tm EXCEPT ![p] = Destroyed(s)],
           Leaves(p, Destroyed(s))
    PROVE  RInv'
<1> DEFINE d == Destroyed(s)
<1>1. /\ d.state = "DESTROYED" /\ d.packets = NoMsg /\ d.gaveUp = s.gaveUp
      /\ d.issued = s.issued /\ d.completed = s.completed /\ d.result = s.result
  BY DestroyedFacts
<1> HIDE DEF d
<1>2. AddsTo(p, d)
  BY <1>1 DEF AddsTo
<1>3. Keeps(p, d, tm[Other(p)])
  BY <1>1, StillKeeps
<1>4. Covered(p, d, tm[Other(p)], net')
  BY <1>1, ClosedCovered
<1>5. tm' = [tm EXCEPT ![p] = d] /\ Leaves(p, d)
  BY DEF d
<1> QED BY <1>1, <1>2, <1>3, <1>4, <1>5, RStep

\* The application's requests.
LEMMA TasksCover ==
    ASSUME RInv, IInv', NEW p \in Peer, InitiateChild(p) \/ SendDpd(p) \/ Delete(p)
    PROVE  RInv'
<1>0. IInv
  BY DEF RInv
<1>1. tm[p] \in Manager /\ Found(p) \in BOOLEAN /\ tm[p].state # "DESTROYED"
  BY <1>0, IInvParts DEF InitiateChild, SendDpd, Delete, Usable
<1>2. ASSUME NEW s, Requeued(tm[p], s), Apply(p, Initiate(p, s, Found(p)), net)
      PROVE  RInv'
  <2>1. /\ tm' = [tm EXCEPT ![p] = Initiate(p, s, Found(p)).tm]
        /\ net' = net \cup Initiate(p, s, Found(p)).out
    BY <1>2 DEF Apply
  <2> QED BY <1>1, <1>2, <2>1, RequeuedCovers
<1>3. ASSUME NEW kind \in Kind PROVE Requeued(tm[p], Queue(tm[p], kind))
  BY <1>1, QueueFacts
<1>4. CASE InitiateChild(p)
  BY <1>2, <1>3, <1>4 DEF InitiateChild, Kind
<1>5. CASE SendDpd(p)
  <2>1. CASE p = Phone
    <3>1. Requeued(tm[p], QueueMobike(tm[p], FALSE))
      BY <1>1, QueueMobikeFacts
    <3> QED BY <1>2, <1>5, <2>1, <3>1 DEF SendDpd
  <2>2. CASE p # Phone
    BY <1>2, <1>3, <1>5, <2>2 DEF SendDpd, Kind
  <2> QED BY <2>1, <2>2
<1>6. CASE Delete(p)
  <2> DEFINE s == Queue(tm[p], "DELETE")
             l == Initiate(p, s, Found(p))
  <2>0. Requeued(tm[p], s)
    BY <1>3 DEF Kind
  <2>1. CASE Apply(p, l, net)
    BY <1>2, <2>0, <2>1
  <2>3. CASE Apply(p, Forced(l), net)
    <3>1. Before(p, s) /\ Ready(p, s)
      BY <1>0, <1>1, <2>0, RequeuedBefore
    <3>2. Outcome(p, s, Found(p), l)
      BY <1>1, <3>1, InitiateOutcome
    <3>3. ~s.gaveUp
      BY <1>1, <2>0, NotGivenUp DEF Requeued, SameExchanges
    <3> HIDE DEF s, l
    <3>4. l.tm \in Manager /\ AddsTo(p, l.tm) /\ ~l.tm.gaveUp
      BY <3>1, <3>2, <3>3, OutcomeAdds DEF Outcome, SameExchanges
    <3>5. tm' = [tm EXCEPT ![p] = Destroyed(l.tm)] /\ net' = net \cup l.out
      BY <2>3 DEF Apply, Forced
    <3>6. Leaves(p, Destroyed(l.tm))
      BY <3>5 DEF Leaves
    <3> QED BY <1>1, <3>4, <3>5, <3>6, DestroyedCovers
  <2>2. CASE Apply(p, Left(Destroyed(tm[p]), {}), net)
    <3>1. tm' = [tm EXCEPT ![p] = Destroyed(tm[p])] /\ net' = net \cup {}
      BY <2>2 DEF Apply, Left
    <3>2. AddsTo(p, tm[p]) /\ ~tm[p].gaveUp
      BY <1>1, NothingAdded, NotGivenUp
    <3>3. Leaves(p, Destroyed(tm[p]))
      BY <3>1 DEF Leaves
    <3> QED BY <1>1, <3>1, <3>2, <3>3, DestroyedCovers
  <2> QED BY <1>6, <2>1, <2>2, <2>3 DEF Delete
<1> QED BY <1>4, <1>5, <1>6

\* A roam job.
LEMMA RoamJobCovers ==
    ASSUME RInv, IInv', RoamJob
    PROVE  RInv'
<1>1. Phone \in Peer /\ tm[Phone] \in Manager
  BY IInvParts DEF RInv, Peer
<1>2. ASSUME tm[Phone].state = "ESTABLISHED", NEW changed \in BOOLEAN, NEW l,
             l = Initiate(Phone, QueueMobike(tm[Phone], changed), TRUE),
             tm' = [tm EXCEPT ![Phone] = l.tm], net' = net \cup l.out
      PROVE  RInv'
  <2>1. Requeued(tm[Phone], QueueMobike(tm[Phone], changed))
    BY <1>1, QueueMobikeFacts
  <2> QED BY <1>1, <1>2, <2>1, RequeuedCovers
<1>3. CASE UNCHANGED <<tm, net>>
  BY <1>3 DEF RInv, Kept, Keeps, Budget, Covered, Excuse, Paid, OnTheWay
<1> QED BY <1>2, <1>3 DEF RoamJob

\* A retransmit job counts a fault if the exchange is in flight, and gives up only
\* after more faults than tries.
LEMMA RetransmitCovers ==
    ASSUME RInv, IInv', NEW p \in Peer, RetransmitJob(p)
    PROVE  RInv'
<1>0. IInv
  BY DEF RInv
<1>1. PICK mid \in Nat, s \in Manager : RetransmitCases(p, mid, s)
  BY <1>0, RetransmitJobCases
<1>2. /\ tm[p].state # "DESTROYED" /\ Unscheduled(tm[p], s, mid)
      /\ s.faults = IF InFlight(p) # {} /\ mid = tm[p].imid THEN tm[p].faults + 1 ELSE tm[p].faults
  BY <1>1 DEF RetransmitCases
<1>3. /\ s.imid = tm[p].imid /\ s.packets = tm[p].packets /\ s.state = tm[p].state
      /\ s.retransmitted = tm[p].retransmitted /\ s.gaveUp = tm[p].gaveUp
      /\ s.issued = tm[p].issued /\ s.completed = tm[p].completed /\ s.result = tm[p].result
      /\ SameResponder(tm[p], s)
  BY <1>2 DEF Unscheduled, SameExchanges, SameResponder
<1>4. ~s.gaveUp /\ Covered(p, tm[p], tm[Other(p)], net)
  BY <1>2, <1>3, NotGivenUp
<1>5. AddsTo(p, s)
  BY <1>3 DEF AddsTo
<1>6. InFlight(p) # {} <=> OnTheWay(p, net, tm[p].imid)
  BY <1>0, InFlightFacts
<1>n. /\ tm[p].faults \in Nat /\ s.faults \in Nat /\ s.retransmitted \in Nat
      /\ Tries \in Nat /\ CheckTries \in Nat
  BY <1>0, IInvParts, Bounds DEF Manager
<1>7. s.faults >= tm[p].faults
  BY <1>2, <1>n
<1>8. CASE Apply(p, Left(s, {}), net)
  <2>1. tm' = [tm EXCEPT ![p] = s] /\ net' = net \cup {}
    BY <1>8 DEF Apply, Left
  <2>2. net' = net
    BY <2>1
  <2>3. Covered(p, s, tm[Other(p)], net')
    BY <1>3, <1>4, <1>7, <1>n, <2>2 DEF Covered, Excuse, Paid
  <2>4. Leaves(p, s)
    BY <2>2 DEF Leaves
  <2>5. Keeps(p, s, tm[Other(p)])
    BY <1>2, <1>3, StillKeeps
  <2> QED BY <1>2, <1>5, <2>1, <2>3, <2>4, <2>5, RStep
<1>9. ASSUME mid = s.imid, s.packets # NoMsg
      PROVE  Excuse(s, tm[Other(p)]) \/ s.retransmitted <= s.faults
  <2>1. Excuse(tm[p], tm[Other(p)]) \/ Paid(p, tm[p], net)
    BY <1>3, <1>4, <1>9 DEF Covered
  <2>2. CASE Excuse(tm[p], tm[Other(p)])
    BY <1>3, <2>2 DEF Excuse
  <2>3. CASE Paid(p, tm[p], net)
    BY <1>2, <1>3, <1>6, <1>9, <1>n, <2>3 DEF Paid
  <2> QED BY <2>1, <2>2, <2>3
<1>10. CASE /\ mid = s.imid /\ s.packets # NoMsg /\ s.retransmitted > Limit(s)
            /\ Apply(p, Left([Destroyed(s) EXCEPT !.gaveUp = TRUE], {}), net)
  <2> DEFINE e == Destroyed(s)
             d == [e EXCEPT !.gaveUp = TRUE]
  <2>1. tm' = [tm EXCEPT ![p] = d] /\ net' = net \cup {}
    BY <1>10 DEF Apply, Left
  <2>2. /\ e \in Manager /\ e.state = "DESTROYED" /\ e.packets = NoMsg /\ e.imid = s.imid
        /\ e.issued = s.issued /\ e.completed = s.completed /\ e.result = s.result
        /\ e.faults = s.faults
    BY DestroyedFacts
  <2> HIDE DEF e
  <2>3. /\ d.state = "DESTROYED" /\ d.packets = NoMsg /\ d.imid = s.imid
        /\ d.issued = s.issued /\ d.completed = s.completed /\ d.result = s.result
        /\ d.faults = s.faults
    BY <2>2 DEF Manager
  <2> HIDE DEF d
  <2>4. AddsTo(p, d)
    BY <1>5, <2>3 DEF AddsTo
  <2>5. Keeps(p, d, tm[Other(p)])
    BY <1>2, <2>3, StillKeeps
  <2>6. Leaves(p, d)
    BY <2>1 DEF Leaves
  <2>7. s.faults > Tries \/ s.faults > CheckTries \/ Excuse(s, tm[Other(p)])
    BY <1>9, <1>10, <1>n, LimitFacts
  <2>8. Covered(p, d, tm[Other(p)], net')
    BY <2>3, <2>7 DEF Covered, Excuse
  <2> QED BY <2>1, <2>3, <2>4, <2>5, <2>6, <2>8, RStep
<1>11. ASSUME mid = s.imid, s.packets # NoMsg, NEW l, Sent(s, Found(p), l), Apply(p, l, net)
       PROVE  RInv'
  <2> DEFINE u == l.tm
  <2>1. tm' = [tm EXCEPT ![p] = u] /\ net' = net \cup l.out
    BY <1>11 DEF Apply
  <2>2. /\ u.issued = s.issued /\ u.completed = s.completed /\ u.result = s.result
        /\ u.imid = s.imid /\ u.packets = s.packets /\ u.state = s.state /\ u.gaveUp = s.gaveUp
        /\ u.faults = s.faults /\ SameResponder(tm[p], u)
    BY <1>3, <1>11 DEF Sent, SameRequest, SameExchanges, SameResponder
  <2>3. \/ u.retransmitted = s.retransmitted
        \/ u.retransmitted = s.retransmitted + 1 /\ l.out = {s.packets}
    BY <1>11 DEF Sent
  <2> HIDE DEF u
  <2>4. AddsTo(p, u)
    BY <1>5, <2>2 DEF AddsTo
  <2>5. Keeps(p, u, tm[Other(p)])
    BY <1>2, <2>2, StillKeeps
  <2>6. Leaves(p, u)
    BY <2>1 DEF Leaves
  <2>7. s.packets.mid = s.imid /\ s.packets.request /\ s.packets.from = p
    <3>1. Sound(p, tm[p])
      BY <1>0, IInvParts
    <3>2. /\ tm[p].active \in Task /\ tm[p].imid \in Mid
          /\ tm[p].packets = Req(p, tm[p].imid, tm[p].active)
      BY <1>2, <1>3, <1>11, <3>1 DEF Sound, OpenRequest, History
    <3> QED BY <1>3, <3>2, ReqFacts
  <2>8. l.out = {s.packets} => OnTheWay(p, net', u.imid)
    <3>1. Initiator(s.packets) = p
      BY <2>7 DEF Initiator
    <3> QED BY <2>1, <2>2, <2>7, <3>1 DEF OnTheWay
  <2>9. Excuse(u, tm[Other(p)]) \/ Paid(p, u, net')
    BY <1>9, <1>11, <1>n, <2>2, <2>3, <2>8 DEF Excuse, Paid
  <2>10. Covered(p, u, tm[Other(p)], net')
    BY <1>4, <2>2, <2>9 DEF Covered
  <2> QED BY <1>2, <2>1, <2>4, <2>5, <2>6, <2>10, RStep
<1> QED BY <1>1, <1>8, <1>10, <1>11 DEF RetransmitCases
-----------------------------------------------------------------------------
(* Messages arrive or get lost *)

\* A request from q belongs to an exchange of q, a response of q to one of p.
LEMMA InitiatorOf ==
    ASSUME NEW p \in Peer, NEW m, m.from = Other(p)
    PROVE  Initiator(m) = IF m.request THEN Other(p) ELSE p
BY PeerFacts DEF Initiator

\* An answer to a request is on its way to whoever made the request.
LEMMA AnswerOnTheWay ==
    ASSUME NEW p \in Peer, NEW m \in Request, NEW r \in Result, NEW N, Answer(p, m, r) \in N
    PROVE  OnTheWay(Other(p), N, m.mid)
<1>1. /\ Answer(p, m, r).from = p /\ ~Answer(p, m, r).request
      /\ Answer(p, m, r).mid = m.mid
  BY AnswerFacts
<1>2. Initiator(Answer(p, m, r)) = Other(p)
  BY <1>1 DEF Initiator
<1> QED BY <1>1, <1>2 DEF OnTheWay

\* As long as p's own request is not touched, it stays covered.
LEMMA SameCovered ==
    ASSUME RInv, NEW p \in Peer, tm[p].state # "DESTROYED", NEW u,
           u.imid = tm[p].imid, u.packets = tm[p].packets, u.faults = tm[p].faults,
           u.retransmitted = tm[p].retransmitted, u.gaveUp = tm[p].gaveUp,
           \A m \in net : m.mid = tm[p].imid /\ Initiator(m) = p => m \in net'
    PROVE  Covered(p, u, tm[Other(p)], net')
<1>1. ~u.gaveUp /\ Covered(p, tm[p], tm[Other(p)], net)
  BY NotGivenUp
<1>2. OnTheWay(p, net, u.imid) => OnTheWay(p, net', u.imid)
  BY DEF OnTheWay
<1> QED BY <1>1, <1>2 DEF Covered, Excuse, Paid

\* The open request of q arrives at p, which has answered it already and has the
\* answer, or will not answer it again.
LEMMA OpenRequestKept ==
    ASSUME RInv, NEW p \in Peer, tm[p].state # "DESTROYED",
           NEW m \in net, m.from = Other(p), m.request, m.mid = tm[Other(p)].imid,
           tm[Other(p)].packets # NoMsg, m.mid # tm[p].rmid
    PROVE  \/ Excuse(tm[Other(p)], tm[p])
           \/ IsRetransmit(tm[p], m) /\ tm[p].response = Answer(p, m, "done")
<1> DEFINE q == Other(p)
           k == m.mid
<1>0. IInv
  BY DEF RInv
<1>1. /\ m \in Request /\ k \in Mid /\ tm[q].issued[k] \in Task
      /\ m = Req(q, k, tm[q].issued[k])
  BY <1>0, Arriving
<1>2. /\ tm[p] \in Manager /\ Sound(p, tm[p]) /\ Sound(q, tm[q]) /\ Agree(tm[q], tm[p])
      /\ tm[q] \in Manager
  BY <1>0, IInvParts
<1>3. /\ \A j \in Mid : j < tm[q].imid => tm[q].completed[j] # NoResult
      /\ \A j \in Mid : j > tm[q].imid => tm[q].issued[j] = NoTask
      /\ \A j \in Mid : tm[p].result[j] # NoResult <=> j < tm[p].rmid
      /\ tm[p].rmid \in Mid
  BY <1>2 DEF Sound, History
<1>4. \A j \in Mid : /\ j < tm[q].imid => j < tm[p].rmid
                     /\ j < tm[p].rmid => ~(j > tm[q].imid)
  BY <1>2, <1>3 DEF Agree
<1>5. k + 1 = tm[p].rmid
  <2>1. MaxMid \in Nat /\ tm[p].rmid \in 0..MaxMid /\ k \in 0..MaxMid
    BY <1>1, <1>3, Bounds DEF Mid
  <2>2. CASE tm[p].rmid < k
    <3>1. tm[p].rmid < tm[q].imid /\ tm[p].rmid \in Mid
      BY <2>2, <1>3
    <3> QED BY <1>4, <2>1, <3>1
  <2>3. CASE tm[p].rmid > k + 1
    <3>1. k + 1 \in Mid /\ k + 1 > tm[q].imid
      BY <2>1, <2>3 DEF Mid
    <3> QED BY <1>4, <2>3, <3>1
  <2> QED BY <2>1, <2>2, <2>3
<1>6. Keeps(p, tm[p], tm[q])
  BY DEF RInv, Kept
<1>7. /\ tm[p].result[k] # "syntax"
      /\ tm[p].result[k] = "done" => /\ tm[p].prevHash = Req(q, k, tm[q].issued[k])
                                     /\ tm[p].response = Answer(p, tm[p].prevHash, "done")
  BY <1>1, <1>5, <1>6 DEF Keeps
<1>8. tm[p].result[k] \in Result
  <2>1. k < tm[p].rmid
    BY <1>1, <1>5 DEF Mid
  <2> QED BY <1>1, <1>2, <1>3, <2>1 DEF Manager
<1>9. CASE tm[p].result[k] = "unsupported"
  BY <1>9 DEF Excuse
<1>10. CASE tm[p].result[k] = "done"
  <2>1. tm[p].prevHash = m /\ tm[p].response = Answer(p, m, "done")
    BY <1>1, <1>7, <1>10
  <2>2. tm[p].response # NoMsg
    BY <1>1, <2>1, AnswerFacts DEF Result
  <2> QED BY <1>5, <2>1, <2>2 DEF IsRetransmit
<1> QED BY <1>7, <1>8, <1>9, <1>10 DEF Result

\* A request that is not answered anew.
LEMMA RepeatCovers ==
    ASSUME RInv, IInv', NEW p \in Peer, tm[p].state # "DESTROYED",
           NEW m \in net, m.from = Other(p), m.request, m.mid # tm[p].rmid,
           tm' = [tm EXCEPT ![p] = tm[p]], NEW rest, rest \in {net, net \ {m}}, NEW out,
           net' = rest \cup out,
           IsRetransmit(tm[p], m) => out = {tm[p].response}
    PROVE  RInv'
<1> DEFINE q == Other(p)
<1>0. IInv
  BY DEF RInv
<1>1. /\ AddsTo(p, tm[p]) /\ SameResponder(tm[p], tm[p])
      /\ Initiator(m) = q /\ q # p /\ m \in Request /\ m.mid \in Mid
  BY <1>0, NothingAdded, InitiatorOf, PeerFacts, Arriving DEF SameResponder
<1>2. Keeps(p, tm[p], tm[q])
  BY <1>1, StillKeeps
<1>3. \A x \in net : x # m => x \in net'
  OBVIOUS
<1>4. Covered(p, tm[p], tm[q], net')
  BY <1>1, <1>3, SameCovered
<1>5. Leaves(p, tm[p])
  <2>1. CASE m.mid # tm[q].imid
    BY <1>3, <2>1 DEF Leaves
  <2>2. CASE tm[q].packets = NoMsg
    BY <2>2 DEF Leaves
  <2>3. CASE m.mid = tm[q].imid /\ tm[q].packets # NoMsg
    <3>1. \/ Excuse(tm[q], tm[p])
          \/ IsRetransmit(tm[p], m) /\ tm[p].response = Answer(p, m, "done")
      BY <2>3, OpenRequestKept
    <3>2. CASE Excuse(tm[q], tm[p])
      BY <3>2 DEF Leaves
    <3>3. CASE IsRetransmit(tm[p], m) /\ tm[p].response = Answer(p, m, "done")
      <4>1. Answer(p, m, "done") \in net'
        BY <3>3
      <4>2. OnTheWay(q, net', m.mid)
        BY <1>1, <4>1, AnswerOnTheWay DEF Result
      <4> QED BY <2>3, <4>2 DEF Leaves
    <3> QED BY <3>1, <3>2, <3>3
  <2> QED BY <2>1, <2>2, <2>3
<1> QED BY <1>1, <1>2, <1>4, <1>5, RStep

\* A processed request adds its answer to the history.
LEMMA ProcessedAdds ==
    ASSUME IInv, NEW p \in Peer, tm[p].rmid < MaxMid,
           NEW m \in net, m.from = Other(p), m.request, m.mid = tm[p].rmid,
           NEW r \in Result, NEW u, Processed(tm[p], m, r, u)
    PROVE  u \in Manager /\ u.result[m.mid] = r /\ AddsTo(p, u)
<1>1. tm[p] \in Manager /\ History(tm[p])
  BY IInvParts DEF Sound
<1>2. m \in Request /\ m.mid \in Mid /\ tm[Other(p)].issued[m.mid] \in Task
  BY Arriving
<1>3. u.result[m.mid] = r /\ \A k \in Mid : k # m.mid => u.result[k] = tm[p].result[k]
  BY <1>1, <1>2, ProcessedHistory
<1>4. u \in Manager /\ u.issued = tm[p].issued /\ u.completed = tm[p].completed
  BY DEF Processed
<1>5. tm[p].result[m.mid] = NoResult
  BY <1>1, <1>2 DEF History, Mid
<1>6. AddsTo(p, u)
  BY <1>2, <1>3, <1>4, <1>5, NoTaskNoMsg DEF AddsTo
<1> QED BY <1>3, <1>4, <1>6

\* A request that is answered.
LEMMA AnswerCovers ==
    ASSUME RInv, IInv', NEW p \in Peer, tm[p].state # "DESTROYED", tm[p].rmid < MaxMid,
           NEW m \in net, m.from = Other(p), m.request, m.mid = tm[p].rmid, NEW r \in Result,
           tm' = [tm EXCEPT ![p] = Process(p, tm[p], m, r)],
           NEW rest, rest \in {net, net \ {m}}, net' = rest \cup {Answer(p, m, r)}
    PROVE  RInv'
<1> DEFINE s == tm[p]
           q == Other(p)
<1>0. IInv
  BY DEF RInv
<1>1. /\ s \in Manager /\ m \in Request /\ m.mid \in Mid /\ Initiator(m) = q /\ q # p
      /\ m = Req(q, m.mid, tm[q].issued[m.mid])
  BY <1>0, IInvParts, Arriving, InitiatorOf, PeerFacts
<1>2. PICK u : /\ Processed(s, m, r, u)
               /\ \/ Process(p, s, m, r) = Destroyed(u)
                  \/ /\ Process(p, s, m, r) = u
                     /\ u.state = s.state /\ u.queue = s.queue /\ u.active = s.active
                     /\ u.packets = s.packets /\ u.deferred = s.deferred
                     /\ u.timers = s.timers /\ u.gaveUp = s.gaveUp
                     /\ u.retransmitted = s.retransmitted /\ u.faults = s.faults
                     /\ r # "syntax"
                     /\ IF r = "done" THEN u.prevHash = m /\ u.response = Answer(p, m, r)
                        ELSE u.prevHash = s.prevHash /\ u.response = s.response
  BY <1>1, ProcessFacts
<1>3. u \in Manager /\ u.result[m.mid] = r /\ AddsTo(p, u)
  BY <1>0, <1>2, ProcessedAdds
<1>4. \A x \in net : x # m => x \in net'
  OBVIOUS
<1>5. ASSUME NEW d PROVE Leaves(p, d)
  <2>1. CASE m.mid = tm[q].imid
    <3>1. Answer(p, m, r) \in net'
      OBVIOUS
    <3>2. OnTheWay(q, net', m.mid)
      BY <1>1, <3>1, AnswerOnTheWay
    <3> QED BY <2>1, <3>2 DEF Leaves
  <2>2. CASE m.mid # tm[q].imid
    BY <1>4, <2>2 DEF Leaves
  <2> QED BY <2>1, <2>2
<1>6. CASE Process(p, s, m, r) = Destroyed(u)
  <2>1. tm' = [tm EXCEPT ![p] = Destroyed(u)]
    BY <1>6
  <2>2. u.gaveUp = s.gaveUp
    BY <1>2 DEF Processed
  <2>3. ~u.gaveUp
    BY <2>2, NotGivenUp
  <2> QED BY <1>3, <1>5, <2>1, <2>3, DestroyedCovers
<1>7. CASE Process(p, s, m, r) = u /\ Process(p, s, m, r) # Destroyed(u)
  <2>1. /\ tm' = [tm EXCEPT ![p] = u] /\ u.state = s.state /\ u.packets = s.packets
        /\ u.gaveUp = s.gaveUp /\ u.retransmitted = s.retransmitted /\ u.faults = s.faults
        /\ r # "syntax"
        /\ r = "done" => u.prevHash = m /\ u.response = Answer(p, m, r)
    BY <1>2, <1>7
  <2>2. u.imid = s.imid /\ u.rmid = s.rmid + 1
    BY <1>2 DEF Processed
  <2>3. ASSUME NEW k \in Mid, k + 1 = u.rmid PROVE k = m.mid
    BY <1>1, <2>2, <2>3 DEF Mid, Manager
  <2>4. Keeps(p, u, tm[q])
    BY <1>1, <1>3, <2>1, <2>3 DEF Keeps
  <2>5. Covered(p, u, tm[q], net')
    BY <1>1, <1>4, <2>1, <2>2, SameCovered
  <2> QED BY <1>3, <1>5, <2>1, <2>4, <2>5, RStep
<1> QED BY <1>2, <1>6, <1>7

\* The step of a responder.
LEMMA RequestCovers ==
    ASSUME RInv, IInv', NEW p \in Peer, tm[p].state # "DESTROYED", tm[p].rmid < MaxMid,
           NEW m \in net, m.from = Other(p), m.request, NEW rest, rest \in {net, net \ {m}},
           ProcessRequest(p, m, rest)
    PROVE  RInv'
<1>1. ASSUME m.mid = tm[p].rmid, NEW r \in Result,
             Apply(p, Left(Process(p, tm[p], m, r), {Answer(p, m, r)}), rest)
      PROVE  RInv'
  <2>1. /\ tm' = [tm EXCEPT ![p] = Process(p, tm[p], m, r)]
        /\ net' = rest \cup {Answer(p, m, r)}
    BY <1>1 DEF Apply, Left
  <2> QED BY <1>1, <2>1, AnswerCovers
<1>2. CASE IsRetransmit(tm[p], m) /\ Apply(p, Left(tm[p], {tm[p].response}), rest)
  <2>1. tm' = [tm EXCEPT ![p] = tm[p]] /\ net' = rest \cup {tm[p].response}
    BY <1>2 DEF Apply, Left
  <2>2. m.mid # tm[p].rmid
    <3>1. m \in Request /\ m.mid \in Mid /\ m.mid + 1 = tm[p].rmid
      BY <1>2, Arriving DEF RInv, IsRetransmit
    <3> QED BY <3>1, Bounds DEF Mid
  <2> DEFINE out == {tm[p].response}
  <2>3. net' = rest \cup out /\ (IsRetransmit(tm[p], m) => out = {tm[p].response})
    BY <2>1
  <2> HIDE DEF out
  <2> QED BY <2>1, <2>2, <2>3, RepeatCovers
<1>3. CASE m.mid # tm[p].rmid /\ ~IsRetransmit(tm[p], m) /\ Apply(p, Left(tm[p], {}), rest)
  <2>1. tm' = [tm EXCEPT ![p] = tm[p]] /\ net' = rest \cup {}
    BY <1>3 DEF Apply, Left
  <2> QED BY <1>3, <2>1, RepeatCovers
<1> QED BY <1>1, <1>2, <1>3 DEF ProcessRequest

\* The step of an initiator that gets a response: late ones are dropped, the one
\* that is expected closes the exchange.
LEMMA ResponseCovers ==
    ASSUME RInv, IInv', NEW p \in Peer, tm[p].state # "DESTROYED", tm[p].imid < MaxMid,
           NEW m \in net, m.from = Other(p), ~m.request, NEW rest, rest \in {net, net \ {m}},
           ProcessResponse(p, m, rest)
    PROVE  RInv'
<1> DEFINE q == Other(p)
<1>0. IInv
  BY DEF RInv
<1>1. /\ tm[p] \in Manager /\ m \in Response /\ Found(p) \in BOOLEAN
      /\ Initiator(m) = p /\ q # p /\ ~tm[p].gaveUp
  BY <1>0, IInvParts, Arriving, InitiatorOf, PeerFacts, NotGivenUp
<1>2. \A x \in rest : x \in net
  OBVIOUS
<1>3. \A x \in net : x # m => x \in rest
  OBVIOUS
<1>4. \A x \in net : Initiator(x) = q => x \in rest
  BY <1>1, <1>3
<1>5. CASE m.mid # tm[p].imid /\ Apply(p, Left(tm[p], {}), rest)
  <2>1. tm' = [tm EXCEPT ![p] = tm[p]] /\ net' = rest \cup {}
    BY <1>5 DEF Apply, Left
  <2>2. AddsTo(p, tm[p]) /\ SameResponder(tm[p], tm[p])
    BY NothingAdded DEF SameResponder
  <2>3. Keeps(p, tm[p], tm[q])
    BY <2>2, StillKeeps
  <2>4. Covered(p, tm[p], tm[q], net')
    BY <1>3, <1>5, <2>1, SameCovered
  <2>5. Leaves(p, tm[p])
    BY <1>4, <2>1 DEF Leaves
  <2> QED BY <2>1, <2>2, <2>3, <2>4, <2>5, RStep
<1>6. CASE m.mid = tm[p].imid
           /\ Apply(p, Left(Destroyed([tm[p] EXCEPT !.completed[m.mid] = m.body]), {}), rest)
  <2> DEFINE c == [tm[p] EXCEPT !.completed[m.mid] = m.body]
  <2>1. Taken(tm[p], m, c) /\ c.imid = tm[p].imid
    BY <1>1, TakenFacts
  <2>2. tm' = [tm EXCEPT ![p] = Destroyed(c)] /\ net' = rest \cup {}
    BY <1>6 DEF Apply, Left
  <2> HIDE DEF c
  <2>3. c \in Manager /\ AddsTo(p, c)
    BY <1>0, <1>6, <2>1, TakenAdds
  <2>4. ~c.gaveUp
    BY <1>1, <2>1 DEF Taken
  <2>5. Leaves(p, Destroyed(c))
    BY <1>4, <2>2 DEF Leaves
  <2> QED BY <2>2, <2>3, <2>4, <2>5, DestroyedCovers
<1>7. ASSUME m.mid = tm[p].imid, tm[p].active.kind # "DELETE", NEW more \in BOOLEAN,
             Apply(p, Initiate(p, Completed(tm[p], m, more), Found(p)), rest)
      PROVE  RInv'
  <2> DEFINE c == Completed(tm[p], m, more)
             l == Initiate(p, c, Found(p))
  <2>1. Ready(p, c) /\ Before(p, c)
    BY <1>0, <1>7, CompletedReady
  <2>2. tm' = [tm EXCEPT ![p] = l.tm] /\ net' = rest \cup l.out
    BY <1>7 DEF Apply
  <2>3. Outcome(p, c, Found(p), l) /\ TakenUp(c, l)
    BY <1>1, <2>1, InitiateOutcome
  <2>4. Taken(tm[p], m, c) /\ c.packets = NoMsg
    BY <1>1, CompletedFacts
  <2> HIDE DEF c, l
  <2>5. SameResponder(tm[p], c) /\ ~c.gaveUp
    BY <1>1, <2>4 DEF Taken, SameResponder
  <2>6. (\A x \in net : Initiator(x) = q => x \in net') /\ l.out \subseteq net'
    BY <1>4, <2>2
  <2>7. c.packets # NoMsg => Excuse(c, tm[q]) \/ Paid(p, c, net')
    BY <2>4
  <2> QED BY <2>1, <2>2, <2>3, <2>5, <2>6, <2>7, InitiateCovers
<1> QED BY <1>5, <1>6, <1>7 DEF ProcessResponse

\* A message that arrives.
LEMMA ReceiveCovers ==
    ASSUME RInv, IInv', NEW p \in Peer, NEW m \in net, Receive(p, m)
    PROVE  RInv'
<1>1. /\ m.from = Other(p) /\ tm[p].state # "DESTROYED"
      /\ tm[p].imid < MaxMid /\ tm[p].rmid < MaxMid
  BY DEF Receive
<1>2. PICK rest \in {net, net \ {m}} :
        IF m.request THEN ProcessRequest(p, m, rest) ELSE ProcessResponse(p, m, rest)
  BY DEF Receive
<1>3. CASE m.request
  BY <1>1, <1>2, <1>3, RequestCovers
<1>4. CASE ~m.request
  BY <1>1, <1>2, <1>4, ResponseCovers
<1> QED BY <1>3, <1>4

\* A lost message is a fault of the exchange it belongs to.
LEMMA LoseCovers ==
    ASSUME RInv, IInv', NEW m \in net, Lose(m)
    PROVE  RInv'
<1> DEFINE p == Initiator(m)
           q == Other(p)
           open == m \in InFlight(p) /\ tm[p].packets # NoMsg
           n == IF open THEN tm[p].faults + 1 ELSE tm[p].faults
           u == [tm[p] EXCEPT !.faults = n]
<1>0. IInv
  BY DEF RInv
<1>1. p \in Peer /\ n \in Nat /\ tm' = [tm EXCEPT ![p] = u]
  BY <1>0, LoseFacts
<1>2. /\ SameExchanges(tm[p], u) /\ u.issued = tm[p].issued /\ u.packets = tm[p].packets
      /\ u.state = tm[p].state /\ u.retransmitted = tm[p].retransmitted /\ u.faults = n
  BY <1>0, <1>1, IInvParts, FaultFacts
<1>3. \A x \in net : x # m => x \in net'
  BY DEF Lose
<1>4. m \in InFlight(p) <=> m.mid = tm[p].imid
  BY <1>0, <1>1, InFlightFacts
<1>5. q # p /\ Initiator(m) = p
  BY <1>1, PeerFacts
<1>6. tm[p].faults \in Nat /\ tm[p].retransmitted \in Nat /\ n \in Nat /\ n >= tm[p].faults
  BY <1>0, <1>1, IInvParts DEF Manager
<1>7. Covered(p, tm[p], tm[q], net) /\ Keeps(p, tm[p], tm[q])
  BY <1>1 DEF RInv, Budget, Kept
<1>8. open => n = tm[p].faults + 1
  OBVIOUS
<1>9. open <=> m.mid = tm[p].imid /\ tm[p].packets # NoMsg
  BY <1>4
<1> HIDE DEF p, q, open, n, u
<1>10. /\ u.imid = tm[p].imid /\ u.gaveUp = tm[p].gaveUp /\ u.result = tm[p].result
       /\ u.completed = tm[p].completed /\ SameResponder(tm[p], u)
  BY <1>2 DEF SameExchanges, SameResponder
<1>11. AddsTo(p, u)
  BY <1>2, <1>10 DEF AddsTo
<1>12. Keeps(p, u, tm[q])
  BY <1>2, <1>7, <1>10 DEF Keeps, SameResponder
<1>13. Leaves(p, u)
  BY <1>3, <1>5 DEF Leaves, q
<1>14. Covered(p, u, tm[q], net')
  <2>1. ASSUME tm[p].packets # NoMsg, Paid(p, tm[p], net) PROVE Paid(p, u, net')
    <3>1. CASE open
      BY <1>2, <1>6, <1>8, <2>1, <3>1 DEF Paid
    <3>2. CASE ~open
      <4>1. OnTheWay(p, net, tm[p].imid) => OnTheWay(p, net', tm[p].imid)
        BY <1>3, <1>9, <2>1, <3>2 DEF OnTheWay
      <4> QED BY <1>2, <1>6, <1>10, <2>1, <4>1 DEF Paid
    <3> QED BY <3>1, <3>2
  <2>2. Excuse(tm[p], tm[q]) => Excuse(u, tm[q])
    BY <1>10 DEF Excuse
  <2>3. u.packets # NoMsg => Excuse(u, tm[q]) \/ Paid(p, u, net')
    BY <1>2, <1>7, <2>1, <2>2 DEF Covered
  <2>4. ASSUME u.gaveUp
        PROVE  /\ u.state = "DESTROYED"
               /\ u.faults > Tries \/ u.faults > CheckTries \/ Excuse(u, tm[q])
    <3>1. Tries \in Nat /\ CheckTries \in Nat
      BY Bounds
    <3> QED BY <1>2, <1>6, <1>7, <1>10, <2>2, <2>4, <3>1 DEF Covered
  <2> QED BY <2>3, <2>4 DEF Covered
<1> QED BY <1>1, <1>2, <1>11, <1>12, <1>13, <1>14, RStep DEF q
-----------------------------------------------------------------------------
(* The theorem *)

\* At the start nothing is open and nothing was given up.
LEMMA InitRInv == Init => RInv
<1> SUFFICES ASSUME Init PROVE RInv
  OBVIOUS
<1>1. IInv /\ tm = [p \in Peer |-> Fresh]
  BY InitIInv DEF Init
<1>2. Fresh.rmid = 0 /\ Fresh.packets = NoMsg /\ Fresh.gaveUp = FALSE
  BY DEF Fresh
<1>3. Mid \subseteq Nat /\ \A k \in Nat : k + 1 # 0
  BY DEF Mid
<1>4. \A p \in Peer : tm[p] = Fresh
  BY <1>1
<1>5. Kept
  BY <1>2, <1>3, <1>4 DEF Kept, Keeps
<1>6. Budget
  BY <1>2, <1>4 DEF Budget, Covered
<1> QED BY <1>1, <1>5, <1>6 DEF RInv

\* Every step keeps the invariant.
LEMMA NextRInv == RInv /\ [Next]_vars => RInv'
<1> SUFFICES ASSUME RInv, [Next]_vars PROVE RInv'
  OBVIOUS
<1>1. IInv'
  BY NextIInv DEF RInv
<1>2. ASSUME NEW p \in Peer, InitiateChild(p) \/ SendDpd(p) \/ Delete(p) PROVE RInv'
  BY <1>1, <1>2, TasksCover
<1>3. ASSUME NEW p \in Peer, RetransmitJob(p) PROVE RInv'
  BY <1>1, <1>3, RetransmitCovers
<1>4. ASSUME NEW p \in Peer, NEW m \in net, Receive(p, m) PROVE RInv'
  BY <1>1, <1>4, ReceiveCovers
<1>5. ASSUME NEW m \in net, Lose(m) PROVE RInv'
  BY <1>1, <1>5, LoseCovers
<1>6. CASE RoamJob
  BY <1>1, <1>6, RoamJobCovers
<1>7. CASE ConnectivityCb \/ RouteAppears \/ UNCHANGED vars
  <2>1. tm' = tm /\ net' = net
    BY <1>7 DEF ConnectivityCb, RouteAppears, vars
  <2> QED BY <1>1, <2>1 DEF RInv, Kept, Keeps, Budget, Covered, Excuse, Paid, OnTheWay
<1> QED BY <1>2, <1>3, <1>4, <1>5, <1>6, <1>7 DEF Next

\* retransmit() gives up on a peer that still has the IKE_SA only if the network
\* failed the exchange more often than there are tries, or if the responder
\* answered by a notify that it does not keep.
THEOREM GivesUpLate == Spec => []RetransmissionSuffices
<1>1. RInv => RetransmissionSuffices
  BY DEF RInv, Budget, Covered, Excuse, RetransmissionSuffices
<1> QED BY <1>1, InitRInv, NextRInv, PTL DEF Spec
=============================================================================
