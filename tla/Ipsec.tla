-------------------------------- MODULE Ipsec --------------------------------
(***************************************************************************)
(* libipsec, the user-space data plane of the IKEv2 tunnel: IPsec SAs in   *)
(* the list of the SA manager, the anti-replay window of an inbound SA,    *)
(* the two threads of the processor that lock an SA for each packet, and   *)
(* the threads of charon that install, query, update and remove SAs.  The  *)
(* network repeats, reorders, loses and forges ESP packets.  What happens  *)
(* between locking the manager's mutex and unlocking it or waiting on a    *)
(* condvar is one step, and so is the work on a packet while its SA is     *)
(* locked.                                                                 *)
(***************************************************************************)
EXTENDS Naturals, FiniteSets

CONSTANTS WindowSize,  \* ESP_DEFAULT_WINDOW_SIZE, a divisor of 2^32
          MaxSeqno,    \* UINT32_MAX
          MaxSa,       \* bound: SAs ever installed
          In, Out,     \* the threads of process_inbound() and process_outbound()
          Control      \* threads of charon

ASSUME IpsecAssumption ==
    /\ {WindowSize, MaxSeqno, MaxSa} \subseteq Nat \ {0}
    /\ In # Out /\ {In, Out} \cap Control = {}

Thread == {In, Out} \cup Control
Sa == 1..MaxSa
Seqno == 0..MaxSeqno

VARIABLES sas,       \* installed SAs; a higher number was inserted later
          entry,     \* entry[sa]: its ipsec_sa_entry_t and ipsec_sa_t
          ctx,       \* ctx[sa]: its esp_context_t
          freed,     \* destroyed SAs
          pc,        \* pc[t]: what thread t does, with which SA
          acquire,   \* an acquire was sent within ACQUIRE_TIMEOUT
          accepted   \* accepted[sa][s]: packets s authenticated so far

vars == <<sas, entry, ctx, freed, pc, acquire, accepted>>

Entry == [inbound : BOOLEAN, locked : BOOLEAN, awaits_deletion : BOOLEAN,
          hard_expired : BOOLEAN, waiting_threads : SUBSET Thread]

Context == [last_seqno : Seqno, seqno_index : 0..(WindowSize - 1),
            window : SUBSET (0..(WindowSize - 1))]

\* job: what the thread wants the SA for.  remove1 and remove2 are the two loops
\* of wait_remove_entry().
Pc == [at : {"idle", "waiting", "using", "remove1", "remove2"}, sa : {0} \cup Sa,
       job : {"none", "packet", "query"}, woken : BOOLEAN]
Idle == [at |-> "idle", sa |-> 0, job |-> "none", woken |-> FALSE]

Init ==
    /\ sas = {}
    /\ entry = [sa \in Sa |-> [inbound |-> FALSE, locked |-> FALSE, awaits_deletion |-> FALSE,
                               hard_expired |-> FALSE, waiting_threads |-> {}]]
    /\ ctx = [sa \in Sa |-> [last_seqno |-> 0, seqno_index |-> 0, window |-> {}]]
    /\ freed = {}
    /\ pc = [t \in Thread |-> Idle]
    /\ acquire = FALSE
    /\ accepted = [sa \in Sa |-> [s \in Seqno |-> 0]]
-----------------------------------------------------------------------------
(* Anti-replay window *)

\* (seqno_index - offset) % window_size in unsigned arithmetic, offset below
\* window_size.
Back(c, offset) ==
    IF offset <= c.seqno_index THEN c.seqno_index - offset
    ELSE c.seqno_index + WindowSize - offset

\* Mutant of Forward: the index may become window_size.
ForwardPastEnd(c, shift) ==
    IF c.seqno_index + shift <= WindowSize THEN c.seqno_index + shift
    ELSE c.seqno_index + shift - WindowSize

\* (seqno_index + shift) % window_size, shift at most window_size.
Forward(c, shift) ==
    IF c.seqno_index + shift < WindowSize THEN c.seqno_index + shift
    ELSE c.seqno_index + shift - WindowSize

\* check_window()
CheckWindow(c, seqno) == Back(c, c.last_seqno - seqno) \notin c.window

\* Mutant of VerifySeqno: a number behind the window is looked up in it.
VerifySeqnoAnyAge(c, seqno) ==
    \/ seqno > c.last_seqno
    \/ seqno <= c.last_seqno /\ seqno > 0 /\ CheckWindow(c, seqno)

\* verify_seqno()
VerifySeqno(c, seqno) ==
    \/ seqno > c.last_seqno
    \/ /\ seqno <= c.last_seqno /\ seqno > 0
       /\ WindowSize > c.last_seqno - seqno
       /\ CheckWindow(c, seqno)

\* Mutant of SetAuthenticatedSeqno: bits of an earlier round are kept.
SetAuthenticatedSeqnoKeeps(c, seqno) ==
    IF seqno > c.last_seqno
    THEN LET dist == seqno - c.last_seqno
             shift == IF dist < WindowSize THEN dist ELSE WindowSize
         IN [last_seqno |-> seqno, seqno_index |-> Forward(c, shift),
             window |-> c.window \cup {Forward(c, shift)}]
    ELSE [c EXCEPT !.window = @ \cup {Back(c, c.last_seqno - seqno)}]

\* set_authenticated_seqno(): the loop clears the bits it moves over.
SetAuthenticatedSeqno(c, seqno) ==
    IF seqno > c.last_seqno
    THEN LET dist == seqno - c.last_seqno
             shift == IF dist < WindowSize THEN dist ELSE WindowSize
             passed == {Forward(c, i) : i \in 1..shift}
         IN [last_seqno |-> seqno, seqno_index |-> Forward(c, shift),
             window |-> (c.window \ passed) \cup {Forward(c, shift)}]
    ELSE [c EXCEPT !.window = @ \cup {Back(c, c.last_seqno - seqno)}]
-----------------------------------------------------------------------------
(* Locking an SA *)

Blocked(f, sa) ==
    {t \in Thread : f[t].at \in {"waiting", "remove1", "remove2"} /\ f[t].sa = sa /\ ~f[t].woken}

\* signal(): the threads' places after it, one for each thread it may wake.
Signal(f, sa) ==
    IF Blocked(f, sa) = {} THEN {f}
    ELSE {[f EXCEPT ![t].woken = TRUE] : t \in Blocked(f, sa)}

Broadcast(f, sa) ==
    [t \in Thread |-> IF t \in Blocked(f, sa) THEN [f[t] EXCEPT !.woken = TRUE] ELSE f[t]]

\* Mutant of WaitForEntry: a thread that leaves an entry awaiting deletion does
\* not signal.
WaitForEntryLeaves(t, sa, r, others) ==
    LET e == entry[sa]
    IN \/ /\ e.locked /\ ~e.awaits_deletion
          /\ entry' = [entry EXCEPT ![sa].waiting_threads = others \cup {t}]
          /\ pc' = [pc EXCEPT ![t] = [r EXCEPT !.at = "waiting", !.woken = FALSE]]
       \/ /\ e.awaits_deletion \/ (~e.locked /\ r.job = "query")
          /\ entry' = [entry EXCEPT ![sa].waiting_threads = others]
          /\ pc' = [pc EXCEPT ![t] = Idle]
       \/ /\ ~e.locked /\ ~e.awaits_deletion /\ r.job = "packet"
          /\ entry' = [entry EXCEPT ![sa].waiting_threads = others, ![sa].locked = TRUE]
          /\ pc' = [pc EXCEPT ![t] = [r EXCEPT !.at = "using", !.woken = FALSE]]

\* wait_for_entry() for request r of t, entered with these other waiting threads.
\* A query or an update unlocks the entry before it releases the mutex.
WaitForEntry(t, sa, r, others) ==
    LET e == entry[sa]
    IN \/ /\ e.locked /\ ~e.awaits_deletion
          /\ entry' = [entry EXCEPT ![sa].waiting_threads = others \cup {t}]
          /\ pc' = [pc EXCEPT ![t] = [r EXCEPT !.at = "waiting", !.woken = FALSE]]
       \/ /\ e.awaits_deletion \/ (~e.locked /\ r.job = "query")
          /\ entry' = [entry EXCEPT ![sa].waiting_threads = others]
          /\ pc' \in Signal([pc EXCEPT ![t] = Idle], sa)
       \/ /\ ~e.locked /\ ~e.awaits_deletion /\ r.job = "packet"
          /\ entry' = [entry EXCEPT ![sa].waiting_threads = others, ![sa].locked = TRUE]
          /\ pc' = [pc EXCEPT ![t] = [r EXCEPT !.at = "using", !.woken = FALSE]]

\* An outbound packet that gets no SA because that is being removed has
\* check_acquire() send an acquire, as one does that finds none.
Acquires(t, sa) == t = Out /\ entry[sa].awaits_deletion

Checkout(t, r) ==
    /\ pc[t] = Idle
    /\ r.sa \in sas
    /\ WaitForEntry(t, r.sa, r, entry[r.sa].waiting_threads)
    /\ acquire' = (acquire \/ Acquires(t, r.sa))
    /\ UNCHANGED <<sas, ctx, freed, accepted>>

\* checkout_by_spi() for a packet that arrived: SPI and destination may be those
\* of an SA of either direction.
CheckoutBySpi(sa) ==
    /\ ~entry[sa].hard_expired
    /\ Checkout(In, [Idle EXCEPT !.sa = sa, !.job = "packet"])

\* checkout_by_reqid() finds the outbound SA inserted last.
Outbound == {sa \in sas : ~entry[sa].inbound /\ ~entry[sa].hard_expired}

CheckoutByReqid(sa) ==
    /\ sa \in Outbound
    /\ \A other \in Outbound : other <= sa
    /\ Checkout(Out, [Idle EXCEPT !.sa = sa, !.job = "packet"])

\* An outbound packet without an SA: dropped, with an acquire unless there was
\* one within ACQUIRE_TIMEOUT.
Acquire ==
    /\ pc[Out] = Idle
    /\ Outbound = {}
    /\ acquire' = TRUE
    /\ UNCHANGED <<sas, entry, ctx, freed, pc, accepted>>

AcquireTimeout ==
    /\ acquire
    /\ acquire' = FALSE
    /\ UNCHANGED <<sas, entry, ctx, freed, pc, accepted>>

\* update_sa(), query_sa()
Query(t, sa) == Checkout(t, [Idle EXCEPT !.sa = sa, !.job = "query"])

\* A thread wakes up in the loop of wait_for_entry().
Resume(t) ==
    /\ pc[t].at = "waiting" /\ pc[t].woken
    /\ WaitForEntry(t, pc[t].sa, pc[t], entry[pc[t].sa].waiting_threads \ {t})
    /\ acquire' = (acquire \/ Acquires(t, pc[t].sa))
    /\ UNCHANGED <<sas, ctx, freed, accepted>>

\* Mutant of Checkin: nobody is signalled.
CheckinSilent(t, sa, hard) ==
    /\ entry' = [entry EXCEPT ![sa].locked = FALSE, ![sa].hard_expired = hard]
    /\ pc' = [pc EXCEPT ![t] = Idle]
    /\ UNCHANGED <<sas, freed, acquire>>

\* checkin(), the SA possibly expired by the packet that was counted.
Checkin(t, sa, hard) ==
    /\ entry' = [entry EXCEPT ![sa].locked = FALSE, ![sa].hard_expired = hard]
    /\ pc' \in Signal([pc EXCEPT ![t] = Idle], sa)
    /\ UNCHANGED <<sas, freed, acquire>>

\* The rest of process_inbound(), for a packet the peer sent at any time or one
\* somebody else did: nothing for an SA that is not inbound; decrypt() verifies
\* the number before and sets it after the authentication.
ProcessInbound(seq, genuine) ==
    LET sa == pc[In].sa
        good == entry[sa].inbound /\ VerifySeqno(ctx[sa], seq) /\ genuine
    IN /\ pc[In].at = "using"
       /\ genuine => seq > 0
       /\ IF good
          THEN /\ ctx' = [ctx EXCEPT ![sa] = SetAuthenticatedSeqno(@, seq)]
               /\ accepted' = [accepted EXCEPT ![sa][seq] = @ + 1]
          ELSE UNCHANGED <<ctx, accepted>>
       /\ \E hard \in BOOLEAN :
             /\ entry[sa].hard_expired => hard
             /\ hard => good \/ entry[sa].hard_expired
             /\ Checkin(In, sa, hard)

\* The rest of process_outbound(): next_seqno() fails when the numbers would
\* cycle; the packet may fail to be encrypted after it got its number.
ProcessOutbound ==
    LET sa == pc[Out].sa
        room == ctx[sa].last_seqno < MaxSeqno
    IN /\ pc[Out].at = "using"
       /\ IF room THEN ctx' = [ctx EXCEPT ![sa].last_seqno = @ + 1] ELSE UNCHANGED ctx
       /\ \E hard \in BOOLEAN :
             /\ entry[sa].hard_expired => hard
             /\ hard => room \/ entry[sa].hard_expired
             /\ Checkin(Out, sa, hard)
       /\ UNCHANGED accepted
-----------------------------------------------------------------------------
(* Installing and removing SAs *)

\* add_sa(), for an SA with a new SPI.
AddSa(inbound) ==
    LET sa == Cardinality(sas \cup freed) + 1
    IN /\ sa \in Sa
       /\ sas' = sas \cup {sa}
       /\ entry' = [entry EXCEPT ![sa].inbound = inbound]
       /\ acquire' = (acquire /\ inbound)
       /\ UNCHANGED <<ctx, freed, pc, accepted>>

\* Mutant of WaitRemove: it does not wait for the thread that has the lock.
WaitRemoveLocked(t, sa, loop) ==
    IF entry[sa].waiting_threads # {}
    THEN /\ pc' = [Broadcast(pc, sa) EXCEPT ![t] = [Idle EXCEPT !.at = "remove2", !.sa = sa]]
         /\ UNCHANGED <<sas, freed>>
    ELSE /\ pc' = [pc EXCEPT ![t] = Idle]
         /\ sas' = sas \ {sa}
         /\ freed' = freed \cup {sa}

\* wait_remove_entry() from one of its loops on: wait until the entry is not
\* locked, then until no thread waits for it, and remove and destroy it.
WaitRemove(t, sa, loop) ==
    IF loop = 1 /\ entry[sa].locked
    THEN /\ pc' = [pc EXCEPT ![t] = [Idle EXCEPT !.at = "remove1", !.sa = sa]]
         /\ UNCHANGED <<sas, freed>>
    ELSE IF entry[sa].waiting_threads # {}
    THEN /\ pc' = [Broadcast(pc, sa) EXCEPT ![t] = [Idle EXCEPT !.at = "remove2", !.sa = sa]]
         /\ UNCHANGED <<sas, freed>>
    ELSE /\ pc' = [pc EXCEPT ![t] = Idle]
         /\ sas' = sas \ {sa}
         /\ freed' = freed \cup {sa}

\* del_sa(), flush_sas() and sa_expired(), which also marks the SA; nothing if
\* another thread removes it already.
Remove(t, sa, hard) ==
    /\ pc[t] = Idle
    /\ sa \in sas
    /\ entry' = [entry EXCEPT ![sa].awaits_deletion = TRUE,
                              ![sa].hard_expired = @ \/ hard]
    /\ IF entry[sa].awaits_deletion THEN UNCHANGED <<pc, sas, freed>>
       ELSE WaitRemove(t, sa, 1)
    /\ UNCHANGED <<ctx, acquire, accepted>>

ResumeRemove(t) ==
    /\ pc[t].at \in {"remove1", "remove2"} /\ pc[t].woken
    /\ WaitRemove(t, pc[t].sa, IF pc[t].at = "remove1" THEN 1 ELSE 2)
    /\ UNCHANGED <<entry, ctx, acquire, accepted>>

\* A condvar may wake a thread for no reason.
Spurious(t) ==
    /\ \E sa \in Sa : t \in Blocked(pc, sa)
    /\ pc' = [pc EXCEPT ![t].woken = TRUE]
    /\ UNCHANGED <<sas, entry, ctx, freed, acquire, accepted>>

Next ==
    \/ \E sa \in Sa : CheckoutBySpi(sa) \/ CheckoutByReqid(sa)
    \/ Acquire \/ AcquireTimeout
    \/ \E seq \in Seqno, genuine \in BOOLEAN : ProcessInbound(seq, genuine)
    \/ ProcessOutbound
    \/ \E inbound \in BOOLEAN : AddSa(inbound)
    \/ \E t \in Control, sa \in Sa : Query(t, sa) \/ \E hard \in BOOLEAN : Remove(t, sa, hard)
    \/ \E t \in Thread : Resume(t) \/ ResumeRemove(t) \/ Spurious(t)

Spec == Init /\ [][Next]_vars

\* A thread that got the SA ends its work on the packet, and one that was woken
\* gets the mutex.
Fairness ==
    /\ WF_vars(\E seq \in Seqno, genuine \in BOOLEAN : ProcessInbound(seq, genuine))
    /\ WF_vars(ProcessOutbound)
    /\ \A t \in Thread : WF_vars(Resume(t)) /\ WF_vars(ResumeRemove(t))

LiveSpec == Spec /\ Fairness
-----------------------------------------------------------------------------
(* Properties *)

TypeOK ==
    /\ sas \subseteq Sa /\ freed \subseteq Sa
    /\ entry \in [Sa -> Entry]
    /\ ctx \in [Sa -> Context]
    /\ pc \in [Thread -> Pc]
    /\ acquire \in BOOLEAN
    /\ accepted \in [Sa -> [Seqno -> Nat]]

\* No ESP packet is accepted twice, whatever the network repeats, reorders or
\* forges and however the window moves.
AcceptedOnce == \A sa \in Sa, s \in Seqno : accepted[sa][s] <= 1

\* The window forgets nothing it should know and remembers nothing else: a
\* number less than window_size behind the highest one passes verify_seqno()
\* exactly if it was not accepted yet, and all higher ones pass.
WindowExact ==
    \A sa \in Sa : entry[sa].inbound =>
       \A s \in Seqno \ {0} :
          s + WindowSize > ctx[sa].last_seqno =>
             (VerifySeqno(ctx[sa], s) <=> accepted[sa][s] = 0)

\* An SA is locked by the one thread that works on its packet, and neither it
\* nor an SA a thread waits for or removes is freed by another thread.
LockedSafe ==
    \A t \in Thread :
       /\ pc[t].at # "idle" => pc[t].sa \in sas \ freed
       /\ pc[t].at = "using" => entry[pc[t].sa].locked
       /\ \A u \in Thread \ {t} : pc[t].at = "using" /\ pc[u].at = "using" => pc[t].sa # pc[u].sa

\* No wakeup is lost: threads sleep in the condvar of an SA only while it is
\* locked or one of them was woken.
NoLostWakeup ==
    \A sa \in sas :
       (~entry[sa].locked /\ Blocked(pc, sa) # {}) =>
          \E t \in Thread : pc[t].sa = sa /\ pc[t].woken

\* Removing an SA ends, although packets, queries and another removal keep
\* asking for it.
RemovalEnds ==
    \A sa \in Sa : entry[sa].awaits_deletion ~> sa \in freed
=============================================================================
