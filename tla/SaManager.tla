------------------------------ MODULE SaManager ------------------------------
(***************************************************************************)
(* libcharon's IKE_SA manager: worker threads check IKE_SAs out and in,    *)
(* wait for one another on the condvar of an entry, destroy entries others *)
(* wait for, and the main thread flushes the table at shutdown.  The table *)
(* has one segment (DEFAULT_SEGMENT_COUNT), so everything between locking  *)
(* its mutex and unlocking it or waiting on a condvar is one step.         *)
(***************************************************************************)
EXTENDS Naturals, FiniteSets

CONSTANTS Thread,   \* worker threads
          Sa,       \* IKE_SAs: bound on how many are ever created
          Main,     \* the thread that calls flush()
          None

ASSUME ManagerAssumption == Main \notin Thread /\ None \notin Thread \cup {Main} \cup Sa

VARIABLES table,      \* entries in ike_sa_table
          entry,      \* entry[sa]: the fields of its entry_t
          freed,      \* entries and IKE_SAs destroyed by entry_destroy()
          created,    \* IKE_SAs created so far
          pc,         \* pc[t]: what thread t does, and with which entry
          new,        \* new[t]: the IKE_SA t created and has not checked in
          rng,        \* there is an RNG for SPIs: flush() destroys it first
          newDriveout \* new_entries_driveout_threads

vars == <<table, entry, freed, created, pc, new, rng, newDriveout>>

Threads == Thread \cup {Main}

\* waiting stands for waiting_threads, the number of its members.
Entry == [owner : Threads \cup {None}, driveout : BOOLEAN, waiting : SUBSET Threads]

\* waiting, destroying and flushing are blocked in the condvar of entry sa, until
\* they are woken and get the mutex back.
Place == {"idle", "using", "waiting", "destroying", "freeing", "flush", "flushing",
          "flushed", "destroyed", "undefined"}
Pc == [at : Place, sa : Sa \cup {None}, woken : BOOLEAN]
At(place, sa) == [at |-> place, sa |-> sa, woken |-> FALSE]
Idle == At("idle", None)

Init ==
    /\ table = {}
    /\ entry = [sa \in Sa |-> [owner |-> None, driveout |-> FALSE, waiting |-> {}]]
    /\ freed = {}
    /\ created = {}
    /\ pc = [t \in Threads |-> Idle]
    /\ new = [t \in Threads |-> None]
    /\ rng = TRUE
    /\ newDriveout = FALSE
-----------------------------------------------------------------------------
(* Condvar of an entry *)

Blocked(f, sa) ==
    {t \in Threads : f[t].at \in {"waiting", "destroying", "flushing"}
                     /\ f[t].sa = sa /\ ~f[t].woken}

\* signal(): the threads' places after it, one for each thread it may wake.
Signal(f, sa) ==
    IF Blocked(f, sa) = {} THEN {f}
    ELSE {[f EXCEPT ![t].woken = TRUE] : t \in Blocked(f, sa)}

Broadcast(f, sa) ==
    [t \in Threads |-> IF t \in Blocked(f, sa) THEN [f[t] EXCEPT !.woken = TRUE] ELSE f[t]]
-----------------------------------------------------------------------------
(* New IKE_SAs *)

\* create_new(): needs an SPI.  A thread that has an IKE_SA checked out may do
\* this too, when it rekeys it.
CreateNew(t) ==
    /\ pc[t].at \in {"idle", "using"}
    /\ rng
    /\ new[t] = None
    /\ \E sa \in Sa \ created :
          /\ created' = created \cup {sa}
          /\ new' = [new EXCEPT ![t] = sa]
    /\ UNCHANGED <<table, entry, freed, pc, rng, newDriveout>>

\* put_entry()
PutEntry(sa, owner) ==
    /\ table' = table \cup {sa}
    /\ entry' = [entry EXCEPT ![sa] = [owner |-> owner, driveout |-> newDriveout, waiting |-> {}]]

\* checkout_new()
CheckoutNew(t) ==
    /\ pc[t].at = "idle" /\ new[t] # None
    /\ PutEntry(new[t], t)
    /\ pc' = [pc EXCEPT ![t] = At("using", new[t])]
    /\ new' = [new EXCEPT ![t] = None]
    /\ UNCHANGED <<freed, created, rng, newDriveout>>

\* checkin() of an IKE_SA that is not in the table.
CheckinNew(t) ==
    /\ pc[t].at \in {"idle", "using"} /\ new[t] # None
    /\ PutEntry(new[t], None)
    /\ new' = [new EXCEPT ![t] = None]
    /\ UNCHANGED <<freed, created, pc, rng, newDriveout>>
\* checkin_and_destroy() of an IKE_SA that is not in the table: it could not be
\* used after all.
CheckinAndDestroyNew(t) ==
    /\ pc[t].at \in {"idle", "using"} /\ new[t] # None
    /\ freed' = freed \cup {new[t]}
    /\ new' = [new EXCEPT ![t] = None]
    /\ UNCHANGED <<table, entry, created, pc, rng, newDriveout>>
-----------------------------------------------------------------------------
(* Checkout *)

\* Mutant of Acquire: a thread that does not want the entry keeps the signal.
AcquireSilent(t, sa, waiters) ==
    \/ /\ entry' = [entry EXCEPT ![sa].owner = t, ![sa].waiting = waiters]
       /\ pc' = [pc EXCEPT ![t] = At("using", sa)]
    \/ /\ entry' = [entry EXCEPT ![sa].waiting = waiters]
       /\ pc' = [pc EXCEPT ![t] = Idle]

\* wait_for_entry() found the entry free: t takes it, or it is not the one the
\* caller enumerates the table for, and the next waiting thread is signalled.
Acquire(t, sa, waiters) ==
    \/ /\ entry' = [entry EXCEPT ![sa].owner = t, ![sa].waiting = waiters]
       /\ pc' = [pc EXCEPT ![t] = At("using", sa)]
    \/ /\ entry' = [entry EXCEPT ![sa].waiting = waiters]
       /\ pc' \in Signal([pc EXCEPT ![t] = Idle], sa)

\* checkout(), checkout_by_message(), checkout_by_config(), checkout_by_id(),
\* checkout_by_name()
Checkout(t, sa) ==
    /\ pc[t] = Idle /\ new[t] = None
    /\ sa \in table
    /\ ~entry[sa].driveout
    /\ IF entry[sa].owner = None THEN Acquire(t, sa, entry[sa].waiting)
       ELSE /\ entry' = [entry EXCEPT ![sa].waiting = @ \cup {t}]
            /\ pc' = [pc EXCEPT ![t] = At("waiting", sa)]
    /\ UNCHANGED <<table, freed, created, new, rng, newDriveout>>

\* Mutant of Resume: the condition is not tested again after the wait.
ResumeOnce(t) ==
    LET sa == pc[t].sa
        e == entry[sa]
    IN /\ pc[t].at = "waiting" /\ pc[t].woken
       /\ IF e.driveout
          THEN /\ entry' = [entry EXCEPT ![sa].waiting = @ \ {t}]
               /\ pc' \in Signal([pc EXCEPT ![t] = Idle], sa)
          ELSE Acquire(t, sa, e.waiting \ {t})
       /\ UNCHANGED <<table, freed, created, new, rng, newDriveout>>

\* Mutant of Resume: a thread that is driven out does not signal.
ResumeSilent(t) ==
    LET sa == pc[t].sa
        e == entry[sa]
    IN /\ pc[t].at = "waiting" /\ pc[t].woken
       /\ IF e.owner # None /\ ~e.driveout
          THEN pc' = [pc EXCEPT ![t].woken = FALSE] /\ UNCHANGED entry
          ELSE IF e.driveout
          THEN /\ entry' = [entry EXCEPT ![sa].waiting = @ \ {t}]
               /\ pc' = [pc EXCEPT ![t] = Idle]
          ELSE Acquire(t, sa, e.waiting \ {t})
       /\ UNCHANGED <<table, freed, created, new, rng, newDriveout>>

\* A woken thread goes on in the loop of wait_for_entry().
Resume(t) ==
    LET sa == pc[t].sa
        e == entry[sa]
    IN /\ pc[t].at = "waiting" /\ pc[t].woken
       /\ IF e.owner # None /\ ~e.driveout
          THEN pc' = [pc EXCEPT ![t].woken = FALSE] /\ UNCHANGED entry
          ELSE IF e.driveout
          THEN /\ entry' = [entry EXCEPT ![sa].waiting = @ \ {t}]
               /\ pc' \in Signal([pc EXCEPT ![t] = Idle], sa)
          ELSE Acquire(t, sa, e.waiting \ {t})
       /\ UNCHANGED <<table, freed, created, new, rng, newDriveout>>

\* checkin()
Checkin(t) ==
    LET sa == pc[t].sa
    IN /\ pc[t].at = "using" /\ new[t] = None
       /\ entry' = [entry EXCEPT ![sa].owner = None]
       /\ pc' \in Signal([pc EXCEPT ![t] = Idle], sa)
       /\ UNCHANGED <<table, freed, created, new, rng, newDriveout>>
-----------------------------------------------------------------------------
(* Destruction *)

\* Mutant of DriveOut: waiting threads are woken, not waited for.
DriveOutAtOnce(t, sa) ==
    /\ pc' = [Broadcast(pc, sa) EXCEPT ![t] = At("freeing", sa)]
    /\ table' = table \ {sa}

\* The loop of checkin_and_destroy(): wake everybody and wait while threads wait
\* for the entry, then take it from the table.
DriveOut(t, sa) ==
    IF entry[sa].waiting # {}
    THEN /\ pc' = [Broadcast(pc, sa) EXCEPT ![t] = At("destroying", sa)]
         /\ UNCHANGED table
    ELSE /\ pc' = [pc EXCEPT ![t] = At("freeing", sa)]
         /\ table' = table \ {sa}

\* checkin_and_destroy(): at shutdown the IKE_SA is only checked in.
CheckinAndDestroy(t) ==
    LET sa == pc[t].sa
    IN /\ pc[t].at = "using" /\ new[t] = None
       /\ IF entry[sa].driveout
          THEN /\ entry' = [entry EXCEPT ![sa].owner = None]
               /\ pc' = [Broadcast(pc, sa) EXCEPT ![t] = Idle]
               /\ UNCHANGED table
          ELSE /\ entry' = [entry EXCEPT ![sa].driveout = TRUE]
               /\ DriveOut(t, sa)
       /\ UNCHANGED <<freed, created, new, rng, newDriveout>>

ResumeDestroy(t) ==
    /\ pc[t].at = "destroying" /\ pc[t].woken
    /\ DriveOut(t, pc[t].sa)
    /\ UNCHANGED <<entry, freed, created, new, rng, newDriveout>>

\* entry_destroy(), after the mutex was released.
Free(t) ==
    /\ pc[t].at = "freeing"
    /\ freed' = freed \cup {pc[t].sa}
    /\ pc' = [pc EXCEPT ![t] = Idle]
    /\ UNCHANGED <<table, entry, created, new, rng, newDriveout>>

\* flush(): no new SPIs, all entries marked.
Flush ==
    /\ pc[Main] = Idle
    /\ rng' = FALSE
    /\ newDriveout' = TRUE
    /\ entry' = [sa \in Sa |-> IF sa \in table THEN [entry[sa] EXCEPT !.driveout = TRUE]
                               ELSE entry[sa]]
    /\ pc' = [pc EXCEPT ![Main].at = "flush"]
    /\ UNCHANGED <<table, freed, created, new>>

\* One entry: wake everybody and wait until no thread waits for it or has it,
\* then remove and destroy it.
FlushEntry(sa) ==
    /\ IF entry[sa].waiting # {} \/ entry[sa].owner # None
       THEN /\ pc' = [Broadcast(pc, sa) EXCEPT ![Main] = At("flushing", sa)]
            /\ UNCHANGED <<table, freed>>
       ELSE /\ pc' = [pc EXCEPT ![Main] = At("flush", None)]
            /\ table' = table \ {sa}
            /\ freed' = freed \cup {sa}
    /\ UNCHANGED <<entry, created, new, rng, newDriveout>>

FlushNext ==
    /\ pc[Main].at = "flush"
    /\ \/ \E sa \in table : FlushEntry(sa)
       \/ /\ table = {}
          /\ pc' = [pc EXCEPT ![Main] = At("flushed", None)]
          /\ UNCHANGED <<table, entry, freed, created, new, rng, newDriveout>>

\* Main reads an entry that was freed under it: it may crash here, or sleep on
\* in a condvar nobody will signal.
ResumeFlush ==
    /\ pc[Main].at = "flushing" /\ pc[Main].woken
    /\ IF pc[Main].sa \notin freed THEN FlushEntry(pc[Main].sa)
       ELSE /\ pc' \in {[pc EXCEPT ![Main] = At("undefined", None)],
                        [pc EXCEPT ![Main].woken = FALSE]}
            /\ UNCHANGED <<table, entry, freed, created, new, rng, newDriveout>>

\* A condvar may wake a thread for no reason; an enumerator signals once more
\* than wait_for_entry() did.
Spurious(t) ==
    /\ \E sa \in Sa \ freed : t \in Blocked(pc, sa)
    /\ pc' = [pc EXCEPT ![t].woken = TRUE]
    /\ UNCHANGED <<table, entry, freed, created, new, rng, newDriveout>>

\* The manager's destroy(), after the processor waited for the end of all jobs:
\* entries put into the table after flush() go now.
Destroy ==
    /\ pc[Main].at = "flushed"
    /\ \A t \in Thread : pc[t] = Idle /\ new[t] = None
    /\ table' = {}
    /\ freed' = freed \cup table
    /\ pc' = [pc EXCEPT ![Main] = At("destroyed", None)]
    /\ UNCHANGED <<entry, created, new, rng, newDriveout>>

\* flush() keeps the mutex of the table, except while it waits.
MutexFree == pc[Main].at # "flush"

Next ==
    \/ \E t \in Thread : /\ MutexFree
                         /\ \/ CreateNew(t) \/ CheckoutNew(t) \/ CheckinNew(t)
                            \/ CheckinAndDestroyNew(t)
                            \/ \E sa \in Sa : Checkout(t, sa)
                            \/ Resume(t) \/ Checkin(t)
                            \/ CheckinAndDestroy(t) \/ ResumeDestroy(t)
    \/ \E t \in Thread : Free(t)
    \/ Flush \/ FlushNext \/ ResumeFlush \/ Destroy
    \/ \E t \in Threads : Spurious(t)

Spec == Init /\ [][Next]_vars

\* A job ends: it checks in or destroys what it created and what it has checked out, and
\* the mutex is fair.  Nobody is woken without a signal.
Fairness ==
    /\ \A t \in Thread : /\ WF_vars(MutexFree /\ (\/ CheckoutNew(t) \/ CheckinNew(t)
                                               \/ CheckinAndDestroyNew(t)))
                         /\ WF_vars(MutexFree /\ (Checkin(t) \/ CheckinAndDestroy(t)))
                         /\ WF_vars(MutexFree /\ (Resume(t) \/ ResumeDestroy(t)))
                         /\ WF_vars(Free(t))
    /\ WF_vars(FlushNext) /\ WF_vars(ResumeFlush) /\ WF_vars(Destroy)

LiveSpec == Spec /\ Fairness
-----------------------------------------------------------------------------
(* Properties *)

TypeOK ==
    /\ freed \subseteq created /\ table \subseteq created /\ created \subseteq Sa
    /\ entry \in [Sa -> Entry]
    /\ pc \in [Threads -> Pc]
    /\ new \in [Threads -> Sa \cup {None}]
    /\ rng \in BOOLEAN /\ newDriveout \in BOOLEAN

\* An IKE_SA is used by the one thread its entry is checked out to, from
\* checkout() until it is checked in or taken from the table, and nothing frees
\* it or its entry before.
Exclusive ==
    \A t \in Threads : pc[t].at \in {"using", "destroying"} =>
       /\ pc[t].sa \in table \ freed
       /\ entry[pc[t].sa].owner = t

\* A thread that sleeps in the condvar of an entry to check its IKE_SA out finds
\* the entry when it wakes up: nobody frees an entry another worker waits for,
\* and nobody frees one twice.
WaitersSafe ==
    /\ \A t \in Thread : pc[t].at = "waiting" => pc[t].sa \in table \ freed
    /\ \A t \in Threads : pc[t].at = "freeing" => pc[t].sa \notin table \cup freed
    /\ \A t, u \in Threads : t # u /\ pc[t].at = "freeing" => pc[u].at # "freeing" \/ pc[u].sa # pc[t].sa

\* No wakeup is lost: an IKE_SA nobody has is not kept waiting for, because one
\* of the threads in its condvar was signalled and will take it or pass the
\* signal on.
NoLostWakeup ==
    \A sa \in table :
       (entry[sa].owner = None /\ Blocked(pc, sa) # {}) =>
          \E t \in Threads : pc[t].sa = sa /\ pc[t].woken

\* Shutdown ends, unless an entry was freed while flush() waited for it, and
\* leaves no IKE_SA behind, not even one that was put into the table after
\* flush() had emptied it.
FlushEnds ==
    (pc[Main].at = "flush") ~>
       \/ pc[Main].at = "destroyed" /\ freed = created
       \/ pc[Main].sa \notin table \cup {None}
=============================================================================
