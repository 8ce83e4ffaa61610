--------------------------- MODULE SaManagerProofs ---------------------------
(***************************************************************************)
(* Proofs about SaManager, for any number of worker threads and IKE_SAs.   *)
(***************************************************************************)
EXTENDS SaManager, TLAPS

-----------------------------------------------------------------------------
(* The invariant *)

\* What the place of thread t needs of the entry it is at, with tab the table, e
\* the entries and f what was freed.  A thread that frees an entry still owns it.
Placed(tab, e, f, t, at, sa) ==
    /\ at \in {"using", "destroying"} => sa \in tab /\ e[sa].owner = t
    /\ at = "waiting" => sa \in tab /\ t \in e[sa].waiting
    /\ at = "freeing" => sa \in created /\ sa \notin tab \cup f /\ e[sa].owner = t
    /\ at \in {"flush", "flushing", "flushed", "destroyed", "undefined"} => t = Main
    /\ at = "flushing" => sa \in created
    /\ t = Main => at \notin {"using", "waiting", "destroying", "freeing"}

Lock == \A t \in Threads : Placed(table, entry, freed, t, pc[t].at, pc[t].sa)

\* An IKE_SA that is not in the table yet is known to the thread that created it
\* and to no other.
Private ==
    /\ table \cap freed = {}
    /\ \A t \in Threads : new[t] # None => new[t] \in created \ (table \cup freed)
    /\ \A t, u \in Threads : t # u /\ new[t] # None => new[t] # new[u]
    /\ \A t, u \in Threads : pc[t].at \in {"freeing", "flushing"} => new[u] # pc[t].sa

\* waiting_threads counts the threads that are in wait_for_entry(), and no other.
Waiters ==
    \A sa \in table : \A t \in entry[sa].waiting :
       t \in Threads /\ pc[t].at = "waiting" /\ pc[t].sa = sa

IInv == TypeOK /\ Lock /\ Private

\* f and g have every thread at the same place.
SamePlaces(f, g) ==
    /\ g \in [Threads -> Pc]
    /\ \A t \in Threads : g[t].at = f[t].at /\ g[t].sa = f[t].sa

\* signal() moves no thread.
LEMMA SignalKeeps ==
    ASSUME NEW f \in [Threads -> Pc], NEW sa, NEW g \in Signal(f, sa)
    PROVE  SamePlaces(f, g)
<1>1. CASE g = f
  BY <1>1 DEF SamePlaces
<1>2. ASSUME NEW t \in Threads, g = [f EXCEPT ![t].woken = TRUE]
      PROVE  SamePlaces(f, g)
  <2>1. f[t] \in Pc /\ [f[t] EXCEPT !.woken = TRUE] \in Pc
    BY DEF Pc
  <2>2. g \in [Threads -> Pc]
    BY <1>2, <2>1
  <2>3. \A u \in Threads : g[u].at = f[u].at /\ g[u].sa = f[u].sa
    BY <1>2, <2>1 DEF Pc
  <2> QED BY <2>2, <2>3 DEF SamePlaces
<1> QED BY <1>1, <1>2 DEF Signal, Blocked

\* broadcast() moves no thread.
LEMMA BroadcastKeeps ==
    ASSUME NEW f \in [Threads -> Pc], NEW sa
    PROVE  SamePlaces(f, Broadcast(f, sa))
<1>1. \A t \in Threads : f[t] \in Pc /\ [f[t] EXCEPT !.woken = TRUE] \in Pc
  BY DEF Pc
<1>2. Broadcast(f, sa) \in [Threads -> Pc]
  BY <1>1 DEF Broadcast
<1>3. \A t \in Threads : Broadcast(f, sa)[t].at = f[t].at /\ Broadcast(f, sa)[t].sa = f[t].sa
  BY <1>1 DEF Broadcast, Pc
<1> QED BY <1>2, <1>3 DEF SamePlaces

\* Thread t goes to a place, the others stay where they are.
Moves(t, at, sa) ==
    /\ pc' \in [Threads -> Pc]
    /\ pc'[t].at = at /\ pc'[t].sa = sa
    /\ \A u \in Threads \ {t} : pc'[u].at = pc[u].at /\ pc'[u].sa = pc[u].sa

\* Places are well-formed.
LEMMA AtType ==
    ASSUME NEW at \in Place, NEW sa \in Sa \cup {None}
    PROVE  At(at, sa) \in Pc /\ At(at, sa).at = at /\ At(at, sa).sa = sa
BY DEF At, Pc

\* Thread t is idle and the others may have been signalled.
LEMMA LeaveMoves ==
    ASSUME NEW t \in Threads, NEW sa, pc \in [Threads -> Pc],
           pc' \in Signal([pc EXCEPT ![t] = Idle], sa)
    PROVE  Moves(t, "idle", None)
<1> DEFINE f == [pc EXCEPT ![t] = Idle]
<1>1. Idle \in Pc /\ Idle.at = "idle" /\ Idle.sa = None
  BY AtType DEF Idle, Place
<1>2. f \in [Threads -> Pc] /\ f[t] = Idle /\ \A u \in Threads \ {t} : f[u] = pc[u]
  BY <1>1
<1>3. SamePlaces(f, pc')
  BY <1>2, SignalKeeps
<1> QED BY <1>1, <1>2, <1>3 DEF Moves, SamePlaces

\* A move of one thread alone, and one that begins with a broadcast.
LEMMA MoveTo ==
    ASSUME NEW t \in Threads, NEW at \in Place, NEW s \in Sa \cup {None}, NEW sa,
           pc \in [Threads -> Pc],
           \/ pc' = [pc EXCEPT ![t] = At(at, s)]
           \/ pc' = [Broadcast(pc, sa) EXCEPT ![t] = At(at, s)]
    PROVE  Moves(t, at, s)
<1>1. At(at, s) \in Pc /\ At(at, s).at = at /\ At(at, s).sa = s
  BY AtType
<1>2. CASE pc' = [pc EXCEPT ![t] = At(at, s)]
  BY <1>1, <1>2 DEF Moves
<1>3. CASE pc' = [Broadcast(pc, sa) EXCEPT ![t] = At(at, s)]
  BY <1>1, <1>3, BroadcastKeeps DEF Moves, SamePlaces
<1> QED BY <1>2, <1>3

\* After a move it is enough to look at the thread that moved and at what the
\* step changed for the others.
LEMMA LockAfterMove ==
    ASSUME NEW t \in Threads, NEW at, NEW sa, Moves(t, at, sa), created' = created,
           Placed(table', entry', freed', t, at, sa),
           \A u \in Threads \ {t} : Placed(table', entry', freed', u, pc[u].at, pc[u].sa)
    PROVE  Lock'
<1>1. ASSUME NEW u \in Threads PROVE Placed(table', entry', freed', u, pc'[u].at, pc'[u].sa)
  <2>1. CASE u = t
    BY <2>1 DEF Moves
  <2>2. CASE u # t
    BY <2>2 DEF Moves
  <2> QED BY <2>1, <2>2
<1> QED BY <1>1 DEF Lock, Placed
-----------------------------------------------------------------------------
(* The steps keep the invariant *)

\* A step that moves one thread and changes no owner but that thread's, and takes
\* no other thread from those that wait.
LEMMA MoveKeeps ==
    ASSUME IInv, NEW t \in Threads, NEW at, NEW s, Moves(t, at, s),
           UNCHANGED <<table, freed, created, new>>, entry' \in [Sa -> Entry],
           rng' \in BOOLEAN, newDriveout' \in BOOLEAN,
           \A x \in Sa : /\ entry'[x].owner = entry[x].owner \/ entry[x].owner \in {None, t}
                         /\ entry[x].waiting \ {t} \subseteq entry'[x].waiting,
           Placed(table, entry', freed, t, at, s),
           at \in {"freeing", "flushing"} => \A u \in Threads : new[u] # s
    PROVE  IInv'
<1>t. TypeOK /\ Lock /\ Private /\ table \subseteq Sa /\ created \subseteq Sa
  BY DEF IInv, TypeOK
<1>n. None \notin Threads
  BY ManagerAssumption DEF Threads
<1>1. TypeOK'
  BY <1>t DEF TypeOK, Moves
<1>2. ASSUME NEW u \in Threads \ {t}
      PROVE  Placed(table', entry', freed', u, pc[u].at, pc[u].sa)
  <2>1. Placed(table, entry, freed, u, pc[u].at, pc[u].sa)
    BY <1>t DEF Lock
  <2>2. u \notin {None, t}
    BY <1>n
  <2> QED BY <2>1, <2>2, <1>t DEF Placed
<1>3. Lock'
  <2>1. Placed(table', entry', freed', t, at, s)
    BY DEF Placed
  <2> QED BY <2>1, <1>2, LockAfterMove
<1>4. Private'
  <2>1. ASSUME NEW v \in Threads, NEW u \in Threads, pc'[v].at \in {"freeing", "flushing"}
        PROVE  new[u] # pc'[v].sa
    <3>1. CASE v = t
      BY <2>1, <3>1 DEF Moves
    <3>2. CASE v # t
      BY <2>1, <3>2, <1>t DEF Moves, Private
    <3> QED BY <3>1, <3>2
  <2> QED BY <2>1, <1>t DEF Private
<1> QED BY <1>1, <1>3, <1>4 DEF IInv

\* A step that changes one entry and no other.
LEMMA EntryChange ==
    ASSUME TypeOK, NEW sa \in Sa, NEW e \in Entry, entry' = [entry EXCEPT ![sa] = e]
    PROVE  /\ entry' \in [Sa -> Entry] /\ entry'[sa] = e
           /\ \A x \in Sa \ {sa} : entry'[x] = entry[x]
BY DEF TypeOK

\* checkout() of an entry that nobody has, at once or after a wait.
LEMMA AcquireKeeps ==
    ASSUME IInv, NEW t \in Thread, NEW sa \in table, NEW waiters \in SUBSET Threads,
           entry[sa].owner = None, entry[sa].waiting \ {t} \subseteq waiters,
           pc[t].at \in {"idle", "waiting"}, Acquire(t, sa, waiters),
           UNCHANGED <<table, freed, created, new, rng, newDriveout>>
    PROVE  IInv'
<1>t. /\ TypeOK /\ t \in Threads /\ t # Main /\ sa \in Sa /\ pc \in [Threads -> Pc]
      /\ entry[sa] \in Entry
  BY ManagerAssumption DEF IInv, TypeOK, Threads
<1>1. CASE /\ entry' = [entry EXCEPT ![sa].owner = t, ![sa].waiting = waiters]
           /\ pc' = [pc EXCEPT ![t] = At("using", sa)]
  <2> DEFINE e == [entry[sa] EXCEPT !.owner = t, !.waiting = waiters]
  <2>1. e \in Entry /\ e.owner = t /\ e.waiting = waiters
    BY <1>t DEF Entry
  <2>2. entry' = [entry EXCEPT ![sa] = e]
    BY <1>1, <1>t DEF TypeOK, Entry
  <2> HIDE DEF e
  <2>3. /\ entry' \in [Sa -> Entry] /\ entry'[sa] = e
        /\ \A x \in Sa \ {sa} : entry'[x] = entry[x]
    BY <2>1, <2>2, <1>t, EntryChange
  <2>4. Moves(t, "using", sa)
    BY <1>1, <1>t, MoveTo DEF Place
  <2>5. Placed(table, entry', freed, t, "using", sa)
    BY <2>1, <2>3, <1>t DEF Placed
  <2>6. \A x \in Sa : /\ entry'[x].owner = entry[x].owner \/ entry[x].owner \in {None, t}
                      /\ entry[x].waiting \ {t} \subseteq entry'[x].waiting
    BY <2>1, <2>3
  <2>7. rng' \in BOOLEAN /\ newDriveout' \in BOOLEAN
    BY <1>t DEF TypeOK
  <2> QED BY <2>3, <2>4, <2>5, <2>6, <2>7, <1>t, MoveKeeps
<1>2. CASE /\ entry' = [entry EXCEPT ![sa].waiting = waiters]
           /\ pc' \in Signal([pc EXCEPT ![t] = Idle], sa)
  <2> DEFINE e == [entry[sa] EXCEPT !.waiting = waiters]
  <2>1. e \in Entry /\ e.owner = None /\ e.waiting = waiters
    BY <1>t DEF Entry
  <2>2. entry' = [entry EXCEPT ![sa] = e]
    BY <1>2, <1>t DEF TypeOK, Entry
  <2> HIDE DEF e
  <2>3. /\ entry' \in [Sa -> Entry] /\ entry'[sa] = e
        /\ \A x \in Sa \ {sa} : entry'[x] = entry[x]
    BY <2>1, <2>2, <1>t, EntryChange
  <2>4. Moves(t, "idle", None)
    BY <1>2, <1>t, LeaveMoves
  <2>5. Placed(table, entry', freed, t, "idle", None)
    BY DEF Placed
  <2>6. \A x \in Sa : /\ entry'[x].owner = entry[x].owner \/ entry[x].owner \in {None, t}
                      /\ entry[x].waiting \ {t} \subseteq entry'[x].waiting
    BY <2>1, <2>3
  <2>7. rng' \in BOOLEAN /\ newDriveout' \in BOOLEAN
    BY <1>t DEF TypeOK
  <2> QED BY <2>3, <2>4, <2>5, <2>6, <2>7, <1>t, MoveKeeps
<1> QED BY <1>1, <1>2 DEF Acquire

\* checkout() and its variants
LEMMA CheckoutKeeps ==
    ASSUME IInv, NEW t \in Thread, NEW sa \in Sa, Checkout(t, sa)
    PROVE  IInv'
<1>t. /\ TypeOK /\ t \in Threads /\ t # Main /\ pc \in [Threads -> Pc]
      /\ entry[sa] \in Entry /\ sa \in table /\ pc[t].at = "idle"
      /\ UNCHANGED <<table, freed, created, new, rng, newDriveout>>
  BY ManagerAssumption, AtType DEF IInv, TypeOK, Threads, Checkout, Idle, Place
<1>1. CASE entry[sa].owner = None
  <2>1. Acquire(t, sa, entry[sa].waiting) /\ entry[sa].waiting \in SUBSET Threads
    BY <1>1, <1>t DEF Checkout, Entry
  <2> QED BY <2>1, <1>1, <1>t, AcquireKeeps
<1>2. CASE entry[sa].owner # None
  <2> DEFINE e == [entry[sa] EXCEPT !.waiting = entry[sa].waiting \cup {t}]
  <2>1. e \in Entry /\ e.owner = entry[sa].owner /\ e.waiting = entry[sa].waiting \cup {t}
    BY <1>t DEF Entry
  <2>2. entry' = [entry EXCEPT ![sa] = e] /\ pc' = [pc EXCEPT ![t] = At("waiting", sa)]
    BY <1>2 DEF Checkout
  <2> HIDE DEF e
  <2>3. /\ entry' \in [Sa -> Entry] /\ entry'[sa] = e
        /\ \A x \in Sa \ {sa} : entry'[x] = entry[x]
    BY <2>1, <2>2, <1>t, EntryChange
  <2>4. Moves(t, "waiting", sa)
    BY <2>2, <1>t, MoveTo DEF Place
  <2>5. Placed(table, entry', freed, t, "waiting", sa)
    BY <2>1, <2>3, <1>t DEF Placed
  <2>6. \A x \in Sa : /\ entry'[x].owner = entry[x].owner \/ entry[x].owner \in {None, t}
                      /\ entry[x].waiting \ {t} \subseteq entry'[x].waiting
    BY <2>1, <2>3
  <2>7. rng' \in BOOLEAN /\ newDriveout' \in BOOLEAN
    BY <1>t DEF TypeOK
  <2> QED BY <2>3, <2>4, <2>5, <2>6, <2>7, <1>t, MoveKeeps
<1> QED BY <1>1, <1>2

\* A woken thread goes on in wait_for_entry().
LEMMA ResumeKeeps ==
    ASSUME IInv, NEW t \in Thread, Resume(t)
    PROVE  IInv'
<1>t. /\ TypeOK /\ t \in Threads /\ t # Main /\ pc \in [Threads -> Pc] /\ pc[t].at = "waiting"
      /\ Placed(table, entry, freed, t, pc[t].at, pc[t].sa)
      /\ UNCHANGED <<table, freed, created, new, rng, newDriveout>>
  BY ManagerAssumption DEF IInv, TypeOK, Threads, Resume, Lock
<1>1. PICK sa \in table : sa = pc[t].sa
  BY <1>t DEF Placed
<1>s. sa \in Sa /\ entry[sa] \in Entry /\ rng' \in BOOLEAN /\ newDriveout' \in BOOLEAN
  BY <1>t DEF TypeOK
<1>2. CASE pc' = [pc EXCEPT ![t].woken = FALSE] /\ entry' = entry
  <2>1. pc[t] \in Pc /\ [pc[t] EXCEPT !.woken = FALSE] \in Pc
    BY <1>t DEF Pc
  <2>2. Moves(t, "waiting", sa)
    BY <1>1, <1>2, <1>t, <2>1 DEF Moves, Pc
  <2>3. /\ Placed(table, entry', freed, t, "waiting", sa) /\ entry' \in [Sa -> Entry]
        /\ \A x \in Sa : entry'[x] = entry[x]
    BY <1>1, <1>2, <1>t DEF TypeOK
  <2> QED BY <2>2, <2>3, <1>t, <1>s, MoveKeeps
<1>3. CASE /\ entry' = [entry EXCEPT ![sa].waiting = @ \ {t}]
           /\ pc' \in Signal([pc EXCEPT ![t] = Idle], sa)
  <2> DEFINE e == [entry[sa] EXCEPT !.waiting = entry[sa].waiting \ {t}]
  <2>1. e \in Entry /\ e.owner = entry[sa].owner /\ e.waiting = entry[sa].waiting \ {t}
    BY <1>s DEF Entry
  <2>2. entry' = [entry EXCEPT ![sa] = e]
    BY <1>3
  <2> HIDE DEF e
  <2>3. /\ entry' \in [Sa -> Entry] /\ entry'[sa] = e
        /\ \A x \in Sa \ {sa} : entry'[x] = entry[x]
    BY <2>1, <2>2, <1>t, <1>s, EntryChange
  <2>4. Moves(t, "idle", None)
    BY <1>3, <1>t, LeaveMoves
  <2>5. Placed(table, entry', freed, t, "idle", None)
    BY DEF Placed
  <2>6. \A x \in Sa : /\ entry'[x].owner = entry[x].owner \/ entry[x].owner \in {None, t}
                      /\ entry[x].waiting \ {t} \subseteq entry'[x].waiting
    BY <2>1, <2>3
  <2> QED BY <2>3, <2>4, <2>5, <2>6, <1>t, <1>s, MoveKeeps
<1>4. CASE entry[sa].owner = None /\ Acquire(t, sa, entry[sa].waiting \ {t})
  <2>1. entry[sa].waiting \ {t} \in SUBSET Threads
    BY <1>s DEF Entry
  <2> QED BY <2>1, <1>4, <1>t, AcquireKeeps
<1> QED BY <1>1, <1>2, <1>3, <1>4 DEF Resume

\* checkin(): the owner leaves.
LEMMA CheckinKeeps ==
    ASSUME IInv, NEW t \in Thread, pc[t].at = "using",
           entry' = [entry EXCEPT ![pc[t].sa].owner = None], Moves(t, "idle", None),
           UNCHANGED <<table, freed, created, new, rng, newDriveout>>
    PROVE  IInv'
<1>t. /\ TypeOK /\ t \in Threads /\ Placed(table, entry, freed, t, pc[t].at, pc[t].sa)
  BY DEF IInv, Threads, Lock
<1>1. PICK sa \in table : sa = pc[t].sa /\ entry[sa].owner = t
  BY <1>t DEF Placed
<1>s. sa \in Sa /\ entry[sa] \in Entry /\ rng' \in BOOLEAN /\ newDriveout' \in BOOLEAN
  BY <1>t DEF TypeOK
<1> DEFINE e == [entry[sa] EXCEPT !.owner = None]
<1>2. e \in Entry /\ e.waiting = entry[sa].waiting
  BY <1>s DEF Entry
<1>3. entry' = [entry EXCEPT ![sa] = e]
  BY <1>1
<1> HIDE DEF e
<1>4. /\ entry' \in [Sa -> Entry] /\ entry'[sa] = e
      /\ \A x \in Sa \ {sa} : entry'[x] = entry[x]
  BY <1>2, <1>3, <1>t, <1>s, EntryChange
<1>5. Placed(table, entry', freed, t, "idle", None)
  BY DEF Placed
<1>6. \A x \in Sa : /\ entry'[x].owner = entry[x].owner \/ entry[x].owner \in {None, t}
                    /\ entry[x].waiting \ {t} \subseteq entry'[x].waiting
  BY <1>1, <1>2, <1>4
<1> QED BY <1>4, <1>5, <1>6, <1>t, <1>s, MoveKeeps

\* At most driveout_new_threads and driveout_waiting_threads of entries change.
SameOwners ==
    /\ entry' \in [Sa -> Entry]
    /\ \A x \in Sa : entry'[x].owner = entry[x].owner /\ entry'[x].waiting = entry[x].waiting

\* checkin_and_destroy() takes an entry from the table when no thread waits for it.
LEMMA DriveOutKeeps ==
    ASSUME IInv, NEW t \in Thread, NEW sa \in table, entry[sa].owner = t,
           SameOwners, DriveOut(t, sa), UNCHANGED <<freed, created, new, rng, newDriveout>>
    PROVE  IInv'
<1>t. /\ TypeOK /\ Lock /\ Private /\ t \in Threads /\ t # Main /\ pc \in [Threads -> Pc]
      /\ sa \in Sa /\ sa \in created /\ table \subseteq Sa /\ created \subseteq Sa
      /\ rng' \in BOOLEAN /\ newDriveout' \in BOOLEAN
  BY ManagerAssumption DEF IInv, TypeOK, Threads
<1>e. /\ entry' \in [Sa -> Entry]
      /\ \A x \in Sa : entry'[x].owner = entry[x].owner /\ entry'[x].waiting = entry[x].waiting
  BY DEF SameOwners
<1>1. CASE pc' = [Broadcast(pc, sa) EXCEPT ![t] = At("destroying", sa)] /\ table' = table
  <2>1. Moves(t, "destroying", sa)
    BY <1>1, <1>t, MoveTo DEF Place
  <2>2. Placed(table, entry', freed, t, "destroying", sa)
    BY <1>e, <1>t DEF Placed
  <2> QED BY <2>1, <2>2, <1>1, <1>e, <1>t, MoveKeeps
<1>2. CASE /\ entry[sa].waiting = {}
           /\ pc' = [pc EXCEPT ![t] = At("freeing", sa)]
           /\ table' = table \ {sa}
  <2>1. Moves(t, "freeing", sa)
    BY <1>2, <1>t, MoveTo DEF Place
  <2>2. TypeOK'
    BY <2>1, <1>2, <1>e, <1>t DEF TypeOK, Moves
  <2>3. ASSUME NEW u \in Threads \ {t}
        PROVE  Placed(table', entry', freed', u, pc[u].at, pc[u].sa)
    <3>1. Placed(table, entry, freed, u, pc[u].at, pc[u].sa)
      BY <1>t DEF Lock
    <3> QED BY <3>1, <1>2, <1>e, <1>t DEF Placed
  <2>4. Placed(table', entry', freed', t, "freeing", sa)
    BY <1>2, <1>e, <1>t DEF Placed, Private
  <2>5. Lock'
    <3>1. created' = created
      OBVIOUS
    <3> QED BY <3>1, <2>1, <2>3, <2>4, <1>t, LockAfterMove
  <2>6. \A u \in Threads : new[u] # sa
    BY ManagerAssumption, <1>t DEF Private
  <2>7. ASSUME NEW v \in Threads, NEW u \in Threads, pc'[v].at \in {"freeing", "flushing"}
        PROVE  new[u] # pc'[v].sa
    <3>1. CASE v = t
      BY <2>6, <3>1, <2>1 DEF Moves
    <3>2. CASE v # t
      BY <2>1, <2>7, <3>2, <1>t DEF Moves, Private
    <3> QED BY <3>1, <3>2
  <2>8. Private'
    BY <2>7, <1>2, <1>t DEF Private
  <2> QED BY <2>2, <2>5, <2>8 DEF IInv
<1> QED BY <1>1, <1>2 DEF DriveOut

\* checkin_and_destroy()
LEMMA CheckinAndDestroyKeeps ==
    ASSUME IInv, NEW t \in Thread, CheckinAndDestroy(t)
    PROVE  IInv'
<1>t. /\ TypeOK /\ t \in Threads /\ pc \in [Threads -> Pc] /\ pc[t].at = "using"
      /\ Placed(table, entry, freed, t, pc[t].at, pc[t].sa)
      /\ UNCHANGED <<freed, created, new, rng, newDriveout>>
  BY DEF IInv, TypeOK, Threads, Lock, CheckinAndDestroy
<1>1. PICK sa \in table : sa = pc[t].sa /\ entry[sa].owner = t
  BY <1>t DEF Placed
<1>s. sa \in Sa /\ entry \in [Sa -> Entry] /\ entry[sa] \in Entry
  BY <1>t DEF TypeOK
<1>2. CASE entry[sa].driveout
  <2>1. /\ entry' = [entry EXCEPT ![sa].owner = None]
        /\ pc' = [Broadcast(pc, sa) EXCEPT ![t] = At("idle", None)] /\ table' = table
    BY <1>1, <1>2 DEF CheckinAndDestroy, Idle
  <2>2. Moves(t, "idle", None)
    BY <2>1, <1>t, MoveTo DEF Place
  <2> QED BY <2>1, <2>2, <1>1, <1>t, CheckinKeeps
<1>3. CASE ~entry[sa].driveout
  <2> DEFINE e == [entry[sa] EXCEPT !.driveout = TRUE]
  <2>1. e \in Entry /\ e.owner = entry[sa].owner /\ e.waiting = entry[sa].waiting
    BY <1>s DEF Entry
  <2>2. entry' = [entry EXCEPT ![sa] = e] /\ DriveOut(t, sa)
    BY <1>1, <1>3 DEF CheckinAndDestroy
  <2> HIDE DEF e
  <2>3. SameOwners
    BY <2>1, <2>2, <1>t, <1>s, EntryChange DEF SameOwners
  <2> QED BY <2>2, <2>3, <1>1, <1>t, DriveOutKeeps
<1> QED BY <1>2, <1>3

\* A woken thread goes on in the loop of checkin_and_destroy().
LEMMA ResumeDestroyKeeps ==
    ASSUME IInv, NEW t \in Thread, ResumeDestroy(t)
    PROVE  IInv'
<1>t. /\ TypeOK /\ pc[t].at = "destroying" /\ t \in Threads
      /\ Placed(table, entry, freed, t, pc[t].at, pc[t].sa)
  BY DEF IInv, ResumeDestroy, Threads, Lock
<1>1. pc[t].sa \in table /\ entry[pc[t].sa].owner = t
  BY <1>t DEF Placed
<1>2. SameOwners
  BY <1>t DEF ResumeDestroy, SameOwners, TypeOK
<1> QED BY <1>1, <1>2, DriveOutKeeps DEF ResumeDestroy

\* entry_destroy() by the thread that took the entry from the table.
LEMMA FreeKeeps ==
    ASSUME IInv, NEW t \in Thread, Free(t)
    PROVE  IInv'
<1>t. /\ TypeOK /\ Lock /\ Private /\ t \in Threads /\ t # Main /\ pc \in [Threads -> Pc]
      /\ pc[t].at = "freeing" /\ Placed(table, entry, freed, t, pc[t].at, pc[t].sa)
  BY ManagerAssumption DEF IInv, TypeOK, Threads, Free, Lock
<1>1. PICK sa \in created : sa = pc[t].sa /\ sa \notin table \cup freed /\ entry[sa].owner = t
  BY <1>t DEF Placed
<1>2. /\ freed' = freed \cup {sa} /\ pc' = [pc EXCEPT ![t] = At("idle", None)]
      /\ UNCHANGED <<table, entry, created, new, rng, newDriveout>>
  BY <1>1 DEF Free, Idle
<1>3. Moves(t, "idle", None)
  BY <1>2, <1>t, MoveTo DEF Place
<1>4. TypeOK'
  BY <1>2, <1>3, <1>t DEF TypeOK, Moves
<1>5. ASSUME NEW u \in Threads \ {t}
      PROVE  Placed(table', entry', freed', u, pc[u].at, pc[u].sa)
  <2>1. Placed(table, entry, freed, u, pc[u].at, pc[u].sa)
    BY <1>t DEF Lock
  <2> QED BY <2>1, <1>1, <1>2 DEF Placed
<1>6. Placed(table', entry', freed', t, "idle", None)
  BY DEF Placed
<1>7. Lock'
  <2>1. created' = created
    BY <1>2
  <2> QED BY <2>1, <1>3, <1>5, <1>6, <1>t, LockAfterMove
<1>8. Private'
  <2>1. \A u \in Threads : new[u] # sa
    BY <1>1, <1>t DEF Private
  <2>2. \A v \in Threads : pc'[v].at \in {"freeing", "flushing"} =>
           pc[v].at = pc'[v].at /\ pc[v].sa = pc'[v].sa
    BY <1>3 DEF Moves
  <2> QED BY <2>1, <2>2, <1>1, <1>2, <1>t DEF Private
<1> QED BY <1>4, <1>7, <1>8 DEF IInv

\* create_new(): the IKE_SA is a new one.
LEMMA CreateNewKeeps ==
    ASSUME IInv, NEW t \in Thread, CreateNew(t)
    PROVE  IInv'
<1>t. TypeOK /\ Lock /\ Private /\ t \in Threads /\ None \notin Sa
  BY ManagerAssumption DEF IInv, Threads
<1>1. PICK sa \in Sa \ created : created' = created \cup {sa} /\ new' = [new EXCEPT ![t] = sa]
  BY DEF CreateNew
<1>2. UNCHANGED <<table, entry, freed, pc, rng, newDriveout>> /\ new[t] = None
  BY DEF CreateNew
<1>3. new' \in [Threads -> Sa \cup {None}] /\ new'[t] = sa /\ \A u \in Threads \ {t} : new'[u] = new[u]
  BY <1>1, <1>t DEF TypeOK
<1>4. TypeOK'
  BY <1>1, <1>2, <1>3, <1>t DEF TypeOK
<1>5. Lock'
  BY <1>1, <1>2, <1>t DEF Lock, Placed
<1>6. \A v \in Threads : pc[v].at \in {"freeing", "flushing"} => pc[v].sa \in created
  BY <1>t DEF Lock, Placed
<1>7. Private'
  <2>1. \A u \in Threads : new'[u] # None => new'[u] \in created' \ (table' \cup freed')
    BY <1>1, <1>2, <1>3, <1>t DEF Private, TypeOK
  <2>2. \A u, v \in Threads : u # v /\ new'[u] # None => new'[u] # new'[v]
    BY <1>1, <1>3, <1>t DEF Private
  <2>3. \A v, u \in Threads : pc'[v].at \in {"freeing", "flushing"} => new'[u] # pc'[v].sa
    BY <1>1, <1>2, <1>3, <1>6, <1>t DEF Private
  <2>4. table' \cap freed' = {}
    BY <1>2, <1>t DEF Private
  <2> QED BY <2>1, <2>2, <2>3, <2>4 DEF Private
<1> QED BY <1>4, <1>5, <1>7 DEF IInv

\* checkin_and_destroy() of an IKE_SA that no entry and no other thread knows.
LEMMA DestroyNewKeeps ==
    ASSUME IInv, NEW t \in Thread, CheckinAndDestroyNew(t)
    PROVE  IInv'
<1>t. /\ TypeOK /\ Lock /\ Private /\ t \in Threads /\ None \notin Sa
  BY ManagerAssumption DEF IInv, Threads
<1>1. PICK sa \in created \ (table \cup freed) : sa = new[t]
  BY <1>t DEF Private, CheckinAndDestroyNew
<1>s. sa \in Sa /\ created \subseteq Sa
  BY <1>t DEF TypeOK
<1>n. \A v \in Threads : pc[v].at \in {"freeing", "flushing"} => pc[v].sa # None
  BY <1>s, <1>t DEF Lock, Placed
<1>2. /\ freed' = freed \cup {sa} /\ new' = [new EXCEPT ![t] = None]
      /\ UNCHANGED <<table, entry, created, pc, rng, newDriveout>>
  BY <1>1 DEF CheckinAndDestroyNew
<1>3. new' \in [Threads -> Sa \cup {None}] /\ new'[t] = None /\ \A u \in Threads \ {t} : new'[u] = new[u]
  BY <1>2, <1>t DEF TypeOK
<1>4. TypeOK'
  BY <1>1, <1>2, <1>3, <1>t DEF TypeOK
<1>5. ASSUME NEW u \in Threads
      PROVE  Placed(table', entry', freed', u, pc'[u].at, pc'[u].sa)
  <2>1. Placed(table, entry, freed, u, pc[u].at, pc[u].sa)
    BY <1>t DEF Lock
  <2>2. pc[u].at \in {"freeing", "flushing"} => pc[u].sa # sa
    BY <1>1, <1>t DEF Private
  <2> QED BY <2>1, <2>2, <1>1, <1>2 DEF Placed
<1>6. Lock'
  BY <1>2, <1>5 DEF Lock, Placed
<1>7. Private'
  <2>1. \A u \in Threads \ {t} : new[u] # sa
    BY <1>1, <1>s, <1>t DEF Private
  <2>2. \A u \in Threads : new'[u] # None => new'[u] \in created' \ (table' \cup freed')
    BY <2>1, <1>2, <1>3, <1>t DEF Private
  <2>3. \A u, v \in Threads : u # v /\ new'[u] # None => new'[u] # new'[v]
    BY <1>3, <1>t DEF Private
  <2>4. \A v, u \in Threads : pc'[v].at \in {"freeing", "flushing"} => new'[u] # pc'[v].sa
    BY <1>2, <1>3, <1>n, <1>t DEF Private
  <2>5. table' \cap freed' = {}
    BY <1>1, <1>2, <1>t DEF Private
  <2> QED BY <2>2, <2>3, <2>4, <2>5 DEF Private
<1> QED BY <1>4, <1>6, <1>7 DEF IInv

\* put_entry(): checkout_new(), and checkin() of an IKE_SA that is not there yet.
LEMMA PutEntryKeeps ==
    ASSUME IInv, NEW t \in Thread, CheckoutNew(t) \/ CheckinNew(t)
    PROVE  IInv'
<1>t. /\ TypeOK /\ Lock /\ Private /\ t \in Threads /\ None \notin Sa /\ t # Main
      /\ pc \in [Threads -> Pc]
  BY ManagerAssumption DEF IInv, Threads, TypeOK
<1>1. PICK sa \in created \ (table \cup freed) : sa = new[t]
  BY <1>t DEF Private, CheckoutNew, CheckinNew
<1>s. sa \in Sa /\ created \subseteq Sa /\ table \subseteq Sa
  BY <1>t DEF TypeOK
<1>2. PICK owner \in {t, None} : PutEntry(sa, owner)
  BY <1>1 DEF CheckoutNew, CheckinNew
<1>3. /\ new' = [new EXCEPT ![t] = None] /\ freed' = freed /\ created' = created
      /\ rng' = rng /\ newDriveout' = newDriveout
  BY DEF CheckoutNew, CheckinNew
<1>4. /\ table' = table \cup {sa} /\ entry' \in [Sa -> Entry] /\ entry'[sa].owner = owner
      /\ \A x \in Sa \ {sa} : entry'[x] = entry[x]
  <2> DEFINE e == [owner |-> owner, driveout |-> newDriveout, waiting |-> {}]
  <2>1. e \in Entry /\ e.owner = owner
    BY <1>t DEF Entry, TypeOK
  <2>2. table' = table \cup {sa} /\ entry' = [entry EXCEPT ![sa] = e]
    BY <1>2 DEF PutEntry
  <2> HIDE DEF e
  <2> QED BY <2>1, <2>2, <1>s, <1>t, EntryChange
<1>5. \A u \in Threads : Placed(table', entry', freed', u, pc[u].at, pc[u].sa)
  <2> SUFFICES ASSUME NEW u \in Threads
               PROVE  Placed(table', entry', freed', u, pc[u].at, pc[u].sa)
    OBVIOUS
  <2>1. Placed(table, entry, freed, u, pc[u].at, pc[u].sa)
    BY <1>t DEF Lock
  <2>2. pc[u].at = "freeing" => pc[u].sa # sa
    BY <1>1, <1>t DEF Private
  <2> QED BY <2>1, <2>2, <1>1, <1>3, <1>4, <1>s DEF Placed
<1>6. new' \in [Threads -> Sa \cup {None}] /\ new'[t] = None /\ \A u \in Threads \ {t} : new'[u] = new[u]
  BY <1>3, <1>t DEF TypeOK
<1>7. /\ Lock' /\ pc' \in [Threads -> Pc]
      /\ \A v \in Threads : pc'[v].at \in {"freeing", "flushing"} =>
            pc[v].at = pc'[v].at /\ pc[v].sa = pc'[v].sa
  <2>1. CASE CheckoutNew(t)
    <3>1. pc' = [pc EXCEPT ![t] = At("using", sa)] /\ entry'[sa].owner = t
      BY <2>1, <1>1, <1>t, <1>s DEF CheckoutNew, PutEntry, TypeOK
    <3>2. Moves(t, "using", sa)
      BY <3>1, <1>s, <1>t, MoveTo DEF Place
    <3>3. Placed(table', entry', freed', t, "using", sa)
      BY <3>1, <1>4, <1>t DEF Placed
    <3>4. Lock'
      BY <3>2, <3>3, <1>3, <1>5, <1>t, LockAfterMove
    <3> QED BY <3>2, <3>4 DEF Moves
  <2>2. CASE CheckinNew(t)
    BY <2>2, <1>3, <1>5, <1>t DEF CheckinNew, Lock, Placed
  <2> QED BY <2>1, <2>2
<1>8. TypeOK'
  BY <1>1, <1>3, <1>4, <1>6, <1>7, <1>t DEF TypeOK
<1>9. Private'
  <2>1. \A u \in Threads : new'[u] # None => new'[u] \in created' \ (table' \cup freed')
    BY <1>1, <1>3, <1>4, <1>6, <1>t DEF Private
  <2>2. \A u, v \in Threads : u # v /\ new'[u] # None => new'[u] # new'[v]
    BY <1>6, <1>t DEF Private
  <2>3. \A v \in Threads : pc[v].at \in {"freeing", "flushing"} => pc[v].sa \in Sa
    BY <1>s, <1>t DEF Lock, Placed
  <2>4. \A v, u \in Threads : pc'[v].at \in {"freeing", "flushing"} => new'[u] # pc'[v].sa
    BY <2>3, <1>6, <1>7, <1>t DEF Private
  <2>5. table' \cap freed' = {}
    BY <1>1, <1>3, <1>4, <1>t DEF Private
  <2> QED BY <2>1, <2>2, <2>4, <2>5 DEF Private
<1> QED BY <1>7, <1>8, <1>9 DEF IInv

\* flush() marks the entries and keeps the mutex.
LEMMA FlushKeeps ==
    ASSUME IInv, Flush
    PROVE  IInv'
<1>t. /\ TypeOK /\ Main \in Threads /\ pc \in [Threads -> Pc] /\ pc[Main] = Idle
      /\ entry \in [Sa -> Entry] /\ UNCHANGED <<table, freed, created, new>>
  BY DEF IInv, TypeOK, Threads, Flush
<1>1. \A x \in Sa : /\ [entry[x] EXCEPT !.driveout = TRUE] \in Entry
                    /\ [entry[x] EXCEPT !.driveout = TRUE].owner = entry[x].owner
                    /\ [entry[x] EXCEPT !.driveout = TRUE].waiting = entry[x].waiting
  BY <1>t DEF Entry
<1>2. SameOwners
  BY <1>1, <1>t DEF Flush, SameOwners
<1>3. Moves(Main, "flush", None)
  <2>1. Idle \in Pc /\ Idle.sa = None
    BY AtType DEF Idle, Place
  <2>2. [Idle EXCEPT !.at = "flush"] \in Pc /\ [Idle EXCEPT !.at = "flush"].at = "flush"
        /\ [Idle EXCEPT !.at = "flush"].sa = None
    BY <2>1 DEF Idle, At, Pc, Place
  <2>3. pc' = [pc EXCEPT ![Main] = [Idle EXCEPT !.at = "flush"]]
    BY <1>t DEF Flush
  <2> QED BY <2>2, <2>3, <1>t DEF Moves
<1>4. Placed(table, entry', freed, Main, "flush", None)
  BY DEF Placed
<1>5. rng' \in BOOLEAN /\ newDriveout' \in BOOLEAN
  BY DEF Flush
<1>6. /\ entry' \in [Sa -> Entry]
      /\ \A x \in Sa : /\ entry'[x].owner = entry[x].owner \/ entry[x].owner \in {None, Main}
                       /\ entry[x].waiting \ {Main} \subseteq entry'[x].waiting
  BY <1>2 DEF SameOwners
<1> QED BY <1>3, <1>4, <1>5, <1>6, <1>t, MoveKeeps

\* flush() sleeps in the condvar of an entry, or destroys one that no worker waits
\* for and none has.
LEMMA FlushEntryKeeps ==
    ASSUME IInv, NEW sa \in created, FlushEntry(sa), \A u \in Threads : new[u] # sa,
           pc[Main].at \in {"flush", "flushing"}
    PROVE  IInv'
<1>t. /\ TypeOK /\ Lock /\ Private /\ Main \in Threads /\ pc \in [Threads -> Pc]
      /\ sa \in Sa /\ entry \in [Sa -> Entry]
      /\ UNCHANGED <<entry, created, new, rng, newDriveout>>
      /\ rng' \in BOOLEAN /\ newDriveout' \in BOOLEAN
  BY DEF IInv, TypeOK, Threads, FlushEntry
<1>n. None \notin Threads
  BY ManagerAssumption DEF Threads
<1>1. CASE /\ pc' = [Broadcast(pc, sa) EXCEPT ![Main] = At("flushing", sa)]
           /\ UNCHANGED <<table, freed>>
  <2>1. Moves(Main, "flushing", sa)
    BY <1>1, <1>t, MoveTo DEF Place
  <2>2. Placed(table, entry', freed, Main, "flushing", sa)
    BY DEF Placed
  <2>3. entry' \in [Sa -> Entry] /\ \A x \in Sa : entry'[x] = entry[x]
    BY <1>t
  <2> QED BY <2>1, <2>2, <2>3, <1>1, <1>t, MoveKeeps
<1>2. CASE /\ entry[sa].waiting = {} /\ entry[sa].owner = None
           /\ pc' = [pc EXCEPT ![Main] = At("flush", None)]
           /\ table' = table \ {sa} /\ freed' = freed \cup {sa}
  <2>1. Moves(Main, "flush", None)
    BY <1>2, <1>t, MoveTo DEF Place
  <2>2. TypeOK'
    BY <2>1, <1>2, <1>t DEF TypeOK, Moves
  <2>3. ASSUME NEW u \in Threads \ {Main}
        PROVE  Placed(table', entry', freed', u, pc[u].at, pc[u].sa)
    <3>1. Placed(table, entry, freed, u, pc[u].at, pc[u].sa) /\ u # None
      BY <1>t, <1>n DEF Lock
    <3>2. entry' = entry
      BY <1>t
    <3> QED BY <3>1, <3>2, <1>2 DEF Placed
  <2>4. Placed(table', entry', freed', Main, "flush", None)
    BY DEF Placed
  <2>5. Lock'
    <3>1. created' = created
      BY <1>t
    <3> QED BY <3>1, <2>1, <2>3, <2>4, <1>t, LockAfterMove
  <2>6. \A v \in Threads : pc'[v].at \in {"freeing", "flushing"} =>
           pc[v].at = pc'[v].at /\ pc[v].sa = pc'[v].sa
    BY <2>1 DEF Moves
  <2>7. Private'
    BY <2>6, <1>2, <1>t DEF Private
  <2> QED BY <2>2, <2>5, <2>7 DEF IInv
<1> QED BY <1>1, <1>2 DEF FlushEntry

\* A step that only moves Main, to a place at no entry, or wakes a thread or puts
\* it back to sleep.
LEMMA OnlyMoves ==
    ASSUME IInv, NEW t \in Threads, NEW at, NEW s, Moves(t, at, s),
           UNCHANGED <<table, entry, freed, created, new, rng, newDriveout>>,
           \/ at = pc[t].at /\ s = pc[t].sa
           \/ t = Main /\ at \in {"flushed", "undefined"}
    PROVE  IInv'
<1>t. TypeOK /\ Lock /\ Private /\ entry' \in [Sa -> Entry] /\ rng' \in BOOLEAN /\ newDriveout' \in BOOLEAN
  BY DEF IInv, TypeOK
<1>1. Placed(table, entry', freed, t, at, s)
  <2>1. entry' = entry
    OBVIOUS
  <2> QED BY <2>1, <1>t DEF Lock, Placed
<1>2. at \in {"freeing", "flushing"} => \A u \in Threads : new[u] # s
  BY <1>t DEF Private
<1> QED BY <1>1, <1>2, <1>t, MoveKeeps

\* flush() goes on to an entry, or it is done.
LEMMA FlushNextKeeps ==
    ASSUME IInv, FlushNext
    PROVE  IInv'
<1>t. TypeOK /\ Private /\ Main \in Threads /\ pc \in [Threads -> Pc]
  BY DEF IInv, TypeOK, Threads
<1>1. ASSUME NEW sa \in table, FlushEntry(sa) PROVE IInv'
  <2>1. sa \in created /\ \A u \in Threads : new[u] # sa
    BY ManagerAssumption, <1>t DEF TypeOK, Private
  <2> QED BY <2>1, <1>1, FlushEntryKeeps DEF FlushNext
<1>2. CASE /\ pc' = [pc EXCEPT ![Main] = At("flushed", None)]
           /\ UNCHANGED <<table, entry, freed, created, new, rng, newDriveout>>
  <2>1. Moves(Main, "flushed", None)
    BY <1>2, <1>t, MoveTo DEF Place
  <2> QED BY <2>1, <1>2, <1>t, OnlyMoves
<1> QED BY <1>1, <1>2 DEF FlushNext

\* A thread is woken or goes back to sleep: it stays where it is.
LEMMA WokenMoves ==
    ASSUME TypeOK, NEW t \in Threads, NEW b \in BOOLEAN, pc' = [pc EXCEPT ![t].woken = b]
    PROVE  Moves(t, pc[t].at, pc[t].sa)
<1>1. pc \in [Threads -> Pc] /\ pc[t] \in Pc
  BY DEF TypeOK
<1>2. /\ [pc[t] EXCEPT !.woken = b] \in Pc /\ [pc[t] EXCEPT !.woken = b].at = pc[t].at
      /\ [pc[t] EXCEPT !.woken = b].sa = pc[t].sa
  BY <1>1 DEF Pc
<1> QED BY <1>1, <1>2 DEF Moves

\* flush() goes on after a wait, even if the entry is gone.
LEMMA ResumeFlushKeeps ==
    ASSUME IInv, ResumeFlush
    PROVE  IInv'
<1>t. /\ TypeOK /\ Private /\ Lock /\ Main \in Threads /\ pc \in [Threads -> Pc]
      /\ pc[Main].at = "flushing" /\ Placed(table, entry, freed, Main, pc[Main].at, pc[Main].sa)
  BY DEF IInv, TypeOK, Threads, ResumeFlush, Lock
<1>1. CASE FlushEntry(pc[Main].sa)
  <2>1. pc[Main].sa \in created /\ \A u \in Threads : new[u] # pc[Main].sa
    BY <1>t DEF Private, Placed
  <2> QED BY <2>1, <1>1, <1>t, FlushEntryKeeps
<1>2. CASE /\ pc' = [pc EXCEPT ![Main] = At("undefined", None)]
           /\ UNCHANGED <<table, entry, freed, created, new, rng, newDriveout>>
  <2>1. Moves(Main, "undefined", None)
    BY <1>2, <1>t, MoveTo DEF Place
  <2> QED BY <2>1, <1>2, <1>t, OnlyMoves
<1>3. CASE /\ pc' = [pc EXCEPT ![Main].woken = FALSE]
           /\ UNCHANGED <<table, entry, freed, created, new, rng, newDriveout>>
  <2>1. Moves(Main, pc[Main].at, pc[Main].sa)
    BY <1>3, <1>t, WokenMoves
  <2> QED BY <2>1, <1>3, <1>t, OnlyMoves
<1> QED BY <1>1, <1>2, <1>3 DEF ResumeFlush

\* A wakeup for no reason changes nothing else.
LEMMA SpuriousKeeps ==
    ASSUME IInv, NEW t \in Threads, Spurious(t)
    PROVE  IInv'
<1>1. TypeOK
  BY DEF IInv
<1>2. Moves(t, pc[t].at, pc[t].sa)
  BY <1>1, WokenMoves DEF Spurious
<1> QED BY <1>2, OnlyMoves DEF Spurious

\* The manager's destroy() finds no worker at an entry.
LEMMA DestroyKeeps ==
    ASSUME IInv, Destroy
    PROVE  IInv'
<1>t. /\ TypeOK /\ Private /\ Main \in Threads /\ pc \in [Threads -> Pc]
      /\ UNCHANGED <<entry, created, new, rng, newDriveout>>
      /\ table' = {} /\ freed' = freed \cup table
      /\ pc' = [pc EXCEPT ![Main] = At("destroyed", None)]
      /\ \A t \in Thread : pc[t] = Idle
  BY DEF IInv, TypeOK, Threads, Destroy
<1>1. Moves(Main, "destroyed", None)
  BY <1>t, MoveTo DEF Place
<1>2. \A u \in Threads \ {Main} : pc[u].at = "idle"
  BY <1>t DEF Threads, Idle, At
<1>3. TypeOK'
  BY <1>1, <1>t DEF TypeOK, Moves
<1>4. Lock'
  <2>1. \A u \in Threads \ {Main} : Placed(table', entry', freed', u, pc[u].at, pc[u].sa)
    BY <1>2 DEF Placed
  <2>2. Placed(table', entry', freed', Main, "destroyed", None)
    BY DEF Placed
  <2>3. created' = created
    BY <1>t
  <2> QED BY <2>1, <2>2, <2>3, <1>1, <1>t, LockAfterMove
<1>5. \A v \in Threads : pc'[v].at \notin {"freeing", "flushing"}
  BY <1>1, <1>2 DEF Moves
<1>6. Private'
  BY <1>5, <1>t DEF Private
<1> QED BY <1>3, <1>4, <1>6 DEF IInv

\* Every step keeps the invariant.
LEMMA StepKeeps ==
    ASSUME IInv, [Next]_vars
    PROVE  IInv'
<1>1. ASSUME NEW t \in Thread,
             CreateNew(t) \/ CheckoutNew(t) \/ CheckinNew(t) \/ CheckinAndDestroyNew(t)
      PROVE  IInv'
  BY <1>1, CreateNewKeeps, PutEntryKeeps, DestroyNewKeeps
<1>2. ASSUME NEW t \in Thread, NEW sa \in Sa, Checkout(t, sa) PROVE IInv'
  BY <1>2, CheckoutKeeps
<1>3. ASSUME NEW t \in Thread, Resume(t) PROVE IInv'
  BY <1>3, ResumeKeeps
<1>4. ASSUME NEW t \in Thread, Checkin(t) PROVE IInv'
  <2>1. t \in Threads /\ pc \in [Threads -> Pc]
    BY DEF IInv, TypeOK, Threads
  <2>2. Moves(t, "idle", None)
    BY <2>1, <1>4, LeaveMoves DEF Checkin
  <2> QED BY <2>2, <1>4, CheckinKeeps DEF Checkin
<1>5. ASSUME NEW t \in Thread, CheckinAndDestroy(t) \/ ResumeDestroy(t) \/ Free(t) PROVE IInv'
  BY <1>5, CheckinAndDestroyKeeps, ResumeDestroyKeeps, FreeKeeps
<1>6. CASE Flush \/ FlushNext \/ ResumeFlush \/ Destroy
  BY <1>6, FlushKeeps, FlushNextKeeps, ResumeFlushKeeps, DestroyKeeps
<1>7. ASSUME NEW t \in Threads, Spurious(t) PROVE IInv'
  BY <1>7, SpuriousKeeps
<1>8. CASE UNCHANGED vars
  <2>1. UNCHANGED <<table, entry, freed, created, pc, new, rng, newDriveout>>
    BY <1>8 DEF vars
  <2>2. TypeOK' /\ Lock' /\ Private'
    BY <2>1 DEF IInv, TypeOK, Lock, Placed, Private
  <2> QED BY <2>2 DEF IInv
<1> QED BY <1>1, <1>2, <1>3, <1>4, <1>5, <1>6, <1>7, <1>8 DEF Next

\* It holds when the manager is created.
LEMMA InitHolds == Init => IInv
<1> SUFFICES ASSUME Init PROVE IInv
  OBVIOUS
<1>1. Idle \in Pc /\ Idle.at = "idle" /\ Idle.sa = None
  BY AtType DEF Idle, Place
<1>2. \A t \in Threads : pc[t] = Idle /\ new[t] = None
  BY DEF Init
<1>3. TypeOK
  <2>1. [owner |-> None, driveout |-> FALSE, waiting |-> {}] \in Entry
    BY DEF Entry
  <2> QED BY <1>1, <2>1 DEF Init, TypeOK
<1>4. Lock
  BY <1>1, <1>2 DEF Lock, Placed
<1>5. Private
  BY <1>1, <1>2 DEF Private, Init
<1> QED BY <1>3, <1>4, <1>5 DEF IInv
-----------------------------------------------------------------------------
(* The theorems *)

\* The invariant: every thread is where its entry says it is, and an IKE_SA that
\* is not in the table yet belongs to one thread.
THEOREM Invariance == Spec => []IInv
<1>1. IInv /\ [Next]_vars => IInv'
  BY StepKeeps
<1> QED BY InitHolds, <1>1, PTL DEF Spec

\* An IKE_SA that is checked out is used by one thread, is in the table and is
\* not freed (checkout() to checkin() or checkin_and_destroy()).
THEOREM UsersAreAlone == Spec => []Exclusive
<1>1. IInv => Exclusive
  <2> SUFFICES ASSUME IInv PROVE Exclusive
    OBVIOUS
  <2>1. ASSUME NEW t \in Threads, pc[t].at \in {"using", "destroying"}
        PROVE  pc[t].sa \in table \ freed /\ entry[pc[t].sa].owner = t
    <3>1. pc[t].sa \in table /\ entry[pc[t].sa].owner = t
      BY <2>1 DEF IInv, Lock, Placed
    <3>2. table \cap freed = {}
      BY DEF IInv, Private
    <3> QED BY <3>1, <3>2
  <2> QED BY <2>1 DEF Exclusive
<1> QED BY Invariance, <1>1, PTL

\* wait_for_entry() never wakes up in a freed entry, and entry_destroy() is
\* called once for an entry.
THEOREM WaitersFindTheirEntry == Spec => []WaitersSafe
<1>1. IInv => WaitersSafe
  <2> SUFFICES ASSUME IInv PROVE WaitersSafe
    OBVIOUS
  <2>1. Lock /\ table \cap freed = {}
    BY DEF IInv, Private
  <2>2. \A t \in Thread : pc[t].at = "waiting" => pc[t].sa \in table \ freed
    BY <2>1 DEF Lock, Placed, Threads
  <2>3. \A t \in Threads : pc[t].at = "freeing" =>
           pc[t].sa \notin table \cup freed /\ entry[pc[t].sa].owner = t
    BY <2>1 DEF Lock, Placed
  <2> QED BY <2>2, <2>3 DEF WaitersSafe
<1> QED BY Invariance, <1>1, PTL
-----------------------------------------------------------------------------
(* No lost wakeup *)

\* Place p is in the condvar of entry sa.
Sleeps(p, sa) == p.at \in {"waiting", "destroying", "flushing"} /\ p.sa = sa

\* If threads are in the condvar of the entry, one of them was woken.
AwakeAt(f, sa) ==
    (\E u \in Threads : Sleeps(f[u], sa)) => \E t \in Threads : Sleeps(f[t], sa) /\ f[t].woken

Awake == \A sa \in table : entry[sa].owner = None => AwakeAt(pc, sa)

\* A step of t at entry sa does not touch the threads at other entries.
Elsewhere(t, sa) == \A u \in Threads \ {t} : pc[u].sa # sa => pc'[u] = pc[u]

\* A step that takes t to a place changes waiting_threads for t alone, and no
\* owner but that of entry sa.
Counted(t, at, s, sa) ==
    /\ table' \subseteq table
    /\ \A x \in table' : /\ entry'[x].waiting \subseteq entry[x].waiting \cup {t}
                         /\ t \in entry'[x].waiting => at = "waiting" /\ s = x
                         /\ x # sa => entry'[x].owner = entry[x].owner

\* What one thread does at one entry wakes enough of the others: then somebody has
\* the entry, it is awake or gone, and nothing changes elsewhere.
LEMMA MoveWakes ==
    ASSUME Waiters, Awake, NEW t \in Threads, NEW at, NEW s, NEW sa,
           Moves(t, at, s), Elsewhere(t, sa), Counted(t, at, s, sa),
           Sleeps(pc[t], pc[t].sa) => pc[t].sa = sa,
           at \in {"waiting", "destroying", "flushing"} => s = sa,
           sa \in table' => entry'[sa].owner # None \/ AwakeAt(pc', sa)
    PROVE  Waiters' /\ Awake'
<1>1. Waiters'
  BY DEF Waiters, Moves, Counted
<1>2. ASSUME NEW x \in table', x # sa, entry'[x].owner = None
      PROVE  AwakeAt(pc', x)
  <2>1. AwakeAt(pc, x)
    BY <1>2 DEF Awake, Counted
  <2>2. ASSUME NEW u \in Threads, Sleeps(pc[u], x) \/ Sleeps(pc'[u], x)
        PROVE  pc'[u] = pc[u]
    <3>1. u # t
      BY <2>2, <1>2 DEF Sleeps, Moves
    <3>2. pc[u].sa = x
      BY <2>2, <3>1 DEF Sleeps, Moves
    <3> QED BY <3>1, <3>2, <1>2 DEF Elsewhere
  <2> QED BY <2>1, <2>2 DEF AwakeAt
<1>3. ASSUME NEW x \in table', x = sa, entry'[x].owner = None
      PROVE  AwakeAt(pc', x)
  BY <1>3
<1>4. Awake'
  <2>1. \A x \in table' : entry'[x].owner = None => AwakeAt(pc', x)
    BY <1>2, <1>3
  <2> QED BY <2>1 DEF Awake, AwakeAt, Sleeps
<1> QED BY <1>1, <1>4

\* A thread becomes idle and signals: one of those in the condvar wakes up.
LEMMA LeaveWakes ==
    ASSUME pc \in [Threads -> Pc], NEW t \in Threads, NEW sa \in Sa,
           pc' \in Signal([pc EXCEPT ![t] = Idle], sa)
    PROVE  AwakeAt(pc', sa) /\ Elsewhere(t, sa)
<1> DEFINE f == [pc EXCEPT ![t] = Idle]
<1>1. Idle \in Pc
  BY AtType DEF Idle, Place
<1>2. f \in [Threads -> Pc] /\ \A u \in Threads \ {t} : f[u] = pc[u]
  BY <1>1
<1>s. pc' \in Signal(f, sa)
  OBVIOUS
<1> HIDE DEF f
<1>3. CASE Blocked(f, sa) = {}
  <2>1. pc' = f
    BY <1>3, <1>s DEF Signal
  <2>2. \A u \in Threads : Sleeps(f[u], sa) => f[u].woken
    BY <1>3 DEF Blocked, Sleeps
  <2> QED BY <2>1, <2>2, <1>2 DEF AwakeAt, Elsewhere
<1>4. CASE Blocked(f, sa) # {}
  <2>1. PICK u \in Blocked(f, sa) : pc' = [f EXCEPT ![u].woken = TRUE]
    BY <1>4, <1>s DEF Signal
  <2>2. u \in Threads /\ Sleeps(f[u], sa) /\ f[u] \in Pc
    BY <1>2 DEF Blocked, Sleeps
  <2>3. pc'[u] = [f[u] EXCEPT !.woken = TRUE] /\ \A v \in Threads \ {u} : pc'[v] = f[v]
    BY <2>1, <2>2, <1>2
  <2>4. pc'[u].woken = TRUE /\ Sleeps(pc'[u], sa)
    BY <2>2, <2>3 DEF Pc, Sleeps
  <2>5. AwakeAt(pc', sa)
    BY <2>2, <2>4 DEF AwakeAt
  <2>6. f[u].sa = sa
    BY <2>2 DEF Sleeps
  <2>7. Elsewhere(t, sa)
    <3> SUFFICES ASSUME NEW v \in Threads \ {t}, pc[v].sa # sa
                 PROVE  pc'[v] = pc[v]
      BY DEF Elsewhere
    <3>1. f[v] = pc[v] /\ v # u
      BY <2>6, <1>2
    <3> QED BY <3>1, <2>3
  <2> QED BY <2>5, <2>7
<1> QED BY <1>3, <1>4

\* broadcast() wakes everybody in the condvar of the entry, and nobody elsewhere.
LEMMA BroadcastWakes ==
    ASSUME pc \in [Threads -> Pc], NEW t \in Threads, NEW sa, NEW p,
           pc' = [Broadcast(pc, sa) EXCEPT ![t] = p]
    PROVE  /\ Elsewhere(t, sa)
           /\ \A u \in Threads \ {t} : Sleeps(pc[u], sa) => pc'[u].woken /\ Sleeps(pc'[u], sa)
<1>1. \A u \in Threads \ {t} : pc'[u] = Broadcast(pc, sa)[u]
  BY DEF Broadcast
<1>2. ASSUME NEW u \in Threads
      PROVE  /\ pc[u].sa # sa => Broadcast(pc, sa)[u] = pc[u]
             /\ Sleeps(pc[u], sa) => Broadcast(pc, sa)[u].woken /\ Sleeps(Broadcast(pc, sa)[u], sa)
  <2>0. pc[u] \in Pc
    OBVIOUS
  <2>1. CASE u \in Blocked(pc, sa)
    <3>1. Broadcast(pc, sa)[u] = [pc[u] EXCEPT !.woken = TRUE] /\ Sleeps(pc[u], sa)
      BY <2>1 DEF Broadcast, Blocked, Sleeps
    <3>2. [pc[u] EXCEPT !.woken = TRUE].woken = TRUE /\ Sleeps([pc[u] EXCEPT !.woken = TRUE], sa)
      BY <3>1, <2>0 DEF Pc, Sleeps
    <3> QED BY <3>1, <3>2 DEF Sleeps
  <2>2. CASE u \notin Blocked(pc, sa)
    <3>1. Broadcast(pc, sa)[u] = pc[u]
      BY <2>2 DEF Broadcast
    <3>2. Sleeps(pc[u], sa) => pc[u].woken
      BY <2>2 DEF Blocked, Sleeps
    <3> QED BY <3>1, <3>2
  <2> QED BY <2>1, <2>2
<1>3. Elsewhere(t, sa)
  BY <1>1, <1>2 DEF Elsewhere
<1> QED BY <1>1, <1>2, <1>3

\* checkout() takes the entry, or leaves it and signals the next.
LEMMA AcquireWakes ==
    ASSUME TypeOK, Waiters, Awake, NEW t \in Thread, NEW sa \in table,
           Sleeps(pc[t], pc[t].sa) => pc[t].sa = sa,
           pc[t].at = "waiting" \/ ~Sleeps(pc[t], pc[t].sa),
           Acquire(t, sa, entry[sa].waiting \ {t}), table' = table
    PROVE  Waiters' /\ Awake'
<1>t. /\ t \in Threads /\ t # None /\ sa \in Sa /\ table \subseteq Sa /\ pc \in [Threads -> Pc]
      /\ entry \in [Sa -> Entry] /\ entry[sa] \in Entry
  BY ManagerAssumption DEF TypeOK, Threads
<1>w. \A x \in table \ {sa} : t \notin entry[x].waiting
  BY DEF Waiters, Sleeps
<1>1. CASE /\ entry' = [entry EXCEPT ![sa].owner = t, ![sa].waiting = entry[sa].waiting \ {t}]
           /\ pc' = [pc EXCEPT ![t] = At("using", sa)]
  <2> DEFINE e == [entry[sa] EXCEPT !.owner = t, !.waiting = entry[sa].waiting \ {t}]
  <2>1. e.owner = t /\ e.waiting = entry[sa].waiting \ {t} /\ e \in Entry
    BY <1>t DEF Entry
  <2>2. entry' = [entry EXCEPT ![sa] = e]
    BY <1>1, <1>t DEF Entry
  <2> HIDE DEF e
  <2>3. entry'[sa] = e /\ \A x \in Sa \ {sa} : entry'[x] = entry[x]
    BY <2>1, <2>2, <1>t, EntryChange
  <2>4. Moves(t, "using", sa)
    BY <1>1, <1>t, MoveTo DEF Place
  <2>5. Elsewhere(t, sa)
    BY <1>1, <1>t DEF Elsewhere
  <2>6. Counted(t, "using", sa, sa)
    BY <2>1, <2>3, <1>t, <1>w DEF Counted
  <2>7. entry'[sa].owner # None
    BY <2>1, <2>3, <1>t
  <2> QED BY <2>4, <2>5, <2>6, <2>7, <1>t, MoveWakes
<1>2. CASE /\ entry' = [entry EXCEPT ![sa].waiting = entry[sa].waiting \ {t}]
           /\ pc' \in Signal([pc EXCEPT ![t] = Idle], sa)
  <2> DEFINE e == [entry[sa] EXCEPT !.waiting = entry[sa].waiting \ {t}]
  <2>1. e.waiting = entry[sa].waiting \ {t} /\ e \in Entry
    BY <1>t DEF Entry
  <2>2. entry' = [entry EXCEPT ![sa] = e]
    BY <1>2, <1>t DEF Entry
  <2> HIDE DEF e
  <2>3. entry'[sa] = e /\ \A x \in Sa \ {sa} : entry'[x] = entry[x]
    BY <2>1, <2>2, <1>t, EntryChange
  <2>4. Moves(t, "idle", None)
    BY <1>2, <1>t, LeaveMoves
  <2>5. Elsewhere(t, sa) /\ AwakeAt(pc', sa)
    BY <1>2, <1>t, LeaveWakes
  <2>6. Counted(t, "idle", None, sa)
    BY <2>1, <2>3, <1>t, <1>w DEF Counted
  <2> QED BY <2>4, <2>5, <2>6, <1>t, MoveWakes
<1> QED BY <1>1, <1>2 DEF Acquire

\* checkout() and its variants: a thread waits only for an entry somebody has.
LEMMA CheckoutWakes ==
    ASSUME TypeOK, Waiters, Awake, NEW t \in Thread, NEW sa \in Sa, Checkout(t, sa)
    PROVE  Waiters' /\ Awake'
<1>t. /\ t \in Threads /\ pc \in [Threads -> Pc] /\ pc[t].at = "idle"
      /\ entry[sa] \in Entry /\ sa \in table /\ table' = table /\ table \subseteq Sa
  BY AtType DEF TypeOK, Threads, Checkout, Idle, Place
<1>w. \A x \in table : t \notin entry[x].waiting
  BY <1>t DEF Waiters
<1>i. ~Sleeps(pc[t], pc[t].sa)
  BY <1>t DEF Sleeps
<1>1. CASE entry[sa].owner = None
  <2>1. entry[sa].waiting = entry[sa].waiting \ {t}
    BY <1>t, <1>w
  <2>2. Acquire(t, sa, entry[sa].waiting \ {t})
    BY <1>1, <2>1 DEF Checkout
  <2> QED BY <2>2, <1>i, <1>t, AcquireWakes
<1>2. CASE entry[sa].owner # None
  <2> DEFINE e == [entry[sa] EXCEPT !.waiting = entry[sa].waiting \cup {t}]
  <2>1. e \in Entry /\ e.owner = entry[sa].owner /\ e.waiting = entry[sa].waiting \cup {t}
    BY <1>t DEF Entry
  <2>2. entry' = [entry EXCEPT ![sa] = e] /\ pc' = [pc EXCEPT ![t] = At("waiting", sa)]
    BY <1>2 DEF Checkout
  <2> HIDE DEF e
  <2>3. entry'[sa] = e /\ \A x \in Sa \ {sa} : entry'[x] = entry[x]
    BY <2>1, <2>2, <1>t, EntryChange
  <2>4. Moves(t, "waiting", sa)
    BY <2>2, <1>t, MoveTo DEF Place
  <2>5. Elsewhere(t, sa)
    BY <2>2, <1>t DEF Elsewhere
  <2>6. Counted(t, "waiting", sa, sa)
    BY <2>1, <2>3, <1>t, <1>w DEF Counted
  <2>7. entry'[sa].owner # None
    BY <2>1, <2>3, <1>2
  <2> QED BY <2>4, <2>5, <2>6, <2>7, <1>i, <1>t, MoveWakes
<1> QED BY <1>1, <1>2

\* A woken thread takes the entry, sleeps on because somebody has it, or leaves
\* it and signals the next.
LEMMA ResumeWakes ==
    ASSUME IInv, Waiters, Awake, NEW t \in Thread, Resume(t)
    PROVE  Waiters' /\ Awake'
<1>t. /\ TypeOK /\ t \in Threads /\ pc \in [Threads -> Pc] /\ pc[t].at = "waiting"
      /\ Placed(table, entry, freed, t, pc[t].at, pc[t].sa) /\ table' = table
  BY DEF IInv, TypeOK, Threads, Resume, Lock
<1>1. PICK sa \in table : sa = pc[t].sa
  BY <1>t DEF Placed
<1>s. sa \in Sa /\ entry[sa] \in Entry /\ table \subseteq Sa
  BY <1>t DEF TypeOK
<1>w. \A x \in table \ {sa} : t \notin entry[x].waiting
  BY <1>1 DEF Waiters
<1>2. CASE entry[sa].owner # None /\ pc' = [pc EXCEPT ![t].woken = FALSE] /\ entry' = entry
  <2>1. Moves(t, "waiting", sa)
    BY <1>1, <1>2, <1>t, WokenMoves
  <2>2. Elsewhere(t, sa)
    BY <1>2, <1>t DEF Elsewhere
  <2>3. Counted(t, "waiting", sa, sa)
    BY <1>2, <1>t, <1>w DEF Counted
  <2> QED BY <2>1, <2>2, <2>3, <1>1, <1>2, <1>t, MoveWakes
<1>3. CASE /\ entry' = [entry EXCEPT ![sa].waiting = @ \ {t}]
           /\ pc' \in Signal([pc EXCEPT ![t] = Idle], sa)
  BY <1>1, <1>3, <1>t, AcquireWakes DEF Acquire
<1>4. CASE Acquire(t, sa, entry[sa].waiting \ {t})
  BY <1>1, <1>4, <1>t, AcquireWakes
<1> QED BY <1>1, <1>2, <1>3, <1>4 DEF Resume

\* checkin(), and checkin_and_destroy() at shutdown: the owner leaves the entry
\* with one of those in its condvar awake.
LEMMA CheckinWakes ==
    ASSUME IInv, Waiters, Awake, NEW t \in Thread, pc[t].at = "using", table' = table,
           entry' = [entry EXCEPT ![pc[t].sa].owner = None], Moves(t, "idle", None),
           Elsewhere(t, pc[t].sa), AwakeAt(pc', pc[t].sa)
    PROVE  Waiters' /\ Awake'
<1>t. TypeOK /\ t \in Threads /\ Placed(table, entry, freed, t, pc[t].at, pc[t].sa)
  BY DEF IInv, Threads, Lock
<1>1. PICK sa \in table : sa = pc[t].sa
  BY <1>t DEF Placed
<1>s. sa \in Sa /\ entry[sa] \in Entry /\ table \subseteq Sa
  BY <1>t DEF TypeOK
<1> DEFINE e == [entry[sa] EXCEPT !.owner = None]
<1>2. e \in Entry /\ e.waiting = entry[sa].waiting
  BY <1>s DEF Entry
<1>3. entry' = [entry EXCEPT ![sa] = e]
  BY <1>1
<1> HIDE DEF e
<1>4. entry'[sa] = e /\ \A x \in Sa \ {sa} : entry'[x] = entry[x]
  BY <1>2, <1>3, <1>t, <1>s, EntryChange
<1>w. \A x \in table : t \notin entry[x].waiting
  BY DEF Waiters
<1>5. Counted(t, "idle", None, sa)
  BY <1>2, <1>4, <1>s, <1>w DEF Counted
<1>6. ~Sleeps(pc[t], pc[t].sa)
  BY DEF Sleeps
<1> QED BY <1>1, <1>5, <1>6, <1>t, MoveWakes

\* checkin_and_destroy() wakes everybody in the condvar and keeps the entry until
\* it is out of the table.
LEMMA DriveOutWakes ==
    ASSUME IInv, Waiters, Awake, NEW t \in Thread, NEW sa \in table, entry[sa].owner = t,
           pc[t].at \in {"using", "destroying"}, pc[t].sa = sa, SameOwners, DriveOut(t, sa)
    PROVE  Waiters' /\ Awake'
<1>t. /\ TypeOK /\ t \in Threads /\ t # None /\ sa \in Sa /\ table \subseteq Sa
      /\ pc \in [Threads -> Pc]
  BY ManagerAssumption DEF IInv, TypeOK, Threads
<1>e. \A x \in Sa : entry'[x].owner = entry[x].owner /\ entry'[x].waiting = entry[x].waiting
  BY DEF SameOwners
<1>w. \A x \in table : t \notin entry[x].waiting
  BY DEF Waiters
<1>o. entry'[sa].owner # None
  BY <1>e, <1>t
<1>1. CASE pc' = [Broadcast(pc, sa) EXCEPT ![t] = At("destroying", sa)] /\ table' = table
  <2>1. Moves(t, "destroying", sa) /\ Elsewhere(t, sa)
    BY <1>1, <1>t, MoveTo, BroadcastWakes DEF Place
  <2>2. Counted(t, "destroying", sa, sa)
    BY <1>1, <1>e, <1>t, <1>w DEF Counted
  <2> QED BY <2>1, <2>2, <1>o, <1>t, MoveWakes
<1>2. CASE pc' = [pc EXCEPT ![t] = At("freeing", sa)] /\ table' = table \ {sa}
  <2>1. Moves(t, "freeing", sa)
    BY <1>2, <1>t, MoveTo DEF Place
  <2>2. Elsewhere(t, sa)
    BY <1>2, <1>t DEF Elsewhere
  <2>3. Counted(t, "freeing", sa, sa)
    BY <1>2, <1>e, <1>t, <1>w DEF Counted
  <2> QED BY <2>1, <2>2, <2>3, <1>o, <1>t, MoveWakes
<1> QED BY <1>1, <1>2 DEF DriveOut

\* checkin_and_destroy()
LEMMA CheckinAndDestroyWakes ==
    ASSUME IInv, Waiters, Awake, NEW t \in Thread, CheckinAndDestroy(t)
    PROVE  Waiters' /\ Awake'
<1>t. /\ TypeOK /\ t \in Threads /\ pc \in [Threads -> Pc] /\ pc[t].at = "using"
      /\ Placed(table, entry, freed, t, pc[t].at, pc[t].sa)
  BY DEF IInv, TypeOK, Threads, Lock, CheckinAndDestroy
<1>1. PICK sa \in table : sa = pc[t].sa /\ entry[sa].owner = t
  BY <1>t DEF Placed
<1>s. sa \in Sa /\ entry \in [Sa -> Entry] /\ entry[sa] \in Entry
  BY <1>t DEF TypeOK
<1>2. CASE entry[sa].driveout
  <2>1. /\ entry' = [entry EXCEPT ![sa].owner = None]
        /\ pc' = [Broadcast(pc, sa) EXCEPT ![t] = At("idle", None)] /\ table' = table
    BY <1>1, <1>2 DEF CheckinAndDestroy, Idle
  <2>2. Moves(t, "idle", None)
    BY <2>1, <1>t, MoveTo DEF Place
  <2>3. /\ Elsewhere(t, sa)
        /\ \A u \in Threads \ {t} : Sleeps(pc[u], sa) => pc'[u].woken /\ Sleeps(pc'[u], sa)
    BY <2>1, <1>t, BroadcastWakes
  <2>4. AwakeAt(pc', sa)
    <3>1. \A u \in Threads : Sleeps(pc'[u], sa) => u # t /\ Sleeps(pc[u], sa)
      BY <2>2 DEF Moves, Sleeps
    <3> QED BY <3>1, <2>3 DEF AwakeAt
  <2> QED BY <2>1, <2>2, <2>3, <2>4, <1>1, <1>t, CheckinWakes
<1>3. CASE ~entry[sa].driveout
  <2> DEFINE e == [entry[sa] EXCEPT !.driveout = TRUE]
  <2>1. e \in Entry /\ e.owner = entry[sa].owner /\ e.waiting = entry[sa].waiting
    BY <1>s DEF Entry
  <2>2. entry' = [entry EXCEPT ![sa] = e] /\ DriveOut(t, sa)
    BY <1>1, <1>3 DEF CheckinAndDestroy
  <2> HIDE DEF e
  <2>3. SameOwners
    BY <2>1, <2>2, <1>t, <1>s, EntryChange DEF SameOwners
  <2> QED BY <2>2, <2>3, <1>1, <1>t, DriveOutWakes
<1> QED BY <1>2, <1>3

\* A step at no entry of the table, and one after which nobody sleeps there.
LEMMA AwayWakes ==
    ASSUME TypeOK, Waiters, Awake, NEW t \in Threads, NEW at, NEW s, Moves(t, at, s), Elsewhere(t, None),
           Sleeps(pc[t], pc[t].sa) => pc[t].sa \notin table',
           at \in {"waiting", "destroying", "flushing"} => s \notin table',
           pc[t].at # "waiting", table' \subseteq table,
           \A x \in table' : entry'[x].owner = entry[x].owner /\ entry'[x].waiting = entry[x].waiting
    PROVE  Waiters' /\ Awake'
<1>w. \A x \in table : t \notin entry[x].waiting
  BY DEF Waiters
<1>1. Waiters'
  BY <1>w DEF Waiters, Moves
<1>2. ASSUME NEW x \in table', entry'[x].owner = None
      PROVE  AwakeAt(pc', x)
  <2>1. AwakeAt(pc, x)
    BY <1>2 DEF Awake
  <2>2. ASSUME NEW u \in Threads, Sleeps(pc[u], x) \/ Sleeps(pc'[u], x)
        PROVE  pc'[u] = pc[u]
    <3>1. u # t
      BY <2>2, <1>2 DEF Sleeps, Moves
    <3>2. pc[u].sa = x /\ x # None
      BY ManagerAssumption, <2>2, <3>1 DEF Sleeps, Moves, TypeOK
    <3> QED BY <3>1, <3>2 DEF Elsewhere
  <2> QED BY <2>1, <2>2 DEF AwakeAt
<1>3. Awake'
  BY <1>2 DEF Awake, AwakeAt, Sleeps
<1> QED BY <1>1, <1>3

\* entry_destroy(): the entry is not in the table.
LEMMA FreeWakes ==
    ASSUME IInv, Waiters, Awake, NEW t \in Thread, Free(t)
    PROVE  Waiters' /\ Awake'
<1>t. /\ TypeOK /\ t \in Threads /\ pc \in [Threads -> Pc] /\ pc[t].at = "freeing"
      /\ pc' = [pc EXCEPT ![t] = At("idle", None)] /\ table' = table /\ entry' = entry
  BY DEF IInv, TypeOK, Threads, Free, Idle
<1>1. Moves(t, "idle", None)
  BY <1>t, MoveTo DEF Place
<1>2. Elsewhere(t, None) /\ ~Sleeps(pc[t], pc[t].sa)
  BY <1>t DEF Elsewhere, Sleeps
<1> QED BY <1>1, <1>2, <1>t, AwayWakes

\* flush() marks the entries.
LEMMA FlushWakes ==
    ASSUME IInv, Waiters, Awake, Flush
    PROVE  Waiters' /\ Awake'
<1>t. /\ TypeOK /\ Main \in Threads /\ pc \in [Threads -> Pc] /\ pc[Main] = Idle
      /\ pc' = [pc EXCEPT ![Main].at = "flush"] /\ table' = table /\ table \subseteq Sa
      /\ entry \in [Sa -> Entry] /\ Idle \in Pc /\ Idle.at = "idle" /\ Idle.sa = None
  BY AtType DEF IInv, TypeOK, Threads, Flush, Idle, Place
<1>1. /\ [Idle EXCEPT !.at = "flush"] \in Pc /\ [Idle EXCEPT !.at = "flush"].at = "flush"
      /\ [Idle EXCEPT !.at = "flush"].sa = None
  BY <1>t DEF Idle, At, Pc, Place
<1>2. Moves(Main, "flush", None)
  BY <1>1, <1>t DEF Moves
<1>3. Elsewhere(Main, None) /\ ~Sleeps(pc[Main], pc[Main].sa)
  BY <1>t DEF Elsewhere, Sleeps
<1>4. \A x \in Sa : /\ [entry[x] EXCEPT !.driveout = TRUE].owner = entry[x].owner
                    /\ [entry[x] EXCEPT !.driveout = TRUE].waiting = entry[x].waiting
  BY <1>t DEF Entry
<1>5. \A x \in table' : entry'[x].owner = entry[x].owner /\ entry'[x].waiting = entry[x].waiting
  BY <1>4, <1>t DEF Flush
<1> QED BY <1>2, <1>3, <1>5, <1>t, AwayWakes

\* flush() sleeps behind a thread that has the entry, or behind one that it woke.
LEMMA FlushEntryWakes ==
    ASSUME IInv, Waiters, Awake, NEW sa \in created, FlushEntry(sa),
           pc[Main].at = "flush" \/ (pc[Main].at = "flushing" /\ pc[Main].sa = sa)
    PROVE  Waiters' /\ Awake'
<1>t. /\ TypeOK /\ Main \in Threads /\ pc \in [Threads -> Pc] /\ sa \in Sa /\ table \subseteq Sa
      /\ entry' = entry
  BY DEF IInv, TypeOK, Threads, FlushEntry
<1>w. \A x \in table : Main \notin entry[x].waiting
  BY DEF Waiters
<1>i. Sleeps(pc[Main], pc[Main].sa) => pc[Main].sa = sa
  BY DEF Sleeps
<1>1. CASE /\ entry[sa].waiting # {} \/ entry[sa].owner # None
           /\ pc' = [Broadcast(pc, sa) EXCEPT ![Main] = At("flushing", sa)] /\ table' = table
  <2>1. Moves(Main, "flushing", sa)
    BY <1>1, <1>t, MoveTo DEF Place
  <2>2. /\ Elsewhere(Main, sa)
        /\ \A u \in Threads \ {Main} : Sleeps(pc[u], sa) => pc'[u].woken /\ Sleeps(pc'[u], sa)
    BY <1>1, <1>t, BroadcastWakes
  <2>3. Counted(Main, "flushing", sa, sa)
    BY <1>1, <1>t, <1>w DEF Counted
  <2>4. ASSUME sa \in table, entry[sa].owner = None PROVE AwakeAt(pc', sa)
    <3>1. PICK u \in entry[sa].waiting : TRUE
      BY <2>4, <1>1
    <3>2. u \in Threads \ {Main} /\ Sleeps(pc[u], sa)
      BY <3>1, <2>4, <1>w DEF Waiters, Sleeps
    <3> QED BY <3>2, <2>2 DEF AwakeAt
  <2>5. sa \in table' => entry'[sa].owner # None \/ AwakeAt(pc', sa)
    BY <2>4, <1>1, <1>t
  <2> QED BY <2>1, <2>2, <2>3, <2>5, <1>i, <1>t, MoveWakes
<1>2. CASE pc' = [pc EXCEPT ![Main] = At("flush", None)] /\ table' = table \ {sa}
  <2>1. Moves(Main, "flush", None)
    BY <1>2, <1>t, MoveTo DEF Place
  <2>2. Elsewhere(Main, sa)
    BY <1>2, <1>t DEF Elsewhere
  <2>3. Counted(Main, "flush", None, sa)
    BY <1>2, <1>t, <1>w DEF Counted
  <2> QED BY <2>1, <2>2, <2>3, <1>i, <1>2, <1>t, MoveWakes
<1> QED BY <1>1, <1>2 DEF FlushEntry

\* flush() goes on to an entry, or it is done.
LEMMA FlushNextWakes ==
    ASSUME IInv, Waiters, Awake, FlushNext
    PROVE  Waiters' /\ Awake'
<1>t. TypeOK /\ Main \in Threads /\ pc \in [Threads -> Pc] /\ pc[Main].at = "flush" /\ table \subseteq created
  BY DEF IInv, TypeOK, Threads, FlushNext
<1>1. ASSUME NEW sa \in table, FlushEntry(sa) PROVE Waiters' /\ Awake'
  <2>1. sa \in created
    BY <1>t
  <2>2. pc[Main].at = "flush" \/ (pc[Main].at = "flushing" /\ pc[Main].sa = sa)
    BY <1>t
  <2>3. FlushEntry(sa)
    BY <1>1
  <2> QED BY <2>1, <2>2, <2>3, FlushEntryWakes
<1>2. CASE pc' = [pc EXCEPT ![Main] = At("flushed", None)] /\ table' = table /\ entry' = entry
  <2>1. Moves(Main, "flushed", None)
    BY <1>2, <1>t, MoveTo DEF Place
  <2>2. Elsewhere(Main, None) /\ ~Sleeps(pc[Main], pc[Main].sa)
    BY <1>2, <1>t DEF Elsewhere, Sleeps
  <2> QED BY <2>1, <2>2, <1>2, <1>t, AwayWakes
<1> QED BY <1>1, <1>2 DEF FlushNext

\* flush() goes on after a wait; an entry that was freed is not in the table.
LEMMA ResumeFlushWakes ==
    ASSUME IInv, Waiters, Awake, ResumeFlush
    PROVE  Waiters' /\ Awake'
<1>t. /\ TypeOK /\ Main \in Threads /\ pc \in [Threads -> Pc] /\ pc[Main].at = "flushing"
      /\ Placed(table, entry, freed, Main, pc[Main].at, pc[Main].sa) /\ table \cap freed = {}
  BY DEF IInv, TypeOK, Threads, ResumeFlush, Lock, Private
<1>1. CASE FlushEntry(pc[Main].sa)
  <2>1. pc[Main].sa \in created
    BY <1>t DEF Placed
  <2> QED BY <2>1, <1>1, <1>t, FlushEntryWakes
<1>2. CASE /\ pc[Main].sa \in freed /\ table' = table /\ entry' = entry
           /\ pc' \in {[pc EXCEPT ![Main] = At("undefined", None)], [pc EXCEPT ![Main].woken = FALSE]}
  <2>1. Moves(Main, "undefined", None) \/ Moves(Main, "flushing", pc[Main].sa)
    BY <1>2, <1>t, MoveTo, WokenMoves DEF Place
  <2>2. Elsewhere(Main, None) /\ pc[Main].sa \notin table'
    BY <1>2, <1>t DEF Elsewhere
  <2> QED BY <2>1, <2>2, <1>2, <1>t, AwayWakes
<1> QED BY <1>1, <1>2 DEF ResumeFlush

\* A wakeup for no reason takes nobody's wakeup away.
LEMMA SpuriousWakes ==
    ASSUME IInv, Waiters, Awake, NEW t \in Threads, Spurious(t)
    PROVE  Waiters' /\ Awake'
<1>t. /\ TypeOK /\ pc \in [Threads -> Pc] /\ pc[t] \in Pc /\ table' = table /\ entry' = entry
      /\ pc' = [pc EXCEPT ![t].woken = TRUE]
  BY DEF IInv, TypeOK, Spurious
<1>1. PICK sa \in Sa : t \in Blocked(pc, sa)
  BY DEF Spurious
<1>2. Sleeps(pc[t], sa) /\ pc[t].sa = sa
  BY <1>1 DEF Blocked, Sleeps
<1>3. Moves(t, pc[t].at, sa)
  BY <1>2, <1>t, WokenMoves
<1>4. Elsewhere(t, sa)
  BY <1>t DEF Elsewhere
<1>5. Counted(t, pc[t].at, sa, sa)
  BY <1>2, <1>t DEF Counted, Waiters
<1>6. AwakeAt(pc', sa)
  <2>1. pc'[t] = [pc[t] EXCEPT !.woken = TRUE]
    BY <1>t
  <2>2. pc'[t].woken = TRUE /\ Sleeps(pc'[t], sa)
    BY <2>1, <1>2, <1>t DEF Pc, Sleeps
  <2> QED BY <2>2 DEF AwakeAt
<1> QED BY <1>2, <1>3, <1>4, <1>5, <1>6, MoveWakes

\* put_entry(): nobody sleeps in the condvar of a new entry.
LEMMA PutEntryWakes ==
    ASSUME IInv, Waiters, Awake, NEW t \in Thread, CheckoutNew(t) \/ CheckinNew(t)
    PROVE  Waiters' /\ Awake'
<1>t. /\ TypeOK /\ Lock /\ Private /\ t \in Threads /\ t # None /\ None \notin Sa
      /\ pc \in [Threads -> Pc]
  BY ManagerAssumption DEF IInv, Threads, TypeOK
<1>1. PICK sa \in created \ (table \cup freed) : sa = new[t]
  BY <1>t DEF Private, CheckoutNew, CheckinNew
<1>s. sa \in Sa /\ table \subseteq Sa
  BY <1>t DEF TypeOK
<1>2. PICK owner \in {t, None} : PutEntry(sa, owner)
  BY <1>1 DEF CheckoutNew, CheckinNew
<1>3. /\ table' = table \cup {sa} /\ entry'[sa].waiting = {}
      /\ \A x \in Sa \ {sa} : entry'[x] = entry[x]
  BY <1>2, <1>s, <1>t DEF PutEntry, TypeOK
<1>4. \A u \in Threads : ~Sleeps(pc[u], sa)
  <2> SUFFICES ASSUME NEW u \in Threads, Sleeps(pc[u], sa)
               PROVE  FALSE
    OBVIOUS
  <2>1. Placed(table, entry, freed, u, pc[u].at, sa) /\ pc[u].sa = sa
    BY <1>t DEF Lock, Sleeps
  <2>2. pc[u].at = "flushing"
    BY <2>1, <1>1 DEF Placed, Sleeps
  <2> QED BY <2>1, <2>2, <1>1, <1>t DEF Private
<1>5. \/ pc' = pc
      \/ pc[t].at = "idle" /\ pc' = [pc EXCEPT ![t] = At("using", sa)]
  BY <1>1 DEF CheckoutNew, CheckinNew
<1>w. \A x \in table : \A u \in entry[x].waiting : u \in Threads /\ pc'[u] = pc[u]
  BY <1>5, <1>t DEF Waiters
<1>6. \A u \in Threads, x \in Sa : Sleeps(pc[u], x) \/ Sleeps(pc'[u], x) => pc'[u] = pc[u]
  BY <1>5, <1>t DEF Sleeps, At
<1>7. Waiters'
  BY <1>3, <1>s, <1>w DEF Waiters
<1>8. ASSUME NEW x \in table', entry'[x].owner = None
      PROVE  AwakeAt(pc', x)
  <2>1. CASE x = sa
    BY <2>1, <1>4, <1>6, <1>s DEF AwakeAt
  <2>2. CASE x # sa
    <3>1. x \in table /\ x \in Sa /\ entry[x].owner = None
      BY <2>2, <1>3, <1>8, <1>s
    <3>2. AwakeAt(pc, x)
      BY <3>1 DEF Awake
    <3> QED BY <3>1, <3>2, <1>6 DEF AwakeAt
  <2> QED BY <2>1, <2>2
<1>9. Awake'
  BY <1>8 DEF Awake, AwakeAt, Sleeps
<1> QED BY <1>7, <1>9

\* Every step leaves an entry that nobody has with one of its sleepers awake.
LEMMA StepWakes ==
    ASSUME IInv, Waiters, Awake, [Next]_vars
    PROVE  Waiters' /\ Awake'
<1>t. TypeOK /\ pc \in [Threads -> Pc]
  BY DEF IInv, TypeOK
<1>1. ASSUME UNCHANGED <<table, entry, pc>> PROVE Waiters' /\ Awake'
  BY <1>1 DEF Waiters, Awake, AwakeAt, Sleeps
<1>2. ASSUME NEW t \in Thread, CreateNew(t) \/ CheckinAndDestroyNew(t) PROVE Waiters' /\ Awake'
  BY <1>1, <1>2 DEF CreateNew, CheckinAndDestroyNew
<1>3. ASSUME NEW t \in Thread, CheckoutNew(t) \/ CheckinNew(t) PROVE Waiters' /\ Awake'
  BY <1>3, PutEntryWakes
<1>4. ASSUME NEW t \in Thread, NEW sa \in Sa, Checkout(t, sa) PROVE Waiters' /\ Awake'
  BY <1>4, <1>t, CheckoutWakes
<1>5. ASSUME NEW t \in Thread, Resume(t) PROVE Waiters' /\ Awake'
  BY <1>5, ResumeWakes
<1>6. ASSUME NEW t \in Thread, Checkin(t) PROVE Waiters' /\ Awake'
  <2>1. t \in Threads /\ pc[t].at = "using" /\ Placed(table, entry, freed, t, pc[t].at, pc[t].sa)
    BY <1>6 DEF IInv, Threads, Lock, Checkin
  <2>2. pc[t].sa \in Sa
    BY <2>1, <1>t DEF Placed, TypeOK
  <2>3. Moves(t, "idle", None) /\ AwakeAt(pc', pc[t].sa) /\ Elsewhere(t, pc[t].sa)
    BY <2>1, <2>2, <1>t, <1>6, LeaveMoves, LeaveWakes DEF Checkin
  <2> QED BY <2>1, <2>3, <1>6, CheckinWakes DEF Checkin
<1>7. ASSUME NEW t \in Thread, CheckinAndDestroy(t) PROVE Waiters' /\ Awake'
  BY <1>7, CheckinAndDestroyWakes
<1>8. ASSUME NEW t \in Thread, ResumeDestroy(t) PROVE Waiters' /\ Awake'
  <2>1. /\ t \in Threads /\ pc[t].at = "destroying" /\ entry' = entry /\ DriveOut(t, pc[t].sa)
        /\ Placed(table, entry, freed, t, pc[t].at, pc[t].sa)
    BY <1>8 DEF IInv, Threads, Lock, ResumeDestroy
  <2>2. pc[t].sa \in table /\ entry[pc[t].sa].owner = t
    BY <2>1 DEF Placed
  <2>3. SameOwners
    BY <2>1, <1>t DEF SameOwners, TypeOK
  <2> QED BY <2>1, <2>2, <2>3, DriveOutWakes
<1>9. ASSUME NEW t \in Thread, Free(t) PROVE Waiters' /\ Awake'
  BY <1>9, FreeWakes
<1>10. CASE Flush \/ FlushNext \/ ResumeFlush
  BY <1>10, FlushWakes, FlushNextWakes, ResumeFlushWakes
<1>11. CASE Destroy
  BY <1>11 DEF Destroy, Waiters, Awake
<1>12. ASSUME NEW t \in Threads, Spurious(t) PROVE Waiters' /\ Awake'
  BY <1>12, SpuriousWakes
<1>13. CASE UNCHANGED vars
  BY <1>1, <1>13 DEF vars
<1> QED BY <1>2, <1>3, <1>4, <1>5, <1>6, <1>7, <1>8, <1>9, <1>10, <1>11, <1>12, <1>13 DEF Next

\* No wakeup is lost: the signals of checkin(), of wait_for_entry() and of the two
\* loops that drive threads out suffice for any number of threads and IKE_SAs.
THEOREM WakeupsArrive == Spec => []NoLostWakeup
<1>1. Init => Waiters /\ Awake
  BY DEF Init, Waiters, Awake
<1>2. IInv /\ Waiters /\ Awake /\ [Next]_vars => Waiters' /\ Awake'
  BY StepWakes
<1>3. Waiters /\ Awake => NoLostWakeup
  <2> SUFFICES ASSUME Awake, NEW sa \in table, entry[sa].owner = None, Blocked(pc, sa) # {}
               PROVE  \E t \in Threads : pc[t].sa = sa /\ pc[t].woken
    BY DEF NoLostWakeup
  <2>1. \E u \in Threads : Sleeps(pc[u], sa)
    BY DEF Blocked, Sleeps
  <2>2. AwakeAt(pc, sa)
    BY DEF Awake
  <2> QED BY <2>1, <2>2 DEF AwakeAt, Sleeps
<1> QED BY Invariance, <1>1, <1>2, <1>3, PTL DEF Spec
=============================================================================
