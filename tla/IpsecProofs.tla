----------------------------- MODULE IpsecProofs -----------------------------
(***************************************************************************)
(* Proofs about Ipsec, for every size of the window, every range of        *)
(* sequence numbers, and any number of SAs and threads.                    *)
(***************************************************************************)
EXTENDS Ipsec, FiniteSetTheorems, TLAPS

-----------------------------------------------------------------------------
(* The anti-replay window *)

\* What the window of an inbound SA knows: bit by bit, whether a number was
\* accepted; a holds how often each was.
Exact(c, a) ==
    /\ a[0] = 0
    /\ \A s \in Seqno : a[s] <= 1
    /\ \A s \in Seqno : s > c.last_seqno => a[s] = 0
    /\ \A s \in Seqno : (0 < s /\ s <= c.last_seqno /\ c.last_seqno - s < WindowSize)
          => (Back(c, c.last_seqno - s) \in c.window <=> a[s] = 1)

\* Two numbers inside of the window have different bits.
LEMMA BackInjective ==
    ASSUME NEW c \in Context, NEW i \in Nat, NEW j \in Nat,
           i < WindowSize, j < WindowSize, i # j
    PROVE  Back(c, i) # Back(c, j)
BY IpsecAssumption DEF Back, Context

\* Both indices stay inside of the window.
LEMMA BackType ==
    ASSUME NEW c \in Context, NEW i \in Nat, i < WindowSize
    PROVE  Back(c, i) \in 0..(WindowSize - 1)
BY IpsecAssumption DEF Back, Context

\* The index that the highest number moves to.
LEMMA ForwardType ==
    ASSUME NEW c \in Context, NEW i \in Nat, i <= WindowSize
    PROVE  Forward(c, i) \in 0..(WindowSize - 1)
BY IpsecAssumption DEF Forward, Context

\* Going back from where the window has been moved to.
LEMMA BackFromForward ==
    ASSUME NEW c \in Context, NEW d \in Context, NEW k \in Nat, k <= WindowSize,
           d.seqno_index = Forward(c, k), NEW i \in Nat, i < WindowSize
    PROVE  /\ i < k => Back(d, i) = Forward(c, k - i)
           /\ i >= k => Back(d, i) = Back(c, i - k)
BY IpsecAssumption DEF Back, Forward, Context

\* The bits that are moved over are the oldest ones.
LEMMA ForwardIsNotBack ==
    ASSUME NEW c \in Context, NEW i \in Nat, NEW k \in Nat, 0 < k, k + i < WindowSize
    PROVE  Forward(c, k) # Back(c, i)
BY IpsecAssumption DEF Back, Forward, Context

\* Moving by different amounts ends at different bits.
LEMMA ForwardInjective ==
    ASSUME NEW c \in Context, NEW i \in Nat, NEW k \in Nat, 0 < i, i < k, k <= WindowSize
    PROVE  Forward(c, i) # Forward(c, k)
BY IpsecAssumption DEF Forward, Context

\* set_authenticated_seqno() keeps a context one.
LEMMA SetType ==
    ASSUME NEW c \in Context, NEW seq \in Seqno, VerifySeqno(c, seq)
    PROVE  SetAuthenticatedSeqno(c, seq) \in Context
<1> c.last_seqno \in Seqno /\ c.window \in SUBSET (0..(WindowSize - 1))
    /\ c.seqno_index \in 0..(WindowSize - 1)
  BY DEF Context
<1>1. CASE seq > c.last_seqno
  <2> DEFINE dist == seq - c.last_seqno
             shift == IF dist < WindowSize THEN dist ELSE WindowSize
             passed == {Forward(c, i) : i \in 1..shift}
  <2>1. shift \in Nat /\ shift <= WindowSize
    BY <1>1, IpsecAssumption DEF Seqno
  <2>2. Forward(c, shift) \in 0..(WindowSize - 1)
    BY <2>1, ForwardType
  <2>3. (c.window \ passed) \cup {Forward(c, shift)} \in SUBSET (0..(WindowSize - 1))
    BY <2>2
  <2>4. SetAuthenticatedSeqno(c, seq) =
          [last_seqno |-> seq, seqno_index |-> Forward(c, shift),
           window |-> (c.window \ passed) \cup {Forward(c, shift)}]
    BY <1>1 DEF SetAuthenticatedSeqno
  <2> HIDE DEF shift, passed
  <2> QED BY <2>2, <2>3, <2>4 DEF Context
<1>2. CASE ~(seq > c.last_seqno)
  <2>1. c.last_seqno - seq \in Nat /\ c.last_seqno - seq < WindowSize
    BY <1>2, IpsecAssumption DEF VerifySeqno, Seqno
  <2>2. Back(c, c.last_seqno - seq) \in 0..(WindowSize - 1)
    BY <2>1, BackType
  <2>3. SetAuthenticatedSeqno(c, seq) =
          [c EXCEPT !.window = @ \cup {Back(c, c.last_seqno - seq)}]
    BY <1>2 DEF SetAuthenticatedSeqno
  <2> QED BY <2>2, <2>3 DEF Context
<1> QED BY <1>1, <1>2

\* A number that is verified and then set is counted exactly once, and all
\* others in the window keep their bits.
LEMMA SetExact ==
    ASSUME NEW c \in Context, NEW a \in [Seqno -> Nat], Exact(c, a),
           NEW seq \in Seqno, seq > 0, VerifySeqno(c, seq)
    PROVE  Exact(SetAuthenticatedSeqno(c, seq), [a EXCEPT ![seq] = @ + 1])
<1> DEFINE d == SetAuthenticatedSeqno(c, seq)
           b == [a EXCEPT ![seq] = @ + 1]
<1>t. /\ c.last_seqno \in Seqno /\ c.window \in SUBSET (0..(WindowSize - 1))
      /\ c.seqno_index \in 0..(WindowSize - 1)
      /\ Seqno \subseteq Nat /\ WindowSize \in Nat \ {0}
      /\ seq \in Nat /\ c.last_seqno \in Nat
  BY IpsecAssumption DEF Context, Seqno
<1>d. d \in Context
  BY SetType
<1>b. /\ b[seq] = a[seq] + 1
      /\ \A s \in Seqno : s # seq => b[s] = a[s]
      /\ \A s \in Seqno : a[s] \in Nat
  OBVIOUS
<1>0. 0 \in Seqno
  BY IpsecAssumption DEF Seqno
<1>1. CASE seq > c.last_seqno
  <2>1. PICK shift \in Nat :
          /\ shift = IF seq - c.last_seqno < WindowSize THEN seq - c.last_seqno ELSE WindowSize
          /\ 0 < shift /\ shift <= WindowSize /\ c.last_seqno + shift <= seq
          /\ shift < WindowSize => c.last_seqno + shift = seq
    BY <1>1, <1>t
  <2> DEFINE passed == {Forward(c, i) : i \in 1..shift}
  <2>4. /\ d.last_seqno = seq
        /\ d.seqno_index = Forward(c, shift)
        /\ d.window = (c.window \ passed) \cup {Forward(c, shift)}
    BY <1>1, <2>1 DEF SetAuthenticatedSeqno
  <2>5. a[seq] = 0
    BY <1>1 DEF Exact
  <2> HIDE DEF d, b
  <2>6. b[0] = 0 /\ (\A s \in Seqno : b[s] <= 1)
        /\ \A s \in Seqno : s > d.last_seqno => b[s] = 0
    BY <1>1, <1>b, <1>0, <1>t, <2>4, <2>5 DEF Exact
  <2>7. ASSUME NEW s \in Seqno, 0 < s, s <= d.last_seqno, d.last_seqno - s < WindowSize
        PROVE  Back(d, d.last_seqno - s) \in d.window <=> b[s] = 1
    <3>0. s \in Nat
      BY <1>t
    <3>1. PICK off \in Nat : off + s = seq /\ off < WindowSize /\ d.last_seqno - s = off
      BY <3>0, <2>4, <2>7, <1>t
    <3>2. CASE s = seq
      <4>0. off = 0
        BY <3>0, <3>1, <3>2, <1>t
      <4>1. Back(d, off) = Forward(c, shift)
        BY <4>0, <2>4, <1>t, <1>d DEF Back, Context
      <4> QED BY <4>1, <3>1, <3>2, <2>4, <2>5, <1>b
    <3>3. CASE c.last_seqno < s /\ s # seq
      <4>0. 0 < off /\ off < shift
        <5>1. off # 0
          BY <3>0, <3>1, <3>3, <1>t
        <5>2. CASE shift < WindowSize
          BY <5>2, <3>0, <3>1, <3>3, <2>1, <1>t
        <5>3. CASE shift = WindowSize
          BY <5>1, <5>3, <3>1
        <5> QED BY <5>1, <5>2, <5>3, <2>1, <1>t
      <4>1. PICK i \in Nat : i = shift - off /\ 0 < i /\ i < shift /\ off < shift
        BY <4>0
      <4>2. Back(d, off) = Forward(c, i)
        BY <4>1, <3>1, <2>1, <2>4, <1>d, BackFromForward
      <4>3. Forward(c, i) \in passed
        BY <4>1
      <4>4. Forward(c, i) # Forward(c, shift)
        BY <4>1, <2>1, ForwardInjective
      <4>5. a[s] = 0
        BY <3>3, <1>t DEF Exact
      <4> QED BY <4>2, <4>3, <4>4, <4>5, <3>1, <3>3, <2>4, <1>b
    <3>4. CASE s <= c.last_seqno
      <4>1. PICK o \in Nat :
              /\ o = c.last_seqno - s /\ off = shift + o /\ shift + o < WindowSize
              /\ o < WindowSize /\ off - shift = o /\ off >= shift
        BY <3>0, <3>1, <3>4, <2>1, <1>t
      <4>2. Back(d, off) = Back(c, o)
        BY <4>1, <3>1, <2>1, <2>4, <1>d, BackFromForward
      <4>3. \A i \in 1..shift : Forward(c, i) # Back(c, o)
        <5> SUFFICES ASSUME NEW i \in 1..shift PROVE Forward(c, i) # Back(c, o)
          OBVIOUS
        <5>1. i \in Nat /\ 0 < i /\ i + o < WindowSize
          BY <4>1, <2>1, <1>t
        <5> QED BY <5>1, ForwardIsNotBack
      <4>4. Back(c, o) \in d.window <=> Back(c, o) \in c.window
        BY <4>3, <2>1, <2>4
      <4>5. Back(c, o) \in c.window <=> a[s] = 1
        BY <4>1, <3>4, <2>7 DEF Exact
      <4>6. b[s] = a[s]
        BY <1>b, <3>4, <1>1, <1>t
      <4> QED BY <4>2, <4>4, <4>5, <4>6, <3>1
    <3> QED BY <3>0, <3>2, <3>3, <3>4, <1>t
  <2> QED BY <2>6, <2>7 DEF Exact, d, b
<1>2. CASE ~(seq > c.last_seqno)
  <2>1. PICK o \in Nat : o = c.last_seqno - seq /\ o < WindowSize /\ seq <= c.last_seqno
                         /\ Back(c, o) \notin c.window
    BY <1>2, <1>t DEF VerifySeqno, CheckWindow
  <2>2. /\ d.last_seqno = c.last_seqno
        /\ d.seqno_index = c.seqno_index
        /\ d.window = c.window \cup {Back(c, o)}
    BY <1>2, <2>1 DEF SetAuthenticatedSeqno, Context
  <2>3. a[seq] = 0
    BY <2>1, <1>b, <1>t DEF Exact
  <2> HIDE DEF d, b
  <2>4. \A i \in Nat : Back(d, i) = Back(c, i)
    BY <2>2 DEF Back
  <2>6. b[0] = 0 /\ (\A s \in Seqno : b[s] <= 1)
        /\ \A s \in Seqno : s > d.last_seqno => b[s] = 0
    BY <1>2, <1>b, <1>0, <1>t, <2>2, <2>3 DEF Exact
  <2>7. ASSUME NEW s \in Seqno, 0 < s, s <= d.last_seqno, d.last_seqno - s < WindowSize
        PROVE  Back(d, d.last_seqno - s) \in d.window <=> b[s] = 1
    <3>0. s \in Nat
      BY <1>t
    <3>1. PICK i \in Nat : i = c.last_seqno - s /\ i < WindowSize /\ d.last_seqno - s = i /\ Back(d, i) = Back(c, i)
      BY <3>0, <2>2, <2>4, <2>7, <1>t
    <3>2. CASE s = seq
      BY <3>1, <3>2, <2>1, <2>2, <2>3, <1>b
    <3>3. CASE s # seq
      <4>1. Back(c, i) # Back(c, o)
        <5>1. i # o
          BY <3>0, <3>1, <3>3, <2>1, <1>t
        <5> QED BY <5>1, <3>1, <2>1, BackInjective
      <4>2. Back(c, i) \in c.window <=> a[s] = 1
        BY <3>1, <2>2, <2>7 DEF Exact
      <4> QED BY <4>1, <4>2, <3>1, <3>3, <2>2, <1>b
    <3> QED BY <3>2, <3>3
  <2> QED BY <2>6, <2>7 DEF Exact, d, b
<1> QED BY <1>1, <1>2
-----------------------------------------------------------------------------
(* The invariant *)

\* SAs get numbers from 1 on, and one that was not installed yet is empty.
Fresh ==
    /\ sas \cap freed = {}
    /\ \E n \in 0..MaxSa : sas \cup freed = 1..n
    /\ \A sa \in Sa \ (sas \cup freed) :
          /\ ctx[sa].last_seqno = 0 /\ ctx[sa].window = {}
          /\ \A s \in Seqno : accepted[sa][s] = 0

Removing == {"remove1", "remove2"}

\* What the place of thread t needs of the SA it is at, with s the installed SAs
\* and e their entries.
Placed(s, e, t, at, sa) ==
    at # "idle" =>
       /\ sa \in s
       /\ at = "using" => e[sa].locked
       /\ at = "waiting" => t \in e[sa].waiting_threads
       /\ at \in Removing => e[sa].awaits_deletion
       /\ at = "remove2" => ~e[sa].locked

\* What the places of two threads need of each other.
Apart(at1, sa1, at2, sa2) ==
    \/ sa1 # sa2
    \/ ~(at1 = "using" /\ at2 = "using") /\ ~(at1 \in Removing /\ at2 \in Removing)

\* The facts about other threads that let wait_remove_entry() free the SA and
\* checkin() unlock it.
Lock ==
    /\ \A t \in Thread : Placed(sas, entry, t, pc[t].at, pc[t].sa)
    /\ \A t, u \in Thread : t # u => Apart(pc[t].at, pc[t].sa, pc[u].at, pc[u].sa)

\* The thread of outbound packets only works on SAs of that direction.
Direction == pc[Out].at \in {"waiting", "using"} => entry[pc[Out].sa].inbound = FALSE

Window ==
    \A sa \in Sa :
       /\ entry[sa].inbound => Exact(ctx[sa], accepted[sa])
       /\ ~entry[sa].inbound => \A s \in Seqno : accepted[sa][s] = 0

IInv == TypeOK /\ Fresh /\ Lock /\ Direction /\ Window

\* f and g have every thread at the same place.
SamePlaces(f, g) ==
    /\ g \in [Thread -> Pc]
    /\ \A t \in Thread : g[t].at = f[t].at /\ g[t].sa = f[t].sa

\* signal() moves no thread.
LEMMA SignalKeeps ==
    ASSUME NEW f \in [Thread -> Pc], NEW sa, NEW g \in Signal(f, sa)
    PROVE  SamePlaces(f, g)
<1>1. CASE g = f
  BY <1>1 DEF SamePlaces
<1>2. ASSUME NEW t \in Thread, g = [f EXCEPT ![t].woken = TRUE]
      PROVE  SamePlaces(f, g)
  <2>1. f[t] \in Pc /\ [f[t] EXCEPT !.woken = TRUE] \in Pc
    BY DEF Pc
  <2>2. g \in [Thread -> Pc]
    BY <1>2, <2>1
  <2>3. \A u \in Thread : g[u].at = f[u].at /\ g[u].sa = f[u].sa
    BY <1>2, <2>1 DEF Pc
  <2> QED BY <2>2, <2>3 DEF SamePlaces
<1> QED BY <1>1, <1>2 DEF Signal, Blocked

\* broadcast() moves no thread.
LEMMA BroadcastKeeps ==
    ASSUME NEW f \in [Thread -> Pc], NEW sa
    PROVE  SamePlaces(f, Broadcast(f, sa))
<1>1. \A t \in Thread : f[t] \in Pc /\ [f[t] EXCEPT !.woken = TRUE] \in Pc
  BY DEF Pc
<1>2. Broadcast(f, sa) \in [Thread -> Pc]
  BY <1>1 DEF Broadcast
<1>3. \A t \in Thread : Broadcast(f, sa)[t].at = f[t].at /\ Broadcast(f, sa)[t].sa = f[t].sa
  BY <1>1 DEF Broadcast, Pc
<1> QED BY <1>2, <1>3 DEF SamePlaces

\* Thread t goes to a place, the others stay where they are.
Moves(t, at, sa) ==
    /\ pc' \in [Thread -> Pc]
    /\ pc'[t].at = at /\ (at # "idle" => pc'[t].sa = sa)
    /\ \A u \in Thread \ {t} : pc'[u].at = pc[u].at /\ pc'[u].sa = pc[u].sa

\* A move that ends with a signal to those who wait for the SA.
LEMMA MoveThenSignal ==
    ASSUME NEW t \in Thread, NEW sa, pc \in [Thread -> Pc],
           pc' \in Signal([pc EXCEPT ![t] = Idle], sa)
    PROVE  Moves(t, "idle", sa)
<1> DEFINE f == [pc EXCEPT ![t] = Idle]
<1>1. Idle \in Pc
  BY DEF Idle, Pc
<1>2. f \in [Thread -> Pc] /\ f[t] = Idle /\ \A u \in Thread \ {t} : f[u] = pc[u]
  BY <1>1
<1>3. SamePlaces(f, pc')
  BY <1>2, SignalKeeps
<1> QED BY <1>2, <1>3 DEF Moves, SamePlaces, Idle

\* A move of one thread alone.
LEMMA MoveAlone ==
    ASSUME NEW t \in Thread, NEW r \in Pc, pc \in [Thread -> Pc], pc' = [pc EXCEPT ![t] = r]
    PROVE  Moves(t, r.at, r.sa)
BY DEF Moves

\* A move that begins with a broadcast.
LEMMA BroadcastThenMove ==
    ASSUME NEW t \in Thread, NEW r \in Pc, NEW sa, pc \in [Thread -> Pc],
           pc' = [Broadcast(pc, sa) EXCEPT ![t] = r]
    PROVE  Moves(t, r.at, r.sa)
BY BroadcastKeeps DEF Moves, SamePlaces
-----------------------------------------------------------------------------
(* The steps keep the invariant *)

\* After a move it is enough to look at the thread that moved and at what the
\* step changed for the others.
LEMMA LockAfterMove ==
    ASSUME NEW t \in Thread, NEW at, NEW sa, Moves(t, at, sa), Lock,
           Placed(sas', entry', t, at, sa),
           \A u \in Thread \ {t} : /\ Placed(sas', entry', u, pc[u].at, pc[u].sa)
                                   /\ Apart(at, sa, pc[u].at, pc[u].sa)
    PROVE  Lock'
<1>1. ASSUME NEW u \in Thread PROVE Placed(sas', entry', u, pc'[u].at, pc'[u].sa)
  <2>1. CASE u = t
    BY <2>1 DEF Moves, Placed
  <2>2. CASE u # t
    BY <2>2 DEF Moves
  <2> QED BY <2>1, <2>2
<1>2. ASSUME NEW u \in Thread, NEW v \in Thread, u # v
      PROVE  Apart(pc'[u].at, pc'[u].sa, pc'[v].at, pc'[v].sa)
  <2>1. CASE u = t
    BY <1>2, <2>1 DEF Moves, Apart, Removing
  <2>2. CASE v = t
    BY <1>2, <2>2 DEF Moves, Apart, Removing
  <2>3. CASE u # t /\ v # t
    BY <1>2, <2>3 DEF Moves, Lock
  <2> QED BY <2>1, <2>2, <2>3
<1> QED BY <1>1, <1>2 DEF Lock

\* The same for the directions, which no step changes for an installed SA.
LEMMA DirectionAfterMove ==
    ASSUME NEW t \in Thread, NEW at, NEW sa \in Sa, Moves(t, at, sa), TypeOK, Lock, Direction,
           \A x \in sas : entry'[x].inbound = entry[x].inbound,
           sa \in sas \/ at = "idle",
           at \in {"waiting", "using"} => (t = Out => entry[sa].inbound = FALSE)
    PROVE  Direction'
<1>1. In \in Thread /\ Out \in Thread
  BY DEF Thread
<1>2. \A u \in Thread : pc[u].at # "idle" => pc[u].sa \in sas
  BY DEF Lock, Placed
<1>4. pc'[Out].at \in {"waiting", "using"} => entry'[pc'[Out].sa].inbound = FALSE
  <2>1. CASE t = Out
    <3>1. ASSUME pc'[Out].at \in {"waiting", "using"}
          PROVE  entry'[pc'[Out].sa].inbound = FALSE
      <4>1. pc'[Out].at = at /\ pc'[Out].sa = sa /\ at \in {"waiting", "using"} /\ sa \in sas
        BY <3>1, <2>1 DEF Moves
      <4>2. entry[sa].inbound = FALSE
        BY <4>1, <2>1
      <4>3. entry'[sa].inbound = entry[sa].inbound
        BY <4>1
      <4> QED BY <4>1, <4>2, <4>3, Zenon
    <3> QED BY <3>1
  <2>2. CASE t # Out
    BY <2>2, <1>1, <1>2 DEF Moves, Direction
  <2> QED BY <2>1, <2>2
<1> QED BY <1>4 DEF Direction

\* wait_for_entry() keeps the places of the threads consistent, entered by a
\* thread that was nowhere or waited for the SA.
LEMMA WaitForEntryKeeps ==
    ASSUME NEW t \in Thread, NEW r \in Pc, r.sa \in sas, NEW others \in SUBSET Thread,
           entry[r.sa].waiting_threads \ {t} \subseteq others,
           pc[t].at \in {"idle", "waiting"}, TypeOK, Lock, Direction,
           t = Out => entry[r.sa].inbound = FALSE,
           WaitForEntry(t, r.sa, r, others)
    PROVE  /\ pc' \in [Thread -> Pc] /\ entry' \in [Sa -> Entry]
           /\ \A sa \in Sa : entry'[sa].inbound = entry[sa].inbound
           /\ sas' = sas => Lock' /\ Direction'
<1> DEFINE sa == r.sa
           e == entry[sa]
<1>t. sa \in Sa /\ entry \in [Sa -> Entry] /\ pc \in [Thread -> Pc] /\ e \in Entry
  BY DEF TypeOK
<1>e. \A x \in Sa : /\ entry[x].waiting_threads \in SUBSET Thread
                    /\ entry[x].inbound \in BOOLEAN /\ entry[x].locked \in BOOLEAN
  BY <1>t DEF Entry
<1>i. /\ sa \in sas /\ sas \subseteq Sa
      /\ t = Out => entry[sa].inbound = FALSE
  BY DEF TypeOK
<1>1. CASE /\ e.locked /\ ~e.awaits_deletion
           /\ entry' = [entry EXCEPT ![sa].waiting_threads = others \cup {t}]
           /\ pc' = [pc EXCEPT ![t] = [r EXCEPT !.at = "waiting", !.woken = FALSE]]
  <2>1. [r EXCEPT !.at = "waiting", !.woken = FALSE] \in Pc
    BY DEF Pc
  <2>2. Moves(t, "waiting", sa)
    BY <1>1, <1>t, <2>1, MoveAlone DEF Pc
  <2>3. [e EXCEPT !.waiting_threads = others \cup {t}] \in Entry
    BY <1>t DEF Entry
  <2>4. entry' \in [Sa -> Entry]
    BY <1>1, <1>t, <2>3
  <2>5. /\ entry'[sa] = [e EXCEPT !.waiting_threads = others \cup {t}]
        /\ \A x \in Sa \ {sa} : entry'[x] = entry[x]
    BY <1>1, <1>t
  <2>6. /\ \A x \in Sa : /\ entry'[x].inbound = entry[x].inbound
                         /\ entry'[x].locked = entry[x].locked
                         /\ entry'[x].awaits_deletion = entry[x].awaits_deletion
        /\ entry'[sa].waiting_threads = others \cup {t}
        /\ \A x \in Sa \ {sa} : entry'[x].waiting_threads = entry[x].waiting_threads
    BY <2>5, <1>t DEF Entry
  <2>7. ASSUME sas' = sas PROVE Lock' /\ Direction'
    <3>1. Placed(sas', entry', t, "waiting", sa)
      BY <2>6, <2>7, <1>t DEF Placed, Removing
    <3>2. ASSUME NEW u \in Thread \ {t}
          PROVE  /\ Placed(sas', entry', u, pc[u].at, pc[u].sa)
                 /\ Apart("waiting", sa, pc[u].at, pc[u].sa)
      <4>1. Placed(sas, entry, u, pc[u].at, pc[u].sa)
        BY DEF Lock
      <4> QED BY <1>1, <4>1, <2>6, <2>7, <1>t DEF Placed, Apart, Removing, TypeOK
    <3>3. Lock'
      BY <3>1, <3>2, <2>2, LockAfterMove
    <3>4. Direction'
      BY <2>2, <2>6, <1>t, <1>i, DirectionAfterMove
    <3> QED BY <3>3, <3>4
  <2> QED BY <2>2, <2>4, <2>6, <2>7 DEF Moves
<1>2. CASE /\ e.awaits_deletion \/ (~e.locked /\ r.job = "query")
           /\ entry' = [entry EXCEPT ![sa].waiting_threads = others]
           /\ pc' \in Signal([pc EXCEPT ![t] = Idle], sa)
  <2>2. Moves(t, "idle", sa)
    BY <1>2, <1>t, MoveThenSignal
  <2>3. [e EXCEPT !.waiting_threads = others] \in Entry
    BY <1>t DEF Entry
  <2>4. entry' \in [Sa -> Entry]
    BY <1>2, <1>t, <2>3
  <2>5. /\ entry'[sa] = [e EXCEPT !.waiting_threads = others]
        /\ \A x \in Sa \ {sa} : entry'[x] = entry[x]
    BY <1>2, <1>t
  <2>6. /\ \A x \in Sa : /\ entry'[x].inbound = entry[x].inbound
                         /\ entry'[x].locked = entry[x].locked
                         /\ entry'[x].awaits_deletion = entry[x].awaits_deletion
        /\ entry'[sa].waiting_threads = others
        /\ \A x \in Sa \ {sa} : entry'[x].waiting_threads = entry[x].waiting_threads
    BY <2>5, <1>t DEF Entry
  <2>7. ASSUME sas' = sas PROVE Lock' /\ Direction'
    <3>1. Placed(sas', entry', t, "idle", sa)
      BY <2>6, <2>7, <1>t DEF Placed, Removing
    <3>2. ASSUME NEW u \in Thread \ {t}
          PROVE  /\ Placed(sas', entry', u, pc[u].at, pc[u].sa)
                 /\ Apart("idle", sa, pc[u].at, pc[u].sa)
      <4>1. Placed(sas, entry, u, pc[u].at, pc[u].sa)
        BY DEF Lock
      <4> QED BY <1>2, <4>1, <2>6, <2>7, <1>t DEF Placed, Apart, Removing, TypeOK
    <3>3. Lock'
      BY <3>1, <3>2, <2>2, LockAfterMove
    <3>4. Direction'
      BY <2>2, <2>6, <1>t, <1>i, DirectionAfterMove
    <3> QED BY <3>3, <3>4
  <2> QED BY <2>2, <2>4, <2>6, <2>7 DEF Moves
<1>3. CASE /\ ~e.locked /\ ~e.awaits_deletion /\ r.job = "packet"
           /\ entry' = [entry EXCEPT ![sa].waiting_threads = others, ![sa].locked = TRUE]
           /\ pc' = [pc EXCEPT ![t] = [r EXCEPT !.at = "using", !.woken = FALSE]]
  <2>1. [r EXCEPT !.at = "using", !.woken = FALSE] \in Pc
    BY DEF Pc
  <2>2. Moves(t, "using", sa)
    BY <1>3, <1>t, <2>1, MoveAlone DEF Pc
  <2>3. [e EXCEPT !.waiting_threads = others, !.locked = TRUE] \in Entry
    BY <1>t DEF Entry
  <2>5. /\ entry'[sa] = [e EXCEPT !.waiting_threads = others, !.locked = TRUE]
        /\ \A x \in Sa \ {sa} : entry'[x] = entry[x]
    BY <1>3, <1>t DEF Entry
  <2>4. entry' \in [Sa -> Entry]
    BY <1>3, <1>t, <2>3, <2>5
  <2>6. /\ \A x \in Sa : /\ entry'[x].inbound = entry[x].inbound
                         /\ entry'[x].awaits_deletion = entry[x].awaits_deletion
        /\ entry'[sa].waiting_threads = others /\ entry'[sa].locked = TRUE
        /\ \A x \in Sa \ {sa} : /\ entry'[x].waiting_threads = entry[x].waiting_threads
                                /\ entry'[x].locked = entry[x].locked
    BY <2>5, <1>t DEF Entry
  <2>7. ASSUME sas' = sas PROVE Lock' /\ Direction'
    <3>1. Placed(sas', entry', t, "using", sa)
      BY <2>6, <2>7, <1>t DEF Placed, Removing
    <3>2. ASSUME NEW u \in Thread \ {t}
          PROVE  /\ Placed(sas', entry', u, pc[u].at, pc[u].sa)
                 /\ Apart("using", sa, pc[u].at, pc[u].sa)
      <4>1. Placed(sas, entry, u, pc[u].at, pc[u].sa)
        BY DEF Lock
      <4> QED BY <1>3, <4>1, <2>6, <2>7, <1>t DEF Placed, Apart, Removing, TypeOK
    <3>3. Lock'
      BY <3>1, <3>2, <2>2, LockAfterMove
    <3>4. Direction'
      BY <2>2, <2>6, <1>t, <1>i, DirectionAfterMove
    <3> QED BY <3>3, <3>4
  <2> QED BY <2>2, <2>4, <2>6, <2>7 DEF Moves
<1> QED BY <1>1, <1>2, <1>3 DEF WaitForEntry

\* A step that leaves the windows alone keeps them exact.
LEMMA WindowUnchanged ==
    ASSUME TypeOK, Window, ctx' = ctx, accepted' = accepted,
           \A sa \in Sa : entry'[sa].inbound = entry[sa].inbound
    PROVE  Window'
BY DEF Window, Exact, TypeOK

\* checkout_by_spi(), checkout_by_reqid(), query_sa(), update_sa(), and what is
\* left of them after a wait.
LEMMA EntryStep ==
    ASSUME IInv, NEW t \in Thread, NEW r \in Pc, r.sa \in sas, NEW others \in SUBSET Thread,
           entry[r.sa].waiting_threads \ {t} \subseteq others,
           pc[t].at \in {"idle", "waiting"},
           t = Out => entry[r.sa].inbound = FALSE,
           WaitForEntry(t, r.sa, r, others),
           acquire' \in BOOLEAN, UNCHANGED <<sas, ctx, freed, accepted>>
    PROVE  IInv'
<1>1. /\ pc' \in [Thread -> Pc] /\ entry' \in [Sa -> Entry]
      /\ \A sa \in Sa : entry'[sa].inbound = entry[sa].inbound
      /\ Lock' /\ Direction'
  BY WaitForEntryKeeps DEF IInv
<1>2. TypeOK'
  BY <1>1 DEF IInv, TypeOK
<1>3. Fresh'
  BY DEF IInv, Fresh
<1>4. Window'
  BY <1>1, WindowUnchanged DEF IInv
<1> QED BY <1>1, <1>2, <1>3, <1>4 DEF IInv

\* checkin() by the thread that has the SA.
LEMMA CheckinKeeps ==
    ASSUME TypeOK, Lock, Direction, NEW t \in Thread, pc[t].at = "using",
           NEW hard \in BOOLEAN, Checkin(t, pc[t].sa, hard)
    PROVE  /\ pc' \in [Thread -> Pc] /\ entry' \in [Sa -> Entry]
           /\ \A sa \in Sa : entry'[sa].inbound = entry[sa].inbound
           /\ Lock' /\ Direction' /\ pc[t].sa \in sas
<1>1. PICK sa \in sas : sa = pc[t].sa
  BY DEF Lock, Placed
<1>t. sa \in Sa /\ entry \in [Sa -> Entry] /\ pc \in [Thread -> Pc] /\ entry[sa] \in Entry
      /\ sas \subseteq Sa
  BY DEF TypeOK
<1>2. Moves(t, "idle", sa)
  BY <1>1, <1>t, MoveThenSignal DEF Checkin
<1>3. [entry[sa] EXCEPT !.locked = FALSE, !.hard_expired = hard] \in Entry
  BY <1>t DEF Entry
<1>4. /\ entry'[sa] = [entry[sa] EXCEPT !.locked = FALSE, !.hard_expired = hard]
      /\ \A x \in Sa \ {sa} : entry'[x] = entry[x]
      /\ entry' = [entry EXCEPT ![sa] = [entry[sa] EXCEPT !.locked = FALSE, !.hard_expired = hard]]
  BY <1>1, <1>t DEF Checkin, Entry
<1>5. entry' \in [Sa -> Entry]
  BY <1>3, <1>4, <1>t
<1>6. /\ \A x \in Sa : /\ entry'[x].inbound = entry[x].inbound
                       /\ entry'[x].awaits_deletion = entry[x].awaits_deletion
                       /\ entry'[x].waiting_threads = entry[x].waiting_threads
      /\ entry'[sa].locked = FALSE
      /\ \A x \in Sa \ {sa} : entry'[x].locked = entry[x].locked
  BY <1>4, <1>t DEF Entry
<1>7. Placed(sas', entry', t, "idle", sa)
  BY DEF Placed
<1>8. ASSUME NEW u \in Thread \ {t}
      PROVE  /\ Placed(sas', entry', u, pc[u].at, pc[u].sa)
             /\ Apart("idle", sa, pc[u].at, pc[u].sa)
  <2>1. Placed(sas, entry, u, pc[u].at, pc[u].sa) /\ Apart("using", sa, pc[u].at, pc[u].sa)
    BY <1>1 DEF Lock
  <2>2. sas' = sas
    BY DEF Checkin
  <2> QED BY <2>1, <2>2, <1>6, <1>t DEF Placed, Apart, Removing
<1>9. Lock'
  BY <1>2, <1>7, <1>8, LockAfterMove
<1>10. Direction'
  BY <1>2, <1>6, <1>t, DirectionAfterMove
<1> QED BY <1>1, <1>2, <1>5, <1>6, <1>9, <1>10 DEF Moves

\* process_inbound(): a number that was verified is set and counted.
LEMMA ProcessInboundKeeps ==
    ASSUME IInv, NEW seq \in Seqno, NEW genuine \in BOOLEAN, ProcessInbound(seq, genuine)
    PROVE  IInv'
<1> DEFINE sa == pc[In].sa
           good == entry[sa].inbound /\ VerifySeqno(ctx[sa], seq) /\ genuine
<1>1. PICK hard \in BOOLEAN : Checkin(In, sa, hard)
  BY DEF ProcessInbound
<1>2. In \in Thread /\ pc[In].at = "using" /\ TypeOK /\ Lock /\ Direction
  BY DEF Thread, ProcessInbound, IInv
<1>3. /\ pc' \in [Thread -> Pc] /\ entry' \in [Sa -> Entry]
      /\ \A x \in Sa : entry'[x].inbound = entry[x].inbound
      /\ Lock' /\ Direction' /\ sa \in sas
  BY <1>1, <1>2, CheckinKeeps
<1>4. sas' = sas /\ freed' = freed /\ acquire' = acquire
  BY <1>1 DEF Checkin
<1>5. sa \in Sa /\ ctx[sa] \in Context /\ accepted[sa] \in [Seqno -> Nat]
  BY <1>2, <1>3 DEF TypeOK
<1>6. CASE good
  <2>1. /\ ctx' = [ctx EXCEPT ![sa] = SetAuthenticatedSeqno(ctx[sa], seq)]
        /\ accepted' = [accepted EXCEPT ![sa] = [accepted[sa] EXCEPT ![seq] = @ + 1]]
        /\ seq > 0
    BY <1>6 DEF ProcessInbound
  <2>2. SetAuthenticatedSeqno(ctx[sa], seq) \in Context
    BY <1>5, <1>6, SetType
  <2>3. [accepted[sa] EXCEPT ![seq] = @ + 1] \in [Seqno -> Nat]
    BY <1>5
  <2>4. /\ ctx' \in [Sa -> Context] /\ accepted' \in [Sa -> [Seqno -> Nat]]
        /\ ctx'[sa] = SetAuthenticatedSeqno(ctx[sa], seq)
        /\ accepted'[sa] = [accepted[sa] EXCEPT ![seq] = @ + 1]
        /\ \A x \in Sa \ {sa} : ctx'[x] = ctx[x] /\ accepted'[x] = accepted[x]
    BY <2>1, <2>2, <2>3, <1>2, <1>5 DEF TypeOK
  <2>5. TypeOK'
    BY <2>4, <1>2, <1>3, <1>4 DEF TypeOK
  <2>6. Fresh'
    BY <2>4, <1>3, <1>4 DEF IInv, Fresh
  <2>7. entry[sa].inbound = TRUE
    BY <1>2, <1>5, <1>6 DEF TypeOK, Entry
  <2>8. Exact(ctx[sa], accepted[sa])
    BY <2>7, <1>5 DEF IInv, Window
  <2>9. Exact(ctx'[sa], accepted'[sa])
    BY <2>1, <2>4, <2>8, <1>5, <1>6, SetExact
  <2>10. ASSUME NEW x \in Sa
         PROVE  /\ entry'[x].inbound => Exact(ctx'[x], accepted'[x])
                /\ ~entry'[x].inbound => \A s \in Seqno : accepted'[x][s] = 0
    <3>1. CASE x = sa
      BY <3>1, <2>7, <2>9, <1>3
    <3>2. CASE x # sa
      BY <3>2, <2>4, <1>3 DEF IInv, Window
    <3> QED BY <3>1, <3>2
  <2>11. Window'
    BY <2>10 DEF Window, Exact, Back
  <2> QED BY <2>5, <2>6, <2>11, <1>3 DEF IInv
<1>7. CASE ~good
  <2>1. ctx' = ctx /\ accepted' = accepted
    BY <1>7 DEF ProcessInbound
  <2>2. TypeOK'
    BY <2>1, <1>2, <1>3, <1>4 DEF TypeOK
  <2>3. Fresh'
    BY <2>1, <1>4 DEF IInv, Fresh
  <2>4. Window'
    BY <2>1, <1>2, <1>3, WindowUnchanged DEF IInv
  <2> QED BY <2>2, <2>3, <2>4, <1>3 DEF IInv
<1> QED BY <1>6, <1>7

\* process_outbound(): an SA of that direction has no window to disturb.
LEMMA ProcessOutboundKeeps ==
    ASSUME IInv, ProcessOutbound
    PROVE  IInv'
<1> DEFINE sa == pc[Out].sa
<1>1. PICK hard \in BOOLEAN : Checkin(Out, sa, hard)
  BY DEF ProcessOutbound
<1>2. Out \in Thread /\ pc[Out].at = "using" /\ TypeOK /\ Lock /\ Direction
  BY DEF Thread, ProcessOutbound, IInv
<1>3. /\ pc' \in [Thread -> Pc] /\ entry' \in [Sa -> Entry]
      /\ \A x \in Sa : entry'[x].inbound = entry[x].inbound
      /\ Lock' /\ Direction' /\ sa \in sas
  BY <1>1, <1>2, CheckinKeeps
<1>4. sas' = sas /\ freed' = freed /\ acquire' = acquire /\ accepted' = accepted
  BY <1>1 DEF Checkin, ProcessOutbound
<1>5. sa \in Sa /\ ctx[sa] \in Context
  BY <1>2, <1>3 DEF TypeOK
<1>6. ctx' \in [Sa -> Context] /\ \A x \in Sa \ {sa} : ctx'[x] = ctx[x]
  <2>1. CASE ctx[sa].last_seqno < MaxSeqno
    <3>1. [ctx[sa] EXCEPT !.last_seqno = @ + 1] \in Context
      BY <2>1, <1>5, IpsecAssumption DEF Context, Seqno
    <3>2. ctx' = [ctx EXCEPT ![sa] = [ctx[sa] EXCEPT !.last_seqno = @ + 1]]
      BY <2>1 DEF ProcessOutbound
    <3> QED BY <3>1, <3>2, <1>2, <1>5 DEF TypeOK
  <2>2. CASE ~(ctx[sa].last_seqno < MaxSeqno)
    BY <2>2, <1>2 DEF ProcessOutbound, TypeOK
  <2> QED BY <2>1, <2>2
<1>7. TypeOK'
  BY <1>2, <1>3, <1>4, <1>6 DEF TypeOK
<1>8. Fresh'
  BY <1>3, <1>4, <1>6 DEF IInv, Fresh
<1>9. entry[sa].inbound = FALSE
  BY <1>2 DEF Direction
<1>10. ASSUME NEW x \in Sa
       PROVE  /\ entry'[x].inbound => Exact(ctx'[x], accepted'[x])
              /\ ~entry'[x].inbound => \A s \in Seqno : accepted'[x][s] = 0
  <2>1. CASE x = sa
    BY <2>1, <1>3, <1>4, <1>9 DEF IInv, Window
  <2>2. CASE x # sa
    BY <2>2, <1>3, <1>4, <1>6 DEF IInv, Window
  <2> QED BY <2>1, <2>2
<1>11. Window'
  BY <1>10 DEF Window, Exact, Back
<1> QED BY <1>3, <1>7, <1>8, <1>11 DEF IInv

\* add_sa(): the SA it inserts was not there before.
LEMMA AddSaKeeps ==
    ASSUME IInv, NEW inbound \in BOOLEAN, AddSa(inbound)
    PROVE  IInv'
<1>t. TypeOK /\ MaxSa \in Nat
  BY IpsecAssumption DEF IInv
<1>1. PICK n \in 0..MaxSa : sas \cup freed = 1..n
  BY DEF IInv, Fresh
<1>2. Cardinality(sas \cup freed) = n
  <2>1. 1 \in Int /\ n \in Int
    BY <1>t
  <2>2. Cardinality(1..n) = IF 1 > n THEN 0 ELSE n - 1 + 1
    BY <2>1, FS_Interval
  <2>3. (IF 1 > n THEN 0 ELSE n - 1 + 1) = n
    BY <1>t
  <2> QED BY <1>1, <2>2, <2>3
<1> DEFINE sa == n + 1
<1>a. sa \notin 1..n /\ sa = Cardinality(sas \cup freed) + 1
  BY <1>2, <1>t
<1>b. sa \in Sa /\ entry' = [entry EXCEPT ![sa].inbound = inbound] /\ sas' = sas \cup {sa}
  BY <1>a DEF AddSa
<1>c. acquire' \in BOOLEAN
  BY <1>t DEF AddSa, TypeOK
<1>3. /\ sa \in Sa /\ sa \notin sas \cup freed
      /\ sas' = sas \cup {sa} /\ freed' = freed /\ pc' = pc /\ ctx' = ctx /\ accepted' = accepted
      /\ entry' = [entry EXCEPT ![sa] = [entry[sa] EXCEPT !.inbound = inbound]]
      /\ acquire' \in BOOLEAN
  BY <1>1, <1>a, <1>b, <1>c DEF AddSa
<1>4. sas' \cup freed' = 1..sa /\ sa \in 0..MaxSa
  BY <1>1, <1>3, <1>t DEF Sa
<1> HIDE DEF sa
<1>5. entry[sa] \in Entry /\ [entry[sa] EXCEPT !.inbound = inbound] \in Entry
  BY <1>3, <1>t DEF Entry, TypeOK
<1>6. /\ entry' \in [Sa -> Entry]
      /\ entry'[sa] = [entry[sa] EXCEPT !.inbound = inbound]
      /\ \A x \in Sa \ {sa} : entry'[x] = entry[x]
  BY <1>3, <1>5, <1>t DEF TypeOK
<1>7. \A x \in sas : x # sa /\ x \in Sa /\ entry'[x] = entry[x]
  BY <1>3, <1>6, <1>t DEF TypeOK
<1>8. TypeOK'
  BY <1>3, <1>6, <1>t DEF TypeOK
<1>9. Fresh'
  BY <1>3, <1>4 DEF IInv, Fresh
<1>10. Lock'
  <2>1. ASSUME NEW t \in Thread PROVE Placed(sas', entry', t, pc[t].at, pc[t].sa)
    <3>1. Placed(sas, entry, t, pc[t].at, pc[t].sa)
      BY DEF IInv, Lock
    <3> QED BY <3>1, <1>3, <1>7 DEF Placed
  <2> QED BY <2>1, <1>3 DEF IInv, Lock
<1>11. Direction'
  <2>1. In \in Thread /\ Out \in Thread
    BY DEF Thread
  <2>2. \A t \in Thread : pc[t].at # "idle" => pc[t].sa \in sas
    BY DEF IInv, Lock, Placed
  <2> QED BY <2>1, <2>2, <1>3, <1>7 DEF IInv, Direction
<1>12. ASSUME NEW x \in Sa
       PROVE  /\ entry'[x].inbound => Exact(ctx[x], accepted[x])
              /\ ~entry'[x].inbound => \A s \in Seqno : accepted[x][s] = 0
  <2>1. CASE x = sa
    <3>1. /\ ctx[sa].last_seqno = 0 /\ ctx[sa].window = {}
          /\ \A s \in Seqno : accepted[sa][s] = 0
      BY <1>3 DEF IInv, Fresh
    <3>2. 0 \in Seqno /\ Seqno \subseteq Nat
      BY IpsecAssumption DEF Seqno
    <3> QED BY <3>1, <3>2, <2>1 DEF Exact
  <2>2. CASE x # sa
    BY <2>2, <1>6 DEF IInv, Window
  <2> QED BY <2>1, <2>2
<1>13. Window'
  BY <1>12, <1>3 DEF Window, Exact, Back
<1> QED BY <1>8, <1>9, <1>10, <1>11, <1>13 DEF IInv

\* At most awaits_deletion and hard_expired of the SA change.
Marked(sa) ==
    /\ entry' \in [Sa -> Entry]
    /\ \A x \in Sa : /\ entry'[x].inbound = entry[x].inbound
                     /\ entry'[x].locked = entry[x].locked
                     /\ entry'[x].waiting_threads = entry[x].waiting_threads
    /\ \A x \in Sa \ {sa} : entry'[x].awaits_deletion = entry[x].awaits_deletion
    /\ entry'[sa].awaits_deletion = TRUE

\* wait_remove_entry() frees the SA when no other thread is at it.
LEMMA WaitRemoveKeeps ==
    ASSUME IInv, NEW t \in Thread, NEW sa \in sas, NEW loop \in {1, 2},
           Marked(sa),
           \A u \in Thread \ {t} : pc[u].sa = sa => pc[u].at \notin Removing,
           loop = 2 => ~entry[sa].locked,
           WaitRemove(t, sa, loop), UNCHANGED <<ctx, acquire, accepted>>
    PROVE  IInv'
<1>m. /\ entry' \in [Sa -> Entry]
      /\ \A x \in Sa : /\ entry'[x].inbound = entry[x].inbound
                       /\ entry'[x].locked = entry[x].locked
                       /\ entry'[x].waiting_threads = entry[x].waiting_threads
      /\ \A x \in Sa \ {sa} : entry'[x].awaits_deletion = entry[x].awaits_deletion
      /\ entry'[sa].awaits_deletion = TRUE
  BY DEF Marked
<1>t. TypeOK /\ Lock /\ sa \in Sa /\ sas \subseteq Sa /\ pc \in [Thread -> Pc]
  BY DEF IInv, TypeOK
<1>p. \A u \in Thread : pc[u].at \in {"idle", "waiting", "using"} \cup Removing
  BY <1>t DEF Pc, Removing
<1>i. Idle \in Pc /\ Idle.at = "idle"
  BY DEF Idle, Pc
<1>o. \A u \in Thread : Placed(sas, entry, u, pc[u].at, pc[u].sa)
  BY <1>t DEF Lock
<1>1. CASE /\ loop = 1 /\ entry[sa].locked
           /\ pc' = [pc EXCEPT ![t] = [Idle EXCEPT !.at = "remove1", !.sa = sa]]
           /\ UNCHANGED <<sas, freed>>
  <2>1. [Idle EXCEPT !.at = "remove1", !.sa = sa] \in Pc
    BY <1>t DEF Idle, Pc
  <2>2. Moves(t, "remove1", sa)
    BY <1>1, <1>t, <2>1, MoveAlone DEF Idle
  <2>3. Placed(sas', entry', t, "remove1", sa)
    BY <1>m, <1>1 DEF Placed
  <2>4. ASSUME NEW u \in Thread \ {t}
        PROVE  /\ Placed(sas', entry', u, pc[u].at, pc[u].sa)
               /\ Apart("remove1", sa, pc[u].at, pc[u].sa)
    BY <1>m, <1>o, <1>1, <1>t DEF Placed, Apart, Removing
  <2>5. Lock'
    BY <2>2, <2>3, <2>4, <1>t, LockAfterMove
  <2>6. Direction'
    BY <1>m, <2>2, <1>t, DirectionAfterMove DEF IInv
  <2>7. TypeOK'
    BY <1>m, <2>2, <1>1, <1>t DEF TypeOK, Moves
  <2>8. Fresh'
    BY <1>1 DEF IInv, Fresh
  <2> QED BY <1>m, <2>5, <2>6, <2>7, <2>8, <1>t, WindowUnchanged DEF IInv
<1>2. CASE /\ ~(loop = 1 /\ entry[sa].locked)
           /\ pc' = [Broadcast(pc, sa) EXCEPT ![t] = [Idle EXCEPT !.at = "remove2", !.sa = sa]]
           /\ UNCHANGED <<sas, freed>>
  <2>1. [Idle EXCEPT !.at = "remove2", !.sa = sa] \in Pc
    BY <1>t DEF Idle, Pc
  <2>2. Moves(t, "remove2", sa)
    BY <1>2, <1>t, <2>1, BroadcastThenMove DEF Idle
  <2>3. Placed(sas', entry', t, "remove2", sa)
    BY <1>m, <1>2, <1>t DEF Placed
  <2>4. ASSUME NEW u \in Thread \ {t}
        PROVE  /\ Placed(sas', entry', u, pc[u].at, pc[u].sa)
               /\ Apart("remove2", sa, pc[u].at, pc[u].sa)
    BY <1>m, <1>o, <1>2, <1>t DEF Placed, Apart, Removing
  <2>5. Lock'
    BY <2>2, <2>3, <2>4, <1>t, LockAfterMove
  <2>6. Direction'
    BY <1>m, <2>2, <1>t, DirectionAfterMove DEF IInv
  <2>7. TypeOK'
    BY <1>m, <2>2, <1>2, <1>t DEF TypeOK, Moves
  <2>8. Fresh'
    BY <1>2 DEF IInv, Fresh
  <2> QED BY <1>m, <2>5, <2>6, <2>7, <2>8, <1>t, WindowUnchanged DEF IInv
<1>3. CASE /\ ~(loop = 1 /\ entry[sa].locked)
           /\ entry[sa].waiting_threads = {}
           /\ pc' = [pc EXCEPT ![t] = Idle]
           /\ sas' = sas \ {sa}
           /\ freed' = freed \cup {sa}
  <2>2. Moves(t, "idle", sa)
    BY <1>3, <1>t, <1>i, MoveAlone DEF Moves
  <2>3. Placed(sas', entry', t, "idle", sa)
    BY DEF Placed
  <2>4. ASSUME NEW u \in Thread \ {t}
        PROVE  /\ Placed(sas', entry', u, pc[u].at, pc[u].sa)
               /\ Apart("idle", sa, pc[u].at, pc[u].sa)
    <3>1. pc[u].at # "idle" => pc[u].sa # sa
      BY <1>o, <1>p, <1>3 DEF Placed, Removing
    <3> QED BY <1>m, <3>1, <1>o, <1>3, <1>t DEF Placed, Apart, Removing
  <2>5. Lock'
    BY <2>2, <2>3, <2>4, <1>t, LockAfterMove
  <2>6. Direction'
    BY <1>m, <2>2, <1>t, DirectionAfterMove DEF IInv
  <2>7. sas' \cup freed' = sas \cup freed /\ sas' \cap freed' = {}
    BY <1>3 DEF IInv, Fresh
  <2>8. Fresh'
    BY <2>7 DEF IInv, Fresh
  <2>9. TypeOK'
    BY <1>m, <2>2, <1>3, <1>t DEF TypeOK, Moves
  <2> QED BY <1>m, <2>5, <2>6, <2>8, <2>9, <1>t, WindowUnchanged DEF IInv
<1> QED BY <1>1, <1>2, <1>3 DEF WaitRemove

\* Removing an SA changes its entry no further.
LEMMA RemoveMarks ==
    ASSUME TypeOK, NEW t \in Thread, NEW sa \in Sa, NEW hard \in BOOLEAN, Remove(t, sa, hard)
    PROVE  Marked(sa)
<1>t. entry \in [Sa -> Entry] /\ entry[sa] \in Entry
  BY DEF TypeOK
<1> DEFINE new == [entry[sa] EXCEPT !.awaits_deletion = TRUE,
                                    !.hard_expired = entry[sa].hard_expired \/ hard]
<1>1. new \in Entry
  BY <1>t DEF Entry
<1>2. entry' = [entry EXCEPT ![sa] = new]
  BY <1>t DEF Remove, Entry
<1>3. entry' \in [Sa -> Entry] /\ entry'[sa] = new /\ \A x \in Sa \ {sa} : entry'[x] = entry[x]
  BY <1>1, <1>2, <1>t
<1>4. /\ \A x \in Sa : /\ entry'[x].inbound = entry[x].inbound
                       /\ entry'[x].locked = entry[x].locked
                       /\ entry'[x].waiting_threads = entry[x].waiting_threads
      /\ \A x \in Sa \ {sa} : entry'[x].awaits_deletion = entry[x].awaits_deletion
      /\ entry'[sa].awaits_deletion = TRUE
  BY <1>3, <1>t DEF Entry
<1> QED BY <1>3, <1>4 DEF Marked

\* del_sa(), flush_sas(), sa_expired()
LEMMA RemoveKeeps ==
    ASSUME IInv, NEW t \in Thread, NEW sa \in Sa, NEW hard \in BOOLEAN, Remove(t, sa, hard)
    PROVE  IInv'
<1>t. /\ TypeOK /\ Lock /\ sa \in sas /\ entry \in [Sa -> Entry] /\ entry[sa] \in Entry
      /\ \A u \in Thread : Placed(sas, entry, u, pc[u].at, pc[u].sa)
  BY DEF IInv, TypeOK, Lock, Remove
<1>1. Marked(sa)
  BY <1>t, RemoveMarks
<1>2. /\ entry' \in [Sa -> Entry]
      /\ \A x \in Sa : /\ entry'[x].inbound = entry[x].inbound
                       /\ entry'[x].locked = entry[x].locked
                       /\ entry'[x].waiting_threads = entry[x].waiting_threads
      /\ \A x \in Sa \ {sa} : entry'[x].awaits_deletion = entry[x].awaits_deletion
      /\ entry'[sa].awaits_deletion = TRUE
  BY <1>1 DEF Marked
<1>3. CASE entry[sa].awaits_deletion
  <2>1. UNCHANGED <<pc, sas, freed, ctx, acquire, accepted>>
    BY <1>3 DEF Remove
  <2>2. TypeOK'
    BY <2>1, <1>2, <1>t DEF TypeOK
  <2>3. Fresh'
    BY <2>1 DEF IInv, Fresh
  <2>4. Lock'
    <3>1. ASSUME NEW u \in Thread PROVE Placed(sas', entry', u, pc'[u].at, pc'[u].sa)
      BY <2>1, <1>2, <1>t DEF Placed, TypeOK
    <3> QED BY <3>1, <2>1, <1>t DEF Lock
  <2>5. Direction'
    <3>1. \A u \in Thread : pc[u].at # "idle" => pc[u].sa \in Sa
      BY <1>t DEF Placed, TypeOK
    <3>2. In \in Thread /\ Out \in Thread
      BY DEF Thread
    <3> QED BY <3>1, <3>2, <2>1, <1>2 DEF IInv, Direction
  <2>6. Window'
    BY <2>1, <1>2, <1>t, WindowUnchanged DEF IInv
  <2> QED BY <2>2, <2>3, <2>4, <2>5, <2>6 DEF IInv
<1>4. CASE ~entry[sa].awaits_deletion
  <2>1. WaitRemove(t, sa, 1) /\ UNCHANGED <<ctx, acquire, accepted>>
    BY <1>4 DEF Remove
  <2>2. \A u \in Thread \ {t} : pc[u].sa = sa => pc[u].at \notin Removing
    BY <1>4, <1>t DEF Placed, Removing
  <2> QED BY <2>1, <2>2, <1>1, <1>t, WaitRemoveKeeps
<1> QED BY <1>3, <1>4

\* A woken thread goes on in wait_remove_entry().
LEMMA ResumeRemoveKeeps ==
    ASSUME IInv, NEW t \in Thread, ResumeRemove(t)
    PROVE  IInv'
<1>t. /\ TypeOK /\ Lock /\ entry \in [Sa -> Entry] /\ sas \subseteq Sa
      /\ pc[t].at \in Removing /\ Placed(sas, entry, t, pc[t].at, pc[t].sa)
  BY DEF IInv, TypeOK, Lock, ResumeRemove, Removing
<1>1. PICK sa \in sas : sa = pc[t].sa
  BY <1>t DEF Placed, Removing
<1>2. PICK loop \in {1, 2} : /\ WaitRemove(t, sa, loop)
                             /\ loop = 2 => pc[t].at = "remove2"
  BY <1>1 DEF ResumeRemove
<1>3. entry[sa].awaits_deletion /\ (loop = 2 => ~entry[sa].locked)
  BY <1>1, <1>2, <1>t DEF Placed, Removing
<1>4. entry' = entry /\ UNCHANGED <<ctx, acquire, accepted>>
  BY DEF ResumeRemove
<1>5. \A u \in Thread \ {t} : pc[u].sa = sa => pc[u].at \notin Removing
  BY <1>1, <1>t DEF Lock, Apart
<1>6. entry[sa].awaits_deletion \in BOOLEAN
  BY <1>1, <1>t DEF Entry
<1>7. entry'[sa].awaits_deletion = TRUE
  BY <1>3, <1>4, <1>6
<1>8. Marked(sa)
  BY <1>4, <1>7, <1>t DEF Marked
<1> QED BY <1>2, <1>3, <1>4, <1>5, <1>8, <1>t, WaitRemoveKeeps

\* A thread that is woken for no reason is where it was.
LEMMA SpuriousKeeps ==
    ASSUME IInv, NEW t \in Thread, Spurious(t)
    PROVE  IInv'
<1>t. TypeOK /\ pc \in [Thread -> Pc] /\ pc[t] \in Pc
  BY DEF IInv, TypeOK
<1>1. [pc[t] EXCEPT !.woken = TRUE] \in Pc
  BY <1>t DEF Pc
<1>2. pc' = [pc EXCEPT ![t] = [pc[t] EXCEPT !.woken = TRUE]]
  BY DEF Spurious
<1>3. /\ pc' \in [Thread -> Pc]
      /\ \A u \in Thread : pc'[u].at = pc[u].at /\ pc'[u].sa = pc[u].sa
  BY <1>1, <1>2, <1>t DEF Pc
<1>4. UNCHANGED <<sas, entry, ctx, freed, acquire, accepted>>
  BY DEF Spurious
<1>5. TypeOK'
  BY <1>3, <1>4, <1>t DEF TypeOK
<1>6. Fresh'
  BY <1>4 DEF IInv, Fresh
<1>7. Lock'
  BY <1>3, <1>4 DEF IInv, Lock
<1>8. Direction'
  BY <1>3, <1>4 DEF IInv, Direction, Thread
<1>9. Window'
  BY <1>4, <1>t, WindowUnchanged DEF IInv
<1> QED BY <1>5, <1>6, <1>7, <1>8, <1>9 DEF IInv

\* A packet, a query or an update asks for an SA, at once or after a wait.
LEMMA CheckoutKeeps ==
    ASSUME IInv, NEW t \in Thread, NEW sa \in Sa, NEW job \in {"packet", "query"},
           t = Out => entry[sa].inbound = FALSE,
           Checkout(t, [Idle EXCEPT !.sa = sa, !.job = job])
    PROVE  IInv'
<1> DEFINE r == [Idle EXCEPT !.sa = sa, !.job = job]
<1>1. r \in Pc /\ r.sa = sa
  BY DEF Idle, Pc
<1>2. /\ pc[t].at = "idle" /\ sa \in sas
      /\ WaitForEntry(t, r.sa, r, entry[r.sa].waiting_threads)
      /\ acquire' \in BOOLEAN /\ UNCHANGED <<sas, ctx, freed, accepted>>
  BY <1>1 DEF Checkout, Idle, IInv, TypeOK, Acquires
<1>3. entry[r.sa].waiting_threads \in SUBSET Thread
  BY <1>1 DEF IInv, TypeOK, Entry
<1> HIDE DEF r
<1> QED BY <1>1, <1>2, <1>3, EntryStep

\* A woken thread goes on in wait_for_entry().
LEMMA ResumeKeeps ==
    ASSUME IInv, NEW t \in Thread, Resume(t)
    PROVE  IInv'
<1>1. /\ TypeOK /\ Lock /\ Direction /\ pc[t].at = "waiting" /\ pc[t] \in Pc
      /\ Placed(sas, entry, t, pc[t].at, pc[t].sa)
  BY DEF IInv, TypeOK, Lock, Resume
<1>2. pc[t].sa \in sas /\ pc[t].sa \in Sa
  BY <1>1 DEF Placed, TypeOK
<1>3. entry[pc[t].sa].waiting_threads \ {t} \in SUBSET Thread
  BY <1>1, <1>2 DEF TypeOK, Entry
<1>4. t = Out => entry[pc[t].sa].inbound = FALSE
  BY <1>1 DEF Direction
<1>5. acquire' \in BOOLEAN
  BY <1>1 DEF Resume, TypeOK, Acquires
<1> QED BY <1>1, <1>2, <1>3, <1>4, <1>5, EntryStep DEF Resume

\* Every step keeps the invariant.
LEMMA StepKeeps ==
    ASSUME IInv, [Next]_vars
    PROVE  IInv'
<1>t. In \in Thread /\ Out \in Thread /\ Control \subseteq Thread /\ In # Out
      /\ In \notin Control /\ Out \notin Control
  BY IpsecAssumption DEF Thread
<1>b. \A sa \in Sa : entry[sa].inbound \in BOOLEAN
  BY DEF IInv, TypeOK, Entry
<1>1. ASSUME NEW sa \in Sa, CheckoutBySpi(sa) PROVE IInv'
  BY <1>1, <1>t, CheckoutKeeps DEF CheckoutBySpi
<1>2. ASSUME NEW sa \in Sa, CheckoutByReqid(sa) PROVE IInv'
  <2>1. entry[sa].inbound = FALSE
    BY <1>2, <1>b DEF CheckoutByReqid, Outbound
  <2> QED BY <2>1, <1>2, <1>t, CheckoutKeeps DEF CheckoutByReqid
<1>3. CASE Acquire \/ AcquireTimeout \/ UNCHANGED vars
  <2>1. UNCHANGED <<sas, entry, ctx, freed, pc, accepted>> /\ acquire' \in BOOLEAN
    BY <1>3 DEF Acquire, AcquireTimeout, vars, IInv, TypeOK
  <2>2. TypeOK' /\ Fresh'
    BY <2>1 DEF IInv, TypeOK, Fresh
  <2>3. Lock' /\ Direction'
    BY <2>1 DEF IInv, Lock, Direction
  <2>4. Window'
    BY <2>1, WindowUnchanged DEF IInv
  <2> QED BY <2>2, <2>3, <2>4 DEF IInv
<1>4. ASSUME NEW t \in Control, NEW sa \in Sa, Query(t, sa) PROVE IInv'
  BY <1>4, <1>t, CheckoutKeeps DEF Query
<1>5. ASSUME NEW t \in Control, NEW sa \in Sa, NEW hard \in BOOLEAN, Remove(t, sa, hard)
      PROVE  IInv'
  BY <1>5, <1>t, RemoveKeeps
<1> QED
  BY <1>1, <1>2, <1>3, <1>4, <1>5, ProcessInboundKeeps, ProcessOutboundKeeps, AddSaKeeps,
     ResumeKeeps, ResumeRemoveKeeps, SpuriousKeeps DEF Next

\* It holds before anything is installed.
LEMMA InitHolds == Init => IInv
<1> SUFFICES ASSUME Init PROVE IInv
  OBVIOUS
<1>n. 0 \in Seqno /\ Seqno \subseteq Nat /\ WindowSize - 1 \in Nat /\ 0 \in 0..(WindowSize - 1)
      /\ MaxSa \in Nat
  BY IpsecAssumption DEF Seqno
<1>i. Idle \in Pc
  BY DEF Idle, Pc
<1>1. TypeOK
  BY <1>n, <1>i DEF Init, TypeOK, Entry, Context
<1>2. Fresh
  <2>1. sas \cup freed = 1..0
    BY DEF Init
  <2>2. 0 \in 0..MaxSa
    BY <1>n
  <2> QED BY <2>1, <2>2 DEF Init, Fresh
<1>3. Lock /\ Direction
  BY DEF Init, Lock, Direction, Placed, Apart, Removing, Idle, Thread
<1>4. Window
  BY DEF Init, Window
<1> QED BY <1>1, <1>2, <1>3, <1>4 DEF IInv

\* The invariant holds in every state the data plane reaches.
THEOREM Invariance == Spec => []IInv
<1>1. Init => IInv
  BY InitHolds
<1>2. IInv /\ [Next]_vars => IInv'
  BY StepKeeps
<1> QED BY <1>1, <1>2, PTL DEF Spec

\* The state of the data plane is always well-formed: the index of a window,
\* which the code takes modulo window_size, stays below it.
THEOREM TypeCorrect == Spec => []TypeOK
<1>1. IInv => TypeOK
  BY DEF IInv
<1> QED BY <1>1, Invariance, PTL

\* No ESP packet is accepted twice, for every size of the window and whatever
\* the network repeats and reorders.
THEOREM NeverReplayed == Spec => []AcceptedOnce
<1>1. ASSUME IInv PROVE AcceptedOnce
  <2> SUFFICES ASSUME NEW sa \in Sa, NEW s \in Seqno PROVE accepted[sa][s] <= 1
    BY DEF AcceptedOnce
  <2>1. CASE entry[sa].inbound
    BY <1>1, <2>1 DEF IInv, Window, Exact
  <2>2. CASE ~entry[sa].inbound
    <3>1. accepted[sa][s] = 0
      BY <1>1, <2>2 DEF IInv, Window
    <3> QED BY <3>1
  <2> QED BY <2>1, <2>2
<1> QED BY <1>1, Invariance, PTL

\* Inside of the window verify_seqno() lets exactly the numbers pass that were
\* not accepted yet: no late packet is lost to an earlier round of the bits.
THEOREM WindowIsExact == Spec => []WindowExact
<1>1. ASSUME IInv PROVE WindowExact
  <2> SUFFICES ASSUME NEW sa \in Sa, entry[sa].inbound, NEW s \in Seqno \ {0},
                      s + WindowSize > ctx[sa].last_seqno
               PROVE  VerifySeqno(ctx[sa], s) <=> accepted[sa][s] = 0
    BY DEF WindowExact
  <2>1. /\ Exact(ctx[sa], accepted[sa]) /\ ctx[sa].last_seqno \in Seqno
        /\ accepted[sa][s] \in Nat
    BY <1>1 DEF IInv, Window, TypeOK, Context
  <2>2. /\ s \in Nat /\ s > 0 /\ ctx[sa].last_seqno \in Nat /\ WindowSize \in Nat
    BY <2>1, IpsecAssumption DEF Seqno
  <2>3. CASE s > ctx[sa].last_seqno
    BY <2>1, <2>3 DEF VerifySeqno, Exact
  <2>4. CASE s <= ctx[sa].last_seqno
    <3>1. /\ ctx[sa].last_seqno - s < WindowSize /\ WindowSize > ctx[sa].last_seqno - s
          /\ ~(s > ctx[sa].last_seqno)
      BY <2>2, <2>4
    <3>2. Back(ctx[sa], ctx[sa].last_seqno - s) \in ctx[sa].window <=> accepted[sa][s] = 1
      BY <3>1, <2>1, <2>2, <2>4 DEF Exact
    <3>3. accepted[sa][s] = 1 <=> accepted[sa][s] # 0
      BY <2>1 DEF Exact
    <3> QED BY <3>1, <3>2, <3>3, <2>2, <2>4 DEF VerifySeqno, CheckWindow
  <2> QED BY <2>2, <2>3, <2>4
<1> QED BY <1>1, Invariance, PTL

\* An SA is locked by one thread at a time, and no thread frees it while another
\* works on a packet with it, waits for it or removes it.
THEOREM NoUseAfterFree == Spec => []LockedSafe
<1>1. ASSUME IInv PROVE LockedSafe
  <2>1. \A t \in Thread : Placed(sas, entry, t, pc[t].at, pc[t].sa)
    BY <1>1 DEF IInv, Lock
  <2>2. \A t, u \in Thread : t # u => Apart(pc[t].at, pc[t].sa, pc[u].at, pc[u].sa)
    BY <1>1 DEF IInv, Lock
  <2>3. sas \cap freed = {}
    BY <1>1 DEF IInv, Fresh
  <2> QED BY <2>1, <2>2, <2>3 DEF LockedSafe, Placed, Apart
<1> QED BY <1>1, Invariance, PTL
-----------------------------------------------------------------------------
(* No lost wakeup *)

\* waiting_threads counts the threads that are in wait_for_entry(), and no other.
Waiters ==
    \A sa \in Sa : \A t \in entry[sa].waiting_threads :
       t \in Thread /\ pc[t].at = "waiting" /\ pc[t].sa = sa

\* If threads sleep at the SA, another one that was woken is there.
AwakeAt(f, sa) ==
    Blocked(f, sa) # {} => \E t \in Thread : f[t].sa = sa /\ f[t].woken

Awake == \A sa \in sas : ~entry[sa].locked => AwakeAt(pc, sa)

\* signal() wakes one if any sleeps, at this SA only.
LEMMA SignalWakes ==
    ASSUME NEW f \in [Thread -> Pc], NEW sa, NEW g \in Signal(f, sa)
    PROVE  AwakeAt(g, sa) /\ \A u \in Thread : f[u].sa # sa => g[u] = f[u]
<1>1. CASE Blocked(f, sa) = {}
  BY <1>1 DEF Signal, AwakeAt
<1>2. CASE Blocked(f, sa) # {}
  <2>1. PICK t \in Blocked(f, sa) : g = [f EXCEPT ![t].woken = TRUE]
    BY <1>2 DEF Signal
  <2>2. t \in Thread /\ f[t].sa = sa /\ f[t] \in Pc
    BY DEF Blocked
  <2>3. g[t] = [f[t] EXCEPT !.woken = TRUE] /\ \A u \in Thread \ {t} : g[u] = f[u]
    BY <2>1, <2>2
  <2>4. g[t].woken = TRUE /\ g[t].sa = sa
    BY <2>2, <2>3 DEF Pc
  <2> QED BY <2>2, <2>3, <2>4 DEF AwakeAt
<1> QED BY <1>1, <1>2

\* broadcast() wakes all that wait for the SA, and none elsewhere.
LEMMA BroadcastWakes ==
    ASSUME NEW f \in [Thread -> Pc], NEW sa, NEW u \in Thread
    PROVE  /\ f[u].sa # sa => Broadcast(f, sa)[u] = f[u]
           /\ f[u].sa = sa /\ f[u].at = "waiting" => Broadcast(f, sa)[u].woken = TRUE
<1>1. f[u] \in Pc /\ f[u].woken \in BOOLEAN
  BY DEF Pc
<1>2. CASE u \in Blocked(f, sa)
  <2>1. Broadcast(f, sa)[u] = [f[u] EXCEPT !.woken = TRUE] /\ f[u].sa = sa
    BY <1>2 DEF Broadcast, Blocked
  <2>2. Broadcast(f, sa)[u].woken = TRUE
    BY <2>1, <1>1 DEF Pc
  <2> QED BY <2>1, <2>2
<1>3. CASE u \notin Blocked(f, sa)
  <2>1. Broadcast(f, sa)[u] = f[u]
    BY <1>3 DEF Broadcast
  <2>2. f[u].sa = sa /\ f[u].at = "waiting" => f[u].woken = TRUE
    BY <1>1, <1>3 DEF Blocked
  <2> QED BY <2>1, <2>2
<1> QED BY <1>2, <1>3

\* An SA whose threads did not change is as awake as it was.
LEMMA AwakeElsewhere ==
    ASSUME NEW f, NEW g, NEW x, AwakeAt(f, x),
           \A u \in Thread : f[u].sa = x \/ g[u].sa = x => g[u] = f[u]
    PROVE  AwakeAt(g, x)
BY DEF AwakeAt, Blocked

\* Only the thread that moves comes or goes.
LEMMA WaitersAfterMove ==
    ASSUME NEW t \in Thread, NEW at, NEW sa, Moves(t, at, sa), Waiters,
           \A x \in Sa : /\ entry'[x].waiting_threads \subseteq entry[x].waiting_threads \cup {t}
                         /\ t \in entry'[x].waiting_threads => x = sa /\ at = "waiting"
    PROVE  Waiters'
BY DEF Waiters, Moves

\* What one thread does at one SA wakes enough of the others: then it is locked,
\* awake or gone, and nothing changes elsewhere.
LEMMA AwakeAfterMove ==
    ASSUME Awake, NEW t \in Thread, NEW sa, pc[t].sa \in {0, sa}, 
           sas' \subseteq sas, 0 \notin sas,
           \A u \in Thread : pc[u].sa # sa /\ u # t => pc'[u] = pc[u],
           \A u \in Thread : pc[u].sa = sa \/ u = t => pc'[u].sa \in {0, sa},
           \A x \in sas \ {sa} : entry'[x].locked = entry[x].locked,
           sa \in sas' => entry'[sa].locked \/ AwakeAt(pc', sa)
    PROVE  Awake'
<1> SUFFICES ASSUME NEW x \in sas', ~entry'[x].locked
             PROVE  AwakeAt(pc', x)
  BY DEF Awake, AwakeAt, Blocked
<1>1. CASE x = sa
  BY <1>1
<1>2. CASE x # sa
  <2>1. AwakeAt(pc, x)
    BY <1>2 DEF Awake
  <2>2. ASSUME NEW u \in Thread, pc[u].sa = x \/ pc'[u].sa = x
        PROVE  pc'[u] = pc[u]
    <3>1. x # 0
      OBVIOUS
    <3>2. CASE pc[u].sa = sa \/ u = t
      BY <3>1, <3>2, <2>2, <1>2
    <3>3. CASE pc[u].sa # sa /\ u # t
      BY <3>3
    <3> QED BY <3>2, <3>3
  <2> QED BY <2>1, <2>2, AwakeElsewhere
<1> QED BY <1>1, <1>2

\* A thread leaves the SA and signals.
LEMMA LeaveWakes ==
    ASSUME pc \in [Thread -> Pc], NEW t \in Thread, NEW sa \in Sa,
           pc' \in Signal([pc EXCEPT ![t] = Idle], sa)
    PROVE  /\ AwakeAt(pc', sa)
           /\ \A u \in Thread : pc[u].sa # sa /\ u # t => pc'[u] = pc[u]
           /\ \A u \in Thread : pc[u].sa = sa \/ u = t => pc'[u].sa \in {0, sa}
<1> DEFINE f == [pc EXCEPT ![t] = Idle]
<1>1. Idle \in Pc /\ Idle.sa = 0 /\ 0 # sa
  BY DEF Idle, Pc, Sa
<1>2. f \in [Thread -> Pc] /\ f[t] = Idle /\ \A u \in Thread \ {t} : f[u] = pc[u]
  BY <1>1
<1>s. pc' \in Signal(f, sa)
  OBVIOUS
<1> HIDE DEF f
<1>3. AwakeAt(pc', sa) /\ \A u \in Thread : f[u].sa # sa => pc'[u] = f[u]
  BY <1>2, <1>s, SignalWakes
<1>4. SamePlaces(f, pc')
  BY <1>2, <1>s, SignalKeeps
<1> QED BY <1>1, <1>2, <1>3, <1>4 DEF SamePlaces

\* wait_for_entry()
LEMMA WaitForEntryWakes ==
    ASSUME TypeOK, Waiters, Awake, NEW t \in Thread, NEW r \in Pc, r.sa \in sas,
           pc[t].sa \in {0, r.sa}, sas' = sas,
           WaitForEntry(t, r.sa, r, entry[r.sa].waiting_threads \ {t})
    PROVE  Waiters' /\ Awake'
<1>1. PICK sa \in sas : sa = r.sa
  OBVIOUS
<1> DEFINE e == entry[sa]
           others == e.waiting_threads \ {t}
<1>t. /\ sa \in Sa /\ entry \in [Sa -> Entry] /\ pc \in [Thread -> Pc] /\ e \in Entry
      /\ 0 \notin sas /\ sas \subseteq Sa
  BY DEF TypeOK, Sa
<1>2. ASSUME e.locked = TRUE,
             entry' = [entry EXCEPT ![sa].waiting_threads = others \cup {t}],
             pc' = [pc EXCEPT ![t] = [r EXCEPT !.at = "waiting", !.woken = FALSE]]
      PROVE  Waiters' /\ Awake'
  <2>1. /\ [r EXCEPT !.at = "waiting", !.woken = FALSE] \in Pc
        /\ [r EXCEPT !.at = "waiting", !.woken = FALSE].sa = sa
    BY <1>1 DEF Pc
  <2>2. Moves(t, "waiting", sa)
    BY <1>2, <1>t, <2>1, MoveAlone DEF Pc
  <2>3. /\ entry'[sa].locked = TRUE /\ entry'[sa].waiting_threads = others \cup {t}
        /\ \A x \in Sa \ {sa} : entry'[x] = entry[x]
    BY <1>2, <1>t DEF Entry
  <2>4. \A x \in Sa \ {sa} : t \notin entry[x].waiting_threads
    BY <1>1, <1>t DEF Waiters, Sa
  <2>5. Waiters'
    BY <2>2, <2>3, <2>4, <1>t, WaitersAfterMove
  <2>6. /\ \A u \in Thread : pc[u].sa # sa /\ u # t => pc'[u] = pc[u]
        /\ \A u \in Thread : pc[u].sa = sa \/ u = t => pc'[u].sa \in {0, sa}
    BY <1>2, <1>t, <2>1
  <2>7. Awake'
    BY <2>3, <2>6, <1>1, <1>t, AwakeAfterMove
  <2> QED BY <2>5, <2>7
<1>3. ASSUME entry' = [entry EXCEPT ![sa].waiting_threads = others],
             pc' \in Signal([pc EXCEPT ![t] = Idle], sa)
      PROVE  Waiters' /\ Awake'
  <2>2. Moves(t, "idle", sa)
    BY <1>3, <1>t, MoveThenSignal
  <2>3. /\ entry'[sa].waiting_threads = others
        /\ \A x \in Sa \ {sa} : entry'[x] = entry[x]
    BY <1>3, <1>t DEF Entry
  <2>4. \A x \in Sa \ {sa} : t \notin entry[x].waiting_threads
    BY <1>1, <1>t DEF Waiters, Sa
  <2>5. Waiters'
    BY <2>2, <2>3, <2>4, <1>t, WaitersAfterMove
  <2>6. /\ AwakeAt(pc', sa)
        /\ \A u \in Thread : pc[u].sa # sa /\ u # t => pc'[u] = pc[u]
        /\ \A u \in Thread : pc[u].sa = sa \/ u = t => pc'[u].sa \in {0, sa}
    BY <1>3, <1>t, LeaveWakes
  <2>7. Awake'
    BY <2>3, <2>6, <1>1, <1>t, AwakeAfterMove
  <2> QED BY <2>5, <2>7
<1>4. ASSUME entry' = [entry EXCEPT ![sa].waiting_threads = others, ![sa].locked = TRUE],
             pc' = [pc EXCEPT ![t] = [r EXCEPT !.at = "using", !.woken = FALSE]]
      PROVE  Waiters' /\ Awake'
  <2>1. /\ [r EXCEPT !.at = "using", !.woken = FALSE] \in Pc
        /\ [r EXCEPT !.at = "using", !.woken = FALSE].sa = sa
    BY <1>1 DEF Pc
  <2>2. Moves(t, "using", sa)
    BY <1>4, <1>t, <2>1, MoveAlone DEF Pc
  <2>3. /\ entry'[sa].locked = TRUE /\ entry'[sa].waiting_threads = others
        /\ \A x \in Sa \ {sa} : entry'[x] = entry[x]
    BY <1>4, <1>t DEF Entry
  <2>4. \A x \in Sa \ {sa} : t \notin entry[x].waiting_threads
    BY <1>1, <1>t DEF Waiters, Sa
  <2>5. Waiters'
    BY <2>2, <2>3, <2>4, <1>t, WaitersAfterMove
  <2>6. /\ \A u \in Thread : pc[u].sa # sa /\ u # t => pc'[u] = pc[u]
        /\ \A u \in Thread : pc[u].sa = sa \/ u = t => pc'[u].sa \in {0, sa}
    BY <1>4, <1>t, <2>1
  <2>7. Awake'
    BY <2>3, <2>6, <1>1, <1>t, AwakeAfterMove
  <2> QED BY <2>5, <2>7
<1>5. e.locked \in BOOLEAN
  BY <1>t DEF Entry
<1> QED BY <1>1, <1>2, <1>3, <1>4, <1>5 DEF WaitForEntry

\* checkin()
LEMMA CheckinWakes ==
    ASSUME IInv, Waiters, Awake, NEW t \in Thread, pc[t].at = "using",
           NEW hard \in BOOLEAN, Checkin(t, pc[t].sa, hard)
    PROVE  Waiters' /\ Awake'
<1>1. PICK sa \in sas : sa = pc[t].sa
  BY DEF IInv, Lock, Placed
<1>t. /\ sa \in Sa /\ entry \in [Sa -> Entry] /\ pc \in [Thread -> Pc] /\ entry[sa] \in Entry
      /\ 0 \notin sas /\ sas \subseteq Sa /\ sas' = sas
  BY DEF IInv, TypeOK, Sa, Checkin
<1>2. entry' = [entry EXCEPT ![sa].locked = FALSE, ![sa].hard_expired = hard]
      /\ pc' \in Signal([pc EXCEPT ![t] = Idle], sa)
  BY <1>1 DEF Checkin
<1>3. Moves(t, "idle", sa)
  BY <1>2, <1>t, MoveThenSignal
<1>4. /\ entry'[sa].waiting_threads = entry[sa].waiting_threads
      /\ \A x \in Sa \ {sa} : entry'[x] = entry[x]
  BY <1>2, <1>t DEF Entry
<1>5. \A x \in Sa : t \notin entry[x].waiting_threads
  BY DEF Waiters
<1>6. Waiters'
  BY <1>3, <1>4, <1>5, <1>t, WaitersAfterMove
<1>7. /\ AwakeAt(pc', sa)
      /\ \A u \in Thread : pc[u].sa # sa /\ u # t => pc'[u] = pc[u]
      /\ \A u \in Thread : pc[u].sa = sa \/ u = t => pc'[u].sa \in {0, sa}
  BY <1>2, <1>t, LeaveWakes
<1>8. Awake'
  BY <1>1, <1>4, <1>7, <1>t, AwakeAfterMove
<1> QED BY <1>6, <1>8

\* wait_remove_entry(): the thread that broadcasts and goes to sleep leaves one
\* behind that it woke.
LEMMA WaitRemoveWakes ==
    ASSUME TypeOK, Waiters, Awake, NEW t \in Thread, NEW sa \in sas, NEW loop \in {1, 2},
           pc[t].sa \in {0, sa}, pc[t].at # "waiting", Marked(sa), WaitRemove(t, sa, loop)
    PROVE  Waiters' /\ Awake'
<1>t. /\ sa \in Sa /\ pc \in [Thread -> Pc] /\ 0 \notin sas /\ sas \subseteq Sa
      /\ Idle \in Pc /\ Idle.at = "idle" /\ Idle.sa = 0
  BY DEF TypeOK, Sa, Idle, Pc
<1>m. \A x \in Sa : /\ entry'[x].locked = entry[x].locked
                    /\ entry'[x].waiting_threads = entry[x].waiting_threads
  BY DEF Marked
<1>w. \A x \in Sa : t \notin entry[x].waiting_threads
  BY DEF Waiters
<1>1. ASSUME entry[sa].locked, UNCHANGED <<sas, freed>>,
             pc' = [pc EXCEPT ![t] = [Idle EXCEPT !.at = "remove1", !.sa = sa]]
      PROVE  Waiters' /\ Awake'
  <2>1. [Idle EXCEPT !.at = "remove1", !.sa = sa] \in Pc
    BY <1>t DEF Idle, Pc
  <2>2. Moves(t, "remove1", sa)
    BY <1>1, <1>t, <2>1, MoveAlone DEF Idle
  <2>3. Waiters'
    BY <2>2, <1>m, <1>w, WaitersAfterMove
  <2>4. /\ \A u \in Thread : pc[u].sa # sa /\ u # t => pc'[u] = pc[u]
        /\ \A u \in Thread : pc[u].sa = sa \/ u = t => pc'[u].sa \in {0, sa}
    BY <1>1, <1>t DEF Idle
  <2>5. Awake'
    BY <1>1, <2>4, <1>m, <1>t, AwakeAfterMove
  <2> QED BY <2>3, <2>5
<1>2. ASSUME entry[sa].waiting_threads # {}, UNCHANGED <<sas, freed>>,
             pc' = [Broadcast(pc, sa) EXCEPT ![t] = [Idle EXCEPT !.at = "remove2", !.sa = sa]]
      PROVE  Waiters' /\ Awake'
  <2>1. [Idle EXCEPT !.at = "remove2", !.sa = sa] \in Pc
    BY <1>t DEF Idle, Pc
  <2>2. Moves(t, "remove2", sa)
    BY <1>2, <1>t, <2>1, BroadcastThenMove DEF Idle
  <2>3. Waiters'
    BY <2>2, <1>m, <1>w, WaitersAfterMove
  <2>4. SamePlaces(pc, Broadcast(pc, sa))
    BY <1>t, BroadcastKeeps
  <2>5. pc'[t] = [Idle EXCEPT !.at = "remove2", !.sa = sa]
        /\ \A u \in Thread \ {t} : pc'[u] = Broadcast(pc, sa)[u]
    BY <1>2, <2>4 DEF SamePlaces
  <2>b. \A u \in Thread :
           /\ pc[u].sa # sa => Broadcast(pc, sa)[u] = pc[u]
           /\ pc[u].sa = sa /\ pc[u].at = "waiting" => Broadcast(pc, sa)[u].woken = TRUE
    BY <1>t, BroadcastWakes
  <2>6. \A u \in Thread : pc[u].sa # sa /\ u # t => pc'[u] = pc[u]
    BY <2>5, <2>b
  <2>7. \A u \in Thread : pc[u].sa = sa \/ u = t => pc'[u].sa \in {0, sa}
    BY <2>4, <2>5 DEF SamePlaces, Idle
  <2>8. AwakeAt(pc', sa)
    <3>1. PICK u \in entry[sa].waiting_threads : TRUE
      BY <1>2
    <3>2. u \in Thread /\ u # t /\ pc[u].at = "waiting" /\ pc[u].sa = sa
      BY <3>1, <1>t, <1>w DEF Waiters
    <3>3. pc'[u].woken = TRUE /\ pc'[u].sa = sa
      BY <3>2, <2>4, <2>5, <2>b DEF SamePlaces
    <3> QED BY <3>2, <3>3 DEF AwakeAt
  <2>9. Awake'
    <3>1. sas' = sas /\ \A x \in sas \ {sa} : entry'[x].locked = entry[x].locked
      BY <1>2, <1>m, <1>t
    <3> QED BY <3>1, <2>6, <2>7, <2>8, <1>t, AwakeAfterMove
  <2> QED BY <2>3, <2>9
<1>3. ASSUME pc' = [pc EXCEPT ![t] = Idle], sas' = sas \ {sa}
      PROVE  Waiters' /\ Awake'
  <2>1. Moves(t, "idle", sa)
    BY <1>3, <1>t, MoveAlone DEF Moves
  <2>2. Waiters'
    BY <2>1, <1>m, <1>w, WaitersAfterMove
  <2>3. /\ \A u \in Thread : pc[u].sa # sa /\ u # t => pc'[u] = pc[u]
        /\ \A u \in Thread : pc[u].sa = sa \/ u = t => pc'[u].sa \in {0, sa}
    BY <1>3, <1>t
  <2>4. Awake'
    BY <1>3, <2>3, <1>m, <1>t, AwakeAfterMove
  <2> QED BY <2>2, <2>4
<1> QED BY <1>1, <1>2, <1>3 DEF WaitRemove

\* A thread that asks for an SA does not wait for one yet.
LEMMA CheckoutWakes ==
    ASSUME TypeOK, Waiters, Awake, NEW t \in Thread, NEW sa \in Sa,
           NEW job \in {"packet", "query"}, Checkout(t, [Idle EXCEPT !.sa = sa, !.job = job])
    PROVE  Waiters' /\ Awake'
<1> DEFINE r == [Idle EXCEPT !.sa = sa, !.job = job]
<1>1. r \in Pc /\ r.sa = sa
  BY DEF Idle, Pc
<1>2. /\ pc[t].at = "idle" /\ pc[t].sa = 0 /\ sa \in sas /\ sas' = sas
      /\ WaitForEntry(t, r.sa, r, entry[r.sa].waiting_threads)
  BY <1>1 DEF Checkout, Idle
<1>3. entry[r.sa].waiting_threads = entry[r.sa].waiting_threads \ {t}
  BY <1>1, <1>2 DEF Waiters
<1>4. WaitForEntry(t, r.sa, r, entry[r.sa].waiting_threads \ {t})
  BY <1>2, <1>3
<1> HIDE DEF r
<1> QED BY <1>1, <1>2, <1>4, WaitForEntryWakes

\* Every step keeps somebody awake.
LEMMA StepWakes ==
    ASSUME IInv, Waiters, Awake, [Next]_vars
    PROVE  Waiters' /\ Awake'
<1>t. /\ In \in Thread /\ Out \in Thread /\ Control \subseteq Thread /\ TypeOK
      /\ pc \in [Thread -> Pc] /\ entry \in [Sa -> Entry] /\ sas \subseteq Sa
      /\ 0 \notin Sa
  BY DEF Thread, IInv, TypeOK, Sa
<1>1. ASSUME NEW sa \in Sa, CheckoutBySpi(sa) \/ CheckoutByReqid(sa) PROVE Waiters' /\ Awake'
  BY <1>1, <1>t, CheckoutWakes DEF CheckoutBySpi, CheckoutByReqid
<1>2. ASSUME NEW t \in Control, NEW sa \in Sa, Query(t, sa) PROVE Waiters' /\ Awake'
  BY <1>2, <1>t, CheckoutWakes DEF Query
<1>3. CASE Acquire \/ AcquireTimeout \/ UNCHANGED vars
  <2>1. UNCHANGED <<sas, entry, pc>>
    BY <1>3 DEF Acquire, AcquireTimeout, vars
  <2> QED BY <2>1 DEF Waiters, Awake, AwakeAt, Blocked
<1>4. ASSUME NEW seq \in Seqno, NEW genuine \in BOOLEAN, ProcessInbound(seq, genuine)
      PROVE  Waiters' /\ Awake'
  BY <1>4, <1>t, CheckinWakes DEF ProcessInbound
<1>5. CASE ProcessOutbound
  BY <1>5, <1>t, CheckinWakes DEF ProcessOutbound
<1>6. ASSUME NEW inbound \in BOOLEAN, AddSa(inbound) PROVE Waiters' /\ Awake'
  <2>1. PICK sa \in Sa : /\ entry' = [entry EXCEPT ![sa].inbound = inbound]
                         /\ sas' = sas \cup {sa} /\ pc' = pc
    BY <1>6 DEF AddSa
  <2>2. entry[sa] \in Entry
    BY <1>t
  <2>3. \A x \in Sa : /\ entry'[x].waiting_threads = entry[x].waiting_threads
                      /\ entry'[x].locked = entry[x].locked
    BY <2>1, <2>2, <1>t DEF Entry
  <2>4. Waiters'
    BY <2>1, <2>3 DEF Waiters
  <2>5. ASSUME NEW x \in sas', ~entry'[x].locked PROVE AwakeAt(pc, x)
    <3>1. CASE x \in sas
      <4>1. ~entry[x].locked
        BY <3>1, <2>3, <2>5, <1>t
      <4> QED BY <4>1, <3>1 DEF Awake
    <3>2. CASE x \notin sas
      <4>1. Blocked(pc, x) = {}
        BY <3>2 DEF Blocked, IInv, Lock, Placed
      <4> QED BY <4>1 DEF AwakeAt
    <3> QED BY <3>1, <3>2
  <2>6. Awake'
    BY <2>1, <2>5 DEF Awake, AwakeAt, Blocked
  <2> QED BY <2>4, <2>6
<1>7. ASSUME NEW t \in Control, NEW sa \in Sa, NEW hard \in BOOLEAN, Remove(t, sa, hard)
      PROVE  Waiters' /\ Awake'
  <2>0. sa \in sas /\ pc[t].at = "idle" /\ pc[t].sa = 0 /\ t \in Thread
    BY <1>7, <1>t DEF Remove, Idle
  <2>4. Marked(sa)
    BY <1>7, <2>0, <1>t, RemoveMarks
  <2>5. CASE entry[sa].awaits_deletion
    <3>1. UNCHANGED <<pc, sas>>
      BY <1>7, <2>5 DEF Remove
    <3>2. \A x \in Sa : /\ entry'[x].locked = entry[x].locked
                        /\ entry'[x].waiting_threads = entry[x].waiting_threads
      BY <2>4 DEF Marked
    <3>3. Waiters'
      BY <3>1, <3>2 DEF Waiters
    <3>4. ASSUME NEW x \in sas, ~entry'[x].locked PROVE AwakeAt(pc, x)
      <4>1. ~entry[x].locked
        BY <3>2, <3>4, <1>t
      <4> QED BY <4>1 DEF Awake
    <3>5. Awake'
      BY <3>1, <3>4 DEF Awake, AwakeAt, Blocked
    <3> QED BY <3>3, <3>5
  <2>6. CASE ~entry[sa].awaits_deletion
    <3>1. WaitRemove(t, sa, 1)
      BY <1>7, <2>6 DEF Remove
    <3> QED BY <3>1, <2>0, <2>4, <1>t, WaitRemoveWakes
  <2> QED BY <2>5, <2>6
<1>8. ASSUME NEW t \in Thread, Resume(t) PROVE Waiters' /\ Awake'
  <2>1. pc[t] \in Pc /\ pc[t].sa \in sas /\ sas' = sas
    BY <1>8, <1>t DEF Resume, IInv, Lock, Placed
  <2> QED BY <2>1, <1>8, <1>t, WaitForEntryWakes DEF Resume
<1>9. ASSUME NEW t \in Thread, ResumeRemove(t) PROVE Waiters' /\ Awake'
  <2>1. PICK sa \in sas : sa = pc[t].sa /\ entry[sa].awaits_deletion
    BY <1>9 DEF ResumeRemove, IInv, Lock, Placed, Removing
  <2>2. PICK loop \in {1, 2} : WaitRemove(t, sa, loop)
    BY <1>9, <2>1 DEF ResumeRemove
  <2>3. entry' = entry /\ pc[t].at # "waiting"
    BY <1>9 DEF ResumeRemove
  <2>4. entry[sa].awaits_deletion \in BOOLEAN
    BY <1>t DEF Entry
  <2>5. entry'[sa].awaits_deletion = TRUE
    BY <2>1, <2>3, <2>4
  <2>6. Marked(sa)
    BY <2>3, <2>5, <1>t DEF Marked
  <2> QED BY <2>1, <2>2, <2>3, <2>6, <1>t, WaitRemoveWakes
<1>10. ASSUME NEW t \in Thread, Spurious(t) PROVE Waiters' /\ Awake'
  <2>1. pc' = [pc EXCEPT ![t] = [pc[t] EXCEPT !.woken = TRUE]] /\ UNCHANGED <<sas, entry>>
    BY <1>10 DEF Spurious
  <2>2. /\ pc'[t].woken = TRUE /\ pc'[t].sa = pc[t].sa /\ pc'[t].at = pc[t].at
        /\ \A u \in Thread \ {t} : pc'[u] = pc[u]
    BY <2>1, <1>t DEF Pc
  <2>3. Waiters'
    BY <2>1, <2>2 DEF Waiters
  <2>4. AwakeAt(pc', pc[t].sa)
    BY <2>2 DEF AwakeAt
  <2>5. PICK sa : sa = pc[t].sa
    OBVIOUS
  <2>6. /\ \A u \in Thread : pc[u].sa # sa /\ u # t => pc'[u] = pc[u]
        /\ \A u \in Thread : pc[u].sa = sa \/ u = t => pc'[u].sa \in {0, sa}
        /\ pc[t].sa \in {0, sa} /\ 0 \notin sas /\ sas' = sas /\ entry' = entry
    BY <2>1, <2>2, <2>5, <1>t
  <2>7. AwakeAt(pc', sa)
    BY <2>4, <2>5
  <2>8. Awake'
    BY <2>6, <2>7, AwakeAfterMove
  <2> QED BY <2>3, <2>8
<1> QED
  BY <1>1, <1>2, <1>3, <1>4, <1>5, <1>6, <1>7, <1>8, <1>9, <1>10 DEF Next

\* Threads sleep in the condvar of an SA only while it is locked or one of them
\* was woken, for any number of threads: signalling one of them is enough.
THEOREM WakeupsArrive == Spec => []NoLostWakeup
<1>1. Init => IInv /\ Waiters /\ Awake
  <2>1. Init => Waiters /\ Awake
    BY DEF Init, Waiters, Awake
  <2> QED BY <2>1, InitHolds
<1>2. IInv /\ Waiters /\ Awake /\ [Next]_vars => (IInv /\ Waiters /\ Awake)'
  BY StepKeeps, StepWakes
<1>3. Awake => NoLostWakeup
  BY DEF Awake, AwakeAt, NoLostWakeup
<1> QED BY <1>1, <1>2, <1>3, PTL DEF Spec
=============================================================================
