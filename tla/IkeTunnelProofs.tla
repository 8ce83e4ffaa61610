-------------------------- MODULE IkeTunnelProofs --------------------------
(***************************************************************************)
(* Proofs about IkeTunnel: whatever is posted while daemons come and go,   *)
(* the state service ends up with what became of the last one, for every   *)
(* length of the looper's queue and every number of intents and retries.   *)
(***************************************************************************)
EXTENDS IkeTunnel, TLAPS

-----------------------------------------------------------------------------
(* The invariant *)

\* Posts that leave the state alone, and the state that the others set.
Silent == {"error", "noError"}
StateOf(post) == IF post = "start" THEN "CONNECTING" ELSE post

\* Once the posts q have run on top of state v, the state is w.
Ends(v, q, w) ==
    \/ v = w /\ \A i \in 1..Len(q) : q[i] \in Silent
    \/ \E i \in 1..Len(q) : /\ q[i] \notin Silent /\ StateOf(q[i]) = w
                            /\ \A j \in 1..Len(q) : j > i => q[j] \in Silent

\* What has been told, or is about to be told, about the daemon.
Told == IF ~daemon.on THEN "DISABLED"
        ELSE IF daemon.child \/ daemon.down THEN "CONNECTED" ELSE "CONNECTING"

\* The handler thread and its daemon: a daemon that is off has nothing left of
\* it, and reports are suppressed only while one is being stopped.
Handler ==
    /\ daemon.on = ch.current
    /\ daemon.on \/ daemon = Off
    /\ ch.at \in {"stopping", "deinit"} => ch.current
    /\ ch.at = "next" => ~ch.current
    /\ ch.at = "waiting" /\ ch.current => ~ch.disconnecting

\* The CHILD_SA, its TUN device, and the device that blocks traffic.
Tunnel ==
    /\ daemon.down => ~daemon.child
    /\ daemon.child => daemon.tunfd
    /\ ch.at = "waiting" /\ daemon.child => ~dropper

\* While no daemon is being stopped or started, the posts lead to its state.
Posted == ch.at = "waiting" => Ends(svc.state, posts, Told)

IInv == TypeOK /\ Handler /\ Tunnel /\ Posted
-----------------------------------------------------------------------------
(* Posts *)

\* A post that sets the state decides, if it is the last one.
LEMMA EndsWith ==
    ASSUME NEW q \in Seq(Post), NEW post \in Post \ Silent, NEW v
    PROVE  Append(q, post) \in Seq(Post) /\ Ends(v, Append(q, post), StateOf(post))
<1> DEFINE r == Append(q, post)
           n == Len(q) + 1
<1>1. r \in Seq(Post) /\ Len(r) = n /\ r[n] = post /\ Len(q) \in Nat
  OBVIOUS
<1> HIDE DEF r
<1>2. n \in 1..Len(r) /\ \A j \in 1..Len(r) : ~(j > n)
  BY <1>1
<1>3. Ends(v, r, StateOf(post))
  BY <1>1, <1>2 DEF Ends
<1> QED BY <1>1, <1>3 DEF r

\* Another one does not matter.
LEMMA EndsSilently ==
    ASSUME NEW q \in Seq(Post), NEW post \in Silent, NEW v, NEW w, Ends(v, q, w)
    PROVE  Append(q, post) \in Seq(Post) /\ Ends(v, Append(q, post), w)
<1> DEFINE r == Append(q, post)
           n == Len(q)
<1>1. r \in Seq(Post)
  BY DEF Silent, Post
<1>2. Len(r) = n + 1 /\ r[n + 1] = post /\ n \in Nat /\ \A i \in 1..n : r[i] = q[i]
  OBVIOUS
<1> HIDE DEF r, n
<1>3. 1..Len(r) = (1..n) \cup {n + 1}
  BY <1>2
<1>4. ASSUME v = w, \A i \in 1..n : q[i] \in Silent PROVE Ends(v, r, w)
  BY <1>2, <1>3, <1>4 DEF Ends
<1>5. ASSUME NEW i \in 1..n, q[i] \notin Silent, StateOf(q[i]) = w,
             \A j \in 1..n : j > i => q[j] \in Silent
      PROVE  Ends(v, r, w)
  <2>1. i \in 1..Len(r) /\ r[i] \notin Silent /\ StateOf(r[i]) = w
    BY <1>2, <1>3, <1>5
  <2>2. \A j \in 1..Len(r) : j > i => r[j] \in Silent
    BY <1>2, <1>3, <1>5
  <2> QED BY <2>1, <2>2 DEF Ends
<1>6. Ends(v, r, w)
  BY <1>4, <1>5 DEF Ends, n
<1> QED BY <1>1, <1>6 DEF r

\* The looper runs the first post.
LEMMA EndsRun ==
    ASSUME NEW q \in Seq(Post), q # <<>>, NEW v, NEW w, Ends(v, q, w), NEW u,
           u = IF Head(q) \in Silent THEN v ELSE StateOf(Head(q))
    PROVE  Tail(q) \in Seq(Post) /\ Head(q) \in Post /\ Ends(u, Tail(q), w)
<1> DEFINE r == Tail(q)
           n == Len(r)
<1>1. /\ r \in Seq(Post) /\ Len(q) = n + 1 /\ n \in Nat /\ Head(q) = q[1] /\ Head(q) \in Post
      /\ \A i \in 1..n : r[i] = q[i + 1]
  OBVIOUS
<1>2. \A i \in 1..n : i + 1 \in 1..Len(q)
  BY <1>1
<1>3. 1 \in 1..Len(q)
  BY <1>1
<1> HIDE DEF r, n
<1>4. CASE v = w /\ \A i \in 1..Len(q) : q[i] \in Silent
  <2>1. u = w
    BY <1>1, <1>3, <1>4
  <2>2. \A i \in 1..n : r[i] \in Silent
    BY <1>1, <1>2, <1>4
  <2> QED BY <1>1, <2>1, <2>2 DEF Ends, r, n
<1>5. ASSUME NEW i \in 1..Len(q), q[i] \notin Silent, StateOf(q[i]) = w,
             \A j \in 1..Len(q) : j > i => q[j] \in Silent
      PROVE  Ends(u, r, w)
  <2>1. CASE i = 1
    <3>1. u = w
      BY <1>1, <1>5, <2>1
    <3>2. \A j \in 1..n : r[j] \in Silent
      BY <1>1, <1>2, <1>5, <2>1
    <3> QED BY <3>1, <3>2 DEF Ends, n
  <2>2. CASE i # 1
    <3> DEFINE k == i - 1
    <3>1. k \in 1..n /\ k + 1 = i
      BY <1>1, <2>2
    <3>2. r[k] \notin Silent /\ StateOf(r[k]) = w
      BY <1>1, <1>5, <3>1
    <3>3. \A j \in 1..n : j > k => r[j] \in Silent
      <4>1. \A j \in 1..n : j > k => j + 1 > i /\ j + 1 \in 1..Len(q)
        BY <1>1, <3>1
      <4> QED BY <1>1, <1>5, <4>1
    <3> HIDE DEF k
    <3> QED BY <3>1, <3>2, <3>3 DEF Ends, n
  <2> QED BY <2>1, <2>2
<1>6. Ends(u, r, w)
  BY <1>4, <1>5 DEF Ends, r, n
<1> QED BY <1>1, <1>6 DEF r

\* A daemon that cannot be started.
LEMMA EndsFailed ==
    ASSUME NEW q \in Seq(Post), NEW v
    PROVE  /\ q \o <<"start", "error", "DISABLED">> \in Seq(Post)
           /\ Ends(v, q \o <<"start", "error", "DISABLED">>, "DISABLED")
<1> DEFINE a == Append(q, "start")
           b == Append(a, "error")
<1>1. a \in Seq(Post)
  BY DEF Post
<1> HIDE DEF a
<1>2. b \in Seq(Post)
  BY <1>1 DEF Post
<1> HIDE DEF b
<1>3. "DISABLED" \in Post \ Silent /\ StateOf("DISABLED") = "DISABLED"
  BY DEF Post, State, Silent, StateOf
<1>4. Append(b, "DISABLED") \in Seq(Post) /\ Ends(v, Append(b, "DISABLED"), "DISABLED")
  BY <1>2, <1>3, EndsWith
<1>5. q \o <<"start", "error", "DISABLED">> = Append(b, "DISABLED")
  BY <1>1, <1>2 DEF a, b
<1> QED BY <1>4, <1>5
-----------------------------------------------------------------------------
(* Types *)

\* IkeController.connect() keeps the types.
LEMMA ConnectType ==
    ASSUME TypeOK, NEW c \in IkeController, Connect(c)
    PROVE  /\ ui' \in Connection /\ ike' \in IkeController
           /\ intents' \in Seq({"profile", "retry", "disconnect"})
<1>0. intents \in Seq({"profile", "retry", "disconnect"})
  BY DEF TypeOK
<1>1. ASSUME NEW a \in BOOLEAN, NEW w \in BOOLEAN
      PROVE  [c EXCEPT !.active = a, !.watchdog = w] \in IkeController
  BY DEF IkeController
<1>2. c.watchdog \in BOOLEAN
  BY DEF IkeController
<1>3. CASE /\ ui' = "DISCONNECTED"
           /\ \E armed \in {c.watchdog, TRUE} : ike' = [c EXCEPT !.active = FALSE, !.watchdog = armed]
           /\ UNCHANGED intents
  BY <1>0, <1>1, <1>2, <1>3 DEF Connection
<1>4. CASE /\ ui' = "CONNECTING"
           /\ ike' = [c EXCEPT !.active = TRUE, !.watchdog = TRUE]
           /\ intents' = Append(intents, "profile")
  <2>1. Append(intents, "profile") \in Seq({"profile", "retry", "disconnect"})
    BY <1>0
  <2>2. [c EXCEPT !.active = TRUE, !.watchdog = TRUE] \in IkeController
    BY <1>1
  <2> QED BY <1>4, <2>1, <2>2 DEF Connection
<1> QED BY <1>3, <1>4 DEF Connect

\* So does pushState().
LEMMA PushStateType ==
    ASSUME TypeOK, NEW s \in StateService, PushState(s)
    PROVE  ui' \in Connection /\ ike' \in IkeController
<1>0. ui \in Connection /\ ike \in IkeController /\ s.state \in State
  BY DEF TypeOK, StateService
<1>1. CASE s.state = "CONNECTED"
  BY <1>0, <1>1 DEF PushState, IkeController, Connection
<1>2. CASE s.state = "DISABLED" /\ ike.active
  BY <1>0, <1>2 DEF PushState, IkeController, Connection
<1>3. CASE s.state # "CONNECTED" /\ ~(s.state = "DISABLED" /\ ike.active)
  <2>1. ike' = [ike EXCEPT !.state = s.state] /\ ui' = ui
    BY <1>3 DEF PushState
  <2> QED BY <1>0, <2>1 DEF IkeController
<1> QED BY <1>1, <1>2, <1>3

\* What a post does to the state service.
LEMMA ChangeFacts ==
    ASSUME NEW s \in StateService, NEW post \in Post
    PROVE  /\ Change(s, post) \in StateService
           /\ Change(s, post).state = IF post \in Silent THEN s.state ELSE StateOf(post)
<1>0. /\ s.state \in State /\ s.error \in BOOLEAN /\ s.retry \in BOOLEAN /\ s.msgs \in 0..MaxRetryMsg
      /\ MaxRetryMsg \in Nat
  BY Bounds DEF StateService
<1>1. CASE post = "start"
  <2>1. Change(s, post) = [s EXCEPT !.state = "CONNECTING", !.error = FALSE, !.retry = FALSE]
    BY <1>1 DEF Change, State
  <2> QED BY <1>1, <2>1 DEF StateService, State, Silent, StateOf
<1>2. CASE post \in State
  <2>1. Change(s, post) = [s EXCEPT !.state = post] /\ post \notin Silent /\ StateOf(post) = post
    BY <1>2 DEF Change, State, Silent, StateOf
  <2> QED BY <1>2, <2>1 DEF StateService
<1>3. CASE post = "error"
  <2> DEFINE m == IF s.msgs < MaxRetryMsg THEN s.msgs + 1 ELSE s.msgs
  <2>1. Change(s, post) = IF s.error THEN s
                          ELSE [s EXCEPT !.error = TRUE, !.retry = TRUE, !.msgs = m]
    BY <1>3 DEF Change, State
  <2>2. m \in 0..MaxRetryMsg
    BY <1>0
  <2> HIDE DEF m
  <2>3. [s EXCEPT !.error = TRUE, !.retry = TRUE, !.msgs = m] \in StateService
    BY <2>2 DEF StateService
  <2>4. [s EXCEPT !.error = TRUE, !.retry = TRUE, !.msgs = m].state = s.state
    BY DEF StateService
  <2> QED BY <1>3, <2>1, <2>3, <2>4 DEF Silent
<1>4. CASE post = "noError"
  <2>1. Change(s, post) = IF s.error THEN [s EXCEPT !.error = FALSE, !.retry = FALSE] ELSE s
    BY <1>4 DEF Change, State
  <2> QED BY <1>4, <2>1 DEF StateService, Silent
<1> QED BY <1>1, <1>2, <1>3, <1>4 DEF Post

\* The reports of the daemon and of the handler thread.
LEMMA AppendType ==
    ASSUME TypeOK, NEW post \in Post
    PROVE  Append(posts, post) \in Seq(Post)
BY DEF TypeOK

\* A step of the app keeps the types.
LEMMA AppType ==
    ASSUME TypeOK,
           TapConnect \/ VpnPermission \/ ClaimTick \/ TapDisconnect \/ Watchdog \/ XrayDisconnected
    PROVE  TypeOK'
<1> DEFINE Intent == {"profile", "retry", "disconnect"}
<1>0. /\ ui \in Connection /\ ike \in IkeController /\ xray \in BOOLEAN
      /\ consent \in {"unknown", "dialog", "granted"} /\ posts \in Seq(Post)
      /\ intents \in Seq(Intent) /\ svc \in StateService
  BY DEF TypeOK
<1>1. CASE TapConnect
  <2>1. Claim \in IkeController
    BY <1>0 DEF Claim, IkeController
  <2>2. xray' \in BOOLEAN /\ consent' \in {"unknown", "dialog", "granted"}
    BY <1>0, <1>1 DEF TapConnect
  <2>3. ui' \in Connection /\ ike' \in IkeController /\ intents' \in Seq(Intent)
    <3>1. CASE Connect(Claim)
      BY <2>1, <3>1, ConnectType
    <3>2. CASE ike' = Claim /\ ui' = "CONNECTING" /\ UNCHANGED intents
      BY <1>0, <2>1, <3>2 DEF Connection
    <3> QED BY <1>1, <3>1, <3>2 DEF TapConnect
  <2> QED BY <1>1, <2>2, <2>3 DEF TapConnect, TypeOK
<1>2. CASE VpnPermission
  <2>1. consent' \in {"unknown", "dialog", "granted"}
    BY <1>2 DEF VpnPermission
  <2>2. ui' \in Connection /\ ike' \in IkeController /\ intents' \in Seq(Intent)
    <3>1. CASE Connect(ike)
      BY <1>0, <3>1, ConnectType
    <3>2. CASE ui' = "DISCONNECTED" /\ UNCHANGED <<ike, intents>>
      BY <1>0, <3>2 DEF Connection
    <3> QED BY <1>2, <3>1, <3>2 DEF VpnPermission
  <2> QED BY <1>2, <2>1, <2>2 DEF VpnPermission, TypeOK
<1>3. CASE ClaimTick
  <2>1. PICK on \in BOOLEAN : ike' = [ike EXCEPT !.claim = on]
    BY <1>3 DEF ClaimTick
  <2>2. ike' \in IkeController
    BY <1>0, <2>1 DEF IkeController
  <2>3. ui' \in Connection
    BY <1>0, <1>3 DEF ClaimTick, Connection
  <2> QED BY <1>3, <2>2, <2>3 DEF ClaimTick, TypeOK
<1>4. ASSUME Disconnect
      PROVE  /\ ike' \in IkeController /\ intents' \in Seq(Intent)
             /\ svc' \in StateService /\ posts' \in Seq(Post)
             /\ UNCHANGED <<consent, ch, daemon, dropper>>
  <2>1. ike' \in IkeController
    BY <1>0, <1>4 DEF Disconnect, IkeController, State
  <2>2. <<"disconnect", "disconnect">> \in Seq(Intent)
    OBVIOUS
  <2>3. intents' \in Seq(Intent)
    BY <1>0, <1>4, <2>2 DEF Disconnect
  <2>4. svc' \in StateService
    BY <1>0, <1>4 DEF Disconnect, StateService
  <2>5. posts' \in Seq(Post)
    BY <1>0, <1>4 DEF Disconnect, Post
  <2> QED BY <1>4, <2>1, <2>3, <2>4, <2>5 DEF Disconnect
<1>5. CASE TapDisconnect
  <2>1. CASE ike.active /\ Disconnect /\ ui' = "DISCONNECTED" /\ UNCHANGED xray
    BY <1>4, <2>1 DEF TypeOK, Connection
  <2>2. CASE xray' = TRUE /\ UNCHANGED <<ui, ike, consent, posts, intents, svc, ch, daemon, dropper>>
    BY <2>2 DEF TypeOK
  <2> QED BY <1>5, <2>1, <2>2 DEF TapDisconnect
<1>6. CASE Watchdog
  <2>1. CASE Disconnect /\ ui' = "ERROR" /\ UNCHANGED xray
    BY <1>4, <2>1 DEF TypeOK, Connection
  <2>2. CASE /\ ike' = [ike EXCEPT !.watchdog = FALSE] /\ UNCHANGED xray
             /\ UNCHANGED <<ui, consent, posts, intents, svc, ch, daemon, dropper>>
    <3>1. ike' \in IkeController
      BY <1>0, <2>2 DEF IkeController
    <3> QED BY <2>2, <3>1 DEF TypeOK
  <2> QED BY <1>6, <2>1, <2>2 DEF Watchdog
<1>7. CASE XrayDisconnected
  BY <1>0, <1>7 DEF XrayDisconnected, TypeOK, Connection
<1> QED BY <1>1, <1>2, <1>3, <1>5, <1>6, <1>7

\* A step of the state service or of the handler thread keeps the types.
LEMMA ServiceType ==
    ASSUME TypeOK,
           RunPost \/ RetryTick \/ OnStartCommand \/ OnRevoke \/ Wake \/ Mark
           \/ DeinitializeCharon \/ StartNext
    PROVE  TypeOK'
<1> DEFINE Intent == {"profile", "retry", "disconnect"}
<1>0. /\ ui \in Connection /\ ike \in IkeController /\ posts \in Seq(Post)
      /\ intents \in Seq(Intent) /\ svc \in StateService /\ ch \in CharonService
      /\ daemon \in Daemon /\ dropper \in BOOLEAN
  BY DEF TypeOK
<1>1. CASE RunPost
  <2>1. Head(posts) \in Post /\ Tail(posts) \in Seq(Post)
    BY <1>0, <1>1 DEF RunPost
  <2>2. svc' = Change(svc, Head(posts)) /\ posts' = Tail(posts)
    BY <1>1 DEF RunPost
  <2>3. svc' \in StateService
    BY <1>0, <2>1, <2>2, ChangeFacts
  <2>4. ui' \in Connection /\ ike' \in IkeController
    <3>1. CASE PushState(svc')
      <4> DEFINE s == svc'
      <4>1. s \in StateService /\ PushState(s)
        BY <2>3, <3>1
      <4> HIDE DEF s
      <4> QED BY <4>1, PushStateType
    <3>2. CASE UNCHANGED <<ui, ike>>
      BY <1>0, <3>2
    <3> QED BY <1>1, <3>1, <3>2 DEF RunPost
  <2> QED BY <1>1, <2>1, <2>2, <2>3, <2>4 DEF RunPost, TypeOK
<1>2. CASE RetryTick
  <2>1. svc.msgs \in 0..MaxRetryMsg /\ svc.msgs > 0 /\ MaxRetryMsg \in Nat
    BY <1>0, <1>2, Bounds DEF StateService, RetryTick
  <2>2. svc.msgs - 1 \in 0..MaxRetryMsg
    BY <2>1
  <2>3. [svc EXCEPT !.msgs = @ - 1] \in StateService
    BY <1>0, <2>2 DEF StateService
  <2>4. CASE svc' = [svc EXCEPT !.msgs = @ - 1] /\ UNCHANGED <<ui, ike, intents>>
    BY <1>2, <2>3, <2>4 DEF RetryTick, TypeOK
  <2>5. CASE PushState(svc) /\ UNCHANGED <<svc, intents>>
    <3>1. ui' \in Connection /\ ike' \in IkeController
      BY <1>0, <2>5, PushStateType
    <3> QED BY <1>2, <2>5, <3>1 DEF RetryTick, TypeOK
  <2>6. CASE /\ svc' = [svc EXCEPT !.msgs = @ - 1] /\ UNCHANGED <<ui, ike>>
             /\ intents' = Append(intents, "retry")
    <3>1. intents' \in Seq(Intent)
      BY <1>0, <2>6
    <3> QED BY <1>2, <2>3, <2>6, <3>1 DEF RetryTick, TypeOK
  <2> QED BY <1>2, <2>4, <2>5, <2>6 DEF RetryTick
<1>3. ASSUME NEW b \in BOOLEAN, SetNextProfile(b) PROVE ch' \in CharonService
  BY <1>0, <1>3 DEF SetNextProfile, CharonService
<1>4. CASE OnStartCommand
  <2>1. SetNextProfile(Head(intents) # "disconnect") /\ intents' \in Seq(Intent)
    BY <1>0, <1>4 DEF OnStartCommand
  <2>2. ch' \in CharonService
    BY <1>3, <2>1
  <2> QED BY <1>4, <2>1, <2>2 DEF OnStartCommand, TypeOK, appVars
<1>5. CASE OnRevoke
  <2>1. ch' \in CharonService
    BY <1>3, <1>5 DEF OnRevoke
  <2> QED BY <1>5, <2>1 DEF OnRevoke, TypeOK
<1>6. CASE Wake
  <2>1. ch' \in CharonService
    BY <1>0, <1>6 DEF Wake, CharonService
  <2>2. "DISCONNECTING" \in Post
    BY DEF Post, State
  <2>3. posts' \in Seq(Post)
    BY <1>0, <1>6, <2>2, AppendType DEF Wake
  <2>4. dropper' \in BOOLEAN
    BY <1>0, <1>6 DEF Wake
  <2> QED BY <1>6, <2>1, <2>3, <2>4 DEF Wake, TypeOK, appVars
<1>7. CASE Mark
  <2>1. ch' \in CharonService
    BY <1>0, <1>7 DEF Mark, CharonService
  <2> QED BY <1>7, <2>1 DEF Mark, TypeOK, appVars
<1>8. CASE DeinitializeCharon
  <2>1. ch' \in CharonService
    BY <1>0, <1>8 DEF DeinitializeCharon, CharonService
  <2>2. daemon' \in Daemon /\ dropper' \in BOOLEAN
    BY <1>0, <1>8 DEF DeinitializeCharon, Off, Daemon
  <2> QED BY <1>8, <2>1, <2>2 DEF DeinitializeCharon, TypeOK, appVars
<1>9. CASE StartNext
  <2>1. ch' \in CharonService
    BY <1>0, <1>9 DEF StartNext, CharonService
  <2>2. daemon' \in Daemon
    BY <1>0, <1>9 DEF StartNext, Daemon, Off
  <2>3. posts' \in Seq(Post)
    <3>1. Append(posts, "DISABLED") \in Seq(Post) /\ Append(posts, "start") \in Seq(Post)
      BY AppendType DEF Post, State
    <3>2. posts \o <<"start", "error", "DISABLED">> \in Seq(Post)
      BY <1>0, EndsFailed
    <3> QED BY <1>9, <3>1, <3>2 DEF StartNext
  <2> QED BY <1>9, <2>1, <2>2, <2>3 DEF StartNext, TypeOK, appVars
<1> QED BY <1>1, <1>2, <1>4, <1>5, <1>6, <1>7, <1>8, <1>9

\* A step of the daemon keeps the types.
LEMMA DaemonType ==
    ASSUME TypeOK, ChildUp \/ ChildDown \/ ReportDown \/ Fail
    PROVE  TypeOK'
<1>0. posts \in Seq(Post) /\ ch \in CharonService /\ daemon \in Daemon /\ dropper \in BOOLEAN
  BY DEF TypeOK
<1>1. /\ Append(posts, "CONNECTED") \in Seq(Post) /\ Append(posts, "CONNECTING") \in Seq(Post)
      /\ Append(posts, "error") \in Seq(Post)
  BY AppendType DEF Post, State
<1>2. Report("error") => posts' \in Seq(Post)
  BY <1>0, <1>1 DEF Report
<1>3. CASE ChildUp
  <2>1. daemon' \in Daemon
    BY <1>0, <1>3 DEF ChildUp, Daemon
  <2>2. posts' \in Seq(Post) /\ dropper' \in BOOLEAN
    BY <1>0, <1>1, <1>2, <1>3 DEF ChildUp
  <2> QED BY <1>3, <2>1, <2>2 DEF ChildUp, TypeOK, appVars
<1>4. CASE ChildDown
  <2>1. daemon' \in Daemon
    BY <1>0, <1>4 DEF ChildDown, Daemon, CharonService
  <2> QED BY <1>4, <2>1 DEF ChildDown, TypeOK, appVars
<1>5. CASE ReportDown
  <2>1. daemon' \in Daemon
    BY <1>0, <1>5 DEF ReportDown, Daemon
  <2> QED BY <1>1, <1>5, <2>1 DEF ReportDown, TypeOK, appVars
<1>6. CASE Fail
  <2>1. PICK stay \in BOOLEAN : daemon' = [daemon EXCEPT !.listening = stay]
    BY <1>6 DEF Fail
  <2>2. daemon' \in Daemon
    BY <1>0, <2>1 DEF Daemon
  <2> QED BY <1>2, <1>6, <2>2 DEF Fail, TypeOK, appVars
<1> QED BY <1>3, <1>4, <1>5, <1>6

\* Every step keeps the types.
LEMMA NextType == TypeOK /\ [Next]_vars => TypeOK'
<1> SUFFICES ASSUME TypeOK, [Next]_vars PROVE TypeOK'
  OBVIOUS
<1>1. CASE UNCHANGED vars
  BY <1>1 DEF vars, TypeOK
<1> QED BY <1>1, AppType, ServiceType, DaemonType DEF Next
-----------------------------------------------------------------------------
(* What is posted *)

\* A step of the main thread that keeps what the posts lead to.
LEMMA MainStep ==
    ASSUME IInv, TypeOK', UNCHANGED <<daemon, dropper>>,
           ch'.at = ch.at, ch'.current = ch.current, ch'.disconnecting = ch.disconnecting,
           Ends(svc.state, posts, Told) => Ends(svc'.state, posts', Told)
    PROVE  IInv'
<1>1. Told' = Told
  BY DEF Told
<1>2. Handler' /\ Tunnel'
  BY DEF IInv, Handler, Tunnel
<1>3. Posted'
  BY <1>1 DEF IInv, Posted
<1> QED BY <1>2, <1>3 DEF IInv

\* The app never changes the state of the state service by itself.
LEMMA AppKeeps ==
    ASSUME IInv, TypeOK',
           TapConnect \/ VpnPermission \/ ClaimTick \/ TapDisconnect \/ Watchdog \/ XrayDisconnected
    PROVE  IInv'
<1>1. UNCHANGED <<ch, daemon, dropper>>
  BY DEF TapConnect, VpnPermission, ClaimTick, TapDisconnect, Watchdog, XrayDisconnected, Disconnect
<1>2. \/ UNCHANGED <<svc, posts>>
      \/ svc' = [svc EXCEPT !.retry = FALSE] /\ posts' = Append(posts, "noError")
  BY DEF TapConnect, VpnPermission, ClaimTick, TapDisconnect, Watchdog, XrayDisconnected, Disconnect
<1>3. svc'.state = svc.state
  BY <1>2 DEF IInv, TypeOK, StateService
<1>4. Ends(svc.state, posts, Told) => Ends(svc'.state, posts', Told)
  <2>1. posts \in Seq(Post) /\ "noError" \in Silent
    BY DEF IInv, TypeOK, Silent
  <2> QED BY <1>2, <1>3, <2>1, EndsSilently
<1> QED BY <1>1, <1>4, MainStep

\* A post is run and its state is the new one; the retry timer posts nothing.
LEMMA StateServiceKeeps ==
    ASSUME IInv, TypeOK', RunPost \/ RetryTick \/ OnStartCommand \/ OnRevoke
    PROVE  IInv'
<1>0. posts \in Seq(Post) /\ svc \in StateService /\ ch \in CharonService
  BY DEF IInv, TypeOK
<1>1. CASE RunPost
  <2>1. posts # <<>> /\ posts' = Tail(posts) /\ svc' = Change(svc, Head(posts))
    BY <1>1 DEF RunPost
  <2>2. Head(posts) \in Post
    BY <1>0, <2>1
  <2>3. svc'.state = IF Head(posts) \in Silent THEN svc.state ELSE StateOf(Head(posts))
    BY <1>0, <2>1, <2>2, ChangeFacts
  <2> DEFINE u == svc'.state
  <2>4. u = IF Head(posts) \in Silent THEN svc.state ELSE StateOf(Head(posts))
    BY <2>3
  <2> HIDE DEF u
  <2>5. Ends(svc.state, posts, Told) => Ends(u, Tail(posts), Told)
    BY <1>0, <2>1, <2>4, EndsRun
  <2>6. Ends(svc.state, posts, Told) => Ends(svc'.state, posts', Told)
    BY <2>1, <2>5 DEF u
  <2>7. UNCHANGED <<ch, daemon, dropper>>
    BY <1>1 DEF RunPost
  <2> QED BY <2>6, <2>7, MainStep
<1>2. CASE RetryTick
  <2>1. UNCHANGED <<ch, daemon, dropper, posts>> /\ svc'.state = svc.state
    BY <1>0, <1>2 DEF RetryTick, StateService
  <2> QED BY <2>1, MainStep
<1>3. CASE OnStartCommand \/ OnRevoke
  <2>1. UNCHANGED <<daemon, dropper, posts, svc>>
    BY <1>3 DEF OnStartCommand, OnRevoke
  <2>2. PICK b : ch' = [ch EXCEPT !.next = b, !.updated = TRUE]
    BY <1>3 DEF OnStartCommand, OnRevoke, SetNextProfile
  <2>3. ch'.at = ch.at /\ ch'.current = ch.current /\ ch'.disconnecting = ch.disconnecting
    BY <1>0, <2>2 DEF CharonService
  <2> QED BY <2>1, <2>3, MainStep
<1> QED BY <1>1, <1>2, <1>3

\* Stopping a daemon: nothing is promised until the next one is started or none is.
LEMMA StopKeeps ==
    ASSUME IInv, TypeOK', Wake \/ Mark \/ DeinitializeCharon
    PROVE  IInv'
<1>0. ch \in CharonService /\ daemon \in Daemon /\ Handler /\ Tunnel
  BY DEF IInv, TypeOK
<1>1. ch'.at # "waiting" => Posted'
  BY DEF Posted
<1>2. CASE Wake
  <2>1. /\ ch.at = "waiting" /\ ch'.at = IF ch.current THEN "stopping" ELSE "next"
        /\ ch'.current = ch.current /\ daemon' = daemon
    BY <1>0, <1>2 DEF Wake, CharonService
  <2>2. Handler'
    BY <1>0, <2>1 DEF Handler
  <2>3. Tunnel'
    BY <1>0, <2>1 DEF Tunnel
  <2> QED BY <1>1, <2>1, <2>2, <2>3 DEF IInv
<1>3. CASE Mark
  <2>1. ch.at = "stopping" /\ ch'.at = "deinit" /\ ch'.current = ch.current /\ daemon' = daemon
    BY <1>0, <1>3 DEF Mark, CharonService
  <2>2. Handler'
    BY <1>0, <2>1 DEF Handler
  <2>3. Tunnel'
    BY <1>0, <2>1 DEF Tunnel
  <2> QED BY <1>1, <2>1, <2>2, <2>3 DEF IInv
<1>4. CASE DeinitializeCharon
  <2>1. ch'.at = "next" /\ ch'.current = FALSE /\ daemon' = Off
    BY <1>0, <1>4 DEF DeinitializeCharon, CharonService
  <2>2. Handler'
    BY <2>1 DEF Handler, Off
  <2>3. Tunnel'
    BY <2>1 DEF Tunnel, Off
  <2> QED BY <1>1, <2>1, <2>2, <2>3 DEF IInv
<1> QED BY <1>2, <1>3, <1>4

\* The last post of run() tells what became of the next profile, whatever was
\* posted before.
LEMMA StartKeeps ==
    ASSUME IInv, TypeOK', StartNext
    PROVE  IInv'
<1>0. /\ ch \in CharonService /\ Handler /\ ch.at = "next" /\ posts \in Seq(Post)
      /\ svc' = svc /\ dropper' = dropper
  BY DEF IInv, TypeOK, StartNext
<1>1. ch.current = FALSE /\ daemon = Off
  BY <1>0 DEF Handler, CharonService
<1>2. "DISABLED" \in Post \ Silent /\ StateOf("DISABLED") = "DISABLED"
  BY DEF Post, State, Silent, StateOf
<1>3. "start" \in Post \ Silent /\ StateOf("start") = "CONNECTING"
  BY DEF Post, State, Silent, StateOf
<1>4. ASSUME Told' = "DISABLED" \/ Told' = "CONNECTING", Ends(svc.state, posts', Told')
      PROVE  Posted'
  BY <1>0, <1>4 DEF Posted
<1>5. CASE /\ posts' = Append(posts, "DISABLED") /\ ch' = [ch EXCEPT !.at = "waiting"]
           /\ UNCHANGED daemon
  <2>1. ch'.at = "waiting" /\ ch'.current = FALSE /\ daemon' = Off
    BY <1>0, <1>1, <1>5 DEF CharonService
  <2>2. Handler' /\ Tunnel' /\ Told' = "DISABLED"
    BY <2>1 DEF Handler, Tunnel, Told, Off
  <2>3. Ends(svc.state, Append(posts, "DISABLED"), "DISABLED")
    BY <1>0, <1>2, EndsWith
  <2> QED BY <1>4, <1>5, <2>2, <2>3 DEF IInv
<1>6. CASE /\ posts' = Append(posts, "start")
           /\ ch' = [ch EXCEPT !.at = "waiting", !.next = FALSE, !.current = TRUE,
                               !.disconnecting = FALSE]
           /\ daemon' = [Off EXCEPT !.on = TRUE, !.listening = TRUE]
  <2>1. /\ ch'.at = "waiting" /\ ch'.current = TRUE /\ ch'.disconnecting = FALSE
        /\ daemon'.on = TRUE /\ daemon'.child = FALSE /\ daemon'.down = FALSE
    BY <1>0, <1>6 DEF CharonService, Off
  <2>2. Handler' /\ Tunnel' /\ Told' = "CONNECTING"
    BY <2>1 DEF Handler, Tunnel, Told
  <2>3. Ends(svc.state, Append(posts, "start"), "CONNECTING")
    BY <1>0, <1>3, EndsWith
  <2> QED BY <1>4, <1>6, <2>2, <2>3 DEF IInv
<1>7. CASE /\ posts' = posts \o <<"start", "error", "DISABLED">>
           /\ ch' = [ch EXCEPT !.at = "waiting", !.next = FALSE, !.disconnecting = FALSE]
           /\ UNCHANGED daemon
  <2>1. ch'.at = "waiting" /\ ch'.current = FALSE /\ daemon' = Off
    BY <1>0, <1>1, <1>7 DEF CharonService
  <2>2. Handler' /\ Tunnel' /\ Told' = "DISABLED"
    BY <2>1 DEF Handler, Tunnel, Told, Off
  <2>3. Ends(svc.state, posts \o <<"start", "error", "DISABLED">>, "DISABLED")
    BY <1>0, EndsFailed
  <2> QED BY <1>4, <1>7, <2>2, <2>3 DEF IInv
<1> QED BY <1>5, <1>6, <1>7 DEF StartNext

\* A daemon reports what happens to its tunnel, in the order it happens.
LEMMA DaemonKeeps ==
    ASSUME IInv, TypeOK', ChildUp \/ ChildDown \/ ReportDown \/ Fail
    PROVE  IInv'
<1>0. /\ ch \in CharonService /\ daemon \in Daemon /\ Handler /\ Tunnel /\ Posted
      /\ posts \in Seq(Post) /\ dropper \in BOOLEAN
      /\ UNCHANGED <<svc, ch>>
  BY DEF IInv, TypeOK, ChildUp, ChildDown, ReportDown, Fail
<1>1. /\ "CONNECTED" \in Post \ Silent /\ StateOf("CONNECTED") = "CONNECTED"
      /\ "CONNECTING" \in Post \ Silent /\ StateOf("CONNECTING") = "CONNECTING"
      /\ "error" \in Silent
  BY DEF Post, State, Silent, StateOf
<1>2. ASSUME daemon'.on = TRUE, daemon.on = TRUE PROVE Handler'
  BY <1>0, <1>2 DEF Handler
<1>3. ASSUME Report("error"), Told' = Told PROVE Posted'
  <2>1. posts' = posts \/ posts' = Append(posts, "error")
    BY <1>3 DEF Report
  <2>2. Ends(svc.state, posts, Told) => Ends(svc.state, posts', Told)
    BY <1>0, <1>1, <2>1, EndsSilently
  <2> QED BY <1>0, <1>3, <2>2 DEF Posted
<1>4. CASE ChildUp
  <2>0. daemon.on = TRUE /\ daemon.down = FALSE /\ daemon.child = FALSE
    BY <1>0, <1>4 DEF ChildUp, Hears, Daemon
  <2>1. CASE /\ daemon' = [daemon EXCEPT !.child = TRUE, !.tunfd = TRUE]
             /\ dropper' = FALSE /\ posts' = Append(posts, "CONNECTED")
    <3>1. /\ daemon'.on = TRUE /\ daemon'.down = FALSE /\ daemon'.child = TRUE
          /\ daemon'.tunfd = TRUE
      BY <1>0, <2>0, <2>1 DEF Daemon
    <3>2. Tunnel' /\ Told' = "CONNECTED"
      BY <2>1, <3>1 DEF Tunnel, Told
    <3>3. Ends(svc.state, Append(posts, "CONNECTED"), "CONNECTED")
      BY <1>0, <1>1, EndsWith
    <3>4. Posted'
      BY <1>0, <2>1, <3>2, <3>3 DEF Posted
    <3> QED BY <1>2, <2>0, <3>1, <3>2, <3>4 DEF IInv
  <2>2. CASE daemon' = [daemon EXCEPT !.listening = FALSE] /\ Report("error") /\ UNCHANGED dropper
    <3>1. /\ daemon'.on = TRUE /\ daemon'.down = FALSE /\ daemon'.child = FALSE
      BY <1>0, <2>0, <2>2 DEF Daemon
    <3>2. Tunnel' /\ Told' = Told
      BY <2>0, <3>1 DEF Tunnel, Told
    <3> QED BY <1>2, <1>3, <2>0, <2>2, <3>1, <3>2 DEF IInv
  <2> QED BY <1>4, <2>1, <2>2 DEF ChildUp
<1>5. CASE ChildDown
  <2>1. /\ daemon.on = TRUE /\ daemon.down = FALSE /\ daemon.child = TRUE
        /\ daemon'.on = TRUE /\ daemon'.child = FALSE /\ daemon'.down = ~ch.disconnecting
        /\ posts' = posts
    BY <1>0, <1>5 DEF ChildDown, Hears, Daemon
  <2>2. Tunnel'
    BY <2>1 DEF Tunnel
  <2>3. ch.at = "waiting" => Told' = Told
    BY <1>0, <2>1 DEF Told, Handler
  <2>4. Posted'
    BY <1>0, <2>1, <2>3 DEF Posted
  <2> QED BY <1>2, <2>1, <2>2, <2>4 DEF IInv
<1>6. CASE ReportDown
  <2>1. /\ daemon.down = TRUE /\ daemon.on = TRUE /\ daemon.child = FALSE
    BY <1>0, <1>6 DEF ReportDown, Daemon, Handler, Tunnel, Off
  <2>2. /\ daemon'.on = TRUE /\ daemon'.child = FALSE /\ daemon'.down = FALSE
        /\ posts' = Append(posts, "CONNECTING")
    BY <1>0, <1>6, <2>1 DEF ReportDown, Daemon
  <2>3. Tunnel' /\ Told' = "CONNECTING"
    BY <2>2 DEF Tunnel, Told
  <2>4. Ends(svc.state, Append(posts, "CONNECTING"), "CONNECTING")
    BY <1>0, <1>1, EndsWith
  <2>5. Posted'
    BY <1>0, <2>2, <2>3, <2>4 DEF Posted
  <2> QED BY <1>2, <2>1, <2>2, <2>3, <2>5 DEF IInv
<1>7. CASE Fail
  <2>1. PICK stay \in BOOLEAN : daemon' = [daemon EXCEPT !.listening = stay]
    BY <1>7 DEF Fail
  <2>2. /\ daemon.on = TRUE /\ daemon'.on = TRUE /\ daemon'.child = daemon.child
        /\ daemon'.down = daemon.down /\ daemon'.tunfd = daemon.tunfd /\ dropper' = dropper
    BY <1>0, <1>7, <2>1 DEF Fail, Hears, Daemon
  <2>3. Tunnel' /\ Told' = Told
    BY <1>0, <2>2 DEF Tunnel, Told
  <2>4. Report("error")
    BY <1>7 DEF Fail
  <2> QED BY <1>2, <1>3, <2>2, <2>3, <2>4 DEF IInv
<1> QED BY <1>4, <1>5, <1>6, <1>7
-----------------------------------------------------------------------------
(* The theorems *)

\* At first there is no daemon, and nothing is posted.
LEMMA InitIInv == Init => IInv
<1> SUFFICES ASSUME Init PROVE IInv
  OBVIOUS
<1>1. TypeOK
  <2>1. 0 \in 0..MaxRetryMsg
    BY Bounds
  <2>2. svc \in StateService
    BY <2>1 DEF Init, StateService, State
  <2>3. ike \in IkeController /\ ch \in CharonService /\ daemon \in Daemon
    BY DEF Init, IkeController, State, CharonService, Daemon, Off
  <2>4. <<>> \in Seq(Post) /\ <<>> \in Seq({"profile", "retry", "disconnect"})
    OBVIOUS
  <2>5. posts \in Seq(Post) /\ intents \in Seq({"profile", "retry", "disconnect"})
    BY <2>4 DEF Init
  <2>6. /\ ui \in Connection /\ consent \in {"unknown", "dialog", "granted"}
        /\ {xray, dropper} \subseteq BOOLEAN
    BY DEF Init, Connection
  <2> QED BY <2>2, <2>3, <2>5, <2>6 DEF TypeOK
<1>2. /\ ch.at = "waiting" /\ ch.current = FALSE /\ daemon = Off /\ svc.state = "DISABLED"
      /\ posts = <<>>
  BY DEF Init
<1>3. Handler /\ Tunnel /\ Told = "DISABLED"
  BY <1>2 DEF Handler, Tunnel, Told, Off
<1>4. Posted
  BY <1>2, <1>3 DEF Posted, Ends
<1> QED BY <1>1, <1>3, <1>4 DEF IInv

\* Every step keeps the invariant.
LEMMA NextIInv == IInv /\ [Next]_vars => IInv'
<1> SUFFICES ASSUME IInv, [Next]_vars PROVE IInv'
  OBVIOUS
<1>1. TypeOK'
  BY NextType DEF IInv
<1>2. CASE UNCHANGED vars
  BY <1>1, <1>2, MainStep DEF vars
<1> QED BY <1>1, <1>2, AppKeeps, StateServiceKeeps, StopKeeps, StartKeeps, DaemonKeeps DEF Next

\* The fields of the app, of the services and of the daemon have their types in
\* every reachable state.
THEOREM TypeCorrect == Spec => []TypeOK
<1>1. Init => TypeOK
  BY InitIInv DEF IInv
<1> QED BY <1>1, NextType, PTL DEF Spec

\* When everything posted has run, VpnStateService has the state of the daemon
\* that runs, and shows a tunnel as connected only over an open TUN device.
THEOREM Settles == Spec => []StateSettles
<1>1. IInv => StateSettles
  <2> SUFFICES ASSUME IInv, Quiet PROVE StateSettles
    BY DEF StateSettles
  <2>1. /\ svc.state = Told /\ daemon \in Daemon
    BY DEF IInv, TypeOK, Posted, Ends, Quiet
  <2> QED BY <2>1 DEF IInv, Tunnel, Told, StateSettles, Quiet, Daemon
<1> QED BY <1>1, InitIInv, NextIInv, PTL DEF Spec
=============================================================================
