-------------------------- MODULE UsageStoreProofs --------------------------
(***************************************************************************)
(* Proofs about UsageStore, with stores at any time: a process that        *)
(* replaces no map before it is read keeps the history, no direct byte is  *)
(* counted twice, or after early stores a third time, and the shares of    *)
(* the configs never exceed their totals unless an early store was torn,   *)
(* for every set of configs, retention and number of hours and counts.     *)
(***************************************************************************)
EXTENDS UsageStore, FiniteSetTheorems, WellFoundedInduction, TLAPS
-----------------------------------------------------------------------------
(* The invariant *)

\* The maps that are never trimmed.
History == [daily : [Day -> Nat], byConfig : [Key -> Nat], dailyCfg : [Day \X Key -> Nat]]

Sum(v, w) == [daily |-> Merge(v.daily, w.daily), byConfig |-> Merge(v.byConfig, w.byConfig),
              dailyCfg |-> Merge(v.dailyCfg, w.dailyCfg)]

\* As long as no map is replaced while the thread reads, the maps it has read are
\* those that are stored.
AsRead ==
    ~early.life \/ ~early.torn =>
        /\ load \in {"hourly", "byConfig", "dailyCfg", "hourlyCfg"}
              => fromDisk.daily = prefs.views.daily
        /\ load \in {"byConfig", "dailyCfg", "hourlyCfg"} => fromDisk.hourly = prefs.views.hourly
        /\ load \in {"dailyCfg", "hourlyCfg"} => fromDisk.byConfig = prefs.views.byConfig
        /\ load = "hourlyCfg" => fromDisk.dailyCfg = prefs.views.dailyCfg

\* Until the maps are merged, the history is what was stored when the process
\* started and what was counted since; then it is in memory.
Base == IF load = "merge" THEN fromDisk ELSE prefs.views

Recorded ==
    ~early.life => due = IF load = "done" THEN Lasting(mem) ELSE Sum(Base, mem)

\* What syncDirect() may still count after the sample.
Gap(sample) == IF sample.known /\ rx > sample.rx THEN rx - sample.rx ELSE 0

\* After a store before the maps were read, a byte may be counted twice.
Times(e, x) == IF e THEN x + x ELSE x

\* x direct bytes, and the g that may still be counted, are no more than allowed
\* after T have passed.
Room(x, g, T, e) == x + Times(e, g) <= Times(e, T)

\* s direct bytes are in memory, and b in the map they are to be merged with.  If
\* that map was replaced, it holds no more than memory does.
Fits(done, s, b, g, T, e) ==
    IF done THEN Room(s, g, T, e)
    ELSE /\ s + g <= T
         /\ \/ b + Times(e, s) + Times(e, g) <= Times(e, T)
            \/ e /\ b <= s

\* The map per config that the thread merges: the one it will read, or has read.
Source == IF load \in {"off", "daily", "hourly", "byConfig"} THEN prefs.views ELSE fromDisk

\* What was counted as direct and what may still be counted is allowed, also if
\* the process dies and starts from the disk.
Budget ==
    /\ rx <= passed
    /\ Fits(load = "done", mem.byConfig[Direct], Source.byConfig[Direct],
            Gap(prefs.sample), passed, early.ever)
    /\ Room(prefs.views.byConfig[Direct], Gap(prefs.sample), passed, early.ever)
    /\ Room(disk.views.byConfig[Direct], Gap(disk.sample), passed, early.ever)

UInv == UsageTypeOK /\ AsRead /\ Recorded /\ Budget
-----------------------------------------------------------------------------
(* Days and maps *)

\* The day of an hour.
LEMMA DayOfHour ==
    ASSUME NEW h \in Hour
    PROVE  DayOf(h) \in Day
<1>1. HoursPerDay \in Nat /\ HoursPerDay > 0 /\ MaxHour \in Nat
  BY UsageAssumption
<1>2. h \in Nat /\ h <= MaxHour
  BY <1>1 DEF Hour
<1> DEFINE a == h \div HoursPerDay
           b == MaxHour \div HoursPerDay
<1>3. a \in Nat /\ b \in Nat
  BY <1>1, <1>2
<1>4. HoursPerDay * a <= h /\ MaxHour < HoursPerDay * b + HoursPerDay
  BY <1>1, <1>2
<1>5. a <= b
  <2> HIDE DEF a, b
  <2>1. SUFFICES ASSUME a > b PROVE FALSE
    BY <1>3
  <2>2. a >= b + 1
    BY <1>3, <2>1
  <2>3. HoursPerDay * a >= HoursPerDay * b + HoursPerDay
    BY <1>1, <1>3, <2>2
  <2>4. HoursPerDay * a \in Nat /\ HoursPerDay * b \in Nat
    BY <1>1, <1>3
  <2> QED BY <1>1, <1>2, <1>4, <2>3, <2>4
<1> QED BY <1>3, <1>5 DEF Day, DayOf

\* Counting in a map.
LEMMA BumpFacts ==
    ASSUME NEW S, NEW f \in [S -> Nat], NEW x \in S, NEW n \in Nat
    PROVE  /\ Bump(f, x, n) \in [S -> Nat]
           /\ Bump(f, x, n)[x] = f[x] + n
           /\ \A y \in S : y # x => Bump(f, x, n)[y] = f[y]
BY DEF Bump

\* Merging two maps.
LEMMA MergeFacts ==
    ASSUME NEW S, NEW f \in [S -> Nat], NEW g \in [S -> Nat]
    PROVE  /\ Merge(f, g) \in [S -> Nat]
           /\ \A y \in S : Merge(f, g)[y] = f[y] + g[y]
BY DEF Merge

\* The maps with keys S.
Counts(S) == [S -> Nat]

\* It makes no difference whether one counts before or after merging.
LEMMA BumpMerge ==
    ASSUME NEW S, NEW f \in Counts(S), NEW g \in Counts(S), NEW x \in S, NEW n \in Nat
    PROVE  Bump(Merge(f, g), x, n) = Merge(f, Bump(g, x, n))
<1>0. f \in [S -> Nat] /\ g \in [S -> Nat]
  BY DEF Counts
<1> DEFINE a == Merge(f, g)
           b == Bump(g, x, n)
<1>1. a \in [S -> Nat] /\ b \in [S -> Nat]
  BY <1>0, BumpFacts, MergeFacts
<1>2. b[x] = g[x] + n /\ \A y \in S : y # x => b[y] = g[y]
  BY <1>0, BumpFacts
<1>3. \A y \in S : a[y] = f[y] + g[y]
  BY <1>0, MergeFacts
<1> HIDE DEF a, b
<1>4. /\ Bump(a, x, n) \in [S -> Nat] /\ Bump(a, x, n)[x] = a[x] + n
      /\ \A y \in S : y # x => Bump(a, x, n)[y] = a[y]
  BY <1>1 DEF Bump
<1>5. Merge(f, b) \in [S -> Nat] /\ \A y \in S : Merge(f, b)[y] = f[y] + b[y]
  BY <1>0, <1>1, MergeFacts
<1>6. \A y \in S : Bump(a, x, n)[y] = Merge(f, b)[y]
  BY <1>0, <1>2, <1>3, <1>4, <1>5
<1>7. Bump(a, x, n) = Merge(f, b)
  BY <1>4, <1>5, <1>6
<1> QED BY <1>7 DEF a, b

\* Trimming keeps the types.
LEMMA TrimFacts ==
    /\ \A f \in [Hour -> Nat] : TrimHourly(f) \in [Hour -> Nat]
    /\ \A f \in [Hour \X Key -> Nat] : TrimHourlyCfg(f) \in [Hour \X Key -> Nat]
<1>1. \A f \in [Hour -> Nat] : TrimHourly(f) \in [Hour -> Nat]
  BY DEF TrimHourly
<1>2. ASSUME NEW f \in [Hour \X Key -> Nat] PROVE TrimHourlyCfg(f) \in [Hour \X Key -> Nat]
  <2> DEFINE g == [x \in Hour \X Key |-> IF x[1] + Retention >= hour THEN f[x] ELSE 0]
  <2>1. g \in [Hour \X Key -> Nat]
    OBVIOUS
  <2>2. TrimHourlyCfg(f) = f \/ TrimHourlyCfg(f) = g
    BY DEF TrimHourlyCfg
  <2> QED BY <2>1, <2>2
<1> QED BY <1>1, <1>2
-----------------------------------------------------------------------------
(* The histories *)

\* The maps of w are those of v with n more for the key.
Adds(v, w, n, key) ==
    /\ w.daily = Bump(v.daily, DayOf(hour), n)
    /\ w.byConfig = IF key = NoName THEN v.byConfig ELSE Bump(v.byConfig, key, n)
    /\ w.dailyCfg = IF key = NoName THEN v.dailyCfg
                    ELSE Bump(v.dailyCfg, <<DayOf(hour), key>>, n)

\* What add() does to the history.
LEMMA CountLastingFacts ==
    ASSUME hour \in Hour, NEW v \in History, NEW n \in Nat, NEW key \in Key \cup {NoName}
    PROVE  CountLasting(v, n, key) \in History /\ Adds(v, CountLasting(v, n, key), n, key)
<1>1. DayOf(hour) \in Day
  BY DayOfHour
<1> DEFINE a == Bump(v.daily, DayOf(hour), n)
           b == Bump(v.byConfig, key, n)
           c == Bump(v.dailyCfg, <<DayOf(hour), key>>, n)
           day == [v EXCEPT !.daily = a]
           all == [day EXCEPT !.byConfig = b, !.dailyCfg = c]
<1>2. v.daily \in [Day -> Nat] /\ v.byConfig \in [Key -> Nat] /\ v.dailyCfg \in [Day \X Key -> Nat]
  BY DEF History
<1>3. a \in [Day -> Nat]
  BY <1>1, <1>2, BumpFacts
<1>4. key # NoName => b \in [Key -> Nat] /\ c \in [Day \X Key -> Nat]
  <2>1. ASSUME key \in Key PROVE b \in [Key -> Nat]
    BY <1>2, <2>1, BumpFacts
  <2>2. ASSUME key \in Key PROVE c \in [Day \X Key -> Nat]
    <3>1. <<DayOf(hour), key>> \in Day \X Key
      BY <1>1, <2>2
    <3> QED BY <1>2, <3>1, BumpFacts
  <2> QED BY <2>1, <2>2
<1>5. CountLasting(v, n, key) = IF key = NoName THEN day ELSE all
  BY DEF CountLasting, History
<1> HIDE DEF a, b, c
<1>6. CASE key = NoName
  <2>1. day \in History /\ day.daily = a /\ day.byConfig = v.byConfig /\ day.dailyCfg = v.dailyCfg
    BY <1>3 DEF History
  <2> QED BY <1>5, <1>6, <2>1 DEF Adds, a
<1>7. CASE key # NoName
  <2>1. all \in History /\ all.daily = a /\ all.byConfig = b /\ all.dailyCfg = c
    BY <1>3, <1>4, <1>7 DEF History
  <2> QED BY <1>5, <1>7, <2>1 DEF Adds, a, b, c
<1> QED BY <1>6, <1>7

\* What add() does to all maps.
LEMMA CountedFacts ==
    ASSUME hour \in Hour, NEW v \in Views, NEW n \in Nat, NEW key \in Key \cup {NoName}
    PROVE  Counted(v, n, key) \in Views /\ Adds(v, Counted(v, n, key), n, key)
<1>1. DayOf(hour) \in Day
  BY DayOfHour
<1> DEFINE a == Bump(v.daily, DayOf(hour), n)
           b == Bump(v.byConfig, key, n)
           c == Bump(v.dailyCfg, <<DayOf(hour), key>>, n)
           h == TrimHourly(Bump(v.hourly, hour, n))
           g == IF key = NoName THEN v.hourlyCfg
                ELSE TrimHourlyCfg(Bump(v.hourlyCfg, <<hour, key>>, n))
           day == [v EXCEPT !.daily = a]
           all == [day EXCEPT !.byConfig = b, !.dailyCfg = c]
<1>2. /\ v.daily \in [Day -> Nat] /\ v.byConfig \in [Key -> Nat]
      /\ v.dailyCfg \in [Day \X Key -> Nat]
      /\ v.hourly \in [Hour -> Nat] /\ v.hourlyCfg \in [Hour \X Key -> Nat]
  BY DEF Views
<1>3. a \in [Day -> Nat]
  BY <1>1, <1>2, BumpFacts
<1>4. h \in [Hour -> Nat]
  <2>1. Bump(v.hourly, hour, n) \in [Hour -> Nat]
    BY <1>2, BumpFacts
  <2> QED BY <2>1, TrimFacts
<1>5. key # NoName => b \in [Key -> Nat] /\ c \in [Day \X Key -> Nat]
  <2>1. ASSUME key \in Key PROVE b \in [Key -> Nat]
    BY <1>2, <2>1, BumpFacts
  <2>2. ASSUME key \in Key PROVE c \in [Day \X Key -> Nat]
    <3>1. <<DayOf(hour), key>> \in Day \X Key
      BY <1>1, <2>2
    <3> QED BY <1>2, <3>1, BumpFacts
  <2> QED BY <2>1, <2>2
<1>6. g \in [Hour \X Key -> Nat]
  <2>1. CASE key = NoName
    BY <1>2, <2>1
  <2>2. CASE key # NoName
    <3>1. <<hour, key>> \in Hour \X Key
      BY <2>2
    <3>2. Bump(v.hourlyCfg, <<hour, key>>, n) \in [Hour \X Key -> Nat]
      BY <1>2, <3>1, BumpFacts
    <3>3. TrimHourlyCfg(Bump(v.hourlyCfg, <<hour, key>>, n)) \in [Hour \X Key -> Nat]
      BY <3>2, TrimFacts
    <3> QED BY <2>2, <3>3
  <2> QED BY <2>1, <2>2
<1>7. /\ day.hourly = v.hourly /\ day.hourlyCfg = v.hourlyCfg
      /\ all.hourly = v.hourly /\ all.hourlyCfg = v.hourlyCfg
  BY DEF Views
<1>8. CountLasting(v, n, key) = IF key = NoName THEN day ELSE all
  BY DEF CountLasting, Views
<1>9. Counted(v, n, key) = IF key = NoName THEN [day EXCEPT !.hourly = h, !.hourlyCfg = g]
                           ELSE [all EXCEPT !.hourly = h, !.hourlyCfg = g]
  BY <1>7, <1>8 DEF Counted
<1> HIDE DEF a, b, c, g, h
<1>10. CASE key = NoName
  <2> DEFINE w == [day EXCEPT !.hourly = h, !.hourlyCfg = g]
  <2>1. w \in Views /\ w.daily = a /\ w.byConfig = v.byConfig /\ w.dailyCfg = v.dailyCfg
    BY <1>3, <1>4, <1>6 DEF Views
  <2> QED BY <1>9, <1>10, <2>1 DEF Adds, a
<1>11. CASE key # NoName
  <2> DEFINE w == [all EXCEPT !.hourly = h, !.hourlyCfg = g]
  <2>1. w \in Views /\ w.daily = a /\ w.byConfig = b /\ w.dailyCfg = c
    BY <1>3, <1>4, <1>5, <1>6, <1>11 DEF Views
  <2> QED BY <1>9, <1>11, <2>1 DEF Adds, a, b, c
<1> QED BY <1>10, <1>11

\* The parts of Views are a history.
LEMMA LastingFacts ==
    ASSUME NEW v \in Views
    PROVE  /\ Lasting(v) \in History
           /\ Lasting(v).daily = v.daily /\ Lasting(v).byConfig = v.byConfig
           /\ Lasting(v).dailyCfg = v.dailyCfg
BY DEF Lasting, Views, History

\* So is the sum of two.
LEMMA SumFacts ==
    ASSUME NEW v \in Views, NEW w \in Views
    PROVE  /\ Sum(v, w) \in History
           /\ Sum(v, w).byConfig[Direct] = v.byConfig[Direct] + w.byConfig[Direct]
<1>1. /\ v.daily \in [Day -> Nat] /\ v.byConfig \in [Key -> Nat]
      /\ v.dailyCfg \in [Day \X Key -> Nat]
      /\ w.daily \in [Day -> Nat] /\ w.byConfig \in [Key -> Nat]
      /\ w.dailyCfg \in [Day \X Key -> Nat]
  BY DEF Views
<1>2. Direct \in Key
  BY DEF Key
<1>3. /\ Merge(v.daily, w.daily) \in [Day -> Nat]
      /\ Merge(v.dailyCfg, w.dailyCfg) \in [Day \X Key -> Nat]
  BY <1>1, MergeFacts
<1>4. /\ Merge(v.byConfig, w.byConfig) \in [Key -> Nat]
      /\ Merge(v.byConfig, w.byConfig)[Direct] = v.byConfig[Direct] + w.byConfig[Direct]
  BY <1>1, <1>2, MergeFacts
<1> QED BY <1>3, <1>4 DEF Sum, History

\* A sum with nothing.
LEMMA SumEmpty ==
    ASSUME NEW v \in Views
    PROVE  Empty \in Views /\ Sum(v, Empty) = Lasting(v)
<1>1. Empty \in Views
  BY DEF Empty, Views
<1>2. ASSUME NEW S, NEW f \in [S -> Nat] PROVE Merge(f, [x \in S |-> 0]) = f
  BY DEF Merge
<1>3. Merge(v.daily, Empty.daily) = v.daily
  BY <1>2 DEF Empty, Views
<1>4. Merge(v.byConfig, Empty.byConfig) = v.byConfig
  BY <1>2 DEF Empty, Views
<1>5. Merge(v.dailyCfg, Empty.dailyCfg) = v.dailyCfg
  BY <1>2 DEF Empty, Views
<1> QED BY <1>1, <1>3, <1>4, <1>5 DEF Sum, Lasting

\* Histories with the same maps are the same.
LEMMA SameHistory ==
    ASSUME NEW d \in History, NEW e \in History,
           d.daily = e.daily, d.byConfig = e.byConfig, d.dailyCfg = e.dailyCfg
    PROVE  d = e
BY DEF History

\* What is counted while the stored maps are being read is counted in the history.
LEMMA SumCounted ==
    ASSUME hour \in Hour, NEW u \in Views, NEW v \in Views, NEW w \in Views, NEW n \in Nat,
           NEW key \in Key \cup {NoName}, NEW d \in History, NEW e \in History,
           d = Sum(u, v), Adds(d, e, n, key), Adds(v, w, n, key)
    PROVE  e = Sum(u, w)
<1>1. DayOf(hour) \in Day
  BY DayOfHour
<1>2. /\ u.daily \in Counts(Day) /\ u.byConfig \in Counts(Key)
      /\ u.dailyCfg \in Counts(Day \X Key)
      /\ v.daily \in Counts(Day) /\ v.byConfig \in Counts(Key)
      /\ v.dailyCfg \in Counts(Day \X Key)
  BY DEF Views, Counts
<1>3. /\ d.daily = Merge(u.daily, v.daily) /\ d.byConfig = Merge(u.byConfig, v.byConfig)
      /\ d.dailyCfg = Merge(u.dailyCfg, v.dailyCfg)
  BY DEF Sum
<1>4. e.daily = Merge(u.daily, w.daily)
  <2>1. Bump(Merge(u.daily, v.daily), DayOf(hour), n) = Merge(u.daily, Bump(v.daily, DayOf(hour), n))
    BY <1>1, <1>2, BumpMerge
  <2> QED BY <1>3, <2>1 DEF Adds
<1>5. e.byConfig = Merge(u.byConfig, w.byConfig)
  <2>1. CASE key = NoName
    BY <1>3, <2>1 DEF Adds
  <2>2. CASE key # NoName
    <3>1. key \in Key
      BY <2>2
    <3>2. Bump(Merge(u.byConfig, v.byConfig), key, n) = Merge(u.byConfig, Bump(v.byConfig, key, n))
      BY <1>2, <3>1, BumpMerge
    <3> QED BY <1>3, <2>2, <3>2 DEF Adds
  <2> QED BY <2>1, <2>2
<1>6. e.dailyCfg = Merge(u.dailyCfg, w.dailyCfg)
  <2>1. CASE key = NoName
    BY <1>3, <2>1 DEF Adds
  <2>2. CASE key # NoName
    <3> DEFINE x == <<DayOf(hour), key>>
    <3>1. x \in Day \X Key
      BY <1>1, <2>2
    <3>2. Bump(Merge(u.dailyCfg, v.dailyCfg), x, n) = Merge(u.dailyCfg, Bump(v.dailyCfg, x, n))
      BY <1>2, <3>1, BumpMerge
    <3> QED BY <1>3, <2>2, <3>2 DEF Adds
  <2> QED BY <2>1, <2>2
<1>7. /\ Sum(u, w) \in History /\ Sum(u, w).daily = Merge(u.daily, w.daily)
      /\ Sum(u, w).byConfig = Merge(u.byConfig, w.byConfig)
      /\ Sum(u, w).dailyCfg = Merge(u.dailyCfg, w.dailyCfg)
  BY SumFacts DEF Sum
<1> QED BY <1>4, <1>5, <1>6, <1>7, SameHistory

\* ... and so is what is counted afterwards.
LEMMA LastingCounted ==
    ASSUME NEW v \in Views, NEW w \in Views, NEW n \in Nat,
           NEW key \in Key \cup {NoName}, NEW d \in History, NEW e \in History,
           d = Lasting(v), Adds(d, e, n, key), Adds(v, w, n, key)
    PROVE  e = Lasting(w)
<1>1. d.daily = v.daily /\ d.byConfig = v.byConfig /\ d.dailyCfg = v.dailyCfg
  BY LastingFacts
<1>2. e.daily = w.daily /\ e.byConfig = w.byConfig /\ e.dailyCfg = w.dailyCfg
  BY <1>1 DEF Adds
<1> QED BY <1>2, LastingFacts, SameHistory

\* The merged maps are the history.
LEMMA MergedFacts ==
    ASSUME NEW v \in Views, NEW w \in Views
    PROVE  Merged(v, w) \in Views /\ Lasting(Merged(v, w)) = Sum(v, w)
<1> DEFINE a == Merge(v.daily, w.daily)
           b == Merge(v.byConfig, w.byConfig)
           c == Merge(v.dailyCfg, w.dailyCfg)
           h == TrimHourly(Merge(v.hourly, w.hourly))
           g == TrimHourlyCfg(Merge(v.hourlyCfg, w.hourlyCfg))
<1>1. /\ v.daily \in [Day -> Nat] /\ v.byConfig \in [Key -> Nat]
      /\ v.dailyCfg \in [Day \X Key -> Nat]
      /\ v.hourly \in [Hour -> Nat] /\ v.hourlyCfg \in [Hour \X Key -> Nat]
      /\ w.daily \in [Day -> Nat] /\ w.byConfig \in [Key -> Nat]
      /\ w.dailyCfg \in [Day \X Key -> Nat]
      /\ w.hourly \in [Hour -> Nat] /\ w.hourlyCfg \in [Hour \X Key -> Nat]
  BY DEF Views
<1>2. a \in [Day -> Nat] /\ b \in [Key -> Nat] /\ c \in [Day \X Key -> Nat]
  BY <1>1, MergeFacts
<1>3. /\ Merge(v.hourly, w.hourly) \in [Hour -> Nat]
      /\ Merge(v.hourlyCfg, w.hourlyCfg) \in [Hour \X Key -> Nat]
  BY <1>1, MergeFacts
<1>4. h \in [Hour -> Nat] /\ g \in [Hour \X Key -> Nat]
  BY <1>3, TrimFacts
<1>5. Merged(v, w) = [daily |-> a, hourly |-> h, byConfig |-> b, dailyCfg |-> c, hourlyCfg |-> g]
  BY DEF Merged
<1>6. Sum(v, w) = [daily |-> a, byConfig |-> b, dailyCfg |-> c]
  BY DEF Sum
<1> HIDE DEF a, b, c, g, h
<1>7. Merged(v, w) \in Views
  BY <1>2, <1>4, <1>5 DEF Views
<1> QED BY <1>5, <1>6, <1>7 DEF Lasting
-----------------------------------------------------------------------------
(* Storing *)

\* The maps are replaced one after the other: any of the contents on the way has
\* the same sample, and the direct bytes of before or after.
LEMMA PersistingFacts ==
    ASSUME NEW p \in Contents, NEW v \in Views, NEW c \in Persisting(p, v)
    PROVE  /\ c \in Contents /\ c.sample = p.sample
           /\ c.views.byConfig = p.views.byConfig \/ c.views.byConfig = v.byConfig
<1> DEFINE o == p.views
           s1 == [o EXCEPT !.daily = v.daily]
           s2 == [o EXCEPT !.daily = v.daily, !.hourly = v.hourly]
           s3 == [v EXCEPT !.dailyCfg = o.dailyCfg, !.hourlyCfg = o.hourlyCfg]
           s4 == [v EXCEPT !.hourlyCfg = o.hourlyCfg]
<1>1. o \in Views /\ p.sample \in [rx : Nat, known : BOOLEAN, off : BOOLEAN]
  BY DEF Contents
<1>2. PICK s \in {s1, s2, s3, s4, v} : c = [p EXCEPT !.views = s]
  BY DEF Persisting
<1> HIDE DEF o
<1>3. s1 \in Views /\ s1.byConfig = o.byConfig
  BY <1>1 DEF Views
<1>4. s2 \in Views /\ s2.byConfig = o.byConfig
  BY <1>1 DEF Views
<1>5. s3 \in Views /\ s3.byConfig = v.byConfig
  BY <1>1 DEF Views
<1>6. s4 \in Views /\ s4.byConfig = v.byConfig
  BY <1>1 DEF Views
<1> HIDE DEF s1, s2, s3, s4
<1>7. s \in Views /\ (s.byConfig = o.byConfig \/ s.byConfig = v.byConfig)
  BY <1>2, <1>3, <1>4, <1>5, <1>6
<1>8. c \in Contents /\ c.sample = p.sample /\ c.views = s
  BY <1>1, <1>2, <1>7 DEF Contents
<1> QED BY <1>7, <1>8 DEF o

Flags == [life : BOOLEAN, ever : BOOLEAN, torn : BOOLEAN]

\* What early says after a store.
Noted(written) ==
    /\ early' \in Flags
    /\ early'.life <=> early.life \/ load \in Maps
    /\ early'.ever <=> early.ever \/ load \in Maps
    /\ ~early'.torn => ~early.torn
    /\ ~early'.torn /\ load \in Maps => load = "daily"
    /\ ~early'.torn /\ load # "done" => disk' \in written \cup {prefs'}

\* A store notes that.
LEMMA NoteFacts ==
    ASSUME NEW written, early \in Flags, NoteStore(written)
    PROVE  Noted(written)
<1> DEFINE a == early.life \/ load \in Maps
           b == early.ever \/ load \in Maps
           c == \/ early.torn \/ (load \in Maps /\ load # "daily")
                \/ load # "done" /\ disk' \notin written \cup {prefs'}
<1>1. early' = [life |-> a, ever |-> b, torn |-> c]
  BY DEF NoteStore
<1>2. a \in BOOLEAN /\ b \in BOOLEAN /\ c \in BOOLEAN
  BY Zenon DEF Flags
<1> HIDE DEF a, b, c
<1>3. early' \in Flags /\ early'.life = a /\ early'.ever = b /\ early'.torn = c
  BY <1>1, <1>2 DEF Flags
<1>4. early'.life <=> early.life \/ load \in Maps
  BY <1>3, Zenon DEF a
<1>5. early'.ever <=> early.ever \/ load \in Maps
  BY <1>3, Zenon DEF b
<1>6. /\ ~early'.torn => ~early.torn
      /\ ~early'.torn /\ load \in Maps => load = "daily"
      /\ ~early'.torn /\ load # "done" => disk' \in written \cup {prefs'}
  BY <1>3, Zenon DEF c
<1> QED BY <1>3, <1>4, <1>5, <1>6, Zenon DEF Noted

\* The maps v are stored on top of the contents p.
Stored(p, v, written) ==
    /\ Noted(written)
    /\ prefs' \in Contents /\ prefs'.sample = p.sample /\ prefs'.views = v
    /\ disk' \in Contents
    /\ \/ disk' \in written
       \/ /\ disk'.sample = p.sample
          /\ disk'.views.byConfig = p.views.byConfig \/ disk'.views.byConfig = v.byConfig

\* persistAll() does so.
LEMMA PersistFacts ==
    ASSUME early \in Flags, NEW p \in Contents, NEW v \in Views, NEW written,
           written \subseteq Contents, Persist(p, v, written)
    PROVE  Stored(p, v, written) /\ ticks' = 0
<1>0. Noted(written)
  BY NoteFacts DEF Persist
<1>1. prefs' = [p EXCEPT !.views = v] /\ ticks' = 0 /\ disk' \in written \cup Persisting(p, v)
  BY DEF Persist
<1>2. prefs' \in Contents /\ prefs'.sample = p.sample /\ prefs'.views = v
  BY <1>1 DEF Contents
<1>3. CASE disk' \in written
  BY <1>0, <1>1, <1>2, <1>3 DEF Stored
<1>4. CASE disk' \in Persisting(p, v)
  <2>1. /\ disk' \in Contents /\ disk'.sample = p.sample
        /\ disk'.views.byConfig = p.views.byConfig \/ disk'.views.byConfig = v.byConfig
    BY <1>4, PersistingFacts
  <2> QED BY <1>0, <1>1, <1>2, <2>1 DEF Stored
<1> QED BY <1>1, <1>3, <1>4

\* What add() does.
LEMMA AddFacts ==
    ASSUME UsageTypeOK, NEW n \in Nat, NEW key \in Key \cup {NoName}, NEW p \in Contents,
           NEW written, written \subseteq Contents, Add(n, key, p, written)
    PROVE  /\ mem' \in Views /\ Adds(mem, mem', n, key)
           /\ due' \in History /\ Adds(due, due', n, key)
           /\ ticks' \in 0..(PersistEvery - 1)
           /\ \/ ticks + 1 >= PersistEvery /\ Stored(p, mem', written)
              \/ prefs' = p /\ disk' \in written /\ early' = early
<1>1. mem \in Views /\ due \in History /\ hour \in Hour /\ ticks \in 0..(PersistEvery - 1)
      /\ early \in Flags
  BY DEF UsageTypeOK, History, Flags
<1>2. mem' = Counted(mem, n, key) /\ due' = CountLasting(due, n, key)
  BY DEF Add
<1>3. mem' \in Views /\ Adds(mem, mem', n, key) /\ due' \in History /\ Adds(due, due', n, key)
  BY <1>1, <1>2, CountedFacts, CountLastingFacts
<1>4. PersistEvery \in Nat /\ PersistEvery > 0
  BY UsageAssumption
<1>5. CASE ticks + 1 >= PersistEvery
  <2>1. Persist(p, mem', written)
    BY <1>2, <1>5 DEF Add
  <2> DEFINE v == mem'
  <2>2. v \in Views /\ Persist(p, v, written)
    BY <1>3, <2>1
  <2> HIDE DEF v
  <2>3. Stored(p, v, written) /\ ticks' = 0
    BY <1>1, <2>2, PersistFacts
  <2> QED BY <1>3, <1>4, <1>5, <2>3 DEF v
<1>6. CASE ~(ticks + 1 >= PersistEvery)
  <2>1. ticks' = ticks + 1 /\ prefs' = p /\ disk' \in written /\ early' = early
    BY <1>6 DEF Add
  <2> QED BY <1>1, <1>3, <1>4, <1>6, <2>1
<1> QED BY <1>5, <1>6

\* The contents with a new sample.
Sampled(p, off) ==
    /\ p \in Contents /\ p.views = prefs.views
    /\ p.sample = [rx |-> rx, known |-> TRUE, off |-> off]

\* syncDirect() stores the sample and counts what passed since the last one, if
\* anything.
LEMMA SyncDirectCases ==
    ASSUME UsageTypeOK, NEW off \in BOOLEAN, SyncDirect(off)
    PROVE  \E p : /\ Sampled(p, off)
                  /\ \/ MayCount(DirectBytes) /\ Add(DirectBytes, Direct, p, {disk, p})
                     \/ prefs' = p /\ disk' \in {disk, p} /\ UNCHANGED <<mem, ticks, due, early>>
<1> DEFINE p == [prefs EXCEPT !.sample = [rx |-> rx, known |-> TRUE, off |-> off]]
<1>1. prefs \in Contents /\ [rx |-> rx, known |-> TRUE, off |-> off] \in [rx : Nat, known : BOOLEAN, off : BOOLEAN]
  BY DEF UsageTypeOK
<1>2. Sampled(p, off)
  BY <1>1 DEF Contents, Sampled
<1>3. \/ MayCount(DirectBytes) /\ Add(DirectBytes, Direct, p, {disk, p})
      \/ prefs' = p /\ disk' \in {disk, p} /\ UNCHANGED <<mem, ticks, due, early>>
  BY DEF SyncDirect
<1> HIDE DEF p
<1> QED BY <1>2, <1>3

\* It counts no more than has passed since.
LEMMA DirectBytesFacts ==
    ASSUME UsageTypeOK
    PROVE  /\ DirectBytes \in Nat /\ Gap(prefs.sample) \in Nat
           /\ DirectBytes <= Gap(prefs.sample)
<1>1. rx \in Nat /\ prefs.sample.rx \in Nat
  BY DEF UsageTypeOK, Contents
<1> QED BY <1>1 DEF DirectBytes, Gap
-----------------------------------------------------------------------------
(* Types *)

\* The thread reads a map.
Reads(map, next, maps) ==
    /\ load = map /\ load' = next /\ fromDisk' = maps /\ maps \in Views
    /\ UNCHANGED <<mem, ticks, prefs, disk, hour, rx, deaths, passed, due, early>>

\* The maps it has afterwards.
LEMMA LoadReads ==
    ASSUME prefs.views \in Views, fromDisk \in Views, LoadRead
    PROVE  /\ fromDisk' \in Views /\ load' \in {"merge"} \cup Maps /\ load \in Maps
           /\ UNCHANGED <<mem, ticks, prefs, disk, hour, rx, deaths, passed, due, early>>
           /\ \/ Reads("daily", "hourly", [fromDisk EXCEPT !.daily = prefs.views.daily])
              \/ Reads("hourly", "byConfig", [fromDisk EXCEPT !.hourly = prefs.views.hourly])
              \/ Reads("byConfig", "dailyCfg", [fromDisk EXCEPT !.byConfig = prefs.views.byConfig])
              \/ Reads("dailyCfg", "hourlyCfg", [fromDisk EXCEPT !.dailyCfg = prefs.views.dailyCfg])
              \/ Reads("hourlyCfg", "merge", [fromDisk EXCEPT !.hourlyCfg = prefs.views.hourlyCfg])
<1> DEFINE o == prefs.views
<1>1. /\ [fromDisk EXCEPT !.daily = o.daily] \in Views
      /\ [fromDisk EXCEPT !.hourly = o.hourly] \in Views
      /\ [fromDisk EXCEPT !.byConfig = o.byConfig] \in Views
      /\ [fromDisk EXCEPT !.dailyCfg = o.dailyCfg] \in Views
      /\ [fromDisk EXCEPT !.hourlyCfg = o.hourlyCfg] \in Views
  BY DEF Views
<1>2. CASE Read("daily", "hourly", [fromDisk EXCEPT !.daily = o.daily])
  BY <1>1, <1>2 DEF Read, Reads, Maps
<1>3. CASE Read("hourly", "byConfig", [fromDisk EXCEPT !.hourly = o.hourly])
  BY <1>1, <1>3 DEF Read, Reads, Maps
<1>4. CASE Read("byConfig", "dailyCfg", [fromDisk EXCEPT !.byConfig = o.byConfig])
  BY <1>1, <1>4 DEF Read, Reads, Maps
<1>5. CASE Read("dailyCfg", "hourlyCfg", [fromDisk EXCEPT !.dailyCfg = o.dailyCfg])
  BY <1>1, <1>5 DEF Read, Reads, Maps
<1>6. CASE Read("hourlyCfg", "merge", [fromDisk EXCEPT !.hourlyCfg = o.hourlyCfg])
  BY <1>1, <1>6 DEF Read, Reads, Maps
<1> QED BY <1>2, <1>3, <1>4, <1>5, <1>6 DEF LoadRead

\* A step that counts keeps the types.
LEMMA AddType ==
    ASSUME UsageTypeOK, NEW n \in Nat, NEW key \in Key \cup {NoName}, NEW p \in Contents,
           NEW written, written \subseteq Contents, Add(n, key, p, written),
           UNCHANGED <<load, fromDisk, hour, rx, deaths, passed>>
    PROVE  UsageTypeOK'
<1>1. /\ mem' \in Views /\ due' \in History /\ ticks' \in 0..(PersistEvery - 1)
      /\ \/ ticks + 1 >= PersistEvery /\ Stored(p, mem', written)
         \/ prefs' = p /\ disk' \in written /\ early' = early
  BY AddFacts
<1>2. prefs' \in Contents /\ disk' \in Contents /\ early' \in Flags
  BY <1>1 DEF Stored, Noted, UsageTypeOK, Flags
<1> QED BY <1>1, <1>2 DEF UsageTypeOK, History, Flags

\* Every step keeps the types.
LEMMA NextType == UsageTypeOK /\ [Next]_vars => UsageTypeOK'
<1> SUFFICES ASSUME UsageTypeOK, [Next]_vars PROVE UsageTypeOK'
  OBVIOUS
<1>0. /\ mem \in Views /\ fromDisk \in Views /\ Empty \in Views /\ prefs \in Contents
      /\ disk \in Contents /\ due \in History /\ ticks \in 0..(PersistEvery - 1)
      /\ PersistEvery \in Nat /\ PersistEvery > 0
      /\ prefs.views \in Views /\ disk.views \in Views /\ early \in Flags
  <2>1. Empty \in Views
    BY DEF Empty, Views
  <2> QED BY <2>1, UsageAssumption DEF UsageTypeOK, History, Contents, Flags
<1>1. CASE Start
  BY <1>1 DEF Start, UsageTypeOK, Maps
<1>2. CASE LoadRead
  <2>1. /\ fromDisk' \in Views /\ load' \in {"merge"} \cup Maps
        /\ UNCHANGED <<mem, ticks, prefs, disk, hour, rx, deaths, passed, due, early>>
    BY <1>0, <1>2, LoadReads
  <2> QED BY <2>1 DEF UsageTypeOK
<1>3. CASE LoadMerge
  <2>1. Merged(fromDisk, mem) \in Views
    BY <1>0, MergedFacts
  <2> QED BY <1>0, <1>3, <2>1 DEF LoadMerge, UsageTypeOK
<1>4. CASE Flush
  <2>1. Persist(prefs, mem, {disk})
    BY <1>4 DEF Flush
  <2>2. Stored(prefs, mem, {disk}) /\ ticks' = 0
    BY <1>0, <2>1, PersistFacts
  <2>3. /\ prefs' \in Contents /\ disk' \in Contents /\ ticks' \in 0..(PersistEvery - 1)
        /\ early' \in Flags
    BY <1>0, <2>2 DEF Stored, Noted
  <2> QED BY <1>4, <2>3 DEF Flush, UsageTypeOK, Flags
<1>5. CASE Written
  BY <1>5 DEF Written, UsageTypeOK
<1>6. CASE Transfer
  BY <1>6 DEF Transfer, UsageTypeOK
<1>7. CASE Clock
  <2>1. hour' \in Hour
    BY <1>7, UsageAssumption DEF Clock, UsageTypeOK, Hour
  <2> QED BY <1>7, <2>1 DEF Clock, UsageTypeOK
<1>8. ASSUME NEW key \in Name \cup {NoName}, AddCounters(key) PROVE UsageTypeOK'
  <2>1. Add(1, key, prefs, {disk}) /\ UNCHANGED <<load, fromDisk, hour, rx, deaths, passed>>
    BY <1>8 DEF AddCounters
  <2>2. key \in Key \cup {NoName}
    BY DEF Key
  <2> QED BY <1>0, <2>1, <2>2, AddType
<1>9. ASSUME NEW b \in BOOLEAN, SyncDirect(b) PROVE UsageTypeOK'
  <2>1. PICK p : /\ Sampled(p, b)
                 /\ \/ MayCount(DirectBytes) /\ Add(DirectBytes, Direct, p, {disk, p})
                    \/ prefs' = p /\ disk' \in {disk, p} /\ UNCHANGED <<mem, ticks, due, early>>
    BY <1>9, SyncDirectCases
  <2>2. p \in Contents /\ Direct \in Key \cup {NoName} /\ DirectBytes \in Nat
    BY <2>1, DirectBytesFacts DEF Sampled, Key
  <2>3. UNCHANGED <<load, fromDisk, hour, rx, deaths, passed>>
    BY <1>9 DEF SyncDirect
  <2>4. CASE Add(DirectBytes, Direct, p, {disk, p})
    BY <1>0, <2>2, <2>3, <2>4, AddType
  <2>5. CASE prefs' = p /\ disk' \in {disk, p} /\ UNCHANGED <<mem, ticks, due, early>>
    BY <1>0, <2>2, <2>3, <2>5 DEF UsageTypeOK
  <2> QED BY <2>1, <2>4, <2>5
<1>10. ASSUME NEW b \in BOOLEAN, Die(b) PROVE UsageTypeOK'
  <2>1. Lasting(disk.views) \in History
    BY <1>0, LastingFacts
  <2>2. 0 \in 0..(PersistEvery - 1)
    BY <1>0
  <2>3. early' \in Flags
    BY <1>0, <1>10 DEF Die, Flags
  <2> QED BY <1>0, <1>10, <2>1, <2>2, <2>3 DEF Die, UsageTypeOK, History, Flags
<1>11. CASE UNCHANGED vars
  BY <1>11 DEF vars, UsageTypeOK
<1> QED BY <1>1, <1>2, <1>3, <1>4, <1>5, <1>6, <1>7, <1>8, <1>9, <1>10, <1>11 DEF Next

\* The process starts with empty maps.
LEMMA InitUInv == Init => UInv
<1> SUFFICES ASSUME Init PROVE UInv
  OBVIOUS
<1>1. Empty \in Views /\ Sum(Empty, Empty) = Lasting(Empty)
  BY SumEmpty DEF Empty, Views
<1>2. /\ load = "off" /\ fromDisk = Empty /\ mem = Empty /\ ticks = 0 /\ disk = prefs
      /\ hour = 0 /\ rx = 0 /\ deaths = 0 /\ passed = 0
      /\ prefs = [views |-> Empty, sample |-> NoSample] /\ due = Lasting(Empty)
      /\ early = [life |-> FALSE, ever |-> FALSE, torn |-> FALSE]
  BY DEF Init, Lasting
<1>3. prefs \in Contents /\ prefs.views = Empty /\ prefs.sample = NoSample
  BY <1>1, <1>2 DEF Contents, NoSample
<1>4. UsageTypeOK
  <2>1. due \in History
    BY <1>1, <1>2, LastingFacts
  <2>2. 0 \in Hour /\ 0 \in 0..(PersistEvery - 1)
    BY UsageAssumption DEF Hour
  <2> QED BY <1>1, <1>2, <1>3, <2>1, <2>2 DEF UsageTypeOK, History
<1>5. AsRead /\ Recorded
  BY <1>1, <1>2, <1>3 DEF AsRead, Recorded, Base
<1>6. Budget
  <2>1. Empty.byConfig[Direct] = 0
    BY DEF Empty, Key
  <2>2. Gap(NoSample) = 0
    BY DEF Gap, NoSample
  <2>3. Source = Empty /\ disk = prefs /\ rx = passed /\ passed = 0 /\ load = "off"
    BY <1>2, <1>3 DEF Source
  <2>4. Room(0, 0, 0, early.ever) /\ Fits(load = "done", 0, 0, 0, 0, early.ever)
    BY <1>2 DEF Room, Fits, Times
  <2>5. /\ mem.byConfig[Direct] = 0 /\ Source.byConfig[Direct] = 0
        /\ prefs.views.byConfig[Direct] = 0 /\ disk.views.byConfig[Direct] = 0
        /\ Gap(prefs.sample) = 0 /\ Gap(disk.sample) = 0
    BY <1>2, <1>3, <2>1, <2>2, <2>3
  <2> QED BY <2>3, <2>4, <2>5 DEF Budget
<1> QED BY <1>4, <1>5, <1>6 DEF UInv

\* Every variable of UsageStore has its type, and the maps are stored at the
\* latest with the PersistEvery-th count.
THEOREM UsageTypes == Spec => []UsageTypeOK
<1>1. Init => UsageTypeOK
  BY InitUInv DEF UInv
<1> QED BY <1>1, NextType, PTL DEF Spec
-----------------------------------------------------------------------------
(* Counts are kept *)

\* How much a step that counts n for the key adds to the direct bytes.
LEMMA AddsDirect ==
    ASSUME NEW d, NEW e, d.byConfig \in [Key -> Nat], NEW n \in Nat,
           NEW key \in Key \cup {NoName}, Adds(d, e, n, key)
    PROVE  e.byConfig[Direct] = d.byConfig[Direct] + IF key = Direct THEN n ELSE 0
<1>1. Direct \in Key /\ NoName # Direct /\ d.byConfig[Direct] \in Nat
  BY UsageAssumption DEF Key
<1>2. CASE key = NoName
  BY <1>1, <1>2 DEF Adds
<1>3. CASE key # NoName
  <2>1. e.byConfig = Bump(d.byConfig, key, n) /\ key \in Key
    BY <1>3 DEF Adds
  <2> QED BY <1>1, <2>1 DEF Bump
<1> QED BY <1>2, <1>3

\* What is allowed stays so when it becomes known that a byte may count twice, and
\* when more has passed.
LEMMA RoomFacts ==
    ASSUME NEW x \in Nat, NEW g \in Nat, NEW T \in Nat, NEW e, Room(x, g, T, e)
    PROVE  /\ Room(x, g, T, TRUE)
           /\ Room(x, 0, T, e)
           /\ \A h \in Nat : h <= g + 1 => Room(x, h, T + 1, e)
           /\ \A h \in Nat : h <= g => Room(x, h, T, e)
BY DEF Room, Times

\* The bytes in memory when they are stored.
LEMMA FitsStored ==
    ASSUME NEW done, NEW s \in Nat, NEW b \in Nat, NEW g \in Nat, NEW T \in Nat,
           NEW e, Fits(done, s, b, g, T, e)
    PROVE  /\ Room(s, g, T, e)
           /\ Fits(done, s, b, g, T, TRUE) /\ Fits(done, s, s, g, T, TRUE)
BY DEF Fits, Room, Times

\* n bytes are counted of the g that may be, and the new sample leaves none.
LEMMA FitsCounted ==
    ASSUME NEW done, NEW s \in Nat, NEW b \in Nat, NEW g \in Nat, NEW T \in Nat,
           NEW e, NEW n \in Nat, n <= g, Fits(done, s, b, g, T, e)
    PROVE  Fits(done, s + n, b, 0, T, e)
BY DEF Fits, Room, Times

\* A byte has passed.
LEMMA FitsPassed ==
    ASSUME NEW done, NEW s \in Nat, NEW b \in Nat, NEW g \in Nat, NEW T \in Nat,
           NEW e, NEW h \in Nat, h <= g + 1, Fits(done, s, b, g, T, e)
    PROVE  Fits(done, s, b, h, T + 1, e)
BY DEF Fits, Room, Times

\* The stored bytes are merged.
LEMMA FitsMerged ==
    ASSUME NEW s \in Nat, NEW b \in Nat, NEW c \in Nat, NEW g \in Nat, NEW T \in Nat,
           NEW e, Fits(FALSE, s, b, g, T, e)
    PROVE  Fits(TRUE, b + s, c, g, T, e)
BY DEF Fits, Room, Times

\* The process starts again with the bytes on disk.
LEMMA FitsDisk ==
    ASSUME NEW k \in Nat, NEW g \in Nat, NEW T \in Nat, NEW e, g <= T, Room(k, g, T, e)
    PROVE  Fits(FALSE, 0, k, g, T, e)
BY DEF Fits, Room, Times

\* The numbers Budget is about.
LEMMA Numbers ==
    ASSUME UsageTypeOK
    PROVE  /\ mem.byConfig[Direct] \in Nat /\ Source.byConfig[Direct] \in Nat
           /\ prefs.views.byConfig[Direct] \in Nat /\ disk.views.byConfig[Direct] \in Nat
           /\ fromDisk.byConfig[Direct] \in Nat
           /\ Gap(prefs.sample) \in Nat /\ Gap(disk.sample) \in Nat
           /\ rx \in Nat /\ passed \in Nat /\ early.ever \in BOOLEAN
           /\ mem \in Views /\ fromDisk \in Views /\ prefs \in Contents /\ disk \in Contents
           /\ prefs.views \in Views /\ disk.views \in Views /\ due \in History
           /\ hour \in Hour /\ early \in Flags
           /\ (load = "done") \in BOOLEAN /\ load \in {"off", "merge", "done"} \cup Maps
<1>1. /\ mem \in Views /\ fromDisk \in Views /\ prefs \in Contents /\ disk \in Contents
      /\ rx \in Nat /\ passed \in Nat /\ due \in History /\ hour \in Hour /\ early \in Flags
      /\ load \in {"off", "merge", "done"} \cup Maps
  BY DEF UsageTypeOK, History, Flags
<1>2. /\ prefs.views \in Views /\ disk.views \in Views
      /\ prefs.sample.rx \in Nat /\ disk.sample.rx \in Nat
  BY <1>1 DEF Contents
<1>3. \A v \in Views : v.byConfig[Direct] \in Nat
  BY DEF Views, Key
<1>4. Source \in Views
  BY <1>1, <1>2 DEF Source
<1>5. Gap(prefs.sample) \in Nat /\ Gap(disk.sample) \in Nat
  BY <1>1, <1>2 DEF Gap
<1>6. early.ever \in BOOLEAN
  BY <1>1 DEF Flags
<1> QED BY <1>1, <1>2, <1>3, <1>4, <1>5, <1>6

\* What is counted is counted in the history.
LEMMA CountRecorded ==
    ASSUME hour \in Hour, mem \in Views, due \in History, NEW u \in Views, NEW n \in Nat,
           NEW key \in Key \cup {NoName}, mem' \in Views, due' \in History,
           Adds(mem, mem', n, key), Adds(due, due', n, key)
    PROVE  /\ due = Lasting(mem) => due' = Lasting(mem')
           /\ due = Sum(u, mem) => due' = Sum(u, mem')
<1> DEFINE w == mem'
           e == due'
<1>1. w \in Views /\ e \in History /\ Adds(mem, w, n, key) /\ Adds(due, e, n, key)
  OBVIOUS
<1> HIDE DEF w, e
<1>2. due = Lasting(mem) => e = Lasting(w)
  BY <1>1, LastingCounted
<1>3. due = Sum(u, mem) => e = Sum(u, w)
  BY <1>1, SumCounted
<1> QED BY <1>2, <1>3 DEF w, e

\* A step that counts: the history has the new count, and the direct bytes are
\* allowed if the new sample accounts for them.
LEMMA AddKeeps ==
    ASSUME UInv, UsageTypeOK', load # "off",
           NEW n \in Nat, NEW key \in Key \cup {NoName},
           NEW p \in Contents, p.views = prefs.views, Gap(p.sample) \in Nat,
           NEW written, written \subseteq Contents,
           \A c \in written : /\ c.views.byConfig[Direct] \in Nat /\ Gap(c.sample) \in Nat
                              /\ Room(c.views.byConfig[Direct], Gap(c.sample), passed, early.ever),
           Fits(load = "done", mem.byConfig[Direct] + (IF key = Direct THEN n ELSE 0),
                Source.byConfig[Direct], Gap(p.sample), passed, early.ever),
           Room(prefs.views.byConfig[Direct], Gap(p.sample), passed, early.ever),
           Add(n, key, p, written), UNCHANGED <<load, fromDisk, hour, rx, deaths, passed>>
    PROVE  UInv'
<1> DEFINE s == mem'.byConfig[Direct]
           b == Source.byConfig[Direct]
           g == Gap(p.sample)
           done == load = "done"
<1>0. UsageTypeOK /\ AsRead /\ Recorded /\ Budget
  BY DEF UInv
<1>1. /\ mem' \in Views /\ Adds(mem, mem', n, key)
      /\ due' \in History /\ Adds(due, due', n, key)
      /\ \/ ticks + 1 >= PersistEvery /\ Stored(p, mem', written)
         \/ prefs' = p /\ disk' \in written /\ early' = early
  BY <1>0, AddFacts
<1>2. /\ mem \in Views /\ prefs.views \in Views /\ fromDisk \in Views /\ due \in History
      /\ hour \in Hour /\ passed \in Nat /\ early.ever \in BOOLEAN /\ b \in Nat /\ g \in Nat
      /\ done \in BOOLEAN /\ prefs.views.byConfig[Direct] \in Nat
  BY <1>0, Numbers
<1>3. Base \in Views
  BY <1>2 DEF Base
<1>4. /\ due = Lasting(mem) => due' = Lasting(mem')
      /\ due = Sum(Base, mem) => due' = Sum(Base, mem')
  BY <1>1, <1>2, <1>3, CountRecorded
<1>5. s \in Nat /\ Fits(done, s, b, g, passed, early.ever)
  <2>1. mem.byConfig \in [Key -> Nat] /\ Direct \in Key
    BY <1>2 DEF Views, Key
  <2> DEFINE w == mem'
  <2>2. Adds(mem, w, n, key) /\ w \in Views
    BY <1>1
  <2> HIDE DEF w
  <2>3. w.byConfig[Direct] = mem.byConfig[Direct] + IF key = Direct THEN n ELSE 0
    BY <2>1, <2>2, AddsDirect
  <2>4. w.byConfig[Direct] \in Nat
    BY <2>1, <2>2 DEF Views
  <2> QED BY <2>3, <2>4 DEF w
<1>6. /\ Room(s, g, passed, early.ever)
      /\ Fits(done, s, b, g, passed, TRUE) /\ Fits(done, s, s, g, passed, TRUE)
  <2> HIDE DEF s, b, g, done
  <2> QED BY <1>2, <1>5, FitsStored
<1>7. CASE Stored(p, mem', written)
  <2>1. /\ prefs'.sample = p.sample /\ prefs'.views = mem' /\ Noted(written)
        /\ early' \in Flags
        /\ early'.life <=> early.life \/ load \in Maps
        /\ early'.ever <=> early.ever \/ load \in Maps
        /\ ~early'.torn /\ load \in Maps => load = "daily"
    BY <1>7 DEF Stored, Noted
  <2>2. early'.ever \in BOOLEAN /\ early'.life \in BOOLEAN /\ early.life \in BOOLEAN
    BY <1>0, <2>1 DEF Flags, UsageTypeOK
  <2>3. load \in {"off", "merge", "done"} \cup Maps
    BY <1>0 DEF UsageTypeOK
  <2>4. ~early'.life \/ ~early'.torn => load \notin {"hourly", "byConfig", "dailyCfg", "hourlyCfg"}
    BY <2>1 DEF Maps
  <2>5. AsRead'
    BY <2>4 DEF AsRead
  <2>6. Recorded'
    <3>1. ASSUME ~early'.life PROVE ~early.life /\ (load = "merge" \/ load = "done")
      BY <2>1, <2>3, <3>1
    <3>2. ASSUME ~early'.life PROVE due' = IF load = "done" THEN Lasting(mem') ELSE Sum(fromDisk, mem')
      BY <1>0, <1>4, <3>1, <3>2 DEF Recorded, Base
    <3> QED BY <3>1, <3>2 DEF Recorded, Base
  <2>7. early'.ever = early.ever \/ early'.ever = TRUE
    BY <1>2, <2>1, <2>2
  <2>8. Room(s, g, passed, early'.ever)
    BY <1>2, <1>5, <1>6, <2>7, RoomFacts
  <2>9. Room(disk'.views.byConfig[Direct], Gap(disk'.sample), passed, early'.ever)
    <3>1. CASE disk' \in written
      <4> DEFINE c == disk'
      <4>1. /\ c.views.byConfig[Direct] \in Nat /\ Gap(c.sample) \in Nat
            /\ Room(c.views.byConfig[Direct], Gap(c.sample), passed, early.ever)
        BY <3>1
      <4> HIDE DEF c
      <4>2. Room(c.views.byConfig[Direct], Gap(c.sample), passed, TRUE)
        BY <1>2, <4>1, RoomFacts
      <4>3. Room(c.views.byConfig[Direct], Gap(c.sample), passed, early'.ever)
        BY <2>7, <4>1, <4>2
      <4> QED BY <4>3 DEF c
    <3>2. CASE /\ disk'.sample = p.sample
               /\ disk'.views.byConfig = p.views.byConfig \/ disk'.views.byConfig = mem'.byConfig
      <4>1. Room(prefs.views.byConfig[Direct], g, passed, TRUE)
        BY <1>2, RoomFacts
      <4>2. Room(prefs.views.byConfig[Direct], g, passed, early'.ever)
        BY <2>7, <4>1
      <4> QED BY <2>8, <3>2, <4>2
    <3> QED BY <1>7, <3>1, <3>2 DEF Stored
  <2>10. Source'.byConfig[Direct] = b \/ (early'.ever = TRUE /\ Source'.byConfig[Direct] = s)
    <3>1. CASE load \in {"off", "daily", "hourly", "byConfig"}
      <4>1. Source' = mem' /\ load \in Maps
        BY <2>1, <3>1 DEF Source, Maps
      <4> QED BY <2>1, <2>2, <4>1
    <3>2. CASE load \notin {"off", "daily", "hourly", "byConfig"}
      <4>1. Source' = fromDisk /\ Source = fromDisk
        BY <3>2 DEF Source
      <4> QED BY <4>1
    <3> QED BY <3>1, <3>2
  <2>11. Fits(done, s, Source'.byConfig[Direct], g, passed, early'.ever)
    <3> HIDE DEF s, b, g, done
    <3> QED BY <1>5, <1>6, <2>7, <2>10
  <2>12. Gap(prefs.sample)' = g /\ Gap(disk.sample)' = Gap(disk'.sample) /\ rx' <= passed'
    BY <1>0, <2>1 DEF Gap, Budget
  <2>13. Budget'
    <3> HIDE DEF g
    <3> QED BY <2>1, <2>8, <2>9, <2>11, <2>12 DEF Budget
  <2> QED BY <2>5, <2>6, <2>13 DEF UInv
<1>8. CASE prefs' = p /\ disk' \in written /\ early' = early
  <2>1. prefs'.views = prefs.views /\ prefs'.sample = p.sample
    BY <1>8
  <2>2. AsRead'
    BY <1>0, <1>8, <2>1 DEF AsRead
  <2>3. Recorded'
    <3>1. Base' = Base
      BY <2>1 DEF Base
    <3> QED BY <1>0, <1>4, <1>8, <3>1 DEF Recorded
  <2>4. Source' = Source
    BY <2>1 DEF Source
  <2>5. Gap(prefs.sample)' = g /\ Gap(disk.sample)' = Gap(disk'.sample) /\ rx' <= passed'
    BY <1>0, <2>1 DEF Gap, Budget
  <2>6. Room(disk'.views.byConfig[Direct], Gap(disk'.sample), passed, early.ever)
    BY <1>8
  <2>7. Budget'
    <3> HIDE DEF g
    <3> QED BY <1>5, <1>8, <2>1, <2>4, <2>5, <2>6 DEF Budget, g
  <2> QED BY <2>2, <2>3, <2>7 DEF UInv
<1> QED BY <1>1, <1>7, <1>8

\* A sample that was just taken leaves nothing to count.
LEMMA SampledGap ==
    ASSUME UsageTypeOK, NEW p, NEW off, Sampled(p, off)
    PROVE  Gap(p.sample) = 0
<1>1. p.sample.rx = rx /\ rx \in Nat
  BY DEF Sampled, UsageTypeOK
<1> QED BY <1>1 DEF Gap

\* syncDirect() keeps the invariant, because the sample is stored first.
LEMMA SyncDirectKeeps ==
    ASSUME UInv, UsageTypeOK', NEW off \in BOOLEAN, SyncDirect(off)
    PROVE  UInv'
<1> DEFINE s == mem.byConfig[Direct]
           b == Source.byConfig[Direct]
           g == Gap(prefs.sample)
           done == load = "done"
<1>0. UsageTypeOK /\ AsRead /\ Recorded /\ Budget
  BY DEF UInv
<1>1. PICK p : /\ Sampled(p, off)
               /\ \/ MayCount(DirectBytes) /\ Add(DirectBytes, Direct, p, {disk, p})
                  \/ prefs' = p /\ disk' \in {disk, p} /\ UNCHANGED <<mem, ticks, due, early>>
  BY <1>0, SyncDirectCases
<1>2. p \in Contents /\ p.views = prefs.views /\ Gap(p.sample) = 0
  BY <1>0, <1>1, SampledGap DEF Sampled
<1>3. load # "off" /\ UNCHANGED <<load, fromDisk, hour, rx, deaths, passed>>
  BY DEF SyncDirect
<1>4. /\ DirectBytes \in Nat /\ DirectBytes <= g /\ g \in Nat /\ s \in Nat /\ b \in Nat
      /\ passed \in Nat /\ early.ever \in BOOLEAN /\ done \in BOOLEAN
      /\ prefs.views.byConfig[Direct] \in Nat /\ disk.views.byConfig[Direct] \in Nat
      /\ Gap(disk.sample) \in Nat /\ disk \in Contents
  BY <1>0, DirectBytesFacts, Numbers
<1>5. /\ Fits(done, s, b, g, passed, early.ever)
      /\ Room(prefs.views.byConfig[Direct], g, passed, early.ever)
      /\ Room(disk.views.byConfig[Direct], Gap(disk.sample), passed, early.ever)
  BY <1>0 DEF Budget
<1>6. Room(prefs.views.byConfig[Direct], 0, passed, early.ever)
  <2> DEFINE d == prefs.views.byConfig[Direct]
             e == early.ever
  <2>1. d \in Nat /\ e \in BOOLEAN /\ Room(d, g, passed, e)
    BY <1>4, <1>5
  <2> HIDE DEF d, e, g
  <2>2. Room(d, 0, passed, e)
    BY <1>4, <2>1, RoomFacts
  <2> QED BY <2>2 DEF d, e
<1>7. \A n \in Nat : n <= g => Fits(done, s + n, b, 0, passed, early.ever)
  <2> DEFINE e == early.ever
  <2>1. e \in BOOLEAN /\ Fits(done, s, b, g, passed, e)
    BY <1>4, <1>5
  <2> HIDE DEF s, b, g, done, e
  <2>2. \A n \in Nat : n <= g => Fits(done, s + n, b, 0, passed, e)
    BY <1>4, <2>1, FitsCounted
  <2> QED BY <2>2 DEF e
<1>8. CASE MayCount(DirectBytes) /\ Add(DirectBytes, Direct, p, {disk, p})
  <2> DEFINE n == DirectBytes
             written == {disk, p}
  <2>1. Direct \in Key \cup {NoName}
    BY DEF Key
  <2>2. n \in Nat /\ Add(n, Direct, p, written)
    BY <1>4, <1>8
  <2>3. /\ written \subseteq Contents
        /\ \A c \in written : /\ c.views.byConfig[Direct] \in Nat /\ Gap(c.sample) \in Nat
                              /\ Room(c.views.byConfig[Direct], Gap(c.sample), passed, early.ever)
    <3> HIDE DEF g
    <3> QED BY <1>2, <1>4, <1>5, <1>6
  <2>4. Fits(done, s + n, b, 0, passed, early.ever)
    BY <1>4, <1>7
  <2>5. Fits(load = "done", mem.byConfig[Direct] + (IF Direct = Direct THEN n ELSE 0),
             Source.byConfig[Direct], Gap(p.sample), passed, early.ever)
    BY <1>2, <2>4
  <2>6. /\ Gap(p.sample) \in Nat
        /\ Room(prefs.views.byConfig[Direct], Gap(p.sample), passed, early.ever)
    BY <1>2, <1>6
  <2> HIDE DEF n, written
  <2> QED BY <1>2, <1>3, <2>1, <2>2, <2>3, <2>5, <2>6, AddKeeps
<1>9. CASE prefs' = p /\ disk' \in {disk, p} /\ UNCHANGED <<mem, ticks, due, early>>
  <2>1. prefs'.views = prefs.views /\ Gap(prefs.sample)' = 0
    BY <1>2, <1>3, <1>9 DEF Gap
  <2>2. AsRead'
    BY <1>0, <1>3, <1>9, <2>1 DEF AsRead
  <2>3. Recorded'
    BY <1>0, <1>3, <1>9, <2>1 DEF Recorded, Base
  <2>4. Source' = Source
    BY <1>3, <2>1 DEF Source
  <2>5. Fits(done, s, b, 0, passed, early.ever)
    <3>1. Fits(done, s + 0, b, 0, passed, early.ever)
      BY <1>4, <1>7
    <3> QED BY <1>4, <3>1
  <2>6. Room(disk.views.byConfig[Direct], Gap(disk.sample), passed, early.ever)'
    <3>1. CASE disk' = disk
      BY <1>3, <1>5, <1>9, <3>1 DEF Gap
    <3>2. CASE disk' = p
      <4>1. Gap(disk.sample)' = 0 /\ disk'.views = prefs.views
        BY <1>2, <1>3, <3>2 DEF Gap
      <4> QED BY <1>3, <1>6, <1>9, <4>1
    <3> QED BY <1>9, <3>1, <3>2
  <2>7. rx' <= passed'
    BY <1>0, <1>3 DEF Budget
  <2>8. Budget'
    <3>1. Fits(load = "done", mem.byConfig[Direct], Source.byConfig[Direct],
               Gap(prefs.sample), passed, early.ever)'
      BY <1>3, <1>9, <2>1, <2>4, <2>5
    <3>2. Room(prefs.views.byConfig[Direct], Gap(prefs.sample), passed, early.ever)'
      BY <1>3, <1>6, <1>9, <2>1
    <3> QED BY <2>6, <2>7, <3>1, <3>2 DEF Budget
  <2> QED BY <2>2, <2>3, <2>8 DEF UInv
<1> QED BY <1>1, <1>8, <1>9

\* A step that touches neither the bytes nor the sample.
LEMMA SameBudget ==
    ASSUME Budget, UNCHANGED <<mem, prefs, disk, rx, passed, early>>,
           Source'.byConfig = Source.byConfig, (load' = "done") = (load = "done")
    PROVE  Budget'
<1>1. Gap(prefs.sample)' = Gap(prefs.sample) /\ Gap(disk.sample)' = Gap(disk.sample)
  BY DEF Gap
<1> QED BY <1>1 DEF Budget

\* flush() keeps the invariant.
LEMMA FlushKeeps ==
    ASSUME UInv, UsageTypeOK', Flush
    PROVE  UInv'
<1> DEFINE s == mem.byConfig[Direct]
           b == Source.byConfig[Direct]
           g == Gap(prefs.sample)
           done == load = "done"
<1>0. UsageTypeOK /\ AsRead /\ Recorded /\ Budget
  BY DEF UInv
<1>1. /\ load # "off" /\ Persist(prefs, mem, {disk})
      /\ UNCHANGED <<load, fromDisk, mem, hour, rx, deaths, passed, due>>
  BY DEF Flush
<1>2. /\ g \in Nat /\ s \in Nat /\ b \in Nat /\ passed \in Nat
      /\ early.ever \in BOOLEAN /\ done \in BOOLEAN /\ early \in Flags
      /\ prefs.views.byConfig[Direct] \in Nat /\ disk.views.byConfig[Direct] \in Nat
      /\ Gap(disk.sample) \in Nat /\ disk \in Contents /\ prefs \in Contents /\ mem \in Views
      /\ load \in {"off", "merge", "done"} \cup Maps
  BY <1>0, Numbers
<1>3. /\ Fits(done, s, b, g, passed, early.ever)
      /\ Room(prefs.views.byConfig[Direct], g, passed, early.ever)
      /\ Room(disk.views.byConfig[Direct], Gap(disk.sample), passed, early.ever)
      /\ rx <= passed
  BY <1>0 DEF Budget
<1>4. Stored(prefs, mem, {disk})
  BY <1>1, <1>2, PersistFacts
<1>5. /\ prefs'.sample = prefs.sample /\ prefs'.views = mem
      /\ early' \in Flags
      /\ early'.life <=> early.life \/ load \in Maps
      /\ early'.ever <=> early.ever \/ load \in Maps
      /\ ~early'.torn /\ load \in Maps => load = "daily"
  BY <1>4 DEF Stored, Noted
<1>6. early'.ever \in BOOLEAN /\ early'.life \in BOOLEAN /\ early.life \in BOOLEAN
  BY <1>2, <1>5 DEF Flags
<1>7. AsRead'
  <2>1. ~early'.life \/ ~early'.torn => load \notin {"hourly", "byConfig", "dailyCfg", "hourlyCfg"}
    BY <1>5 DEF Maps
  <2> QED BY <1>1, <2>1 DEF AsRead
<1>8. Recorded'
  <2>1. ASSUME ~early'.life PROVE ~early.life /\ (load = "merge" \/ load = "done")
    BY <1>1, <1>2, <1>5, <2>1
  <2> QED BY <1>0, <1>1, <2>1 DEF Recorded, Base
<1>9. early'.ever = early.ever \/ early'.ever = TRUE
  BY <1>2, <1>5, <1>6
<1>10. /\ Room(s, g, passed, early.ever)
       /\ Fits(done, s, b, g, passed, TRUE) /\ Fits(done, s, s, g, passed, TRUE)
  <2> HIDE DEF s, b, g, done
  <2> QED BY <1>2, <1>3, FitsStored
<1>11. \A x, y \in Nat : Room(x, y, passed, early.ever) => Room(x, y, passed, early'.ever)
  <2>1. \A x, y \in Nat : Room(x, y, passed, early.ever) => Room(x, y, passed, TRUE)
    BY <1>2, RoomFacts
  <2> QED BY <1>9, <2>1
<1>12. Room(disk'.views.byConfig[Direct], Gap(disk'.sample), passed, early'.ever)
  <2>1. CASE disk' = disk
    BY <1>2, <1>3, <1>11, <2>1
  <2>2. CASE /\ disk'.sample = prefs.sample
             /\ disk'.views.byConfig = prefs.views.byConfig \/ disk'.views.byConfig = mem.byConfig
    BY <1>2, <1>3, <1>10, <1>11, <2>2
  <2> QED BY <1>4, <2>1, <2>2 DEF Stored
<1>13. Source'.byConfig[Direct] = b \/ (early'.ever = TRUE /\ Source'.byConfig[Direct] = s)
  <2>1. CASE load \in {"off", "daily", "hourly", "byConfig"}
    <3>1. Source' = mem /\ load \in Maps
      BY <1>1, <1>5, <2>1 DEF Source, Maps
    <3> QED BY <1>5, <1>6, <3>1
  <2>2. CASE load \notin {"off", "daily", "hourly", "byConfig"}
    <3>1. Source' = fromDisk /\ Source = fromDisk
      BY <1>1, <2>2 DEF Source
    <3> QED BY <3>1
  <2> QED BY <2>1, <2>2
<1>14. Fits(done, s, Source'.byConfig[Direct], g, passed, early'.ever)
  <2> HIDE DEF s, b, g, done
  <2> QED BY <1>3, <1>9, <1>10, <1>13
<1>15. Gap(prefs.sample)' = g /\ Gap(disk.sample)' = Gap(disk'.sample) /\ rx' <= passed'
  BY <1>1, <1>3, <1>5 DEF Gap
<1>16. Room(s, g, passed, early'.ever)
  <2> HIDE DEF s, g
  <2> QED BY <1>2, <1>10, <1>11
<1>17. Budget'
  <2>1. Fits(load = "done", mem.byConfig[Direct], Source.byConfig[Direct],
             Gap(prefs.sample), passed, early.ever)'
    BY <1>1, <1>14, <1>15
  <2>2. Room(prefs.views.byConfig[Direct], Gap(prefs.sample), passed, early.ever)'
    BY <1>1, <1>5, <1>15, <1>16
  <2> QED BY <1>1, <1>12, <1>15, <2>1, <2>2 DEF Budget
<1> QED BY <1>7, <1>8, <1>17 DEF UInv

\* Reading a map keeps the invariant.
LEMMA LoadReadKeeps ==
    ASSUME UInv, UsageTypeOK', LoadRead
    PROVE  UInv'
<1> DEFINE o == prefs.views
<1>0. UsageTypeOK /\ AsRead /\ Recorded /\ Budget
  BY DEF UInv
<1>1. fromDisk \in Views /\ o \in Views
  BY <1>0, Numbers
<1>2. /\ UNCHANGED <<mem, prefs, disk, rx, passed, due, early>>
      /\ \/ Reads("daily", "hourly", [fromDisk EXCEPT !.daily = o.daily])
         \/ Reads("hourly", "byConfig", [fromDisk EXCEPT !.hourly = o.hourly])
         \/ Reads("byConfig", "dailyCfg", [fromDisk EXCEPT !.byConfig = o.byConfig])
         \/ Reads("dailyCfg", "hourlyCfg", [fromDisk EXCEPT !.dailyCfg = o.dailyCfg])
         \/ Reads("hourlyCfg", "merge", [fromDisk EXCEPT !.hourlyCfg = o.hourlyCfg])
  BY <1>1, LoadReads
<1>3. ASSUME Reads("daily", "hourly", [fromDisk EXCEPT !.daily = o.daily]) PROVE UInv'
  <2>1. /\ load = "daily" /\ load' = "hourly" /\ fromDisk'.daily = o.daily
    BY <1>1, <1>3 DEF Reads, Views
  <2>2. AsRead' /\ Recorded' /\ Source' = Source
    BY <1>0, <1>2, <2>1 DEF AsRead, Recorded, Base, Source
  <2>3. Budget'
    BY <1>0, <1>2, <2>1, <2>2, SameBudget
  <2> QED BY <2>2, <2>3 DEF UInv
<1>4. ASSUME Reads("hourly", "byConfig", [fromDisk EXCEPT !.hourly = o.hourly]) PROVE UInv'
  <2>1. /\ load = "hourly" /\ load' = "byConfig" /\ fromDisk'.hourly = o.hourly
        /\ fromDisk'.daily = fromDisk.daily
    BY <1>1, <1>4 DEF Reads, Views
  <2>2. AsRead' /\ Recorded' /\ Source' = Source
    BY <1>0, <1>2, <2>1 DEF AsRead, Recorded, Base, Source
  <2>3. Budget'
    BY <1>0, <1>2, <2>1, <2>2, SameBudget
  <2> QED BY <2>2, <2>3 DEF UInv
<1>5. ASSUME Reads("byConfig", "dailyCfg", [fromDisk EXCEPT !.byConfig = o.byConfig]) PROVE UInv'
  <2>1. /\ load = "byConfig" /\ load' = "dailyCfg" /\ fromDisk'.byConfig = o.byConfig
        /\ fromDisk'.daily = fromDisk.daily /\ fromDisk'.hourly = fromDisk.hourly
    BY <1>1, <1>5 DEF Reads, Views
  <2>2. AsRead' /\ Recorded'
    BY <1>0, <1>2, <2>1 DEF AsRead, Recorded, Base
  <2>3. Source'.byConfig = Source.byConfig
    BY <2>1 DEF Source
  <2>4. Budget'
    BY <1>0, <1>2, <2>1, <2>3, SameBudget
  <2> QED BY <2>2, <2>4 DEF UInv
<1>6. ASSUME Reads("dailyCfg", "hourlyCfg", [fromDisk EXCEPT !.dailyCfg = o.dailyCfg]) PROVE UInv'
  <2>1. /\ load = "dailyCfg" /\ load' = "hourlyCfg" /\ fromDisk'.dailyCfg = o.dailyCfg
        /\ fromDisk'.daily = fromDisk.daily /\ fromDisk'.hourly = fromDisk.hourly
        /\ fromDisk'.byConfig = fromDisk.byConfig
    BY <1>1, <1>6 DEF Reads, Views
  <2>2. AsRead' /\ Recorded'
    BY <1>0, <1>2, <2>1 DEF AsRead, Recorded, Base
  <2>3. Source'.byConfig = Source.byConfig
    BY <2>1 DEF Source
  <2>4. Budget'
    BY <1>0, <1>2, <2>1, <2>3, SameBudget
  <2> QED BY <2>2, <2>4 DEF UInv
<1>7. ASSUME Reads("hourlyCfg", "merge", [fromDisk EXCEPT !.hourlyCfg = o.hourlyCfg]) PROVE UInv'
  <2>1. /\ load = "hourlyCfg" /\ load' = "merge" /\ fromDisk'.dailyCfg = fromDisk.dailyCfg
        /\ fromDisk'.daily = fromDisk.daily /\ fromDisk'.byConfig = fromDisk.byConfig
    BY <1>1, <1>7 DEF Reads, Views
  <2>2. AsRead'
    BY <2>1 DEF AsRead
  <2>3. Recorded'
    <3> DEFINE f == fromDisk'
    <3>1. ASSUME ~early.life PROVE Sum(f, mem) = Sum(o, mem)
      BY <1>0, <2>1, <3>1 DEF AsRead, Sum
    <3>2. ~early.life => due = Sum(o, mem)
      BY <1>0, <2>1 DEF Recorded, Base
    <3>3. Base' = f /\ load' # "done"
      BY <2>1 DEF Base
    <3> HIDE DEF f
    <3> QED BY <1>2, <3>1, <3>2, <3>3 DEF Recorded
  <2>4. Source'.byConfig = Source.byConfig
    BY <2>1 DEF Source
  <2>5. Budget'
    BY <1>0, <1>2, <2>1, <2>4, SameBudget
  <2> QED BY <2>2, <2>3, <2>5 DEF UInv
<1> QED BY <1>2, <1>3, <1>4, <1>5, <1>6, <1>7

\* Every step keeps the invariant.
LEMMA NextUInv ==
    ASSUME UInv, [Next]_vars
    PROVE  UInv'
<1> DEFINE s == mem.byConfig[Direct]
           b == Source.byConfig[Direct]
           g == Gap(prefs.sample)
           done == load = "done"
<1>0. UsageTypeOK /\ AsRead /\ Recorded /\ Budget
  BY DEF UInv
<1>t. UsageTypeOK'
  BY <1>0, NextType
<1>n. /\ g \in Nat /\ s \in Nat /\ b \in Nat /\ passed \in Nat /\ rx \in Nat
      /\ early.ever \in BOOLEAN /\ done \in BOOLEAN /\ early \in Flags
      /\ prefs.views.byConfig[Direct] \in Nat /\ disk.views.byConfig[Direct] \in Nat
      /\ fromDisk.byConfig[Direct] \in Nat
      /\ Gap(disk.sample) \in Nat /\ disk \in Contents /\ prefs \in Contents
      /\ mem \in Views /\ fromDisk \in Views /\ prefs.views \in Views /\ disk.views \in Views
      /\ load \in {"off", "merge", "done"} \cup Maps
  BY <1>0, Numbers
<1>b. /\ Fits(done, s, b, g, passed, early.ever)
      /\ Room(prefs.views.byConfig[Direct], g, passed, early.ever)
      /\ Room(disk.views.byConfig[Direct], Gap(disk.sample), passed, early.ever)
      /\ rx <= passed
  BY <1>0 DEF Budget
<1>1. CASE Start
  <2>1. load = "off" /\ load' = "daily"
        /\ UNCHANGED <<fromDisk, mem, prefs, disk, rx, passed, due, early>>
    BY <1>1 DEF Start
  <2>2. Source' = Source
    BY <2>1 DEF Source
  <2>3. Budget'
    BY <1>0, <2>1, <2>2, SameBudget
  <2>4. AsRead' /\ Recorded'
    BY <1>0, <2>1 DEF AsRead, Recorded, Base
  <2> QED BY <1>t, <2>3, <2>4 DEF UInv
<1>2. CASE LoadRead
  BY <1>0, <1>t, <1>n, <1>2, LoadReadKeeps DEF UInv
<1>3. CASE LoadMerge
  <2>1. mem' = Merged(fromDisk, mem) /\ load' = "done" /\ load = "merge"
        /\ UNCHANGED <<prefs, disk, rx, passed, due, early>>
    BY <1>3 DEF LoadMerge
  <2>2. Lasting(Merged(fromDisk, mem)) = Sum(fromDisk, mem)
    BY <1>n, MergedFacts
  <2>3. Recorded'
    BY <1>0, <2>1, <2>2 DEF Recorded, Base
  <2>4. AsRead'
    BY <2>1 DEF AsRead
  <2>5. mem'.byConfig[Direct] = b + s
    <3>1. Merged(fromDisk, mem).byConfig = Sum(fromDisk, mem).byConfig
      BY <2>2 DEF Lasting
    <3>2. Sum(fromDisk, mem).byConfig[Direct] = fromDisk.byConfig[Direct] + s
      BY <1>n, SumFacts
    <3>3. Source = fromDisk
      BY <2>1 DEF Source
    <3> QED BY <2>1, <3>1, <3>2, <3>3
  <2>6. Source'.byConfig[Direct] \in Nat
    <3>1. Source' = Empty
      BY <1>3, <2>1 DEF LoadMerge, Source
    <3> QED BY <3>1 DEF Empty, Key
  <2>7. Fits(TRUE, b + s, Source'.byConfig[Direct], g, passed, early.ever)
    <3>1. Fits(FALSE, s, b, g, passed, early.ever)
      BY <1>b, <2>1
    <3> DEFINE c == Source'.byConfig[Direct]
               e == early.ever
    <3>2. c \in Nat /\ e \in BOOLEAN /\ Fits(FALSE, s, b, g, passed, e)
      BY <1>n, <2>6, <3>1
    <3> HIDE DEF s, b, g, c, e
    <3>3. Fits(TRUE, b + s, c, g, passed, e)
      BY <1>n, <3>2, FitsMerged
    <3> QED BY <3>3 DEF c, e
  <2>8. Gap(prefs.sample)' = g /\ Gap(disk.sample)' = Gap(disk.sample)
    BY <2>1 DEF Gap
  <2>9. Fits(load = "done", mem.byConfig[Direct], Source.byConfig[Direct],
             Gap(prefs.sample), passed, early.ever)'
    <3> HIDE DEF s, b, g
    <3> QED BY <2>1, <2>5, <2>7, <2>8
  <2>10. Budget'
    BY <1>b, <2>1, <2>8, <2>9 DEF Budget
  <2> QED BY <1>t, <2>3, <2>4, <2>10 DEF UInv
<1>4. CASE Flush
  BY <1>0, <1>t, <1>4, FlushKeeps DEF UInv
<1>5. CASE Written
  <2>1. disk' = prefs /\ UNCHANGED <<load, fromDisk, mem, prefs, rx, passed, due, early>>
    BY <1>5 DEF Written
  <2>2. AsRead' /\ Recorded'
    BY <1>0, <2>1 DEF AsRead, Recorded, Base
  <2>3. Source' = Source
    BY <2>1 DEF Source
  <2>4. Gap(prefs.sample)' = g /\ Gap(disk.sample)' = g
    BY <2>1 DEF Gap
  <2>5. Budget'
    BY <1>b, <2>1, <2>3, <2>4 DEF Budget
  <2> QED BY <1>t, <2>2, <2>5 DEF UInv
<1>6. CASE Transfer
  <2>1. /\ rx' = rx + 1 /\ passed' = passed + 1
        /\ UNCHANGED <<load, fromDisk, mem, prefs, disk, due, early>>
    BY <1>6 DEF Transfer
  <2>2. AsRead' /\ Recorded'
    BY <1>0, <2>1 DEF AsRead, Recorded, Base
  <2>3. Source' = Source
    BY <2>1 DEF Source
  <2> DEFINE h == Gap(prefs.sample)'
             k == Gap(disk.sample)'
  <2>4. h \in Nat /\ k \in Nat /\ h <= g + 1 /\ k <= Gap(disk.sample) + 1
    <3>1. prefs.sample.rx \in Nat /\ disk.sample.rx \in Nat
      BY <1>n DEF Contents
    <3> QED BY <1>n, <2>1, <3>1 DEF Gap
  <2> HIDE DEF h, k
  <2>5. Fits(done, s, b, h, passed + 1, early.ever)
    <3> DEFINE e == early.ever
    <3>1. e \in BOOLEAN /\ Fits(done, s, b, g, passed, e)
      BY <1>n, <1>b
    <3> HIDE DEF s, b, g, done, e
    <3>2. Fits(done, s, b, h, passed + 1, e)
      BY <1>n, <2>4, <3>1, FitsPassed
    <3> QED BY <3>2 DEF e
  <2>6. Room(prefs.views.byConfig[Direct], h, passed + 1, early.ever)
    <3> HIDE DEF g
    <3> QED BY <1>n, <1>b, <2>4, RoomFacts
  <2>7. Room(disk.views.byConfig[Direct], k, passed + 1, early.ever)
    BY <1>n, <1>b, <2>4, RoomFacts
  <2>8. rx' <= passed'
    BY <1>n, <1>b, <2>1
  <2>9. Budget'
    BY <2>1, <2>3, <2>5, <2>6, <2>7, <2>8 DEF Budget, h, k
  <2> QED BY <1>t, <2>2, <2>9 DEF UInv
<1>7. CASE Clock
  <2>1. UNCHANGED <<load, fromDisk, mem, prefs, disk, due, rx, passed, early>>
    BY <1>7 DEF Clock
  <2>2. AsRead' /\ Recorded' /\ Source' = Source
    BY <1>0, <2>1 DEF AsRead, Recorded, Base, Source
  <2>3. Budget'
    BY <1>0, <2>1, <2>2, SameBudget
  <2> QED BY <1>t, <2>2, <2>3 DEF UInv
<1>8. ASSUME NEW key \in Name \cup {NoName}, AddCounters(key) PROVE UInv'
  <2>1. /\ load # "off" /\ Add(1, key, prefs, {disk})
        /\ UNCHANGED <<load, fromDisk, hour, rx, deaths, passed>>
    BY <1>8 DEF AddCounters
  <2>2. key \in Key \cup {NoName} /\ key # Direct
    BY UsageAssumption DEF Key
  <2> DEFINE written == {disk}
             n == 1
  <2>3. /\ written \subseteq Contents
        /\ \A c \in written : /\ c.views.byConfig[Direct] \in Nat /\ Gap(c.sample) \in Nat
                              /\ Room(c.views.byConfig[Direct], Gap(c.sample), passed, early.ever)
    BY <1>n, <1>b
  <2>4. Fits(load = "done", mem.byConfig[Direct] + (IF key = Direct THEN n ELSE 0),
             Source.byConfig[Direct], Gap(prefs.sample), passed, early.ever)
    <3>1. s + (IF key = Direct THEN n ELSE 0) = s
      BY <1>n, <2>2
    <3> QED BY <1>b, <3>1
  <2>5. n \in Nat /\ Add(n, key, prefs, written)
    BY <2>1
  <2> HIDE DEF written, n
  <2> QED BY <1>t, <1>n, <1>b, <2>1, <2>2, <2>3, <2>4, <2>5, AddKeeps
<1>9. ASSUME NEW o \in BOOLEAN, SyncDirect(o) PROVE UInv'
  BY <1>t, <1>9, SyncDirectKeeps
<1>10. ASSUME NEW o \in BOOLEAN, Die(o) PROVE UInv'
  <2>1. /\ prefs' = disk /\ disk' = disk /\ due' = Lasting(disk.views) /\ load' = "off"
        /\ mem' = Empty /\ (rx' = 0 \/ rx' = rx) /\ passed' = passed
        /\ early' = [early EXCEPT !.life = FALSE]
    BY <1>10 DEF Die
  <2>2. early'.ever = early.ever
    BY <1>n, <2>1 DEF Flags
  <2>3. Recorded'
    <3>1. Sum(disk.views, Empty) = Lasting(disk.views)
      BY <1>n, SumEmpty
    <3> QED BY <2>1, <3>1 DEF Recorded, Base
  <2>4. AsRead'
    BY <2>1 DEF AsRead
  <2> DEFINE k == Gap(disk.sample)'
             d == disk.views.byConfig[Direct]
  <2>5. k \in Nat /\ k <= Gap(disk.sample) /\ k <= passed /\ rx' <= passed'
    <3>1. disk.sample.rx \in Nat
      BY <1>n DEF Contents
    <3> QED BY <1>n, <1>b, <2>1, <3>1 DEF Gap
  <2>6. Gap(prefs.sample)' = k
    BY <2>1 DEF Gap
  <2> HIDE DEF k
  <2>7. Room(d, k, passed, early.ever)
    BY <1>n, <1>b, <2>5, RoomFacts
  <2>8. Fits(FALSE, 0, d, k, passed, early.ever)
    <3>1. d \in Nat
      BY <1>n
    <3> HIDE DEF d
    <3> QED BY <1>n, <2>5, <2>7, <3>1, FitsDisk
  <2>9. Source' = disk.views /\ mem'.byConfig[Direct] = 0
    BY <2>1 DEF Source, Empty, Key
  <2>10. Budget'
    <3>1. Fits(load = "done", mem.byConfig[Direct], Source.byConfig[Direct],
               Gap(prefs.sample), passed, early.ever)'
      BY <2>1, <2>2, <2>6, <2>8, <2>9
    <3> QED BY <2>1, <2>2, <2>5, <2>6, <2>7, <3>1 DEF Budget, k
  <2> QED BY <1>t, <2>3, <2>4, <2>10 DEF UInv
<1>11. CASE UNCHANGED vars
  <2>1. UNCHANGED <<load, fromDisk, mem, prefs, disk, due, rx, passed, early>>
    BY <1>11 DEF vars
  <2>2. AsRead' /\ Recorded' /\ Source' = Source
    BY <1>0, <2>1 DEF AsRead, Recorded, Base, Source
  <2>3. Budget'
    BY <1>0, <2>1, <2>2, SameBudget
  <2> QED BY <1>t, <2>2, <2>3 DEF UInv
<1> QED BY <1>1, <1>2, <1>3, <1>4, <1>5, <1>6, <1>7, <1>8, <1>9, <1>10, <1>11 DEF Next

\* The history in memory is, once the stored maps are merged, what was stored
\* before and what was counted since, in every process that replaces no map before
\* the thread has read it.
THEOREM NothingForgotten == Spec => []KeptUnlessEarly
<1>1. UInv => KeptUnlessEarly
  BY DEF UInv, Recorded, KeptUnlessEarly, HistoryKept
<1>2. UInv /\ [Next]_vars => UInv'
  BY NextUInv
<1> QED BY <1>1, <1>2, InitUInv, PTL DEF Spec

\* syncDirect() counts no byte twice, wherever the process or the device dies; and
\* none a third time, whatever is stored before the stored maps are read.
THEOREM NoByteTwice == Spec => []DirectOnce
<1>1. UInv => DirectOnce
  <2> SUFFICES ASSUME UInv PROVE DirectOnce
    OBVIOUS
  <2> DEFINE s == mem.byConfig[Direct]
             b == Source.byConfig[Direct]
             g == Gap(prefs.sample)
             done == load = "done"
  <2>1. /\ s \in Nat /\ b \in Nat /\ g \in Nat /\ passed \in Nat /\ early.ever \in BOOLEAN
        /\ done \in BOOLEAN /\ Fits(done, s, b, g, passed, early.ever)
    BY Numbers DEF UInv, Budget
  <2>2. Room(s, g, passed, early.ever)
    <3> DEFINE e == early.ever
    <3>1. e \in BOOLEAN /\ Fits(done, s, b, g, passed, e)
      BY <2>1
    <3> HIDE DEF s, b, g, done, e
    <3>2. Room(s, g, passed, e)
      BY <2>1, <3>1, FitsStored
    <3> QED BY <3>2 DEF e
  <2>3. s <= IF early.ever THEN 2 * passed ELSE passed
    <3> HIDE DEF s, g
    <3> QED BY <2>1, <2>2 DEF Room, Times
  <2> QED BY <2>3 DEF DirectOnce
<1>2. UInv /\ [Next]_vars => UInv'
  BY NextUInv
<1> QED BY <1>1, <1>2, InitUInv, PTL DEF Spec
-----------------------------------------------------------------------------
(* Sums over finite sets *)

\* The element that MapThenSumSet takes first.
Pick(s) == CHOOSE x \in s : TRUE

\* g gives for every part of S the sum of f over it.
Sums(g, f, S) == g = [s \in SUBSET S |-> IF s = {} THEN 0 ELSE f[Pick(s)] + g[s \ {Pick(s)}]]

\* A set is a part of itself without the element taken, and that element.
LEMMA Picked ==
    ASSUME NEW S, IsFiniteSet(S), NEW s \in SUBSET S, s # {}
    PROVE  /\ Pick(s) \in s /\ Pick(s) \in S /\ s \ {Pick(s)} \in SUBSET S
           /\ Cardinality(s) \in Nat /\ Cardinality(s \ {Pick(s)}) = Cardinality(s) - 1
           /\ Cardinality(s) # 0
<1>1. Pick(s) \in s
  BY DEF Pick
<1>2. IsFiniteSet(s)
  BY FS_Subset
<1>3. Cardinality(s) \in Nat /\ Cardinality(s) # 0
  BY <1>2, FS_CardinalityType, FS_EmptySet
<1>4. Cardinality(s \ {Pick(s)}) = Cardinality(s) - 1
  BY <1>1, <1>2, FS_RemoveElement
<1> QED BY <1>1, <1>3, <1>4

\* A set of numbers has a least one.
LEMMA LeastNumber ==
    ASSUME NEW T \in SUBSET Nat, T # {}
    PROVE  \E n \in T : \A m \in T : n <= m
<1>1. PICK n \in T : \A m \in T : ~(<<m, n>> \in OpToRel(<, Nat))
  BY NatLessThanWellFounded, WFMin
<1>2. \A m \in T : ~(m < n)
  BY <1>1 DEF OpToRel
<1> QED BY <1>2

\* What holds of the empty set, and of a set when it holds of the set without
\* the element taken first, holds of every part of a finite set.
LEMMA PartInduction ==
    ASSUME NEW S, IsFiniteSet(S), NEW P, {} \in P,
           \A s \in SUBSET S : s # {} /\ s \ {Pick(s)} \in P => s \in P
    PROVE  \A s \in SUBSET S : s \in P
<1> SUFFICES ASSUME \E s \in SUBSET S : s \notin P PROVE FALSE
  OBVIOUS
<1> DEFINE T == {Cardinality(s) : s \in {t \in SUBSET S : t \notin P}}
<1>1. T \in SUBSET Nat /\ T # {}
  BY FS_Subset, FS_CardinalityType
<1>2. PICK n \in T : \A m \in T : n <= m
  <2> HIDE DEF T
  <2> QED BY <1>1, LeastNumber
<1>3. PICK s \in SUBSET S : s \notin P /\ n = Cardinality(s)
  BY <1>2
<1>4. s # {}
  BY <1>3
<1>5. s \ {Pick(s)} \in P
  <2>1. /\ s \ {Pick(s)} \in SUBSET S /\ Cardinality(s \ {Pick(s)}) = Cardinality(s) - 1
        /\ Cardinality(s) \in Nat
    BY <1>4, Picked
  <2>2. Cardinality(s \ {Pick(s)}) \notin T
    BY <1>2, <1>3, <2>1
  <2> QED BY <2>1, <2>2
<1> QED BY <1>3, <1>4, <1>5

\* There are sums over every part of a finite set: the equation defines them for
\* the parts of n + 1 elements from those for n.
LEMMA SumsExist ==
    ASSUME NEW S, IsFiniteSet(S), NEW f
    PROVE  \E g : Sums(g, f, S)
<1> DEFINE Sub(n) == {s \in SUBSET S : Cardinality(s) <= n}
           Upto(n, g) == g = [s \in Sub(n) |-> IF s = {} THEN 0 ELSE f[Pick(s)] + g[s \ {Pick(s)}]]
           T == {n \in Nat : ~\E g : Upto(n, g)}
<1>1. T = {}
  <2> SUFFICES ASSUME T # {} PROVE FALSE
    OBVIOUS
  <2>1. PICK n \in T : \A m \in T : n <= m
    <3>1. T \in SUBSET Nat
      OBVIOUS
    <3> HIDE DEF T
    <3> QED BY <3>1, LeastNumber
  <2>2. n \in Nat /\ ~\E g : Upto(n, g)
    OBVIOUS
  <2>3. CASE n = 0
    <3>1. \A s \in Sub(0) : s = {}
      BY FS_Subset, FS_CardinalityType, FS_EmptySet
    <3>2. Upto(0, [s \in Sub(0) |-> 0])
      BY <3>1
    <3> QED BY <2>2, <2>3, <3>2
  <2>4. CASE n # 0
    <3>1. n - 1 \in Nat /\ n - 1 \notin T
      <4> HIDE DEF T
      <4> QED BY <2>1, <2>2, <2>4
    <3>2. PICK g : Upto(n - 1, g)
      BY <3>1
    <3> DEFINE h == [s \in Sub(n) |-> IF s = {} THEN 0 ELSE f[Pick(s)] + g[s \ {Pick(s)}]]
    <3>3. \A s \in Sub(n - 1) : s \in Sub(n) /\ h[s] = g[s]
      <4>1. \A s \in SUBSET S : Cardinality(s) \in Nat
        BY FS_Subset, FS_CardinalityType
      <4>2. \A s \in Sub(n - 1) : s \in Sub(n)
        BY <2>2, <4>1
      <4>3. \A s \in Sub(n - 1) : g[s] = IF s = {} THEN 0 ELSE f[Pick(s)] + g[s \ {Pick(s)}]
        BY <3>2
      <4> QED BY <4>2, <4>3
    <3>4. \A s \in Sub(n) : s # {} => s \ {Pick(s)} \in Sub(n - 1)
      BY <2>2, Picked
    <3>5. \A s \in Sub(n) : s # {} => h[s \ {Pick(s)}] = g[s \ {Pick(s)}]
      BY <3>3, <3>4
    <3>6. Upto(n, h)
      BY <3>5
    <3> QED BY <2>2, <3>6
  <2> QED BY <2>3, <2>4
<1>2. Cardinality(S) \in Nat
  BY FS_CardinalityType
<1>3. PICK g : Upto(Cardinality(S), g)
  BY <1>1, <1>2
<1>4. Sub(Cardinality(S)) = SUBSET S
  BY FS_Subset
<1>5. Sums(g, f, S)
  BY <1>3, <1>4 DEF Sums
<1> QED BY <1>5

\* The sums are numbers, and they are what one expects.
LEMMA SumsStep ==
    ASSUME NEW S, IsFiniteSet(S), NEW f \in [S -> Nat], NEW g, Sums(g, f, S)
    PROVE  /\ g[{}] = 0
           /\ \A s \in SUBSET S : s # {} => g[s] = f[Pick(s)] + g[s \ {Pick(s)}]
           /\ \A s \in SUBSET S : g[s] \in Nat
<1>1. g[{}] = 0 /\ \A s \in SUBSET S : s # {} => g[s] = f[Pick(s)] + g[s \ {Pick(s)}]
  BY DEF Sums
<1> DEFINE P == {s \in SUBSET S : g[s] \in Nat}
<1>2. {} \in P
  BY <1>1
<1>3. ASSUME NEW s \in SUBSET S, s # {}, s \ {Pick(s)} \in P PROVE s \in P
  <2>1. f[Pick(s)] \in Nat
    BY <1>3, Picked
  <2>2. g[s \ {Pick(s)}] \in Nat
    BY <1>3
  <2>3. g[s] = f[Pick(s)] + g[s \ {Pick(s)}]
    BY <1>1, <1>3
  <2>4. g[s] \in Nat
    BY <2>1, <2>2, <2>3
  <2> QED BY <2>4
<1>4. \A s \in SUBSET S : s \in P
  <2> HIDE DEF P
  <2> QED BY <1>2, <1>3, PartInduction
<1> QED BY <1>1, <1>4

\* Sums add up, ...
LEMMA SumsAdd ==
    ASSUME NEW S, IsFiniteSet(S), NEW f \in [S -> Nat], NEW e \in [S -> Nat], NEW d \in [S -> Nat],
           \A x \in S : d[x] = e[x] + f[x],
           NEW F, NEW E, NEW D, Sums(F, f, S), Sums(E, e, S), Sums(D, d, S)
    PROVE  D[S] = E[S] + F[S]
<1> DEFINE P == {s \in SUBSET S : D[s] = E[s] + F[s]}
<1>1. /\ \A s \in SUBSET S : F[s] \in Nat /\ E[s] \in Nat /\ D[s] \in Nat
      /\ F[{}] = 0 /\ E[{}] = 0 /\ D[{}] = 0
  BY SumsStep
<1>2. {} \in P
  BY <1>1
<1>3. ASSUME NEW s \in SUBSET S, s # {}, s \ {Pick(s)} \in P PROVE s \in P
  <2>1. Pick(s) \in S /\ s \ {Pick(s)} \in SUBSET S
    BY <1>3, Picked
  <2>2. /\ F[s] = f[Pick(s)] + F[s \ {Pick(s)}] /\ E[s] = e[Pick(s)] + E[s \ {Pick(s)}]
        /\ D[s] = d[Pick(s)] + D[s \ {Pick(s)}]
    <3>1. \A t \in SUBSET S : t # {} => F[t] = f[Pick(t)] + F[t \ {Pick(t)}]
      BY SumsStep
    <3>2. \A t \in SUBSET S : t # {} => E[t] = e[Pick(t)] + E[t \ {Pick(t)}]
      BY SumsStep
    <3>3. \A t \in SUBSET S : t # {} => D[t] = d[Pick(t)] + D[t \ {Pick(t)}]
      BY SumsStep
    <3> QED BY <1>3, <3>1, <3>2, <3>3
  <2>3. D[s \ {Pick(s)}] = E[s \ {Pick(s)}] + F[s \ {Pick(s)}]
    BY <1>3
  <2>4. d[Pick(s)] = e[Pick(s)] + f[Pick(s)] /\ e[Pick(s)] \in Nat /\ f[Pick(s)] \in Nat
    BY <2>1
  <2>5. D[s] = E[s] + F[s]
    BY <1>1, <2>1, <2>2, <2>3, <2>4
  <2> QED BY <2>5
<1>4. \A s \in SUBSET S : s \in P
  <2> HIDE DEF P
  <2> QED BY <1>2, <1>3, PartInduction
<1> QED BY <1>4

\* ... and are smaller for smaller numbers.
LEMMA SumsMonotone ==
    ASSUME NEW S, IsFiniteSet(S), NEW f \in [S -> Nat], NEW e \in [S -> Nat],
           \A x \in S : e[x] <= f[x],
           NEW F, NEW E, Sums(F, f, S), Sums(E, e, S)
    PROVE  E[S] <= F[S]
<1> DEFINE P == {s \in SUBSET S : E[s] <= F[s]}
<1>1. /\ \A s \in SUBSET S : F[s] \in Nat /\ E[s] \in Nat
      /\ F[{}] = 0 /\ E[{}] = 0
  BY SumsStep
<1>2. {} \in P
  BY <1>1
<1>3. ASSUME NEW s \in SUBSET S, s # {}, s \ {Pick(s)} \in P PROVE s \in P
  <2>1. Pick(s) \in S /\ s \ {Pick(s)} \in SUBSET S
    BY <1>3, Picked
  <2>2. /\ F[s] = f[Pick(s)] + F[s \ {Pick(s)}] /\ E[s] = e[Pick(s)] + E[s \ {Pick(s)}]
    BY <1>3, SumsStep
  <2>3. E[s \ {Pick(s)}] <= F[s \ {Pick(s)}]
    BY <1>3
  <2>4. e[Pick(s)] <= f[Pick(s)] /\ e[Pick(s)] \in Nat /\ f[Pick(s)] \in Nat
    BY <2>1
  <2>5. E[s] <= F[s]
    BY <1>1, <2>1, <2>2, <2>3, <2>4
  <2> QED BY <2>5
<1>4. \A s \in SUBSET S : s \in P
  <2> HIDE DEF P
  <2> QED BY <1>2, <1>3, PartInduction
<1> QED BY <1>4

\* There is one sum.
LEMMA SumsUnique ==
    ASSUME NEW S, IsFiniteSet(S), NEW f \in [S -> Nat], NEW F, NEW E, Sums(F, f, S), Sums(E, f, S)
    PROVE  E[S] = F[S]
<1>1. E[S] \in Nat /\ F[S] \in Nat
  BY SumsStep
<1>2. \A x \in S : f[x] <= f[x]
  OBVIOUS
<1>3. E[S] <= F[S]
  BY <1>2, SumsMonotone
<1>4. F[S] <= E[S]
  BY <1>2, SumsMonotone
<1> QED BY <1>1, <1>3, <1>4

\* The sum of one number and of nothing else.
LEMMA SumsUnit ==
    ASSUME NEW S, IsFiniteSet(S), NEW f \in [S -> Nat], NEW a \in S,
           \A x \in S \ {a} : f[x] = 0, NEW g, Sums(g, f, S)
    PROVE  g[S] = f[a]
<1> DEFINE P == {s \in SUBSET S : g[s] = IF a \in s THEN f[a] ELSE 0}
<1>1. {} \in P
  BY SumsStep
<1>2. ASSUME NEW s \in SUBSET S, s # {}, s \ {Pick(s)} \in P PROVE s \in P
  <2>1. Pick(s) \in s /\ Pick(s) \in S
    BY <1>2, Picked
  <2>2. g[s] = f[Pick(s)] + g[s \ {Pick(s)}]
    BY <1>2, SumsStep
  <2>3. CASE Pick(s) = a
    BY <1>2, <2>1, <2>2, <2>3
  <2>4. CASE Pick(s) # a
    BY <1>2, <2>1, <2>2, <2>4
  <2> QED BY <2>3, <2>4
<1>3. \A s \in SUBSET S : s \in P
  <2> HIDE DEF P
  <2> QED BY <1>1, <1>2, PartInduction
<1> QED BY <1>3

\* The sum of a function.
Total(f, S) == MapThenSumSet(LAMBDA x : f[x], S)

\* It is the sum over all parts, at the whole.
LEMMA TotalSums ==
    ASSUME NEW S, IsFiniteSet(S), NEW f
    PROVE  \E g : Sums(g, f, S) /\ Total(f, S) = g[S]
<1>1. \E g : Sums(g, f, S)
  BY SumsExist
<1> QED BY <1>1, Zenon DEF Total, Sums, Pick, MapThenSumSet, MapThenFoldSet

\* Totals are numbers, grow with what is summed, and add up.
LEMMA TotalFacts ==
    ASSUME NEW S, IsFiniteSet(S), NEW f \in [S -> Nat]
    PROVE  /\ Total(f, S) \in Nat
           /\ \A e \in [S -> Nat] : (\A x \in S : e[x] <= f[x]) => Total(e, S) <= Total(f, S)
           /\ \A e, d \in [S -> Nat] : (\A x \in S : d[x] = e[x] + f[x])
                                       => Total(d, S) = Total(e, S) + Total(f, S)
           /\ \A a \in S : (\A x \in S \ {a} : f[x] = 0) => Total(f, S) = f[a]
           /\ (\A x \in S : f[x] = 0) => Total(f, S) = 0
<1>1. PICK F : Sums(F, f, S) /\ Total(f, S) = F[S]
  BY TotalSums
<1>2. Total(f, S) \in Nat
  BY <1>1, SumsStep
<1>3. ASSUME NEW e \in [S -> Nat], \A x \in S : e[x] <= f[x] PROVE Total(e, S) <= Total(f, S)
  <2>1. PICK E : Sums(E, e, S) /\ Total(e, S) = E[S]
    BY TotalSums
  <2> QED BY <1>1, <1>3, <2>1, SumsMonotone
<1>4. ASSUME NEW e \in [S -> Nat], NEW d \in [S -> Nat], \A x \in S : d[x] = e[x] + f[x]
      PROVE  Total(d, S) = Total(e, S) + Total(f, S)
  <2>1. PICK E : Sums(E, e, S) /\ Total(e, S) = E[S]
    BY TotalSums
  <2>2. PICK D : Sums(D, d, S) /\ Total(d, S) = D[S]
    BY TotalSums
  <2> QED BY <1>1, <1>4, <2>1, <2>2, SumsAdd
<1>5. ASSUME NEW a \in S, \A x \in S \ {a} : f[x] = 0 PROVE Total(f, S) = f[a]
  BY <1>1, <1>5, SumsUnit
<1>6. ASSUME \A x \in S : f[x] = 0 PROVE Total(f, S) = 0
  <2>1. CASE S = {}
    BY <1>1, <2>1, SumsStep
  <2>2. CASE S # {}
    BY <1>5, <1>6, <2>2
  <2> QED BY <2>1, <2>2
<1> QED BY <1>2, <1>3, <1>4, <1>5, <1>6
-----------------------------------------------------------------------------
(* Rows and columns *)

\* There are finitely many keys and days.
LEMMA FiniteKeys == IsFiniteSet(Key) /\ IsFiniteSet(Day) /\ Day \subseteq Nat /\ Hour \subseteq Nat
<1>1. IsFiniteSet(Key)
  BY UsageAssumption, FS_AddElement DEF Key
<1>2. 0 \in Hour /\ MaxHour \in Hour
  BY UsageAssumption DEF Hour
<1>3. DayOf(MaxHour) \in Nat
  BY <1>2, DayOfHour DEF Day
<1>4. IsFiniteSet(Day)
  BY <1>3, FS_Interval DEF Day
<1> QED BY <1>1, <1>3, <1>4 DEF Day, Hour

\* The maps with two keys, and a row and a column of one.
Table(T) == [T \X Key -> Nat]
Row(m, a) == [x \in Key |-> m[<<a, x>>]]
Column(m, k) == [x \in Day |-> m[<<x, k>>]]

\* The shares in a day or an hour are the sum of a row of the map, ...
LEMMA SharesTotal ==
    ASSUME NEW T, NEW m \in Table(T), NEW a \in T
    PROVE  /\ IsFiniteSet(Key) /\ Row(m, a) \in [Key -> Nat]
           /\ Shares(m, a) = Total(Row(m, a), Key)
           /\ \A k \in Key : Row(m, a)[k] = m[<<a, k>>] /\ m[<<a, k>>] \in Nat
<1> DEFINE row == Row(m, a)
           Is(h) == h = [s \in SUBSET Key |-> IF s = {} THEN 0 ELSE m[<<a, Pick(s)>>] + h[s \ {Pick(s)}]]
<1>0. IsFiniteSet(Key)
  BY FiniteKeys
<1>1. row \in [Key -> Nat] /\ \A k \in Key : row[k] = m[<<a, k>>] /\ m[<<a, k>>] \in Nat
  BY DEF Row, Table
<1> HIDE DEF row
<1>2. \A s \in SUBSET Key : s # {} => row[Pick(s)] = m[<<a, Pick(s)>>]
  BY <1>0, <1>1, Picked
<1>3. \A h : Is(h) <=> Sums(h, row, Key)
  BY <1>2 DEF Sums
<1>4. \E h : Is(h)
  <2> HIDE DEF Is
  <2> QED BY <1>0, <1>3, SumsExist
<1>5. PICK h : Is(h) /\ Shares(m, a) = h[Key]
  BY <1>4, Zenon DEF Pick, Shares, MapThenSumSet, MapThenFoldSet
<1>6. Sums(h, row, Key)
  BY <1>3, <1>5
<1>7. PICK t : Sums(t, row, Key) /\ Total(row, Key) = t[Key]
  BY <1>0, TotalSums
<1>8. h[Key] = t[Key]
  BY <1>0, <1>1, <1>6, <1>7, SumsUnique
<1> QED BY <1>0, <1>1, <1>5, <1>7, <1>8 DEF row

\* ... and those of a config in the days the sum of a column.
LEMMA OfConfigTotal ==
    ASSUME NEW m \in Table(Day), NEW k \in Key
    PROVE  /\ IsFiniteSet(Day) /\ Column(m, k) \in [Day -> Nat]
           /\ OfConfig(m, k) = Total(Column(m, k), Day)
           /\ \A d \in Day : Column(m, k)[d] = m[<<d, k>>] /\ m[<<d, k>>] \in Nat
<1> DEFINE column == Column(m, k)
           Is(h) == h = [s \in SUBSET Day |-> IF s = {} THEN 0 ELSE m[<<Pick(s), k>>] + h[s \ {Pick(s)}]]
<1>0. IsFiniteSet(Day)
  BY FiniteKeys
<1>1. column \in [Day -> Nat] /\ \A d \in Day : column[d] = m[<<d, k>>] /\ m[<<d, k>>] \in Nat
  BY DEF Column, Table
<1> HIDE DEF column
<1>2. \A s \in SUBSET Day : s # {} => column[Pick(s)] = m[<<Pick(s), k>>]
  BY <1>0, <1>1, Picked
<1>3. \A h : Is(h) <=> Sums(h, column, Day)
  BY <1>2 DEF Sums
<1>4. \E h : Is(h)
  <2> HIDE DEF Is
  <2> QED BY <1>0, <1>3, SumsExist
<1>5. PICK h : Is(h) /\ OfConfig(m, k) = h[Day]
  BY <1>4, Zenon DEF Pick, OfConfig, MapThenSumSet, MapThenFoldSet
<1>6. Sums(h, column, Day)
  BY <1>3, <1>5
<1>7. PICK t : Sums(t, column, Day) /\ Total(column, Day) = t[Day]
  BY <1>0, TotalSums
<1>8. h[Day] = t[Day]
  BY <1>0, <1>1, <1>6, <1>7, SumsUnique
<1> QED BY <1>0, <1>1, <1>5, <1>7, <1>8 DEF column

\* Shares are numbers, and smaller for smaller maps.
LEMMA SharesFacts ==
    ASSUME NEW T, NEW m \in Table(T), NEW a \in T
    PROVE  /\ Shares(m, a) \in Nat
           /\ \A l \in Table(T) :
                 (\A k \in Key : l[<<a, k>>] <= m[<<a, k>>]) => Shares(l, a) <= Shares(m, a)
           /\ (\A k \in Key : m[<<a, k>>] = 0) => Shares(m, a) = 0
<1>1. /\ IsFiniteSet(Key) /\ Row(m, a) \in [Key -> Nat] /\ Shares(m, a) = Total(Row(m, a), Key)
      /\ \A k \in Key : Row(m, a)[k] = m[<<a, k>>]
  BY SharesTotal
<1>2. Shares(m, a) \in Nat
  BY <1>1, TotalFacts
<1>3. ASSUME NEW l \in Table(T), \A k \in Key : l[<<a, k>>] <= m[<<a, k>>]
      PROVE  Shares(l, a) <= Shares(m, a)
  <2>1. /\ Row(l, a) \in [Key -> Nat] /\ Shares(l, a) = Total(Row(l, a), Key)
        /\ \A k \in Key : Row(l, a)[k] = l[<<a, k>>]
    BY SharesTotal
  <2>2. \A k \in Key : Row(l, a)[k] <= Row(m, a)[k]
    BY <1>1, <1>3, <2>1
  <2> QED BY <1>1, <2>1, <2>2, TotalFacts
<1>4. ASSUME \A k \in Key : m[<<a, k>>] = 0 PROVE Shares(m, a) = 0
  BY <1>1, <1>4, TotalFacts
<1> QED BY <1>2, <1>3, <1>4

\* The shares of two maps add up.
LEMMA SharesAdd ==
    ASSUME NEW T, NEW l \in Table(T), NEW m \in Table(T),
           NEW w \in Table(T), NEW a \in T,
           \A k \in Key : w[<<a, k>>] = l[<<a, k>>] + m[<<a, k>>]
    PROVE  Shares(w, a) = Shares(l, a) + Shares(m, a)
<1>1. /\ IsFiniteSet(Key) /\ Row(m, a) \in [Key -> Nat] /\ Shares(m, a) = Total(Row(m, a), Key)
      /\ \A k \in Key : Row(m, a)[k] = m[<<a, k>>]
  BY SharesTotal
<1>2. /\ Row(l, a) \in [Key -> Nat] /\ Shares(l, a) = Total(Row(l, a), Key)
      /\ \A k \in Key : Row(l, a)[k] = l[<<a, k>>]
  BY SharesTotal
<1>3. /\ Row(w, a) \in [Key -> Nat] /\ Shares(w, a) = Total(Row(w, a), Key)
      /\ \A k \in Key : Row(w, a)[k] = w[<<a, k>>]
  BY SharesTotal
<1>4. \A k \in Key : Row(w, a)[k] = Row(l, a)[k] + Row(m, a)[k]
  BY <1>1, <1>2, <1>3
<1> QED BY <1>1, <1>2, <1>3, <1>4, TotalFacts

\* Counting n for a key adds n to the shares of that day or hour only.
LEMMA SharesBump ==
    ASSUME NEW T, NEW m \in Table(T), NEW a \in T, NEW b \in T, NEW j \in Key, NEW n \in Nat
    PROVE  Shares(Bump(m, <<b, j>>, n), a) = Shares(m, a) + (IF a = b THEN n ELSE 0)
<1>0. <<b, j>> \in T \X Key
  OBVIOUS
<1> DEFINE w == Bump(m, <<b, j>>, n)
           u == [x \in T \X Key |-> IF x = <<b, j>> THEN n ELSE 0]
<1>1. /\ w \in Table(T) /\ w[<<b, j>>] = m[<<b, j>>] + n
      /\ \A y \in T \X Key : y # <<b, j>> => w[y] = m[y]
  BY <1>0 DEF Bump, Table
<1>2. u \in Table(T)
  BY DEF Table
<1>3. \A k \in Key : u[<<a, k>>] = IF a = b /\ k = j THEN n ELSE 0
  OBVIOUS
<1>4. \A k \in Key : m[<<a, k>>] \in Nat
  BY DEF Table
<1> HIDE DEF w, u
<1>5. /\ IsFiniteSet(Key) /\ Row(u, a) \in [Key -> Nat] /\ Shares(u, a) = Total(Row(u, a), Key)
      /\ \A k \in Key : Row(u, a)[k] = u[<<a, k>>]
  BY <1>2, SharesTotal
<1>6. \A k \in Key : w[<<a, k>>] = m[<<a, k>>] + u[<<a, k>>]
  <2>1. ASSUME NEW k \in Key, a = b, k = j PROVE w[<<a, k>>] = m[<<a, k>>] + u[<<a, k>>]
    BY <1>1, <1>3, <2>1
  <2>2. ASSUME NEW k \in Key, ~(a = b /\ k = j) PROVE w[<<a, k>>] = m[<<a, k>>] + u[<<a, k>>]
    <3>1. <<a, k>> # <<b, j>> /\ <<a, k>> \in T \X Key
      BY <2>2
    <3>2. w[<<a, k>>] = m[<<a, k>>] /\ u[<<a, k>>] = 0
      BY <1>1, <1>3, <2>2, <3>1
    <3> QED BY <1>4, <3>2
  <2> QED BY <2>1, <2>2
<1>7. Shares(w, a) = Shares(m, a) + Shares(u, a)
  BY <1>1, <1>2, <1>6, SharesAdd
<1>8. CASE a = b
  <2>1. (\A k \in Key \ {j} : Row(u, a)[k] = 0) /\ Row(u, a)[j] = n
    BY <1>3, <1>5, <1>8
  <2>2. Total(Row(u, a), Key) = n
    BY <1>5, <2>1, TotalFacts
  <2> QED BY <1>5, <1>7, <1>8, <2>2 DEF w
<1>9. CASE a # b
  <2>1. \A k \in Key : Row(u, a)[k] = 0
    BY <1>3, <1>5, <1>9
  <2>2. Total(Row(u, a), Key) = 0
    BY <1>5, <2>1, TotalFacts
  <2> QED BY <1>5, <1>7, <1>9, <2>2 DEF w
<1> QED BY <1>8, <1>9

\* The same for a config in the days: numbers, smaller for smaller maps, ...
LEMMA OfConfigFacts ==
    ASSUME NEW m \in Table(Day), NEW k \in Key
    PROVE  /\ OfConfig(m, k) \in Nat
           /\ \A l \in Table(Day) :
                 (\A d \in Day : l[<<d, k>>] <= m[<<d, k>>]) => OfConfig(l, k) <= OfConfig(m, k)
           /\ (\A d \in Day : m[<<d, k>>] = 0) => OfConfig(m, k) = 0
<1>1. /\ IsFiniteSet(Day) /\ Column(m, k) \in [Day -> Nat] /\ OfConfig(m, k) = Total(Column(m, k), Day)
      /\ \A d \in Day : Column(m, k)[d] = m[<<d, k>>]
  BY OfConfigTotal
<1>2. OfConfig(m, k) \in Nat
  BY <1>1, TotalFacts
<1>3. ASSUME NEW l \in Table(Day), \A d \in Day : l[<<d, k>>] <= m[<<d, k>>]
      PROVE  OfConfig(l, k) <= OfConfig(m, k)
  <2>1. /\ Column(l, k) \in [Day -> Nat] /\ OfConfig(l, k) = Total(Column(l, k), Day)
        /\ \A d \in Day : Column(l, k)[d] = l[<<d, k>>]
    BY OfConfigTotal
  <2>2. \A d \in Day : Column(l, k)[d] <= Column(m, k)[d]
    BY <1>1, <1>3, <2>1
  <2> QED BY <1>1, <2>1, <2>2, TotalFacts
<1>4. ASSUME \A d \in Day : m[<<d, k>>] = 0 PROVE OfConfig(m, k) = 0
  BY <1>1, <1>4, TotalFacts
<1> QED BY <1>2, <1>3, <1>4

\* ... adding up, ...
LEMMA OfConfigAdd ==
    ASSUME NEW l \in Table(Day), NEW m \in Table(Day),
           NEW w \in Table(Day), NEW k \in Key,
           \A d \in Day : w[<<d, k>>] = l[<<d, k>>] + m[<<d, k>>]
    PROVE  OfConfig(w, k) = OfConfig(l, k) + OfConfig(m, k)
<1>1. /\ IsFiniteSet(Day) /\ Column(m, k) \in [Day -> Nat] /\ OfConfig(m, k) = Total(Column(m, k), Day)
      /\ \A d \in Day : Column(m, k)[d] = m[<<d, k>>]
  BY OfConfigTotal
<1>2. /\ Column(l, k) \in [Day -> Nat] /\ OfConfig(l, k) = Total(Column(l, k), Day)
      /\ \A d \in Day : Column(l, k)[d] = l[<<d, k>>]
  BY OfConfigTotal
<1>3. /\ Column(w, k) \in [Day -> Nat] /\ OfConfig(w, k) = Total(Column(w, k), Day)
      /\ \A d \in Day : Column(w, k)[d] = w[<<d, k>>]
  BY OfConfigTotal
<1>4. \A d \in Day : Column(w, k)[d] = Column(l, k)[d] + Column(m, k)[d]
  BY <1>1, <1>2, <1>3
<1> QED BY <1>1, <1>2, <1>3, <1>4, TotalFacts

\* ... and counted for the key alone.
LEMMA OfConfigBump ==
    ASSUME NEW m \in Table(Day), NEW k \in Key, NEW b \in Day, NEW j \in Key, NEW n \in Nat
    PROVE  OfConfig(Bump(m, <<b, j>>, n), k) = OfConfig(m, k) + (IF k = j THEN n ELSE 0)
<1>0. <<b, j>> \in Day \X Key
  OBVIOUS
<1> DEFINE w == Bump(m, <<b, j>>, n)
           u == [x \in Day \X Key |-> IF x = <<b, j>> THEN n ELSE 0]
<1>1. /\ w \in Table(Day) /\ w[<<b, j>>] = m[<<b, j>>] + n
      /\ \A y \in Day \X Key : y # <<b, j>> => w[y] = m[y]
  BY <1>0 DEF Bump, Table
<1>2. u \in Table(Day)
  BY DEF Table
<1>3. \A d \in Day : u[<<d, k>>] = IF d = b /\ k = j THEN n ELSE 0
  OBVIOUS
<1>4. \A d \in Day : m[<<d, k>>] \in Nat
  BY DEF Table
<1> HIDE DEF w, u
<1>5. /\ IsFiniteSet(Day) /\ Column(u, k) \in [Day -> Nat] /\ OfConfig(u, k) = Total(Column(u, k), Day)
      /\ \A d \in Day : Column(u, k)[d] = u[<<d, k>>]
  BY <1>2, OfConfigTotal
<1>6. \A d \in Day : w[<<d, k>>] = m[<<d, k>>] + u[<<d, k>>]
  <2>1. ASSUME NEW d \in Day, d = b, k = j PROVE w[<<d, k>>] = m[<<d, k>>] + u[<<d, k>>]
    BY <1>1, <1>3, <2>1
  <2>2. ASSUME NEW d \in Day, ~(d = b /\ k = j) PROVE w[<<d, k>>] = m[<<d, k>>] + u[<<d, k>>]
    <3>1. <<d, k>> # <<b, j>> /\ <<d, k>> \in Day \X Key
      BY <2>2
    <3>2. w[<<d, k>>] = m[<<d, k>>] /\ u[<<d, k>>] = 0
      BY <1>1, <1>3, <2>2, <3>1
    <3> QED BY <1>4, <3>2
  <2> QED BY <2>1, <2>2
<1>7. OfConfig(w, k) = OfConfig(m, k) + OfConfig(u, k)
  BY <1>1, <1>2, <1>6, OfConfigAdd
<1>8. CASE k = j
  <2>1. (\A d \in Day \ {b} : Column(u, k)[d] = 0) /\ Column(u, k)[b] = n
    BY <1>3, <1>5, <1>8
  <2>2. Total(Column(u, k), Day) = n
    BY <1>5, <2>1, TotalFacts
  <2> QED BY <1>5, <1>7, <1>8, <2>2 DEF w
<1>9. CASE k # j
  <2>1. \A d \in Day : Column(u, k)[d] = 0
    BY <1>3, <1>5, <1>9
  <2>2. Total(Column(u, k), Day) = 0
    BY <1>5, <2>1, TotalFacts
  <2> QED BY <1>5, <1>7, <1>9, <2>2 DEF w
<1> QED BY <1>8, <1>9
-----------------------------------------------------------------------------
(* The shares and the totals *)

\* Where hours are kept, the hourly maps of w are those of v with n more for the key.
AddsHours(v, w, n, key) ==
    /\ \A h \in Hour : h + Retention > hour => w.hourly[h] = Bump(v.hourly, hour, n)[h]
    /\ \A h \in Hour, k \in Key : h + Retention > hour
          => w.hourlyCfg[<<h, k>>] = IF key = NoName THEN v.hourlyCfg[<<h, k>>]
                                     ELSE Bump(v.hourlyCfg, <<hour, key>>, n)[<<h, k>>]

\* The shares in v have not become smaller since o.
Grows(o, v) ==
    /\ \A d \in Day, k \in Key : o.dailyCfg[<<d, k>>] <= v.dailyCfg[<<d, k>>]
    /\ \A h \in Hour, k \in Key : h + Retention > hour
          => o.hourlyCfg[<<h, k>>] <= v.hourlyCfg[<<h, k>>]

\* Unless a store was torn, the maps agree in memory, in the preferences and on
\* disk, and what is stored has not become smaller since; while the thread waits to
\* merge, what is stored is part of what it has read, or of memory.
Agreed ==
    ~early.torn =>
        /\ Agree(mem) /\ Agree(prefs.views) /\ Agree(disk.views)
        /\ load = "merge" => /\ Agree(fromDisk)
                             /\ Grows(prefs.views, fromDisk) \/ Grows(prefs.views, mem)
        /\ load = "done" => Grows(prefs.views, mem)

\* The parts of Views.
LEMMA ViewParts ==
    ASSUME NEW v \in Views
    PROVE  /\ v.daily \in [Day -> Nat] /\ v.hourly \in [Hour -> Nat] /\ v.byConfig \in [Key -> Nat]
           /\ v.dailyCfg \in Table(Day) /\ v.hourlyCfg \in Table(Hour)
           /\ \A d \in Day, k \in Key : v.dailyCfg[<<d, k>>] \in Nat
           /\ \A h \in Hour, k \in Key : v.hourlyCfg[<<h, k>>] \in Nat
           /\ \A d \in Day : Shares(v.dailyCfg, d) \in Nat
           /\ \A k \in Key : OfConfig(v.dailyCfg, k) \in Nat
           /\ \A h \in Hour : Shares(v.hourlyCfg, h) \in Nat
<1>1. /\ v.daily \in [Day -> Nat] /\ v.hourly \in [Hour -> Nat] /\ v.byConfig \in [Key -> Nat]
      /\ v.dailyCfg \in Table(Day) /\ v.hourlyCfg \in Table(Hour)
  BY DEF Views, Table
<1>2. /\ \A d \in Day, k \in Key : v.dailyCfg[<<d, k>>] \in Nat
      /\ \A h \in Hour, k \in Key : v.hourlyCfg[<<h, k>>] \in Nat
  BY <1>1 DEF Table
<1>3. \A d \in Day : Shares(v.dailyCfg, d) \in Nat
  BY <1>1, SharesFacts
<1>4. \A h \in Hour : Shares(v.hourlyCfg, h) \in Nat
  BY <1>1, SharesFacts
<1>5. \A k \in Key : OfConfig(v.dailyCfg, k) \in Nat
  BY <1>1, OfConfigFacts
<1> QED BY <1>1, <1>2, <1>3, <1>4, <1>5

\* Trimming drops no hour that is kept.
LEMMA TrimKeeps ==
    ASSUME hour \in Hour
    PROVE  /\ \A f \in [Hour -> Nat] : \A h \in Hour : h + Retention > hour => TrimHourly(f)[h] = f[h]
           /\ \A f \in Table(Hour) : \A h \in Hour, k \in Key :
                 h + Retention > hour => TrimHourlyCfg(f)[<<h, k>>] = f[<<h, k>>]
<1>0. hour \in Nat /\ Hour \subseteq Nat /\ Retention \in Nat
  BY FiniteKeys, UsageAssumption
<1>1. ASSUME NEW f \in [Hour -> Nat], NEW h \in Hour, h + Retention > hour PROVE TrimHourly(f)[h] = f[h]
  BY <1>1 DEF TrimHourly
<1>2. ASSUME NEW f \in Table(Hour), NEW h \in Hour, NEW k \in Key, h + Retention > hour
      PROVE  TrimHourlyCfg(f)[<<h, k>>] = f[<<h, k>>]
  <2> DEFINE g == [x \in Hour \X Key |-> IF x[1] + Retention >= hour THEN f[x] ELSE 0]
  <2>1. TrimHourlyCfg(f) = f \/ TrimHourlyCfg(f) = g
    BY DEF TrimHourlyCfg
  <2>2. <<h, k>> \in Hour \X Key /\ <<h, k>>[1] = h
    OBVIOUS
  <2>3. h + Retention >= hour
    BY <1>0, <1>2
  <2>4. g[<<h, k>>] = f[<<h, k>>]
    BY <2>2, <2>3
  <2> HIDE DEF g
  <2> QED BY <2>1, <2>4
<1> QED BY <1>1, <1>2

\* What add() does to the hourly maps.
LEMMA CountedHours ==
    ASSUME hour \in Hour, NEW v \in Views, NEW n \in Nat, NEW key \in Key \cup {NoName}
    PROVE  AddsHours(v, Counted(v, n, key), n, key)
<1> DEFINE u == CountLasting(v, n, key)
           a == TrimHourly(Bump(v.hourly, hour, n))
           g == TrimHourlyCfg(Bump(v.hourlyCfg, <<hour, key>>, n))
           w == Counted(v, n, key)
<1>0. v.hourly \in [Hour -> Nat] /\ v.hourlyCfg \in Table(Hour)
  BY ViewParts
<1>1. /\ u.hourly = v.hourly /\ u.hourlyCfg = v.hourlyCfg
      /\ "hourly" \in DOMAIN u /\ "hourlyCfg" \in DOMAIN u
  <2>1. CASE key = NoName
    BY <2>1 DEF CountLasting, Views
  <2>2. CASE key # NoName
    BY <2>2 DEF CountLasting, Views
  <2> QED BY <2>1, <2>2
<1>2. w = [u EXCEPT !.hourly = TrimHourly(Bump(@, hour, n)),
                    !.hourlyCfg = IF key = NoName THEN @ ELSE TrimHourlyCfg(Bump(@, <<hour, key>>, n))]
  BY DEF Counted
<1> HIDE DEF u, w
<1>3. w.hourly = a /\ w.hourlyCfg = IF key = NoName THEN v.hourlyCfg ELSE g
  BY <1>1, <1>2
<1>4. Bump(v.hourly, hour, n) \in [Hour -> Nat]
  BY <1>0, BumpFacts
<1>5. \A h \in Hour : h + Retention > hour => w.hourly[h] = Bump(v.hourly, hour, n)[h]
  BY <1>3, <1>4, TrimKeeps
<1>6. ASSUME NEW h \in Hour, NEW k \in Key, h + Retention > hour
      PROVE  w.hourlyCfg[<<h, k>>] = IF key = NoName THEN v.hourlyCfg[<<h, k>>]
                                     ELSE Bump(v.hourlyCfg, <<hour, key>>, n)[<<h, k>>]
  <2>1. CASE key = NoName
    BY <1>3, <2>1
  <2>2. CASE key # NoName
    <3>1. Bump(v.hourlyCfg, <<hour, key>>, n) \in Table(Hour)
      <4>1. <<hour, key>> \in Hour \X Key
        BY <2>2
      <4> QED BY <1>0, <4>1 DEF Bump, Table
    <3>2. g[<<h, k>>] = Bump(v.hourlyCfg, <<hour, key>>, n)[<<h, k>>]
      BY <1>6, <3>1, TrimKeeps
    <3> QED BY <1>3, <2>2, <3>2
  <2> QED BY <2>1, <2>2
<1> QED BY <1>5, <1>6 DEF AddsHours, w

\* Rows that are the same have the same sum.
LEMMA SameShares ==
    ASSUME NEW T, NEW m \in Table(T), NEW l \in Table(T), NEW a \in T,
           \A k \in Key : l[<<a, k>>] = m[<<a, k>>]
    PROVE  Shares(l, a) = Shares(m, a)
<1>1. \A k \in Key : m[<<a, k>>] \in Nat
  BY DEF Table
<1>2. \A k \in Key : l[<<a, k>>] <= m[<<a, k>>] /\ m[<<a, k>>] <= l[<<a, k>>]
  BY <1>1
<1>3. Shares(l, a) \in Nat /\ Shares(m, a) \in Nat
  BY SharesFacts
<1>4. Shares(l, a) <= Shares(m, a)
  BY <1>2, SharesFacts
<1>5. Shares(m, a) <= Shares(l, a)
  BY <1>2, SharesFacts
<1> QED BY <1>3, <1>4, <1>5

\* Counting keeps the agreement: what is added to a share is added to its total.
LEMMA AgreeCounted ==
    ASSUME hour \in Hour, NEW v \in Views, NEW w \in Views, NEW n \in Nat,
           NEW key \in Key \cup {NoName}, Agree(v), Adds(v, w, n, key), AddsHours(v, w, n, key)
    PROVE  Agree(w)
<1>0. DayOf(hour) \in Day
  BY DayOfHour
<1>1. /\ v.daily \in [Day -> Nat] /\ v.hourly \in [Hour -> Nat] /\ v.byConfig \in [Key -> Nat]
      /\ v.dailyCfg \in Table(Day) /\ v.hourlyCfg \in Table(Hour)
      /\ w.dailyCfg \in Table(Day) /\ w.hourlyCfg \in Table(Hour)
      /\ \A d \in Day : Shares(v.dailyCfg, d) \in Nat
      /\ \A k \in Key : OfConfig(v.dailyCfg, k) \in Nat
      /\ \A h \in Hour : Shares(v.hourlyCfg, h) \in Nat
  BY ViewParts
<1>2. ASSUME NEW d \in Day PROVE Shares(w.dailyCfg, d) <= w.daily[d]
  <2>1. w.daily[d] = v.daily[d] + IF d = DayOf(hour) THEN n ELSE 0
    BY <1>0, <1>1 DEF Adds, Bump
  <2>2. Shares(v.dailyCfg, d) <= v.daily[d]
    BY DEF Agree
  <2>3. CASE key = NoName
    <3>1. w.dailyCfg = v.dailyCfg
      BY <2>3 DEF Adds
    <3> QED BY <1>1, <2>1, <2>2, <3>1
  <2>4. CASE key # NoName
    <3>1. w.dailyCfg = Bump(v.dailyCfg, <<DayOf(hour), key>>, n) /\ key \in Key
      BY <2>4 DEF Adds
    <3>2. Shares(w.dailyCfg, d) = Shares(v.dailyCfg, d) + (IF d = DayOf(hour) THEN n ELSE 0)
      BY <1>0, <1>1, <3>1, SharesBump
    <3> QED BY <1>1, <2>1, <2>2, <3>2
  <2> QED BY <2>3, <2>4
<1>3. ASSUME NEW k \in Key PROVE OfConfig(w.dailyCfg, k) <= w.byConfig[k]
  <2>1. OfConfig(v.dailyCfg, k) <= v.byConfig[k]
    BY DEF Agree
  <2>2. CASE key = NoName
    BY <2>1, <2>2 DEF Adds
  <2>3. CASE key # NoName
    <3>1. w.dailyCfg = Bump(v.dailyCfg, <<DayOf(hour), key>>, n) /\ key \in Key
      BY <2>3 DEF Adds
    <3>2. OfConfig(w.dailyCfg, k) = OfConfig(v.dailyCfg, k) + (IF k = key THEN n ELSE 0)
      BY <1>0, <1>1, <3>1, OfConfigBump
    <3>3. w.byConfig[k] = v.byConfig[k] + IF k = key THEN n ELSE 0
      BY <1>1, <2>3 DEF Adds, Bump
    <3> QED BY <1>1, <2>1, <3>2, <3>3
  <2> QED BY <2>2, <2>3
<1>4. ASSUME NEW h \in Hour, h + Retention > hour PROVE Shares(w.hourlyCfg, h) <= w.hourly[h]
  <2>1. Shares(v.hourlyCfg, h) <= v.hourly[h]
    BY <1>4 DEF Agree
  <2>2. w.hourly[h] = v.hourly[h] + IF h = hour THEN n ELSE 0
    <3>1. w.hourly[h] = Bump(v.hourly, hour, n)[h]
      BY <1>4 DEF AddsHours
    <3> QED BY <1>1, <3>1 DEF Bump
  <2>3. CASE key = NoName
    <3>1. \A k \in Key : w.hourlyCfg[<<h, k>>] = v.hourlyCfg[<<h, k>>]
      BY <1>4, <2>3 DEF AddsHours
    <3>2. Shares(w.hourlyCfg, h) = Shares(v.hourlyCfg, h)
      BY <1>1, <3>1, SameShares
    <3> QED BY <1>1, <2>1, <2>2, <3>2
  <2>4. CASE key # NoName
    <3> DEFINE u == Bump(v.hourlyCfg, <<hour, key>>, n)
    <3>1. \A k \in Key : w.hourlyCfg[<<h, k>>] = u[<<h, k>>]
      BY <1>4, <2>4 DEF AddsHours
    <3>2. Shares(u, h) = Shares(v.hourlyCfg, h) + (IF h = hour THEN n ELSE 0)
      BY <1>1, <2>4, SharesBump
    <3>3. u \in Table(Hour)
      <4>1. <<hour, key>> \in Hour \X Key
        BY <2>4
      <4> QED BY <1>1, <4>1 DEF Bump, Table
    <3> HIDE DEF u
    <3>4. Shares(w.hourlyCfg, h) = Shares(u, h)
      BY <1>1, <3>1, <3>3, SameShares
    <3> QED BY <1>1, <2>1, <2>2, <3>2, <3>4
  <2> QED BY <2>3, <2>4
<1> QED BY <1>2, <1>3, <1>4 DEF Agree

\* Counting makes no share smaller.
LEMMA GrowsCounted ==
    ASSUME hour \in Hour, NEW o \in Views, NEW v \in Views, NEW w \in Views, NEW n \in Nat,
           NEW key \in Key \cup {NoName}, Grows(o, v), Adds(v, w, n, key), AddsHours(v, w, n, key)
    PROVE  Grows(o, w)
<1>0. DayOf(hour) \in Day
  BY DayOfHour
<1>1. /\ v.dailyCfg \in Table(Day) /\ v.hourlyCfg \in Table(Hour)
      /\ \A d \in Day, k \in Key : v.dailyCfg[<<d, k>>] \in Nat /\ o.dailyCfg[<<d, k>>] \in Nat
      /\ \A h \in Hour, k \in Key : v.hourlyCfg[<<h, k>>] \in Nat /\ o.hourlyCfg[<<h, k>>] \in Nat
  BY ViewParts
<1>2. ASSUME NEW T, NEW m \in Table(T), NEW a \in T, NEW b \in T, NEW j \in Key, NEW k \in Key
      PROVE  m[<<a, k>>] \in Nat /\ m[<<a, k>>] <= Bump(m, <<b, j>>, n)[<<a, k>>]
  <2>1. <<a, k>> \in T \X Key /\ <<b, j>> \in T \X Key /\ m \in [T \X Key -> Nat]
    BY DEF Table
  <2>2. m[<<a, k>>] \in Nat
    BY <2>1
  <2>3. Bump(m, <<b, j>>, n)[<<a, k>>] = IF <<a, k>> = <<b, j>> THEN m[<<a, k>>] + n ELSE m[<<a, k>>]
    BY <2>1 DEF Bump
  <2> QED BY <2>2, <2>3
<1>3. ASSUME NEW d \in Day, NEW k \in Key PROVE o.dailyCfg[<<d, k>>] <= w.dailyCfg[<<d, k>>]
  <2>1. o.dailyCfg[<<d, k>>] <= v.dailyCfg[<<d, k>>]
    BY DEF Grows
  <2>2. CASE key = NoName
    BY <2>1, <2>2 DEF Adds
  <2>3. CASE key # NoName
    <3>1. w.dailyCfg = Bump(v.dailyCfg, <<DayOf(hour), key>>, n) /\ key \in Key
      BY <2>3 DEF Adds
    <3>2. v.dailyCfg[<<d, k>>] <= Bump(v.dailyCfg, <<DayOf(hour), key>>, n)[<<d, k>>]
      BY <1>0, <1>1, <1>2, <3>1
    <3>3. w.dailyCfg[<<d, k>>] \in Nat
      BY ViewParts
    <3> QED BY <1>1, <2>1, <3>1, <3>2, <3>3
  <2> QED BY <2>2, <2>3
<1>4. ASSUME NEW h \in Hour, NEW k \in Key, h + Retention > hour
      PROVE  o.hourlyCfg[<<h, k>>] <= w.hourlyCfg[<<h, k>>]
  <2>1. o.hourlyCfg[<<h, k>>] <= v.hourlyCfg[<<h, k>>]
    BY <1>4 DEF Grows
  <2>2. CASE key = NoName
    BY <1>4, <2>1, <2>2 DEF AddsHours
  <2>3. CASE key # NoName
    <3>1. w.hourlyCfg[<<h, k>>] = Bump(v.hourlyCfg, <<hour, key>>, n)[<<h, k>>] /\ key \in Key
      BY <1>4, <2>3 DEF AddsHours
    <3>2. v.hourlyCfg[<<h, k>>] <= Bump(v.hourlyCfg, <<hour, key>>, n)[<<h, k>>]
      BY <1>1, <1>2, <3>1
    <3>3. w.hourlyCfg[<<h, k>>] \in Nat
      BY ViewParts
    <3> QED BY <1>1, <2>1, <3>1, <3>2, <3>3
  <2> QED BY <2>2, <2>3
<1> QED BY <1>3, <1>4 DEF Grows

\* Merging keeps the agreement, and makes no share smaller than it was.
LEMMA AgreeMerged ==
    ASSUME hour \in Hour, NEW u \in Views, NEW v \in Views, Agree(u), Agree(v)
    PROVE  /\ Agree(Merged(u, v)) /\ Grows(u, Merged(u, v)) /\ Grows(v, Merged(u, v))
<1> DEFINE w == Merged(u, v)
           c == Merge(u.hourlyCfg, v.hourlyCfg)
<1>1. /\ u.daily \in [Day -> Nat] /\ u.hourly \in [Hour -> Nat] /\ u.byConfig \in [Key -> Nat]
      /\ u.dailyCfg \in Table(Day) /\ u.hourlyCfg \in Table(Hour)
      /\ \A d \in Day, k \in Key : u.dailyCfg[<<d, k>>] \in Nat
      /\ \A h \in Hour, k \in Key : u.hourlyCfg[<<h, k>>] \in Nat
      /\ \A d \in Day : Shares(u.dailyCfg, d) \in Nat
      /\ \A k \in Key : OfConfig(u.dailyCfg, k) \in Nat
      /\ \A h \in Hour : Shares(u.hourlyCfg, h) \in Nat
  BY ViewParts
<1>2. /\ v.daily \in [Day -> Nat] /\ v.hourly \in [Hour -> Nat] /\ v.byConfig \in [Key -> Nat]
      /\ v.dailyCfg \in Table(Day) /\ v.hourlyCfg \in Table(Hour)
      /\ \A d \in Day, k \in Key : v.dailyCfg[<<d, k>>] \in Nat
      /\ \A h \in Hour, k \in Key : v.hourlyCfg[<<h, k>>] \in Nat
      /\ \A d \in Day : Shares(v.dailyCfg, d) \in Nat
      /\ \A k \in Key : OfConfig(v.dailyCfg, k) \in Nat
      /\ \A h \in Hour : Shares(v.hourlyCfg, h) \in Nat
  BY ViewParts
<1>3. /\ w.daily = Merge(u.daily, v.daily) /\ w.byConfig = Merge(u.byConfig, v.byConfig)
      /\ w.dailyCfg = Merge(u.dailyCfg, v.dailyCfg)
      /\ w.hourly = TrimHourly(Merge(u.hourly, v.hourly)) /\ w.hourlyCfg = TrimHourlyCfg(c)
  BY DEF Merged
<1>4. w \in Views
  BY MergedFacts
<1> HIDE DEF w
<1>5. w.dailyCfg \in Table(Day) /\ w.hourlyCfg \in Table(Hour)
  BY <1>4, ViewParts
<1>6. \A d \in Day, k \in Key : w.dailyCfg[<<d, k>>] = u.dailyCfg[<<d, k>>] + v.dailyCfg[<<d, k>>]
  BY <1>1, <1>2, <1>3 DEF Merge, Table
<1>7. /\ c \in Table(Hour)
      /\ \A h \in Hour, k \in Key : c[<<h, k>>] = u.hourlyCfg[<<h, k>>] + v.hourlyCfg[<<h, k>>]
  BY <1>1, <1>2 DEF Merge, Table
<1> HIDE DEF c
<1>8. \A h \in Hour, k \in Key : h + Retention > hour => w.hourlyCfg[<<h, k>>] = c[<<h, k>>]
  BY <1>3, <1>7, TrimKeeps
<1>9. ASSUME NEW d \in Day PROVE Shares(w.dailyCfg, d) <= w.daily[d]
  <2>1. Shares(w.dailyCfg, d) = Shares(u.dailyCfg, d) + Shares(v.dailyCfg, d)
    <3>1. u.dailyCfg \in Table(Day) /\ v.dailyCfg \in Table(Day) /\ w.dailyCfg \in Table(Day)
      BY <1>1, <1>2, <1>5
    <3>2. \A k \in Key : w.dailyCfg[<<d, k>>] = u.dailyCfg[<<d, k>>] + v.dailyCfg[<<d, k>>]
      BY <1>6
    <3> QED BY <3>1, <3>2, SharesAdd
  <2>2. w.daily[d] = u.daily[d] + v.daily[d] /\ u.daily[d] \in Nat /\ v.daily[d] \in Nat
    BY <1>1, <1>2, <1>3 DEF Merge
  <2>3. Shares(u.dailyCfg, d) <= u.daily[d] /\ Shares(v.dailyCfg, d) <= v.daily[d]
    BY DEF Agree
  <2>4. Shares(u.dailyCfg, d) \in Nat /\ Shares(v.dailyCfg, d) \in Nat
    BY <1>1, <1>2
  <2> QED BY <2>1, <2>2, <2>3, <2>4
<1>10. ASSUME NEW k \in Key PROVE OfConfig(w.dailyCfg, k) <= w.byConfig[k]
  <2>1. OfConfig(w.dailyCfg, k) = OfConfig(u.dailyCfg, k) + OfConfig(v.dailyCfg, k)
    BY <1>1, <1>2, <1>5, <1>6, OfConfigAdd
  <2>2. w.byConfig[k] = u.byConfig[k] + v.byConfig[k] /\ u.byConfig[k] \in Nat /\ v.byConfig[k] \in Nat
    BY <1>1, <1>2, <1>3 DEF Merge
  <2>3. OfConfig(u.dailyCfg, k) <= u.byConfig[k] /\ OfConfig(v.dailyCfg, k) <= v.byConfig[k]
    BY DEF Agree
  <2>4. OfConfig(u.dailyCfg, k) \in Nat /\ OfConfig(v.dailyCfg, k) \in Nat
    BY <1>1, <1>2
  <2> QED BY <2>1, <2>2, <2>3, <2>4
<1>11. ASSUME NEW h \in Hour, h + Retention > hour PROVE Shares(w.hourlyCfg, h) <= w.hourly[h]
  <2>1. Shares(c, h) = Shares(u.hourlyCfg, h) + Shares(v.hourlyCfg, h)
    <3>1. u.hourlyCfg \in Table(Hour) /\ v.hourlyCfg \in Table(Hour) /\ c \in Table(Hour)
      BY <1>1, <1>2, <1>7
    <3>2. \A k \in Key : c[<<h, k>>] = u.hourlyCfg[<<h, k>>] + v.hourlyCfg[<<h, k>>]
      BY <1>7
    <3> QED BY <3>1, <3>2, SharesAdd
  <2>2. Shares(w.hourlyCfg, h) = Shares(c, h)
    BY <1>5, <1>7, <1>8, <1>11, SameShares
  <2>3. /\ Merge(u.hourly, v.hourly) \in [Hour -> Nat]
        /\ Merge(u.hourly, v.hourly)[h] = u.hourly[h] + v.hourly[h]
    BY <1>1, <1>2, MergeFacts
  <2>4. w.hourly[h] = u.hourly[h] + v.hourly[h] /\ u.hourly[h] \in Nat /\ v.hourly[h] \in Nat
    BY <1>1, <1>2, <1>3, <1>11, <2>3, TrimKeeps
  <2>5. Shares(u.hourlyCfg, h) <= u.hourly[h] /\ Shares(v.hourlyCfg, h) <= v.hourly[h]
    BY <1>11 DEF Agree
  <2>6. Shares(u.hourlyCfg, h) \in Nat /\ Shares(v.hourlyCfg, h) \in Nat
    BY <1>1, <1>2
  <2> QED BY <2>1, <2>2, <2>4, <2>5, <2>6
<1>12. Agree(w)
  BY <1>9, <1>10, <1>11 DEF Agree
<1>13. ASSUME NEW d \in Day, NEW k \in Key
       PROVE  u.dailyCfg[<<d, k>>] <= w.dailyCfg[<<d, k>>] /\ v.dailyCfg[<<d, k>>] <= w.dailyCfg[<<d, k>>]
  <2>1. u.dailyCfg[<<d, k>>] \in Nat /\ v.dailyCfg[<<d, k>>] \in Nat
    BY <1>1, <1>2
  <2>2. w.dailyCfg[<<d, k>>] = u.dailyCfg[<<d, k>>] + v.dailyCfg[<<d, k>>]
    BY <1>6
  <2> QED BY <2>1, <2>2
<1>14. ASSUME NEW h \in Hour, NEW k \in Key, h + Retention > hour
       PROVE  /\ u.hourlyCfg[<<h, k>>] <= w.hourlyCfg[<<h, k>>]
              /\ v.hourlyCfg[<<h, k>>] <= w.hourlyCfg[<<h, k>>]
  <2>1. w.hourlyCfg[<<h, k>>] = u.hourlyCfg[<<h, k>>] + v.hourlyCfg[<<h, k>>]
    BY <1>7, <1>8, <1>14
  <2> QED BY <1>1, <1>2, <2>1
<1>15. Grows(u, w) /\ Grows(v, w)
  BY <1>13, <1>14 DEF Grows
<1> QED BY <1>12, <1>15 DEF w

\* The empty maps agree.
LEMMA AgreeEmpty == Agree(Empty)
<1>1. Empty \in Views
  BY DEF Empty, Views
<1>2. Empty.dailyCfg \in Table(Day) /\ Empty.hourlyCfg \in Table(Hour)
  BY <1>1, ViewParts
<1>3. /\ \A d \in Day, k \in Key : Empty.dailyCfg[<<d, k>>] = 0
      /\ \A h \in Hour, k \in Key : Empty.hourlyCfg[<<h, k>>] = 0
      /\ \A d \in Day : Empty.daily[d] = 0
      /\ \A h \in Hour : Empty.hourly[h] = 0
      /\ \A k \in Key : Empty.byConfig[k] = 0
  BY DEF Empty
<1>4. \A d \in Day : Shares(Empty.dailyCfg, d) = 0
  BY <1>2, <1>3, SharesFacts
<1>5. \A h \in Hour : Shares(Empty.hourlyCfg, h) = 0
  BY <1>2, <1>3, SharesFacts
<1>6. \A k \in Key : OfConfig(Empty.dailyCfg, k) = 0
  BY <1>2, <1>3, OfConfigFacts
<1> QED BY <1>3, <1>4, <1>5, <1>6 DEF Agree

\* The totals are stored before the shares, so the maps agree on the way too: old
\* shares are not above new totals.
LEMMA AgreePersisting ==
    ASSUME NEW p \in Contents, NEW v \in Views, NEW c \in Persisting(p, v),
           Agree(p.views), Agree(v), Grows(p.views, v)
    PROVE  Agree(c.views)
<1> DEFINE o == p.views
           s1 == [o EXCEPT !.daily = v.daily]
           s2 == [o EXCEPT !.daily = v.daily, !.hourly = v.hourly]
           s3 == [v EXCEPT !.dailyCfg = o.dailyCfg, !.hourlyCfg = o.hourlyCfg]
           s4 == [v EXCEPT !.hourlyCfg = o.hourlyCfg]
<1>1. o \in Views
  BY DEF Contents
<1>2. PICK s \in {s1, s2, s3, s4, v} : c = [p EXCEPT !.views = s]
  BY DEF Persisting
<1>3. c.views = s
  BY <1>2 DEF Contents
<1>4. Agree(o) /\ Grows(o, v)
  OBVIOUS
<1> HIDE DEF o
<1>5. /\ o.dailyCfg \in Table(Day) /\ o.hourlyCfg \in Table(Hour)
      /\ v.dailyCfg \in Table(Day) /\ v.hourlyCfg \in Table(Hour)
      /\ v.daily \in [Day -> Nat] /\ v.hourly \in [Hour -> Nat] /\ v.byConfig \in [Key -> Nat]
      /\ \A d \in Day : Shares(v.dailyCfg, d) \in Nat /\ Shares(o.dailyCfg, d) \in Nat
      /\ \A k \in Key : OfConfig(v.dailyCfg, k) \in Nat /\ OfConfig(o.dailyCfg, k) \in Nat
      /\ \A h \in Hour : Shares(v.hourlyCfg, h) \in Nat /\ Shares(o.hourlyCfg, h) \in Nat
  BY <1>1, ViewParts
<1>6. ASSUME NEW d \in Day PROVE Shares(o.dailyCfg, d) <= v.daily[d]
  <2>1. \A k \in Key : o.dailyCfg[<<d, k>>] <= v.dailyCfg[<<d, k>>]
    BY <1>4 DEF Grows
  <2>2. Shares(o.dailyCfg, d) <= Shares(v.dailyCfg, d)
    BY <1>5, <2>1, SharesFacts
  <2>3. Shares(v.dailyCfg, d) <= v.daily[d]
    BY DEF Agree
  <2> QED BY <1>5, <2>2, <2>3
<1>7. ASSUME NEW k \in Key PROVE OfConfig(o.dailyCfg, k) <= v.byConfig[k]
  <2>1. \A d \in Day : o.dailyCfg[<<d, k>>] <= v.dailyCfg[<<d, k>>]
    BY <1>4 DEF Grows
  <2>2. OfConfig(o.dailyCfg, k) <= OfConfig(v.dailyCfg, k)
    BY <1>5, <2>1, OfConfigFacts
  <2>3. OfConfig(v.dailyCfg, k) <= v.byConfig[k]
    BY DEF Agree
  <2> QED BY <1>5, <2>2, <2>3
<1>8. ASSUME NEW h \in Hour, h + Retention > hour PROVE Shares(o.hourlyCfg, h) <= v.hourly[h]
  <2>1. \A k \in Key : o.hourlyCfg[<<h, k>>] <= v.hourlyCfg[<<h, k>>]
    BY <1>4, <1>8 DEF Grows
  <2>2. Shares(o.hourlyCfg, h) <= Shares(v.hourlyCfg, h)
    BY <1>5, <2>1, SharesFacts
  <2>3. Shares(v.hourlyCfg, h) <= v.hourly[h]
    BY <1>8 DEF Agree
  <2> QED BY <1>5, <2>2, <2>3
<1>9. /\ s1.daily = v.daily /\ s1.hourly = o.hourly /\ s1.byConfig = o.byConfig
      /\ s1.dailyCfg = o.dailyCfg /\ s1.hourlyCfg = o.hourlyCfg
  BY <1>1 DEF Views
<1>10. /\ s2.daily = v.daily /\ s2.hourly = v.hourly /\ s2.byConfig = o.byConfig
       /\ s2.dailyCfg = o.dailyCfg /\ s2.hourlyCfg = o.hourlyCfg
  BY <1>1 DEF Views
<1>11. /\ s3.daily = v.daily /\ s3.hourly = v.hourly /\ s3.byConfig = v.byConfig
       /\ s3.dailyCfg = o.dailyCfg /\ s3.hourlyCfg = o.hourlyCfg
  BY DEF Views
<1>12. /\ s4.daily = v.daily /\ s4.hourly = v.hourly /\ s4.byConfig = v.byConfig
       /\ s4.dailyCfg = v.dailyCfg /\ s4.hourlyCfg = o.hourlyCfg
  BY DEF Views
<1> HIDE DEF s1, s2, s3, s4
<1>13. Agree(s1)
  BY <1>4, <1>6, <1>9 DEF Agree
<1>14. Agree(s2)
  BY <1>4, <1>6, <1>8, <1>10 DEF Agree
<1>15. Agree(s3)
  BY <1>6, <1>7, <1>8, <1>11 DEF Agree
<1>16. Agree(s4)
  BY <1>8, <1>12 DEF Agree
<1> QED BY <1>2, <1>3, <1>13, <1>14, <1>15, <1>16

\* Maps do not become smaller than they are.
LEMMA GrowsSelf ==
    ASSUME NEW v \in Views
    PROVE  Grows(v, v)
<1>1. /\ \A d \in Day, k \in Key : v.dailyCfg[<<d, k>>] \in Nat
      /\ \A h \in Hour, k \in Key : v.hourlyCfg[<<h, k>>] \in Nat
  BY ViewParts
<1> QED BY <1>1 DEF Grows

\* What grows from a part that has grown has grown.
LEMMA GrowsOn ==
    ASSUME NEW u \in Views, NEW v \in Views, NEW w \in Views, Grows(u, v), Grows(v, w)
    PROVE  Grows(u, w)
<1>1. /\ \A d \in Day, k \in Key : /\ u.dailyCfg[<<d, k>>] \in Nat /\ v.dailyCfg[<<d, k>>] \in Nat
                                   /\ w.dailyCfg[<<d, k>>] \in Nat
      /\ \A h \in Hour, k \in Key : /\ u.hourlyCfg[<<h, k>>] \in Nat /\ v.hourlyCfg[<<h, k>>] \in Nat
                                    /\ w.hourlyCfg[<<h, k>>] \in Nat
  BY ViewParts
<1>2. ASSUME NEW d \in Day, NEW k \in Key PROVE u.dailyCfg[<<d, k>>] <= w.dailyCfg[<<d, k>>]
  <2>1. u.dailyCfg[<<d, k>>] <= v.dailyCfg[<<d, k>>] /\ v.dailyCfg[<<d, k>>] <= w.dailyCfg[<<d, k>>]
    BY DEF Grows
  <2> QED BY <1>1, <2>1
<1>3. ASSUME NEW h \in Hour, NEW k \in Key, h + Retention > hour
      PROVE  u.hourlyCfg[<<h, k>>] <= w.hourlyCfg[<<h, k>>]
  <2>1. u.hourlyCfg[<<h, k>>] <= v.hourlyCfg[<<h, k>>] /\ v.hourlyCfg[<<h, k>>] <= w.hourlyCfg[<<h, k>>]
    BY <1>3 DEF Grows
  <2> QED BY <1>1, <2>1
<1> QED BY <1>2, <1>3 DEF Grows

\* A step in which the clock stands still: its new maps agree.
LEMMA SameHour ==
    ASSUME hour' = hour,
           ~early'.torn =>
               /\ Agree(mem') /\ Agree(prefs'.views) /\ Agree(disk'.views)
               /\ load' = "merge" => /\ Agree(fromDisk')
                                     /\ Grows(prefs'.views, fromDisk') \/ Grows(prefs'.views, mem')
               /\ load' = "done" => Grows(prefs'.views, mem')
    PROVE  Agreed'
<1>1. Agree(mem)' <=> Agree(mem')
  BY DEF Agree
<1>2. Agree(prefs.views)' <=> Agree(prefs'.views)
  BY DEF Agree
<1>3. Agree(disk.views)' <=> Agree(disk'.views)
  BY DEF Agree
<1>4. Agree(fromDisk)' <=> Agree(fromDisk')
  BY DEF Agree
<1>5. Grows(prefs.views, mem)' <=> Grows(prefs'.views, mem')
  BY DEF Grows
<1>6. Grows(prefs.views, fromDisk)' <=> Grows(prefs'.views, fromDisk')
  BY DEF Grows
<1> QED BY <1>1, <1>2, <1>3, <1>4, <1>5, <1>6 DEF Agreed

\* The maps v are stored: they agree on disk, if the store was not torn.
LEMMA PersistAgrees ==
    ASSUME early \in Flags, load # "off", load \in {"off", "merge", "done"} \cup Maps,
           NEW p \in Contents, NEW v \in Views, NEW written,
           ~early.torn => Agree(p.views) /\ Agree(v) /\ \A c \in written : Agree(c.views),
           ~early.torn /\ load = "done" => Grows(p.views, v),
           Persist(p, v, written), ~early'.torn
    PROVE  /\ prefs'.views = v /\ Agree(disk'.views) /\ ~early.torn
           /\ load = "daily" \/ load = "merge" \/ load = "done"
<1>1. /\ prefs' = [p EXCEPT !.views = v] /\ disk' \in written \cup Persisting(p, v)
      /\ Noted(written)
  BY NoteFacts DEF Persist
<1>2. prefs'.views = v
  BY <1>1 DEF Contents
<1>3. /\ ~early.torn /\ (load \in Maps => load = "daily")
      /\ load # "done" => disk' \in written \cup {prefs'}
  BY <1>1 DEF Noted
<1>4. CASE load = "done"
  <2> DEFINE c == disk'
  <2>1. c \in written \/ c \in Persisting(p, v)
    BY <1>1
  <2> HIDE DEF c
  <2>2. Agree(c.views)
    BY <1>3, <1>4, <2>1, AgreePersisting
  <2> QED BY <1>2, <1>3, <1>4, <2>2 DEF c
<1>5. CASE load # "done"
  <2>1. disk' \in written \/ disk'.views = v
    BY <1>2, <1>3, <1>5
  <2>2. Agree(disk'.views)
    BY <1>3, <2>1
  <2> QED BY <1>2, <1>3, <1>5, <2>2
<1> QED BY <1>4, <1>5

\* A step that counts keeps the agreement.
LEMMA AddAgrees ==
    ASSUME UsageTypeOK, Agreed, load # "off", NEW n \in Nat, NEW key \in Key \cup {NoName},
           NEW p \in Contents, p.views = prefs.views,
           NEW written, ~early.torn => \A c \in written : Agree(c.views),
           Add(n, key, p, written), UNCHANGED <<load, fromDisk, hour>>
    PROVE  Agreed'
<1> DEFINE w == Counted(mem, n, key)
<1>0. /\ hour \in Hour /\ mem \in Views /\ prefs.views \in Views /\ fromDisk \in Views
      /\ early \in Flags /\ load \in {"off", "merge", "done"} \cup Maps
  BY Numbers
<1>1. w \in Views /\ Adds(mem, w, n, key) /\ AddsHours(mem, w, n, key)
  BY <1>0, CountedFacts, CountedHours
<1>2. /\ mem' = w
      /\ ticks + 1 >= PersistEvery => Persist(p, w, written)
      /\ ~(ticks + 1 >= PersistEvery) => prefs' = p /\ disk' \in written /\ early' = early
  BY DEF Add
<1> HIDE DEF w
<1>3. ~early.torn => Agree(w)
  BY <1>0, <1>1, AgreeCounted DEF Agreed
<1>4. Grows(prefs.views, mem) => Grows(prefs.views, w)
  BY <1>0, <1>1, GrowsCounted
<1>5. Grows(w, w)
  BY <1>1, GrowsSelf
<1>6. ASSUME ~early'.torn, ticks + 1 >= PersistEvery
      PROVE  /\ Agree(mem') /\ Agree(prefs'.views) /\ Agree(disk'.views)
             /\ load' = "merge" => /\ Agree(fromDisk')
                                   /\ Grows(prefs'.views, fromDisk') \/ Grows(prefs'.views, mem')
             /\ load' = "done" => Grows(prefs'.views, mem')
  <2>1. Persist(p, w, written)
    BY <1>2, <1>6
  <2>2. /\ ~early.torn => Agree(p.views) /\ Agree(w) /\ \A c \in written : Agree(c.views)
        /\ ~early.torn /\ load = "done" => Grows(p.views, w)
    BY <1>3, <1>4 DEF Agreed
  <2>3. prefs'.views = w /\ Agree(disk'.views) /\ ~early.torn
    BY <1>0, <1>1, <1>6, <2>1, <2>2, PersistAgrees
  <2>4. load = "merge" => Agree(fromDisk)
    BY <2>3 DEF Agreed
  <2> QED BY <1>2, <1>3, <1>5, <2>3, <2>4
<1>7. ASSUME ~early'.torn, ~(ticks + 1 >= PersistEvery)
      PROVE  /\ Agree(mem') /\ Agree(prefs'.views) /\ Agree(disk'.views)
             /\ load' = "merge" => /\ Agree(fromDisk')
                                   /\ Grows(prefs'.views, fromDisk') \/ Grows(prefs'.views, mem')
             /\ load' = "done" => Grows(prefs'.views, mem')
  <2>1. prefs'.views = prefs.views /\ ~early.torn /\ disk' \in written
    BY <1>2, <1>7
  <2>2. Agree(disk'.views)
    BY <2>1
  <2> QED BY <1>2, <1>3, <1>4, <2>1, <2>2 DEF Agreed
<1> QED BY <1>6, <1>7, SameHour

\* Every step keeps the agreement.
LEMMA NextAgreed ==
    ASSUME UInv, Agreed, [Next]_vars
    PROVE  Agreed'
<1>0. /\ UsageTypeOK /\ AsRead /\ prefs \in Contents /\ disk \in Contents
      /\ mem \in Views /\ fromDisk \in Views /\ hour \in Hour
      /\ prefs.views \in Views /\ disk.views \in Views /\ early \in Flags
      /\ load \in {"off", "merge", "done"} \cup Maps
  BY Numbers DEF UInv
<1>a. ~early.torn =>
        /\ Agree(mem) /\ Agree(prefs.views) /\ Agree(disk.views)
        /\ load = "merge" => /\ Agree(fromDisk)
                             /\ Grows(prefs.views, fromDisk) \/ Grows(prefs.views, mem)
        /\ load = "done" => Grows(prefs.views, mem)
  BY DEF Agreed
<1>1. CASE Start
  <2>1. load' = "daily" /\ UNCHANGED <<mem, prefs, disk, hour, early>>
    BY <1>1 DEF Start
  <2> QED BY <1>a, <2>1, SameHour
<1>2. CASE LoadRead
  <2>1. /\ UNCHANGED <<mem, prefs, disk, hour, early>> /\ load' \in {"merge"} \cup Maps
        /\ load' = "merge" => Reads("hourlyCfg", "merge",
                                    [fromDisk EXCEPT !.hourlyCfg = prefs.views.hourlyCfg])
    BY <1>0, <1>2, LoadReads DEF Reads
  <2>2. load' # "done"
    BY <2>1 DEF Maps
  <2> DEFINE f == [fromDisk EXCEPT !.hourlyCfg = prefs.views.hourlyCfg]
  <2>3. ASSUME ~early.torn, load' = "merge" PROVE fromDisk' = prefs.views
    <3>1. load = "hourlyCfg" /\ fromDisk' = f
      BY <2>1, <2>3 DEF Reads
    <3>2. /\ fromDisk.daily = prefs.views.daily /\ fromDisk.hourly = prefs.views.hourly
          /\ fromDisk.byConfig = prefs.views.byConfig /\ fromDisk.dailyCfg = prefs.views.dailyCfg
      BY <1>0, <2>3, <3>1 DEF AsRead
    <3>3. f = prefs.views
      BY <1>0, <3>2 DEF Views
    <3> QED BY <3>1, <3>3
  <2>4. Grows(prefs.views, prefs.views)
    BY <1>0, GrowsSelf
  <2> QED BY <1>a, <2>1, <2>2, <2>3, <2>4, SameHour
<1>3. CASE LoadMerge
  <2>1. /\ mem' = Merged(fromDisk, mem) /\ load = "merge" /\ load' = "done"
        /\ UNCHANGED <<prefs, disk, hour, early>>
    BY <1>3 DEF LoadMerge
  <2> DEFINE w == Merged(fromDisk, mem)
  <2>2. w \in Views
    BY <1>0, MergedFacts
  <2>3. ASSUME ~early.torn PROVE Agree(w) /\ Grows(fromDisk, w) /\ Grows(mem, w)
    BY <1>0, <1>a, <2>1, <2>3, AgreeMerged
  <2> HIDE DEF w
  <2>4. ASSUME ~early.torn PROVE Grows(prefs.views, w)
    <3>1. CASE Grows(prefs.views, fromDisk)
      BY <1>0, <2>2, <2>3, <2>4, <3>1, GrowsOn
    <3>2. CASE Grows(prefs.views, mem)
      BY <1>0, <2>2, <2>3, <2>4, <3>2, GrowsOn
    <3> QED BY <1>a, <2>1, <2>4, <3>1, <3>2
  <2>5. mem' = w
    BY <2>1 DEF w
  <2> QED BY <1>a, <2>1, <2>3, <2>4, <2>5, SameHour
<1>4. CASE Flush
  <2>1. /\ load # "off" /\ Persist(prefs, mem, {disk}) /\ UNCHANGED <<load, fromDisk, mem, hour>>
    BY <1>4 DEF Flush
  <2> DEFINE written == {disk}
  <2>2. /\ Persist(prefs, mem, written)
        /\ ~early.torn => Agree(prefs.views) /\ Agree(mem) /\ \A c \in written : Agree(c.views)
        /\ ~early.torn /\ load = "done" => Grows(prefs.views, mem)
    BY <1>a, <2>1
  <2> HIDE DEF written
  <2>3. ASSUME ~early'.torn PROVE prefs'.views = mem /\ Agree(disk'.views) /\ ~early.torn
    BY <1>0, <2>1, <2>2, <2>3, PersistAgrees
  <2>4. Grows(mem, mem)
    BY <1>0, GrowsSelf
  <2> QED BY <1>a, <2>1, <2>3, <2>4, SameHour
<1>5. CASE Written
  <2>1. disk' = prefs /\ UNCHANGED <<load, fromDisk, mem, prefs, hour, early>>
    BY <1>5 DEF Written
  <2> QED BY <1>a, <2>1, SameHour
<1>6. CASE Transfer
  <2>1. UNCHANGED <<load, fromDisk, mem, prefs, disk, hour, early>>
    BY <1>6 DEF Transfer
  <2> QED BY <1>a, <2>1, SameHour
<1>7. CASE Clock
  <2>1. hour' = hour + 1 /\ UNCHANGED <<load, fromDisk, mem, prefs, disk, early>>
    BY <1>7 DEF Clock
  <2>2. \A h \in Hour : h + Retention > hour' => h + Retention > hour
    BY <1>0, <2>1, FiniteKeys, UsageAssumption
  <2>3. Agree(mem) => Agree(mem)'
    BY <2>1, <2>2 DEF Agree
  <2>4. Agree(prefs.views) => Agree(prefs.views)'
    BY <2>1, <2>2 DEF Agree
  <2>5. Agree(disk.views) => Agree(disk.views)'
    BY <2>1, <2>2 DEF Agree
  <2>6. Agree(fromDisk) => Agree(fromDisk)'
    BY <2>1, <2>2 DEF Agree
  <2>7. Grows(prefs.views, mem) => Grows(prefs.views, mem)'
    BY <2>1, <2>2 DEF Grows
  <2>8. Grows(prefs.views, fromDisk) => Grows(prefs.views, fromDisk)'
    BY <2>1, <2>2 DEF Grows
  <2> QED BY <1>a, <2>1, <2>3, <2>4, <2>5, <2>6, <2>7, <2>8 DEF Agreed
<1>8. ASSUME NEW key \in Name \cup {NoName}, AddCounters(key) PROVE Agreed'
  <2>1. load # "off" /\ Add(1, key, prefs, {disk}) /\ UNCHANGED <<load, fromDisk, hour>>
    BY <1>8 DEF AddCounters
  <2>2. key \in Key \cup {NoName}
    BY DEF Key
  <2> DEFINE written == {disk}
             n == 1
  <2>3. /\ n \in Nat /\ Add(n, key, prefs, written)
        /\ ~early.torn => \A c \in written : Agree(c.views)
    BY <1>a, <2>1
  <2> HIDE DEF written, n
  <2> QED BY <1>0, <2>1, <2>2, <2>3, AddAgrees
<1>9. ASSUME NEW b \in BOOLEAN, SyncDirect(b) PROVE Agreed'
  <2>1. PICK p : /\ Sampled(p, b)
                 /\ \/ MayCount(DirectBytes) /\ Add(DirectBytes, Direct, p, {disk, p})
                    \/ prefs' = p /\ disk' \in {disk, p} /\ UNCHANGED <<mem, ticks, due, early>>
    BY <1>0, <1>9, SyncDirectCases
  <2>2. p \in Contents /\ p.views = prefs.views
    BY <2>1 DEF Sampled
  <2>3. load # "off" /\ UNCHANGED <<load, fromDisk, hour>>
    BY <1>9 DEF SyncDirect
  <2>4. CASE MayCount(DirectBytes) /\ Add(DirectBytes, Direct, p, {disk, p})
    <3> DEFINE written == {disk, p}
               n == DirectBytes
    <3>1. Direct \in Key \cup {NoName} /\ n \in Nat
      BY <1>0, DirectBytesFacts DEF Key
    <3>2. /\ Add(n, Direct, p, written)
          /\ ~early.torn => \A c \in written : Agree(c.views)
      BY <1>a, <2>2, <2>4
    <3> HIDE DEF written, n
    <3> QED BY <1>0, <2>2, <2>3, <3>1, <3>2, AddAgrees
  <2>5. CASE prefs' = p /\ disk' \in {disk, p} /\ UNCHANGED <<mem, ticks, due, early>>
    <3>1. /\ mem' = mem /\ prefs'.views = prefs.views /\ early' = early
          /\ disk'.views = disk.views \/ disk'.views = prefs.views
      BY <2>2, <2>5
    <3> QED BY <1>a, <2>3, <3>1, SameHour
  <2> QED BY <2>1, <2>4, <2>5
<1>10. ASSUME NEW b \in BOOLEAN, Die(b) PROVE Agreed'
  <2>1. /\ prefs' = disk /\ disk' = disk /\ load' = "off" /\ mem' = Empty /\ hour' = hour
        /\ early' = [early EXCEPT !.life = FALSE]
    BY <1>10 DEF Die
  <2>2. early'.torn = early.torn
    BY <1>0, <2>1 DEF Flags
  <2> QED BY <1>a, <2>1, <2>2, AgreeEmpty, SameHour
<1>11. CASE UNCHANGED vars
  <2>1. UNCHANGED <<load, fromDisk, mem, prefs, disk, hour, early>>
    BY <1>11 DEF vars
  <2> QED BY <1>a, <2>1, SameHour
<1> QED BY <1>1, <1>2, <1>3, <1>4, <1>5, <1>6, <1>7, <1>8, <1>9, <1>10, <1>11 DEF Next

\* The shares of the configs never exceed the totals they are shown with, in
\* memory and in what a crash leaves of a half-done persistAll(), unless a store
\* before the thread was done was cut short or came between two of its reads.
THEOREM SharesNeverExceed == Spec => []ViewsAgree
<1>1. Init => Agreed
  <2> SUFFICES ASSUME Init PROVE Agreed
    OBVIOUS
  <2>1. load = "off" /\ mem = Empty /\ prefs.views = Empty /\ disk = prefs
    BY DEF Init
  <2> QED BY <2>1, AgreeEmpty DEF Agreed
<1>2. UInv /\ [Next]_vars => UInv'
  BY NextUInv
<1>3. UInv /\ Agreed /\ [Next]_vars => Agreed'
  BY NextAgreed
<1>4. Agreed => ViewsAgree
  BY DEF Agreed, ViewsAgree
<1> QED BY <1>1, <1>2, <1>3, <1>4, InitUInv, PTL DEF Spec
=============================================================================
