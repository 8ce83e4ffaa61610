--------------------------- MODULE UsageStore ---------------------------
(***************************************************************************)
(* The data-usage history of the UI process.  Five maps of counters are    *)
(* kept in memory and in SharedPreferences: bytes per day, per hour, per   *)
(* config, and per day and hour for each config.  init() starts a thread   *)
(* that reads the stored maps and merges them into what has been counted   *)
(* meanwhile; add() counts once a second and stores all maps every         *)
(* PersistEvery-th time; flush() stores them on a disconnect; syncDirect() *)
(* counts what the device transferred without the VPN.                     *)
(*                                                                         *)
(* Upload and download are treated alike everywhere, so a pair of counters *)
(* is one number; a missing key is a count of 0.                           *)
(***************************************************************************)
EXTENDS Naturals, FiniteSets, FiniteSetsExt

CONSTANTS Name,          \* names of configs
          Direct, NoName, \* DIRECT_KEY, and no config key at all
          HoursPerDay,
          Retention,     \* HOURLY_RETENTION_HOURS
          PersistEvery,  \* ticks between two stores, 5 in the code
          MaxHour,       \* bound: the last hour
          MaxCount,      \* bound: bytes counted since the installation
          MaxRx,         \* bound: the device's own counter
          MaxDeaths      \* bound: how often the process dies

ASSUME UsageAssumption ==
    /\ Direct # NoName /\ Direct \notin Name /\ NoName \notin Name
    /\ IsFiniteSet(Name)
    /\ {HoursPerDay, Retention, PersistEvery} \subseteq Nat \ {0}
    /\ {MaxHour, MaxCount, MaxRx, MaxDeaths} \subseteq Nat

Key  == Name \cup {Direct}
Hour == 0..MaxHour
DayOf(h) == h \div HoursPerDay
Day  == 0..DayOf(MaxHour)

VARIABLES
  load,     \* the process: "off", or what its usage-load thread does next
  fromDisk, \* what the thread has read
  mem,      \* the five maps
  ticks,    \* ticksSincePersist
  prefs,    \* SharedPreferences: the maps and the last sample of syncDirect
  disk,     \* what a crash would leave of them
  hour,     \* the clock
  rx,       \* TrafficStats, from 0 since the last boot
  deaths,   \* auxiliary: how often the process has died
  passed,   \* auxiliary: what the device has transferred in all
  due,      \* auxiliary: the history as it should be
  early     \* auxiliary: which stores came before the thread was done

vars == <<load, fromDisk, mem, ticks, prefs, disk, hour, rx, deaths, passed, due, early>>

\* The maps, in the order in which they are read and stored.
Maps == {"daily", "hourly", "byConfig", "dailyCfg", "hourlyCfg"}

Views == [daily : [Day -> Nat], hourly : [Hour -> Nat], byConfig : [Key -> Nat],
          dailyCfg : [Day \X Key -> Nat], hourlyCfg : [Hour \X Key -> Nat]]

Empty == [daily |-> [d \in Day |-> 0], hourly |-> [h \in Hour |-> 0],
          byConfig |-> [k \in Key |-> 0],
          dailyCfg |-> [x \in Day \X Key |-> 0],
          hourlyCfg |-> [x \in Hour \X Key |-> 0]]

\* KEY_TS_RX and KEY_TS_OFF; -1 and false at first.
NoSample == [rx |-> 0, known |-> FALSE, off |-> FALSE]

Init == /\ load = "off" /\ fromDisk = Empty /\ mem = Empty /\ ticks = 0
        /\ prefs = [views |-> Empty, sample |-> NoSample]
        /\ disk = prefs
        /\ hour = 0 /\ rx = 0 /\ deaths = 0 /\ passed = 0
        /\ due = [daily |-> Empty.daily, byConfig |-> Empty.byConfig,
                  dailyCfg |-> Empty.dailyCfg]
        /\ early = [life |-> FALSE, ever |-> FALSE, torn |-> FALSE]

-----------------------------------------------------------------------------
(* The maps. *)

Bump(map, x, n) == [map EXCEPT ![x] = @ + n]

\* Mutant of Merge: what is in memory replaces what is on disk.
MergeReplaces(stored, map) == [x \in DOMAIN map |-> IF map[x] > 0 THEN map[x] ELSE stored[x]]

\* mergeCounts, mergeNested.
Merge(stored, map) == [x \in DOMAIN map |-> stored[x] + map[x]]

\* trimHourly drops the slots that began before now - Retention.  The clock is
\* past the full hour, so the slot Retention hours ago has begun before.
TrimHourly(map) == [h \in Hour |-> IF h + Retention > hour THEN map[h] ELSE 0]

\* trimHourlyCfg leaves a map alone that has few buckets, and keeps one slot more.
TrimHourlyCfg(map) ==
    IF Cardinality({h \in Hour : \E k \in Key : map[<<h, k>>] > 0}) <= Retention THEN map
    ELSE [x \in Hour \X Key |-> IF x[1] + Retention >= hour THEN map[x] ELSE 0]

\* add(n) for the key, in the maps that are never trimmed.
Lasting(v) == [daily |-> v.daily, byConfig |-> v.byConfig, dailyCfg |-> v.dailyCfg]

CountLasting(v, n, key) ==
    LET day == [v EXCEPT !.daily = Bump(@, DayOf(hour), n)]
    IN  IF key = NoName THEN day
        ELSE [day EXCEPT !.byConfig = Bump(@, key, n),
                         !.dailyCfg = Bump(@, <<DayOf(hour), key>>, n)]

\* ... and in all of them.
Counted(v, n, key) ==
    [CountLasting(v, n, key) EXCEPT
        !.hourly = TrimHourly(Bump(@, hour, n)),
        !.hourlyCfg = IF key = NoName THEN @
                      ELSE TrimHourlyCfg(Bump(@, <<hour, key>>, n))]

Merged(stored, v) ==
    [daily |-> Merge(stored.daily, v.daily),
     hourly |-> TrimHourly(Merge(stored.hourly, v.hourly)),
     byConfig |-> Merge(stored.byConfig, v.byConfig),
     dailyCfg |-> Merge(stored.dailyCfg, v.dailyCfg),
     hourlyCfg |-> TrimHourlyCfg(Merge(stored.hourlyCfg, v.hourlyCfg))]

-----------------------------------------------------------------------------
(* SharedPreferences.  apply() changes the contents in memory at once and    *)
(* writes them later: an operation may leave the disk alone or get any of    *)
(* the contents it went through written, and Written completes it.           *)

\* Mutant of Persisting: the maps per config are stored before the totals.
PersistingCfgFirst(p, v) ==
    LET o == p.views
    IN  {[p EXCEPT !.views = s] :
           s \in {[o EXCEPT !.dailyCfg = v.dailyCfg],
                  [o EXCEPT !.dailyCfg = v.dailyCfg, !.hourlyCfg = v.hourlyCfg],
                  v}}

\* The five persist calls, in their order, on top of the contents p.
Persisting(p, v) ==
    LET o == p.views
    IN  {[p EXCEPT !.views = s] :
           s \in {[o EXCEPT !.daily = v.daily],
                  [o EXCEPT !.daily = v.daily, !.hourly = v.hourly],
                  [v EXCEPT !.dailyCfg = o.dailyCfg, !.hourlyCfg = o.hourlyCfg],
                  [v EXCEPT !.hourlyCfg = o.hourlyCfg],
                  v}}

\* Nothing keeps a store back until the stored maps are read and merged.  early
\* notes the stores that came before: whether maps were replaced that the thread
\* had still to read, since the process started (life) or at any time (ever),
\* and whether a store was written only in part, or came between two reads, so
\* that old and new maps are mixed on disk or in fromDisk (torn).
NoteStore(written) ==
    LET unread == load \in Maps
        partly == load # "done" /\ disk' \notin written \cup {prefs'}
    IN  early' = [life |-> early.life \/ unread, ever |-> early.ever \/ unread,
                  torn |-> early.torn \/ (unread /\ load # "daily") \/ partly]

\* Mutant of Persist: the ticks are not reset.
PersistNoReset(p, v, written) ==
    /\ prefs' = [p EXCEPT !.views = v]
    /\ disk' \in written \cup Persisting(p, v)
    /\ ticks' = ticks + 1
    /\ NoteStore(written)

Persist(p, v, written) ==
    /\ prefs' = [p EXCEPT !.views = v]
    /\ disk' \in written \cup Persisting(p, v)
    /\ ticks' = 0
    /\ NoteStore(written)

\* add(n, key) on top of the contents p; written is what may be on disk so far.
Add(n, key, p, written) ==
    LET v == Counted(mem, n, key)
    IN  /\ mem' = v
        /\ due' = CountLasting(due, n, key)
        /\ IF ticks + 1 >= PersistEvery
           THEN Persist(p, v, written)
           ELSE ticks' = ticks + 1 /\ prefs' = p /\ disk' \in written /\ UNCHANGED early

\* Bound: the counts are limited.
MayCount(n) == MapThenSumSet(LAMBDA d : due.daily[d], Day) + n <= MaxCount

-----------------------------------------------------------------------------
(* The operations. *)

\* init(), in onCreate.
Start == /\ load = "off"
         /\ load' = "daily"
         /\ UNCHANGED <<fromDisk, mem, ticks, prefs, disk, hour, rx, deaths, passed, due, early>>

\* The thread reads the stored maps one by one and without the lock, ...
Read(map, next, maps) ==
    /\ load = map
    /\ load' = next /\ fromDisk' = maps
    /\ UNCHANGED <<mem, ticks, prefs, disk, hour, rx, deaths, passed, due, early>>

LoadRead ==
    LET o == prefs.views
    IN  \/ Read("daily", "hourly", [fromDisk EXCEPT !.daily = o.daily])
        \/ Read("hourly", "byConfig", [fromDisk EXCEPT !.hourly = o.hourly])
        \/ Read("byConfig", "dailyCfg", [fromDisk EXCEPT !.byConfig = o.byConfig])
        \/ Read("dailyCfg", "hourlyCfg", [fromDisk EXCEPT !.dailyCfg = o.dailyCfg])
        \/ Read("hourlyCfg", "merge", [fromDisk EXCEPT !.hourlyCfg = o.hourlyCfg])

\* ... and merges them with it.
LoadMerge == /\ load = "merge"
             /\ load' = "done" /\ mem' = Merged(fromDisk, mem)
             /\ fromDisk' = Empty
             /\ UNCHANGED <<ticks, prefs, disk, hour, rx, deaths, passed, due, early>>

\* The receiver counts what the VPN transferred in the last second.
AddCounters(key) ==
    /\ load # "off" /\ MayCount(1)
    /\ Add(1, key, prefs, {disk})
    /\ UNCHANGED <<load, fromDisk, hour, rx, deaths, passed>>

\* flush(), on a "disconnected" broadcast.
Flush == /\ load # "off"
         /\ Persist(prefs, mem, {disk})
         /\ UNCHANGED <<load, fromDisk, mem, hour, rx, deaths, passed, due>>

\* The device transferred more than at the last sample, which was taken with
\* the VPN off and since the last boot.
DirectBytes ==
    LET last == prefs.sample
    IN  IF last.off /\ last.known /\ rx > last.rx THEN rx - last.rx ELSE 0

\* Mutant of SyncDirect: the sample is stored after the bytes are counted.
SyncDirectLate(off) ==
    LET n == DirectBytes
        sample == [rx |-> rx, known |-> TRUE, off |-> off]
    IN  /\ load # "off"
        /\ n > 0 => MayCount(n)
        /\ mem' = IF n > 0 THEN Counted(mem, n, Direct) ELSE mem
        /\ due' = IF n > 0 THEN CountLasting(due, n, Direct) ELSE due
        /\ IF n > 0 /\ ticks + 1 >= PersistEvery
           THEN /\ prefs' = [views |-> mem', sample |-> sample]
                /\ disk' \in {disk, prefs'} \cup Persisting(prefs, mem')
                /\ ticks' = 0
                /\ NoteStore({disk})
           ELSE /\ prefs' = [prefs EXCEPT !.sample = sample]
                /\ disk' \in {disk, prefs'}
                /\ ticks' = IF n > 0 THEN ticks + 1 ELSE ticks
                /\ UNCHANGED early
        /\ UNCHANGED <<load, fromDisk, hour, rx, deaths, passed>>

\* syncDirect(): the new sample is stored first.
SyncDirect(off) ==
    LET n == DirectBytes
        p == [prefs EXCEPT !.sample = [rx |-> rx, known |-> TRUE, off |-> off]]
    IN  /\ load # "off"
        /\ \/ n > 0 /\ MayCount(n) /\ Add(n, Direct, p, {disk, p})
           \/ /\ n = 0
              /\ prefs' = p /\ disk' \in {disk, p}
              /\ UNCHANGED <<mem, ticks, due, early>>
        /\ UNCHANGED <<load, fromDisk, hour, rx, deaths, passed>>

\* Android has written the preferences.
Written == /\ disk' = prefs
           /\ UNCHANGED <<load, fromDisk, mem, ticks, prefs, hour, rx, deaths, passed, due, early>>

\* The process dies, alone or with the device.  Bound: it does so MaxDeaths times.
Die(boot) ==
    /\ deaths < MaxDeaths /\ deaths' = deaths + 1
    /\ prefs' = disk /\ due' = Lasting(disk.views)
    /\ UNCHANGED disk
    /\ load' = "off" /\ fromDisk' = Empty /\ mem' = Empty /\ ticks' = 0
    /\ rx' = IF boot THEN 0 ELSE rx
    /\ early' = [early EXCEPT !.life = FALSE]
    /\ UNCHANGED <<hour, passed>>

\* Data passes, and time.  Bound: passed and hour are limited.
Transfer == /\ passed < MaxRx
            /\ rx' = rx + 1 /\ passed' = passed + 1
            /\ UNCHANGED <<load, fromDisk, mem, ticks, prefs, disk, hour, deaths, due, early>>

Clock == /\ hour < MaxHour
         /\ hour' = hour + 1
         /\ UNCHANGED <<load, fromDisk, mem, ticks, prefs, disk, rx, deaths, passed, due, early>>

Next == \/ Start \/ LoadRead \/ LoadMerge \/ Flush \/ Written \/ Transfer \/ Clock
        \/ \E key \in Name \cup {NoName} : AddCounters(key)
        \/ \E b \in BOOLEAN : SyncDirect(b) \/ Die(b)

Spec == Init /\ [][Next]_vars

-----------------------------------------------------------------------------
(* Properties. *)

Contents == [views : Views, sample : [rx : Nat, known : BOOLEAN, off : BOOLEAN]]

\* Every variable has its type, and the maps are stored in time.
UsageTypeOK ==
    /\ load \in {"off", "merge", "done"} \cup Maps
    /\ fromDisk \in Views /\ mem \in Views
    /\ ticks \in 0..(PersistEvery - 1)
    /\ prefs \in Contents /\ disk \in Contents
    /\ hour \in Hour /\ rx \in Nat /\ deaths \in Nat /\ passed \in Nat
    /\ due \in [daily : [Day -> Nat], byConfig : [Key -> Nat], dailyCfg : [Day \X Key -> Nat]]
    /\ early \in [life : BOOLEAN, ever : BOOLEAN, torn : BOOLEAN]

\* README: there is a data-usage history.  Once the stored maps are read, the
\* maps hold what was stored before and what was counted since, no more and no
\* less.  The code does not keep this: a flush() or a fifth add() before the
\* thread has read a map replaces what was stored by what was counted since the
\* start, which the thread then reads and counts a second time.
HistoryKept == load = "done" => Lasting(mem) = due

\* It keeps it in every process that replaces no map before the thread has read
\* it, whatever is counted while the thread reads or stored before it merges.
KeptUnlessEarly == ~early.life => HistoryKept

\* The shares of the configs in a day or an hour, and those of a config in the days.
Shares(map, t) == MapThenSumSet(LAMBDA k : map[<<t, k>>], Key)
OfConfig(map, k) == MapThenSumSet(LAMBDA d : map[<<d, k>>], Day)

Agree(v) ==
    /\ \A d \in Day : Shares(v.dailyCfg, d) <= v.daily[d]
    /\ \A k \in Key : OfConfig(v.dailyCfg, k) <= v.byConfig[k]
    /\ \A h \in Hour : h + Retention > hour => Shares(v.hourlyCfg, h) <= v.hourly[h]

\* The maps are stored one after the other and a crash may come in between.
\* All the same the shares of the configs never exceed the totals they are
\* shown with: per day, per hour as long as hours are kept, and for all time.
\* Only a store that came before the thread was done and was cut short, or came
\* between two of its reads, can put new totals beside old shares.
ViewsAgree == ~early.torn => Agree(mem) /\ Agree(disk.views)

\* No byte of the device is counted twice as direct, although the sample and
\* the counts are stored at different times and a crash may come in between.
\* After a store before the maps were read, a byte may be counted twice, but
\* never a third time, however often that happens.
DirectOnce == mem.byConfig[Direct] <= IF early.ever THEN 2 * passed ELSE passed
=============================================================================
