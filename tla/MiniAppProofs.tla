---------------------------- MODULE MiniAppProofs ----------------------------
(***************************************************************************)
(* Safety of MiniApp for any number of users, threads, periods, tokens and *)
(* wallets, and any size of the caches and windows.                        *)
(***************************************************************************)
EXTENDS MiniApp, FiniteSetTheorems, SequenceTheorems, WellFoundedInduction, TLAPS

(* A token that was read at a time when it was the bot's, and that nobody  *)
(* uses from time end on.                                                  *)
Serves(token, end) ==
  /\ token \in 1 .. bot
  /\ token # bot => end <= retired[token] + SecretTtl + FetchTimeout

SecretsInv ==
  \A i \in DOMAIN secrets : secrets[i].path = BotPath =>
    Serves(secrets[i].value, secrets[i].exp) /\ secrets[i].exp <= now + SecretTtl

(* At time t a deque holds the last of the requests let through; those it  *)
(* no longer holds are older than a window.  Each request was when the     *)
(* MaxPerUser-th after it was let through, which bears a time that may be  *)
(* LockWait earlier; their times need not be in order.                     *)
HoldsLast(all, held, t) ==
  LET n == Len(all)  m == Len(held)
  IN  /\ m <= n
      /\ \A i \in 1 .. m : held[i] = all[n - m + i]
      /\ \A i \in 1 .. n : all[i] <= t
      /\ \A i \in 1 .. n - m : all[i] <= t - Window
      /\ \A i, j \in 1 .. n : i + MaxPerUser <= j => all[i] <= all[j] + LockWait - Window

WindowInv(u) == HoldsLast(passed[u], events[u], now)

(* A cached snapshot is what its key says, and expires one lifetime after  *)
(* a fetch that began when its data was read.                              *)
SnapshotsInv ==
  \A k \in DOMAIN snapshots :
    LET e == snapshots[k]
    IN  /\ k[2] = e.snap.wallet /\ k[3] = e.snap.period
        /\ e.exp <= e.snap.at + FetchTimeout + SnapshotTtl

(* Time passes only while a thread is reading from the vault or Zerion or  *)
(* waiting for a limiter's lock.                                           *)
StageInv(q) ==
  /\ q.pc \in {"store", "fetch"} => q.since <= now /\ now <= q.since + FetchTimeout
  /\ q.pc = "store" => Serves(q.token, q.since + SecretTtl + FetchTimeout)
  /\ q.pc = "user" => Serves(q.token, q.t + 1)
  /\ q.pc \in {"user", "ip"} => q.t <= now /\ now <= q.t + LockWait
  /\ q.pc = "reply" =>
       /\ q.reply.wallet = q.wallet /\ q.reply.period = NormalizeChartPeriod(q.period)
       /\ q.reply.at + SnapshotTtl + FetchTimeout >= now

IInv ==
  /\ TypeOK
  /\ SecretsInv
  /\ \A u \in Users : WindowInv(u)
  /\ SnapshotsInv
  /\ \A r \in Requests : StageInv(req[r])

-----------------------------------------------------------------------------
(* The intervals below the elements are ordered by inclusion.              *)
LEMMA LeastElement ==
  ASSUME NEW S \in SUBSET Nat, S # {}
  PROVE  \E x \in S : \A y \in S : x <= y
<1> DEFINE T == {1 .. x : x \in S}
<1>1. T \subseteq FiniteSubsetsOf(Nat) /\ T # {}
  <2>1. \A x \in S : 1 .. x \in SUBSET Nat /\ IsFiniteSet(1 .. x)
    BY FS_Interval
  <2> QED BY <2>1 DEF FiniteSubsetsOf
<1>2. PICK t \in T : \A s \in T : ~ (<<s, t>> \in StrictSubsetOrdering(Nat))
  BY <1>1, WFMin, FS_StrictSubsetOrderingWellFounded
<1>3. PICK x \in S : t = 1 .. x
  OBVIOUS
<1>4. ASSUME NEW y \in S, y < x PROVE FALSE
  <2>1. 1 .. y \subseteq 1 .. x /\ x \in 1 .. x /\ x \notin 1 .. y
    BY <1>4
  <2>2. <<1 .. y, t>> \in StrictSubsetOrdering(Nat)
    BY <1>3, <2>1 DEF StrictSubsetOrdering
  <2> QED BY <1>2, <2>2
<1>5. \A y \in S : x <= y
  BY <1>4
<1> QED BY <1>5

(* Each number of ConstantsAssumption by itself.                           *)
LEMMA Constants ==
  /\ MaxPerUser \in Nat /\ MaxPerUser > 0 /\ Window \in Nat /\ Window > 0
  /\ SnapshotTtl \in Nat /\ SnapshotTtl > 0 /\ SecretTtl \in Nat /\ SecretTtl > 0
  /\ MaxSnapshots \in Nat /\ MaxSnapshots > 0 /\ MaxSecrets \in Nat /\ MaxSecrets > 0
  /\ FetchTimeout \in Nat /\ LockWait \in Nat /\ MaxTokens \in Nat /\ MaxTokens > 0
  /\ MaxTime \in Nat /\ MaxPosts \in Nat
  /\ MaxWallets \in [Users -> Nat] /\ Ip \notin Users
BY ConstantsAssumption

(* popleft takes the events out of a deque that are older than a window.   *)
LEMMA RecentSplit ==
  ASSUME NEW times \in Seq(Nat), NEW t \in Nat
  PROVE  \E k \in 0 .. Len(times) :
           /\ Recent(times, t) = SubSeq(times, k + 1, Len(times))
           /\ \A i \in 1 .. k : times[i] <= t - Window
<1> DEFINE n == Len(times)
           Left == {k \in 0 .. n : k < n => times[k + 1] > t - Window}
           old == CHOOSE k \in 0 .. n : Expired(times, t, k)
<1>1. n \in Nat /\ (\A i \in 1 .. n : times[i] \in Nat) /\ Window \in Nat
  <2>1. Window \in Nat
    BY Constants
  <2>2. n \in Nat /\ \A i \in 1 .. n : times[i] \in Nat
    OBVIOUS
  <2> QED BY <2>1, <2>2
<1>2. \E k \in 0 .. n : Expired(times, t, k)
  <2>1. Left \in SUBSET Nat /\ n \in Left
    BY <1>1
  <2>2. PICK k \in Left : \A j \in Left : k <= j
    BY <2>1, LeastElement
  <2>3. ASSUME NEW i \in 1 .. k PROVE times[i] <= t - Window
    <3>1. i - 1 \in 0 .. n /\ i - 1 < k /\ i - 1 < n /\ (i - 1) + 1 = i /\ times[i] \in Nat
      BY <1>1, <2>2
    <3>2. i - 1 \notin Left
      BY <2>2, <3>1
    <3> QED BY <1>1, <3>1, <3>2
  <2> QED BY <2>2, <2>3 DEF Expired
<1>3. old \in 0 .. n /\ Expired(times, t, old)
  BY <1>2
<1>4. Recent(times, t) = SubSeq(times, old + 1, n)
  BY DEF Recent
<1> HIDE DEF old
<1> QED BY <1>3, <1>4 DEF Expired

(* A cache without one of its entries.                                     *)
LEMMA WithoutEntries ==
  ASSUME NEW S, NEW c \in Seq(S), NEW path
  PROVE  /\ Without(c, path) \in Seq(S)
         /\ Len(Without(c, path)) = IF Holds(c, path) THEN Len(c) - 1 ELSE Len(c)
         /\ \A i \in DOMAIN Without(c, path) : \E j \in DOMAIN c : Without(c, path)[i] = c[j]
<1>1. CASE ~Holds(c, path)
  BY <1>1 DEF Without
<1>2. CASE Holds(c, path)
  <2> DEFINE p == Position(c, path)
             a == SubSeq(c, 1, p - 1)
             b == SubSeq(c, p + 1, Len(c))
  <2>1. p \in 1 .. Len(c)
    BY <1>2 DEF Holds, Position
  <2>2. Without(c, path) = a \o b
    BY <1>2 DEF Without, RemoveAt
  <2> HIDE DEF p
  <2>3. /\ a \in Seq(S) /\ Len(a) = p - 1 /\ \A i \in 1 .. Len(a) : a[i] = c[i]
        /\ b \in Seq(S) /\ Len(b) = Len(c) - p /\ \A i \in 1 .. Len(b) : b[i] = c[p + i]
    BY <2>1
  <2> HIDE DEF a, b
  <2>4. /\ a \o b \in Seq(S) /\ Len(a \o b) = Len(a) + Len(b)
        /\ \A i \in 1 .. Len(a) + Len(b) :
             (a \o b)[i] = IF i <= Len(a) THEN a[i] ELSE b[i - Len(a)]
    BY <2>3, ConcatProperties
  <2>5. ASSUME NEW i \in 1 .. Len(a \o b) PROVE \E j \in 1 .. Len(c) : (a \o b)[i] = c[j]
    <3>1. CASE i <= Len(a)
      <4>1. (a \o b)[i] = c[i] /\ i \in 1 .. Len(c)
        BY <2>1, <2>3, <2>4, <3>1
      <4> QED BY <4>1
    <3>2. CASE i > Len(a)
      <4>1. (a \o b)[i] = b[i - Len(a)] /\ i - Len(a) \in 1 .. Len(b)
        BY <2>1, <2>3, <2>4, <3>2
      <4>2. b[i - Len(a)] = c[p + (i - Len(a))] /\ p + (i - Len(a)) \in 1 .. Len(c)
        BY <2>1, <2>3, <4>1
      <4> QED BY <4>1, <4>2
    <3> QED BY <2>1, <2>3, <3>1, <3>2
  <2>6. Len(a \o b) = Len(c) - 1
    BY <2>1, <2>3, <2>4
  <2>7. DOMAIN c = 1 .. Len(c) /\ DOMAIN (a \o b) = 1 .. Len(a \o b)
    BY <2>4, LenProperties
  <2> QED BY <1>2, <2>2, <2>4, <2>5, <2>6, <2>7
<1> QED BY <1>1, <1>2

LEMMA EntryHeld ==
  ASSUME NEW S, NEW c \in Seq(S), NEW path, Holds(c, path)
  PROVE  \E j \in DOMAIN c : Entry(c, path) = c[j] /\ c[j].path = path
<1>1. Position(c, path) \in DOMAIN c /\ c[Position(c, path)].path = path
  BY DEF Holds, Position
<1> QED BY <1>1 DEF Entry

LEMMA AppendEntries ==
  ASSUME NEW S, NEW c \in Seq(S), NEW e \in S
  PROVE  /\ Append(c, e) \in Seq(S) /\ Len(Append(c, e)) = Len(c) + 1
         /\ \A i \in DOMAIN Append(c, e) :
              \/ \E j \in DOMAIN c : Append(c, e)[i] = c[j]
              \/ Append(c, e)[i] = e
OBVIOUS

(* A look into the cache adds nothing.                                     *)
LEMMA TouchedEntries ==
  ASSUME NEW S, NEW c \in Seq(S), NEW path
  PROVE  /\ Touched(c, path) \in Seq(S) /\ Len(Touched(c, path)) <= Len(c)
         /\ \A i \in DOMAIN Touched(c, path) : \E j \in DOMAIN c : Touched(c, path)[i] = c[j]
<1> DEFINE w == Without(c, path)
<1>1. /\ w \in Seq(S) /\ Len(w) = (IF Holds(c, path) THEN Len(c) - 1 ELSE Len(c))
      /\ \A i \in DOMAIN w : \E j \in DOMAIN c : w[i] = c[j]
  BY WithoutEntries
<1>2. CASE ~Holds(c, path)
  BY <1>2 DEF Touched
<1>3. CASE Holds(c, path) /\ ~Hit(c, path)
  BY <1>1, <1>3 DEF Touched
<1>4. CASE Holds(c, path) /\ Hit(c, path)
  <2> DEFINE e == Entry(c, path)
             s == Append(w, e)
  <2>1. e \in S /\ \E j \in DOMAIN c : e = c[j]
    BY <1>4, EntryHeld, LenProperties
  <2>2. Touched(c, path) = s
    BY <1>4 DEF Touched
  <2> HIDE DEF w, e
  <2>3. /\ s \in Seq(S) /\ Len(s) = Len(w) + 1
        /\ \A i \in DOMAIN s : (\E j \in DOMAIN w : s[i] = w[j]) \/ s[i] = e
    BY <1>1, <2>1, AppendEntries
  <2> HIDE DEF s
  <2>5. Len(c) \in Nat
    OBVIOUS
  <2> QED BY <1>1, <1>4, <2>1, <2>2, <2>3, <2>5
<1> QED BY <1>2, <1>3, <1>4

(* What is stored is one new entry beside old ones, within the size.       *)
LEMMA StoredEntries ==
  ASSUME NEW c \in Seq(SecretEntries), Len(c) <= MaxSecrets, now \in Nat,
         NEW path \in {BotPath, OtherPath}, NEW value \in 0 .. MaxTokens
  PROVE  LET e == [path |-> path, value |-> value, exp |-> now + SecretTtl]
             s == Stored(c, path, value)
         IN  /\ s \in Seq(SecretEntries) /\ Len(s) <= MaxSecrets
             /\ \A i \in DOMAIN s : s[i] = e \/ \E j \in DOMAIN c : s[i] = c[j]
<1> DEFINE e == [path |-> path, value |-> value, exp |-> now + SecretTtl]
           w == Without(c, path)
           all == Append(w, e)
           s == Stored(c, path, value)
<1>1. SecretTtl \in Nat /\ MaxSecrets \in Nat \ {0}
  BY ConstantsAssumption
<1>2. e \in SecretEntries
  BY <1>1 DEF SecretEntries
<1>3. s = IF Len(all) > MaxSecrets THEN Tail(all) ELSE all
  BY DEF Stored
<1> HIDE DEF e, s
<1>4. /\ w \in Seq(SecretEntries) /\ Len(w) \in Nat /\ Len(w) <= MaxSecrets
      /\ \A i \in DOMAIN w : \E j \in DOMAIN c : w[i] = c[j]
  BY <1>1, WithoutEntries
<1> HIDE DEF w
<1>5. /\ all \in Seq(SecretEntries) /\ Len(all) = Len(w) + 1
      /\ \A i \in DOMAIN all : all[i] = e \/ \E j \in DOMAIN w : all[i] = w[j]
  BY <1>2, <1>4
<1> HIDE DEF all
<1>6. \A i \in DOMAIN all : all[i] = e \/ \E j \in DOMAIN c : all[i] = c[j]
  BY <1>4, <1>5
<1>7. CASE Len(all) > MaxSecrets
  <2>1. s = Tail(all) /\ Len(s) = Len(all) - 1 /\ s \in Seq(SecretEntries)
    BY <1>1, <1>3, <1>4, <1>5, <1>7
  <2>2. \A i \in DOMAIN s : i + 1 \in DOMAIN all /\ s[i] = all[i + 1]
    BY <1>5, <2>1
  <2>3. Len(s) <= MaxSecrets /\ \A i \in DOMAIN s : s[i] = e \/ \E j \in DOMAIN c : s[i] = c[j]
    BY <1>1, <1>4, <1>5, <1>6, <2>1, <2>2
  <2> QED BY <2>1, <2>3 DEF e, s
<1>8. CASE ~ (Len(all) > MaxSecrets)
  BY <1>1, <1>3, <1>4, <1>5, <1>6, <1>8 DEF e, s
<1> QED BY <1>7, <1>8

-----------------------------------------------------------------------------
(* What a thread holds at each step.                                       *)
LEMMA StageTypes ==
  ASSUME NEW q \in Stages
  PROVE  /\ q.pc \in {"idle", "store", "user", "ip", "wallet", "cache", "fetch", "reply"}
         /\ q.pc = "idle" <=> q = Idle
         /\ q.pc \notin {"idle", "reply"} => q.user \in Users
         /\ q.pc \in {"store", "user"} => q.token \in Tokens
         /\ q.pc \in {"user", "ip"} => q.t \in Times
         /\ q.pc \in {"store", "fetch"} => q.since \in Times
         /\ q.pc \in {"cache", "fetch", "reply"} => q.period \in Periods /\ q.wallet \in Wallets
         /\ q.pc = "reply" => q.reply \in Snapshots
BY DEF Stages, Idle

LEMMA StoresOtherSecret ==
  ASSUME TypeOK, ReadOtherSecret
  PROVE  /\ secrets' \in Seq(SecretEntries) /\ Len(secrets') <= MaxSecrets
         /\ \A i \in DOMAIN secrets' :
              secrets'[i].path = OtherPath \/ \E j \in DOMAIN secrets : secrets'[i] = secrets[j]
<1> DEFINE seen == Touched(secrets, OtherPath)
<1>1. /\ seen \in Seq(SecretEntries) /\ Len(seen) \in Nat /\ Len(seen) <= MaxSecrets
      /\ \A i \in DOMAIN seen : \E j \in DOMAIN secrets : seen[i] = secrets[j]
  <2>1. secrets \in Seq(SecretEntries) /\ Len(secrets) <= MaxSecrets /\ Len(secrets) \in Nat
    BY DEF TypeOK
  <2>2. /\ seen \in Seq(SecretEntries) /\ Len(seen) <= Len(secrets)
        /\ \A i \in DOMAIN seen : \E j \in DOMAIN secrets : seen[i] = secrets[j]
    BY <2>1, TouchedEntries
  <2> HIDE DEF seen
  <2> QED BY <2>1, <2>2, Constants
<1> HIDE DEF seen
<1>2. secrets' = IF Hit(secrets, OtherPath) THEN seen ELSE Stored(seen, OtherPath, 0)
  BY DEF ReadOtherSecret, seen
<1>3. CASE Hit(secrets, OtherPath)
  BY <1>1, <1>2, <1>3
<1>4. CASE ~Hit(secrets, OtherPath)
  <2>1. now \in Nat /\ 0 \in 0 .. MaxTokens
    BY Constants DEF TypeOK, Times
  <2>2. LET e == [path |-> OtherPath, value |-> 0, exp |-> now + SecretTtl]
            s == Stored(seen, OtherPath, 0)
        IN  /\ s \in Seq(SecretEntries) /\ Len(s) <= MaxSecrets
            /\ \A i \in DOMAIN s : s[i] = e \/ \E j \in DOMAIN seen : s[i] = seen[j]
    BY <1>1, <2>1, StoredEntries
  <2> QED BY <1>1, <1>2, <1>4, <2>2
<1> QED BY <1>3, <1>4

(* The purge leaves entries of the cache only.                             *)
LEMMA PurgedTypes ==
  ASSUME TypeOK
  PROVE  /\ DOMAIN Purged(snapshots) = {k \in DOMAIN snapshots : now < snapshots[k].exp}
         /\ \A k \in DOMAIN Purged(snapshots) : Purged(snapshots)[k] = snapshots[k]
         /\ Purged(snapshots) \in [DOMAIN Purged(snapshots) -> [snap: Snapshots, exp: Nat]]
         /\ IsFiniteSet(DOMAIN Purged(snapshots))
         /\ Cardinality(DOMAIN Purged(snapshots)) \in Nat
         /\ Cardinality(DOMAIN Purged(snapshots)) <= MaxSnapshots
<1>1. /\ DOMAIN Purged(snapshots) = {k \in DOMAIN snapshots : now < snapshots[k].exp}
      /\ \A k \in DOMAIN Purged(snapshots) : Purged(snapshots)[k] = snapshots[k]
  BY DEF Purged
<1>2. Purged(snapshots) \in [DOMAIN Purged(snapshots) -> [snap: Snapshots, exp: Nat]]
  BY DEF Purged, TypeOK
<1>3. /\ IsFiniteSet(DOMAIN Purged(snapshots))
      /\ Cardinality(DOMAIN Purged(snapshots)) <= Cardinality(DOMAIN snapshots)
  <2>1. DOMAIN Purged(snapshots) \in SUBSET (DOMAIN snapshots) /\ IsFiniteSet(DOMAIN snapshots)
    BY <1>1 DEF TypeOK
  <2> QED BY <2>1, FS_Subset
<1>4. /\ Cardinality(DOMAIN Purged(snapshots)) \in Nat
      /\ Cardinality(DOMAIN snapshots) \in Nat /\ Cardinality(DOMAIN snapshots) <= MaxSnapshots
  BY <1>3, FS_CardinalityType DEF TypeOK
<1> QED BY <1>1, <1>2, <1>3, <1>4, Constants

(* Storing a snapshot: every entry is an unexpired one or the new one, and *)
(* the cache stays within its size.                                        *)
LEMMA StoresSnapshot ==
  ASSUME TypeOK, NEW r \in Requests, StoreSnapshot(r)
  PROVE  LET q == req[r]
             snap == [wallet |-> q.wallet, period |-> NormalizeChartPeriod(q.period),
                      at |-> q.since]
         IN  /\ snap \in Snapshots
             /\ IsFiniteSet(DOMAIN snapshots') /\ Cardinality(DOMAIN snapshots') <= MaxSnapshots
             /\ snapshots' \in [DOMAIN snapshots' -> [snap: Snapshots, exp: Nat]]
             /\ \A k \in DOMAIN snapshots' :
                  \/ k \in DOMAIN snapshots /\ snapshots'[k] = snapshots[k]
                  \/ k = CacheKey(q) /\ snapshots'[k] = [snap |-> snap, exp |-> now + SnapshotTtl]
<1> DEFINE q == req[r]
           snap == [wallet |-> q.wallet, period |-> NormalizeChartPeriod(q.period),
                    at |-> q.since]
           k0 == CacheKey(q)
           old == Purged(snapshots)
           new == [snap |-> snap, exp |-> now + SnapshotTtl]
           all == [j \in DOMAIN old \cup {k0} |-> IF j = k0 THEN new ELSE old[j]]
           Entries == [snap: Snapshots, exp: Nat]
<1>1. snap \in Snapshots /\ new \in Entries
  <2>1. q \in Stages /\ q.pc = "fetch" /\ now \in Times
    BY DEF TypeOK, StoreSnapshot
  <2>2. q.wallet \in Wallets /\ q.since \in Times
    BY <2>1, StageTypes
  <2>3. NormalizeChartPeriod(q.period) \in Charts
    BY DEF NormalizeChartPeriod, Charts
  <2> QED BY <2>1, <2>2, <2>3, Constants DEF Snapshots, Times
<1>2. /\ IsFiniteSet(DOMAIN old) /\ Cardinality(DOMAIN old) \in Nat
      /\ Cardinality(DOMAIN old) <= MaxSnapshots
      /\ \A k \in DOMAIN old : k \in DOMAIN snapshots /\ old[k] = snapshots[k] /\ old[k] \in Entries
  BY PurgedTypes
<1>3. \/ snapshots' = all /\ Cardinality(DOMAIN all) <= MaxSnapshots
      \/ \E out \in DOMAIN all : snapshots' = [j \in DOMAIN all \ {out} |-> all[j]]
  BY DEF StoreSnapshot
<1> HIDE DEF snap, k0, old, new
<1>4. /\ DOMAIN all = DOMAIN old \cup {k0}
      /\ \A k \in DOMAIN all : /\ all[k] \in Entries
                             /\ \/ k = k0 /\ all[k] = new
                                \/ k \in DOMAIN old /\ all[k] = old[k]
  BY <1>1, <1>2
<1> HIDE DEF all
<1>5. /\ IsFiniteSet(DOMAIN all) /\ Cardinality(DOMAIN all) \in Nat
      /\ Cardinality(DOMAIN all) <= MaxSnapshots + 1
  <2>1. /\ IsFiniteSet(DOMAIN old \cup {k0})
        /\ Cardinality(DOMAIN old \cup {k0}) =
             IF k0 \in DOMAIN old THEN Cardinality(DOMAIN old) ELSE Cardinality(DOMAIN old) + 1
    BY <1>2, FS_AddElement
  <2> QED BY <1>2, <1>4, <2>1, Constants
<1>6. IsFiniteSet(DOMAIN snapshots') /\ Cardinality(DOMAIN snapshots') <= MaxSnapshots
  <2>1. ASSUME NEW out \in DOMAIN all, snapshots' = [j \in DOMAIN all \ {out} |-> all[j]]
        PROVE  IsFiniteSet(DOMAIN snapshots') /\ Cardinality(DOMAIN snapshots') <= MaxSnapshots
    <3>1. /\ IsFiniteSet(DOMAIN all \ {out})
          /\ Cardinality(DOMAIN all \ {out}) = Cardinality(DOMAIN all) - 1
      BY <1>5, FS_RemoveElement
    <3> QED BY <1>5, <2>1, <3>1, Constants
  <2> QED BY <1>3, <1>5, <2>1
<1>7. /\ snapshots' \in [DOMAIN snapshots' -> Entries]
      /\ \A k \in DOMAIN snapshots' : k \in DOMAIN all /\ snapshots'[k] = all[k]
  <2>1. CASE snapshots' = all
    <3>1. all = [j \in DOMAIN all |-> all[j]]
      BY DEF all
    <3> QED BY <1>4, <2>1, <3>1
  <2>2. ASSUME NEW out \in DOMAIN all, snapshots' = [j \in DOMAIN all \ {out} |-> all[j]]
        PROVE  /\ snapshots' \in [DOMAIN snapshots' -> Entries]
               /\ \A k \in DOMAIN snapshots' : k \in DOMAIN all /\ snapshots'[k] = all[k]
    BY <1>4, <2>2
  <2> QED BY <1>3, <2>1, <2>2
<1>8. \A k \in DOMAIN snapshots' :
        \/ k \in DOMAIN snapshots /\ snapshots'[k] = snapshots[k]
        \/ k = k0 /\ snapshots'[k] = new
  BY <1>2, <1>4, <1>7
<1> QED BY <1>1, <1>6, <1>7, <1>8 DEF snap, k0, new

-----------------------------------------------------------------------------
LEMMA TimePasses ==
  ASSUME NEW all \in Seq(Nat), NEW held \in Seq(Nat), NEW t \in Nat, NEW u \in Nat, t <= u,
         HoldsLast(all, held, t)
  PROVE  HoldsLast(all, held, u)
<1>1. Len(all) \in Nat /\ Len(held) \in Nat /\ Window \in Nat
      /\ \A i \in 1 .. Len(all) : all[i] \in Nat
  BY Constants
<1>2. \A i \in 1 .. Len(all) : all[i] <= t => all[i] <= u
  BY <1>1
<1>3. \A i \in 1 .. Len(all) : all[i] <= t - Window => all[i] <= u - Window
  BY <1>1
<1>4. \A i \in 1 .. Len(all) - Len(held) : i \in 1 .. Len(all)
  BY <1>1
<1> QED BY <1>2, <1>3, <1>4 DEF HoldsLast

LEMMA Pops ==
  ASSUME NEW all \in Seq(Nat), NEW held \in Seq(Nat), NEW t \in Nat,
         HoldsLast(all, held, t), NEW k \in 0 .. Len(held),
         \A i \in 1 .. k : held[i] <= t - Window
  PROVE  HoldsLast(all, SubSeq(held, k + 1, Len(held)), t)
<1> DEFINE n == Len(all)  m == Len(held)  rest == SubSeq(held, k + 1, m)
<1>1. n \in Nat /\ m \in Nat /\ m <= n /\ k \in 0 .. m
  BY DEF HoldsLast
<1>2. Len(rest) = m - k /\ \A i \in 1 .. m - k : rest[i] = held[k + i]
  OBVIOUS
<1> HIDE DEF rest
<1>3. ASSUME NEW i \in 1 .. m - k PROVE rest[i] = all[n - (m - k) + i]
  <2>1. k + i \in 1 .. m /\ n - m + (k + i) = n - (m - k) + i
    BY <1>1
  <2> QED BY <1>2, <2>1 DEF HoldsLast
<1>4. ASSUME NEW i \in 1 .. n - (m - k) PROVE all[i] <= t - Window
  <2>1. CASE i <= n - m
    BY <1>1, <2>1 DEF HoldsLast
  <2>2. CASE i > n - m
    <3>1. i - (n - m) \in 1 .. k /\ i - (n - m) \in 1 .. m /\ n - m + (i - (n - m)) = i
      BY <1>1, <2>2
    <3> QED BY <3>1 DEF HoldsLast
  <2> QED BY <1>1, <2>1, <2>2
<1>5. /\ \A i \in 1 .. n : all[i] <= t
      /\ \A i, j \in 1 .. n : i + MaxPerUser <= j => all[i] <= all[j] + LockWait - Window
  BY DEF HoldsLast
<1>6. Len(rest) \in Nat /\ Len(rest) <= n
  BY <1>1, <1>2
<1>7. HoldsLast(all, rest, t)
  BY <1>2, <1>3, <1>4, <1>5, <1>6 DEF HoldsLast
<1> QED BY <1>7 DEF rest

(* The admitted thread read the clock at s and has the lock at t.          *)
LEMMA Admits ==
  ASSUME NEW all \in Seq(Nat), NEW held \in Seq(Nat), NEW t \in Nat,
         HoldsLast(all, held, t), Len(held) < MaxPerUser,
         NEW s \in Nat, s <= t, t <= s + LockWait
  PROVE  HoldsLast(Append(all, s), Append(held, s), t)
<1> DEFINE n == Len(all)  m == Len(held)  a == Append(all, s)  h == Append(held, s)
<1>1. /\ n \in Nat /\ m \in Nat /\ m <= n /\ MaxPerUser \in Nat /\ MaxPerUser > 0
      /\ Window \in Nat /\ LockWait \in Nat
      /\ \A i \in 1 .. n : all[i] \in Nat
  BY Constants DEF HoldsLast
<1>2. /\ Len(a) = n + 1 /\ a[n + 1] = s /\ \A i \in 1 .. n : a[i] = all[i]
      /\ Len(h) = m + 1 /\ h[m + 1] = s /\ \A i \in 1 .. m : h[i] = held[i]
  OBVIOUS
<1> HIDE DEF a, h
<1>3. ASSUME NEW i \in 1 .. m + 1 PROVE h[i] = a[n + 1 - (m + 1) + i]
  <2>1. CASE i \in 1 .. m
    <3>1. n - m + i \in 1 .. n /\ n + 1 - (m + 1) + i = n - m + i
      BY <1>1, <2>1
    <3> QED BY <1>2, <2>1, <3>1 DEF HoldsLast
  <2>2. CASE i = m + 1
    <3>1. n + 1 - (m + 1) + i = n + 1
      BY <1>1, <2>2
    <3> QED BY <1>2, <2>2, <3>1
  <2> QED BY <1>1, <2>1, <2>2
<1>4. ASSUME NEW i \in 1 .. n + 1 PROVE a[i] <= t
  <2>1. CASE i \in 1 .. n
    BY <1>2, <2>1 DEF HoldsLast
  <2>2. CASE i = n + 1
    BY <1>2, <2>2
  <2> QED BY <1>1, <2>1, <2>2
<1>5. ASSUME NEW i \in 1 .. (n + 1) - (m + 1) PROVE a[i] <= t - Window
  <2>1. i \in 1 .. n - m /\ i \in 1 .. n
    BY <1>1
  <2> QED BY <1>2, <2>1 DEF HoldsLast
<1>6. ASSUME NEW i \in 1 .. n + 1, NEW j \in 1 .. n + 1, i + MaxPerUser <= j
      PROVE  a[i] <= a[j] + LockWait - Window
  <2>1. CASE j \in 1 .. n
    <3>1. i \in 1 .. n
      BY <1>1, <1>6, <2>1
    <3> QED BY <1>2, <1>6, <2>1, <3>1 DEF HoldsLast
  <2>2. CASE j = n + 1
    <3>1. i \in 1 .. n /\ i \in 1 .. (n + 1) - (m + 1)
      BY <1>1, <1>6, <2>2
    <3>2. a[i] <= t - Window /\ a[i] \in Nat
      BY <1>1, <1>2, <1>5, <3>1
    <3>3. a[j] = s
      BY <1>2, <2>2
    <3>4. a[i] \in Nat /\ Window \in Nat /\ LockWait \in Nat /\ t <= s + LockWait
      BY <1>1, <3>2, Constants
    <3> HIDE DEF a
    <3> QED BY <1>1, <3>2, <3>3, <3>4, SMTT(20)
  <2> QED BY <1>1, <2>1, <2>2
<1>7. HoldsLast(a, h, t)
  <2>1. Len(h) <= Len(a)
    BY <1>1, <1>2
  <2>2. ASSUME NEW i \in 1 .. Len(h) PROVE h[i] = a[Len(a) - Len(h) + i]
    <3>1. i \in 1 .. m + 1 /\ Len(a) - Len(h) + i = n + 1 - (m + 1) + i
      BY <1>2
    <3>2. h[i] = a[n + 1 - (m + 1) + i]
      BY <1>3, <3>1
    <3> QED BY <3>1, <3>2
  <2>3. /\ \A i \in 1 .. Len(a) : a[i] <= t
        /\ \A i \in 1 .. Len(a) - Len(h) : a[i] <= t - Window
    BY <1>2, <1>4, <1>5
  <2>4. \A i, j \in 1 .. Len(a) : i + MaxPerUser <= j => a[i] <= a[j] + LockWait - Window
    BY <1>2, <1>6
  <2> QED BY <2>1, <2>2, <2>3, <2>4 DEF HoldsLast
<1> QED BY <1>7 DEF a, h

(* Requests of one window are fewer than MaxPerUser apart.                 *)
LEMMA FewInWindow ==
  ASSUME NEW all \in Seq(Nat), NEW held \in Seq(Nat), NEW t \in Nat,
         HoldsLast(all, held, t), NEW x \in Nat
  PROVE  Cardinality({i \in DOMAIN all : all[i] \in (x - (Window - LockWait) + 1) .. x}) <= MaxPerUser
<1> DEFINE S == {i \in DOMAIN all : all[i] \in (x - (Window - LockWait) + 1) .. x}
           n == Len(all)
<1>1. /\ n \in Nat /\ DOMAIN all = 1 .. n /\ MaxPerUser \in Nat /\ Window \in Nat /\ LockWait \in Nat
      /\ \A i \in 1 .. n : all[i] \in Nat
  BY Constants
<1>2. CASE S = {}
  <2>1. Cardinality(S) = 0
    BY <1>2, FS_EmptySet
  <2> QED BY <1>1, <2>1
<1>3. CASE S # {}
  <2>1. S \in SUBSET Nat
    BY <1>1
  <2>2. PICK i \in S : \A j \in S : i <= j
    BY <1>3, <2>1, LeastElement
  <2>3. i \in 1 .. n /\ all[i] > x - (Window - LockWait)
    BY <1>1
  <2>4. ASSUME NEW j \in S PROVE j \in i .. i + MaxPerUser - 1
    <3>1. j \in 1 .. n /\ i <= j /\ all[j] <= x
      BY <1>1, <2>2
    <3>2. ASSUME j >= i + MaxPerUser PROVE FALSE
      <4>1. all[i] <= all[j] + LockWait - Window
        BY <1>1, <2>3, <3>1, <3>2 DEF HoldsLast
      <4>2. all[i] \in Nat /\ all[j] \in Nat
        BY <1>1, <2>3, <3>1
      <4> QED BY <1>1, <2>3, <3>1, <4>1, <4>2
    <3> QED BY <1>1, <2>3, <3>1, <3>2
  <2>5. /\ IsFiniteSet(i .. i + MaxPerUser - 1)
        /\ Cardinality(i .. i + MaxPerUser - 1) = MaxPerUser
    <3>1. i \in Int /\ i + MaxPerUser - 1 \in Int /\ MaxPerUser > 0
      BY <1>1, <2>3, Constants
    <3>2. /\ IsFiniteSet(i .. i + MaxPerUser - 1)
          /\ Cardinality(i .. i + MaxPerUser - 1) =
               IF i > i + MaxPerUser - 1 THEN 0 ELSE (i + MaxPerUser - 1) - i + 1
      BY <3>1, FS_Interval
    <3>3. ~ (i > i + MaxPerUser - 1) /\ (i + MaxPerUser - 1) - i + 1 = MaxPerUser
      BY <1>1, <2>3, <3>1
    <3> QED BY <3>2, <3>3
  <2>6. S \in SUBSET (i .. i + MaxPerUser - 1)
    BY <2>4
  <2> HIDE DEF S
  <2>7. Cardinality(S) <= Cardinality(i .. i + MaxPerUser - 1)
    BY <2>5, <2>6, FS_Subset
  <2>8. Cardinality(S) <= MaxPerUser
    BY <2>5, <2>7
  <2> QED BY <2>8 DEF S
<1> QED BY <1>2, <1>3

-----------------------------------------------------------------------------
(* SlidingWindowRateLimiter.allow, in terms of what it pops.               *)
LEMMA Records ==
  ASSUME TypeOK, NEW key \in Users \cup {Ip}, NEW max, NEW t \in Times, Record(key, max, t)
  PROVE  \E k \in 0 .. Len(events[key]) :
           LET rest == SubSeq(events[key], k + 1, Len(events[key]))
           IN  /\ \A i \in 1 .. k : events[key][i] <= t - Window
               /\ Limited(key, max, t) <=> Len(rest) >= max
               /\ rest \in Seq(Times)
               /\ events' = [events EXCEPT ![key] =
                              IF Limited(key, max, t) THEN rest ELSE Append(rest, t)]
<1> DEFINE old == events[key]
<1>1. old \in Seq(Times) /\ t \in Nat /\ Times \subseteq Nat
  BY DEF TypeOK, Times
<1>2. old \in Seq(Nat)
  BY <1>1, SeqMonotonic
<1> HIDE DEF old
<1>3. PICK k \in 0 .. Len(old) : /\ Recent(old, t) = SubSeq(old, k + 1, Len(old))
                                 /\ \A i \in 1 .. k : old[i] <= t - Window
  BY <1>1, <1>2, RecentSplit
<1>4. SubSeq(old, k + 1, Len(old)) \in Seq(Times)
  BY <1>1
<1>5. events' = [events EXCEPT ![key] =
                  IF Limited(key, max, t) THEN Recent(old, t) ELSE Append(Recent(old, t), t)]
  BY DEF Record, TypeOK, old
<1>6. Limited(key, max, t) <=> Len(Recent(old, t)) >= max
  BY DEF Limited, old
<1> QED BY <1>3, <1>4, <1>5, <1>6 DEF old

LEMMA RecordsTypes ==
  ASSUME TypeOK, NEW key \in Users \cup {Ip}, NEW max, NEW t \in Times, Record(key, max, t)
  PROVE  /\ events' \in [Users \cup {Ip} -> Seq(Times)]
         /\ \A u \in Users \ {key} : events'[u] = events[u]
<1>1. t \in Times /\ events \in [Users \cup {Ip} -> Seq(Times)]
  BY DEF TypeOK
<1>2. PICK rest \in Seq(Times) :
        events' = [events EXCEPT ![key] = IF Limited(key, max, t) THEN rest ELSE Append(rest, t)]
  BY Records
<1>3. Append(rest, t) \in Seq(Times)
  BY <1>1, AppendProperties
<1> QED BY <1>1, <1>2, <1>3

-----------------------------------------------------------------------------
LEMMA InitTypes == Init => TypeOK
<1> SUFFICES ASSUME Init PROVE TypeOK
  OBVIOUS
<1>1. IsFiniteSet(DOMAIN snapshots) /\ Cardinality(DOMAIN snapshots) = 0
  <2>1. DOMAIN snapshots = {}
    BY DEF Init
  <2> QED BY <2>1, FS_EmptySet
<1>2. snapshots \in [DOMAIN snapshots -> [snap: Snapshots, exp: Nat]]
  BY DEF Init
<1>3. req \in [Requests -> Stages]
  BY DEF Init, Stages
<1>4. /\ now \in Times /\ bot \in Tokens /\ retired \in Seq(Times) /\ Len(retired) = bot - 1
      /\ secrets \in Seq(SecretEntries) /\ Len(secrets) = 0
      /\ posts \in 0 .. MaxPosts
  BY Constants DEF Init, Times, Tokens
<1>5. /\ wallet \in [Users -> Nat] /\ \A u \in Users : wallet[u] <= MaxWallets[u]
      /\ events \in [Users \cup {Ip} -> Seq(Times)] /\ passed \in [Users -> Seq(Times)]
  BY Constants DEF Init
<1> QED BY <1>1, <1>2, <1>3, <1>4, <1>5, Constants, SMTT(20) DEF TypeOK

(* One thread goes on.                                                     *)
LEMMA Goes ==
  ASSUME TypeOK, NEW r \in Requests, NEW q \in Stages, req' = [req EXCEPT ![r] = q]
  PROVE  req' \in [Requests -> Stages] /\ req'[r] = q /\ \A s \in Requests \ {r} : req'[s] = req[s]
BY DEF TypeOK

(* The initData is genuine and its user allowed, or the thread is done.    *)
LEMMA Authenticates ==
  ASSUME TypeOK, NEW r \in Requests, NEW u \in Users, NEW token \in Tokens,
         Authenticate(r, u, token)
  PROVE  /\ req' \in [Requests -> Stages]
         /\ \/ req' = [req EXCEPT ![r] = Idle]
            \/ req' = [req EXCEPT ![r] = [pc |-> "user", user |-> u, token |-> token, t |-> now]]
<1> DEFINE q == [pc |-> "user", user |-> u, token |-> token, t |-> now]
<1>1. req' = [req EXCEPT ![r] = Idle] \/ req' = [req EXCEPT ![r] = q]
  BY DEF Authenticate
<1>2. q \in Stages /\ Idle \in Stages
  BY DEF Stages, TypeOK
<1> HIDE DEF q
<1>3. req' \in [Requests -> Stages]
  BY <1>1, <1>2, Goes
<1> QED BY <1>1, <1>3 DEF q

LEMMA PostTypes ==
  ASSUME TypeOK, SecretsInv, NEW r \in Requests, NEW u \in Users, Post(r, u)
  PROVE  TypeOK'
<1>1. secrets' \in Seq(SecretEntries) /\ Len(secrets') <= MaxSecrets
  <2>1. secrets \in Seq(SecretEntries) /\ Len(secrets) \in Nat /\ Len(secrets) <= MaxSecrets
    BY DEF TypeOK
  <2>2. secrets' \in Seq(SecretEntries) /\ Len(secrets') <= Len(secrets)
    BY <2>1, TouchedEntries DEF Post
  <2>3. Len(secrets') \in Nat
    BY <2>2
  <2> QED BY <2>1, <2>2, <2>3, Constants
<1>2. req' \in [Requests -> Stages]
  <2>1. bot \in Tokens /\ now \in Times
    BY DEF TypeOK
  <2>2. CASE Hit(secrets, BotPath)
    <3>1. PICK j \in DOMAIN secrets : Entry(secrets, BotPath) = secrets[j] /\ secrets[j].path = BotPath
      BY <2>2, EntryHeld DEF Hit, TypeOK
    <3>2. secrets[j].value \in Tokens
      <4>1. secrets[j].value \in 1 .. bot
        BY <3>1 DEF SecretsInv, Serves
      <4> QED BY <2>1, <4>1, Constants DEF Tokens
    <3>3. Authenticate(r, u, secrets[j].value)
      BY <2>2, <3>1 DEF Post
    <3> QED BY <3>2, <3>3, Authenticates
  <2>3. CASE ~Hit(secrets, BotPath)
    <3>1. [pc |-> "store", user |-> u, token |-> bot, since |-> now] \in Stages
      BY <2>1 DEF Stages
    <3>2. \/ req' = [req EXCEPT ![r] = [pc |-> "store", user |-> u, token |-> bot, since |-> now]]
          \/ UNCHANGED req
      BY <2>3 DEF Post
    <3> QED BY <3>1, <3>2, Goes DEF TypeOK
  <2> QED BY <2>2, <2>3
<1>3. posts' \in 0 .. MaxPosts
  <2>1. posts' = posts + 1 /\ posts < MaxPosts /\ posts \in 0 .. MaxPosts
    BY DEF Post, TypeOK
  <2> QED BY <2>1, Constants
<1> QED BY <1>1, <1>2, <1>3 DEF Post, TypeOK

LEMMA StoreTokenTypes ==
  ASSUME TypeOK, NEW r \in Requests, StoreToken(r)
  PROVE  /\ TypeOK'
         /\ \A i \in DOMAIN secrets' :
              \/ secrets'[i] = [path |-> BotPath, value |-> req[r].token, exp |-> now + SecretTtl]
              \/ \E j \in DOMAIN secrets : secrets'[i] = secrets[j]
<1> DEFINE q == req[r]
<1>1. /\ q \in Stages /\ q.pc = "store" /\ now \in Nat
      /\ secrets \in Seq(SecretEntries) /\ Len(secrets) <= MaxSecrets
  BY DEF TypeOK, StoreToken, Times
<1>2. q.user \in Users /\ q.token \in Tokens
  BY <1>1, StageTypes
<1>3. q.token \in 0 .. MaxTokens
  BY <1>2 DEF Tokens
<1>4. /\ secrets' \in Seq(SecretEntries) /\ Len(secrets') <= MaxSecrets
      /\ \A i \in DOMAIN secrets' :
           \/ secrets'[i] = [path |-> BotPath, value |-> q.token, exp |-> now + SecretTtl]
           \/ \E j \in DOMAIN secrets : secrets'[i] = secrets[j]
  <2>1. secrets' = Stored(secrets, BotPath, q.token)
    BY DEF StoreToken
  <2> HIDE DEF q
  <2> QED BY <1>1, <1>3, <2>1, StoredEntries
<1>6. req' \in [Requests -> Stages]
  BY <1>2, Authenticates DEF StoreToken
<1> QED BY <1>4, <1>6 DEF StoreToken, TypeOK

LEMMA AllowUserTypes ==
  ASSUME TypeOK, NEW r \in Requests, AllowUser(r)
  PROVE  TypeOK'
<1> DEFINE q == req[r]
           next == [pc |-> "ip", user |-> q.user, t |-> now]
<1>1. q \in Stages /\ q.pc = "user" /\ now \in Times
  BY DEF TypeOK, AllowUser
<1>2. q.user \in Users /\ q.t \in Times
  BY <1>1, StageTypes
<1>3. Idle \in Stages /\ next \in Stages
  BY <1>1, <1>2 DEF Stages
<1>4. req' \in [Requests -> Stages]
  BY <1>3, Goes DEF AllowUser
<1>5. events' \in [Users \cup {Ip} -> Seq(Times)]
  BY <1>2, RecordsTypes DEF AllowUser
<1>6. passed' \in [Users -> Seq(Times)]
  <2>1. passed \in [Users -> Seq(Times)]
    BY DEF TypeOK
  <2>2. Append(passed[q.user], q.t) \in Seq(Times)
    BY <1>2, <2>1, AppendProperties
  <2>3. passed' = passed \/ passed' = [passed EXCEPT ![q.user] = Append(passed[q.user], q.t)]
    BY <1>2, <2>1 DEF AllowUser
  <2> QED BY <2>1, <2>2, <2>3
<1> QED BY <1>4, <1>5, <1>6 DEF AllowUser, TypeOK

LEMMA AllowIpTypes ==
  ASSUME TypeOK, NEW r \in Requests, AllowIp(r)
  PROVE  TypeOK' /\ \A u \in Users : events'[u] = events[u]
<1> DEFINE q == req[r]
           next == [pc |-> "wallet", user |-> q.user]
<1>1. q \in Stages /\ q.pc = "ip"
  BY DEF TypeOK, AllowIp
<1>2. q.user \in Users /\ q.t \in Times
  BY <1>1, StageTypes
<1>3. Idle \in Stages /\ next \in Stages
  BY <1>2 DEF Stages
<1>4. req' \in [Requests -> Stages]
  BY <1>3, Goes DEF AllowIp
<1>5. /\ events' \in [Users \cup {Ip} -> Seq(Times)]
      /\ \A u \in Users \ {Ip} : events'[u] = events[u]
  BY <1>2, RecordsTypes DEF AllowIp
<1>6. \A u \in Users : events'[u] = events[u]
  BY <1>5, Constants
<1> QED BY <1>4, <1>5, <1>6 DEF AllowIp, TypeOK

LEMMA ResolveWalletTypes ==
  ASSUME TypeOK, NEW r \in Requests, ResolveWallet(r)
  PROVE  TypeOK'
<1> DEFINE q == req[r]
           w == wallet[q.user]
           next(period) == [pc |-> "cache", user |-> q.user, period |-> period, wallet |-> w]
<1>1. q \in Stages /\ q.pc = "wallet"
  BY DEF TypeOK, ResolveWallet
<1>2. q.user \in Users
  BY <1>1, StageTypes
<1>3. w \in Wallets
  BY <1>2 DEF TypeOK, Wallets
<1>4. Idle \in Stages /\ \A period \in Periods : next(period) \in Stages
  BY <1>2, <1>3 DEF Stages
<1>5. \/ req' = [req EXCEPT ![r] = Idle]
      \/ \E period \in Periods : req' = [req EXCEPT ![r] = next(period)]
  BY DEF ResolveWallet
<1> HIDE DEF next
<1>6. req' \in [Requests -> Stages]
  BY <1>4, <1>5, Goes
<1> QED BY <1>6 DEF ResolveWallet, TypeOK

LEMMA ReadSnapshotTypes ==
  ASSUME TypeOK, NEW r \in Requests, ReadSnapshot(r)
  PROVE  TypeOK'
<1> DEFINE q == req[r]
           k == CacheKey(q)
           hit == [pc |-> "reply", period |-> q.period, wallet |-> q.wallet,
                   reply |-> snapshots[k].snap]
           miss == [pc |-> "fetch", user |-> q.user, period |-> q.period,
                    wallet |-> q.wallet, since |-> now]
<1>1. q \in Stages /\ q.pc = "cache" /\ now \in Times
  BY DEF TypeOK, ReadSnapshot
<1>2. q.user \in Users /\ q.period \in Periods /\ q.wallet \in Wallets
  BY <1>1, StageTypes
<1>3. /\ snapshots' \in [DOMAIN snapshots' -> [snap: Snapshots, exp: Nat]]
      /\ IsFiniteSet(DOMAIN snapshots') /\ Cardinality(DOMAIN snapshots') <= MaxSnapshots
  BY PurgedTypes DEF ReadSnapshot
<1>4. req' \in [Requests -> Stages]
  <2>1. CASE k \in DOMAIN Purged(snapshots)
    <3>1. snapshots[k] \in [snap: Snapshots, exp: Nat]
      BY <2>1, PurgedTypes DEF TypeOK
    <3>2. hit \in Stages
      BY <1>2, <3>1 DEF Stages
    <3> QED BY <2>1, <3>2, Goes DEF ReadSnapshot
  <2>2. CASE k \notin DOMAIN Purged(snapshots)
    <3>1. miss \in Stages
      BY <1>1, <1>2 DEF Stages
    <3> QED BY <2>2, <3>1, Goes DEF ReadSnapshot
  <2> QED BY <2>1, <2>2
<1> QED BY <1>3, <1>4 DEF ReadSnapshot, TypeOK

LEMMA StoreSnapshotTypes ==
  ASSUME TypeOK, NEW r \in Requests, StoreSnapshot(r)
  PROVE  TypeOK'
<1> DEFINE q == req[r]
           snap == [wallet |-> q.wallet, period |-> NormalizeChartPeriod(q.period),
                    at |-> q.since]
           next == [pc |-> "reply", period |-> q.period, wallet |-> q.wallet, reply |-> snap]
<1>1. q \in Stages /\ q.pc = "fetch"
  BY DEF TypeOK, StoreSnapshot
<1>2. q.user \in Users /\ q.period \in Periods /\ q.wallet \in Wallets
  BY <1>1, StageTypes
<1>3. /\ snap \in Snapshots
      /\ snapshots' \in [DOMAIN snapshots' -> [snap: Snapshots, exp: Nat]]
      /\ IsFiniteSet(DOMAIN snapshots') /\ Cardinality(DOMAIN snapshots') <= MaxSnapshots
  BY StoresSnapshot
<1>4. next \in Stages
  BY <1>2, <1>3 DEF Stages
<1>5. req' \in [Requests -> Stages]
  BY <1>4, Goes DEF StoreSnapshot
<1> QED BY <1>3, <1>5 DEF StoreSnapshot, TypeOK

LEMMA NextTypes == TypeOK /\ SecretsInv /\ [Next]_vars => TypeOK'
<1> SUFFICES ASSUME TypeOK, SecretsInv, [Next]_vars PROVE TypeOK'
  OBVIOUS
<1>1. CASE Tick
  <2>1. now < MaxTime /\ now' = now + 1 /\ now \in 0 .. MaxTime
    BY <1>1 DEF Tick, TypeOK, Times
  <2>2. now' \in Times
    BY <2>1, Constants DEF Times
  <2> QED BY <1>1, <2>2, SMTT(20) DEF Tick, TypeOK
<1>2. CASE RotateToken
  <2>1. bot' \in Tokens /\ bot' = bot + 1 /\ bot \in Nat
    <3>1. bot \in 1 .. MaxTokens /\ bot < MaxTokens /\ bot' = bot + 1
      BY <1>2 DEF RotateToken, TypeOK, Tokens
    <3> QED BY <3>1, Constants DEF Tokens
  <2>2. retired' \in Seq(Times) /\ Len(retired') = Len(retired) + 1
    BY <1>2, AppendProperties DEF RotateToken, TypeOK
  <2>3. Len(retired') = bot' - 1
    BY <2>1, <2>2 DEF TypeOK
  <2> QED BY <1>2, <2>1, <2>2, <2>3 DEF RotateToken, TypeOK
<1>3. CASE ReadOtherSecret
  BY <1>3, StoresOtherSecret DEF ReadOtherSecret, TypeOK
<1>4. ASSUME NEW u \in Users, WriteWallet(u) PROVE TypeOK'
  <2>1. wallet' = [wallet EXCEPT ![u] = wallet[u] + 1] /\ wallet[u] < MaxWallets[u]
    BY <1>4 DEF WriteWallet, TypeOK
  <2>2. wallet' \in [Users -> Nat] /\ \A v \in Users : wallet'[v] <= MaxWallets[v]
    <3>1. wallet \in [Users -> Nat] /\ \A v \in Users : wallet[v] <= MaxWallets[v]
      BY DEF TypeOK
    <3>2. MaxWallets[u] \in Nat
      BY Constants
    <3>3. wallet[u] + 1 \in Nat /\ wallet[u] + 1 <= MaxWallets[u]
      BY <2>1, <3>1, <3>2
    <3> QED BY <2>1, <3>1, <3>3
  <2> QED BY <1>4, <2>2 DEF WriteWallet, TypeOK
<1>5. ASSUME NEW r \in Requests, NEW u \in Users, Post(r, u) PROVE TypeOK'
  BY <1>5, PostTypes
<1>6. ASSUME NEW r \in Requests, StoreToken(r) PROVE TypeOK'
  BY <1>6, StoreTokenTypes
<1>7. ASSUME NEW r \in Requests, AllowUser(r) PROVE TypeOK'
  BY <1>7, AllowUserTypes
<1>8. ASSUME NEW r \in Requests, AllowIp(r) PROVE TypeOK'
  BY <1>8, AllowIpTypes
<1>9. ASSUME NEW r \in Requests, ResolveWallet(r) PROVE TypeOK'
  BY <1>9, ResolveWalletTypes
<1>10. ASSUME NEW r \in Requests, ReadSnapshot(r) PROVE TypeOK'
  BY <1>10, ReadSnapshotTypes
<1>11. ASSUME NEW r \in Requests, StoreSnapshot(r) PROVE TypeOK'
  BY <1>11, StoreSnapshotTypes
<1>12. ASSUME NEW r \in Requests, Finish(r) PROVE TypeOK'
  <2>1. req' \in [Requests -> Stages]
    BY <1>12, Goes DEF Finish, Stages
  <2> QED BY <1>12, <2>1 DEF Finish, TypeOK
<1>13. CASE UNCHANGED vars
  BY <1>13 DEF vars, TypeOK
<1> QED BY <1>1, <1>2, <1>3, <1>4, <1>5, <1>6, <1>7, <1>8, <1>9, <1>10, <1>11, <1>12, <1>13
        DEF Next

-----------------------------------------------------------------------------
LEMMA RetiredTypes ==
  ASSUME TypeOK
  PROVE  /\ bot \in Nat /\ \A i \in 1 .. bot - 1 : i \in DOMAIN retired /\ retired[i] \in Nat
         /\ now \in Nat
<1>1. retired \in Seq(Times) /\ Len(retired) = bot - 1 /\ bot \in Tokens /\ now \in Times
  BY DEF TypeOK
<1>3. bot \in Nat
  BY <1>1, Constants DEF Tokens
<1>4. Times \subseteq Nat
  BY Constants DEF Times
<1>2. \A i \in 1 .. Len(retired) : i \in DOMAIN retired /\ retired[i] \in Times
  BY <1>1, LenProperties, ElementOfSeq
<1> QED BY <1>1, <1>2, <1>3, <1>4

(* A token serves as long as before while tokens stay, and its successor   *)
(* ends it one lifetime and one fetch later.                               *)
LEMMA ServesOn ==
  ASSUME TypeOK, NEW token, NEW end, Serves(token, end),
         \/ UNCHANGED <<bot, retired>>
         \/ RotateToken /\ end <= now + SecretTtl + FetchTimeout
  PROVE  Serves(token, end)'
<1>1. CASE UNCHANGED <<bot, retired>>
  BY <1>1 DEF Serves
<1>2. CASE RotateToken /\ end <= now + SecretTtl + FetchTimeout
  <2>1. /\ bot \in Nat /\ bot' = bot + 1 /\ retired' = Append(retired, now)
        /\ retired \in Seq(Times) /\ now \in Times /\ Len(retired) = bot - 1
    BY <1>2, RetiredTypes DEF RotateToken, TypeOK
  <2>2. /\ Len(retired) + 1 = bot /\ retired'[bot] = now
        /\ \A i \in 1 .. bot - 1 : retired'[i] = retired[i]
    BY <2>1, AppendProperties
  <2>3. token \in 1 .. bot /\ token \in 1 .. bot'
    BY <2>1 DEF Serves
  <2>4. CASE token = bot
    BY <1>2, <2>2, <2>3, <2>4 DEF Serves
  <2>5. CASE token # bot
    <3>1. token \in 1 .. bot - 1
      BY <2>1, <2>3, <2>5
    <3> QED BY <2>2, <2>3, <2>5, <3>1 DEF Serves
  <2> QED BY <2>4, <2>5
<1> QED BY <1>1, <1>2

(* A token that serves until some time serves until any earlier one.       *)
LEMMA ServesLess ==
  ASSUME TypeOK, NEW token, NEW end \in Int, NEW less \in Int, less <= end, Serves(token, end)
  PROVE  Serves(token, less)
<1>1. CASE token = bot
  BY <1>1 DEF Serves
<1>2. CASE token # bot
  <2>1. token \in 1 .. bot - 1 /\ end <= retired[token] + SecretTtl + FetchTimeout
    BY <1>2, RetiredTypes DEF Serves
  <2>2. retired[token] \in Nat
    BY <2>1, RetiredTypes
  <2> QED BY <2>1, <2>2, Constants DEF Serves
<1> QED BY <1>1, <1>2

LEMMA NextSecrets ==
  TypeOK /\ SecretsInv /\ (\A r \in Requests : StageInv(req[r])) /\ [Next]_vars => SecretsInv'
<1> SUFFICES ASSUME TypeOK, SecretsInv, \A r \in Requests : StageInv(req[r]), [Next]_vars
             PROVE  SecretsInv'
  OBVIOUS
<1>1. /\ now \in Nat /\ now' \in Nat /\ SecretTtl \in Nat /\ FetchTimeout \in Nat /\ SecretTtl > 0
      /\ \A i \in DOMAIN secrets : secrets[i] \in SecretEntries
  <2>1. now' \in Times /\ Times \subseteq Nat
    BY NextTypes DEF TypeOK, Times
  <2>2. secrets \in Seq(SecretEntries)
    BY DEF TypeOK
  <2>3. \A i \in DOMAIN secrets : secrets[i] \in SecretEntries
    BY <2>2, ElementOfSeq, LenProperties
  <2> QED BY <2>1, <2>3, RetiredTypes, Constants
(* An entry that stays is as good as it was. *)
<1>2. ASSUME NEW e \in SecretEntries, Serves(e.value, e.exp), e.exp <= now + SecretTtl,
             now' >= now, UNCHANGED <<bot, retired>> \/ RotateToken
      PROVE  Serves(e.value, e.exp)' /\ e.exp <= now' + SecretTtl
  <2>1. e.exp \in Nat
    BY DEF SecretEntries
  <2>2. e.exp <= now + SecretTtl + FetchTimeout /\ e.exp <= now' + SecretTtl
    BY <1>1, <1>2, <2>1
  <2> QED BY <1>2, <2>2, ServesOn
<1>3. ASSUME now' >= now, UNCHANGED <<bot, retired>> \/ RotateToken,
             \A i \in DOMAIN secrets' : \/ secrets'[i].path = OtherPath
                                       \/ \E j \in DOMAIN secrets : secrets'[i] = secrets[j]
      PROVE  SecretsInv'
  <2> SUFFICES ASSUME NEW i \in DOMAIN secrets', secrets'[i].path = BotPath
               PROVE  Serves(secrets[i].value, secrets[i].exp)' /\ secrets'[i].exp <= now' + SecretTtl
    BY DEF SecretsInv
  <2>1. PICK j \in DOMAIN secrets : secrets'[i] = secrets[j]
    BY <1>3 DEF BotPath, OtherPath
  <2>2. /\ secrets[j] \in SecretEntries /\ Serves(secrets[j].value, secrets[j].exp)
        /\ secrets[j].exp <= now + SecretTtl
    BY <1>1, <2>1 DEF SecretsInv
  <2> QED BY <1>2, <1>3, <2>1, <2>2 DEF Serves
<1>4. CASE Tick
  <2>1. now' >= now /\ UNCHANGED <<bot, retired, secrets>>
    BY <1>1, <1>4 DEF Tick
  <2> QED BY <1>3, <2>1
<1>5. CASE RotateToken
  BY <1>1, <1>3, <1>5 DEF RotateToken
<1>6. CASE ReadOtherSecret
  <2>1. \A i \in DOMAIN secrets' : \/ secrets'[i].path = OtherPath
                                  \/ \E j \in DOMAIN secrets : secrets'[i] = secrets[j]
    BY <1>6, StoresOtherSecret
  <2> QED BY <1>1, <1>3, <1>6, <2>1 DEF ReadOtherSecret
<1>7. ASSUME NEW r \in Requests, NEW u \in Users, Post(r, u) PROVE SecretsInv'
  <2>1. \A i \in DOMAIN secrets' : \E j \in DOMAIN secrets : secrets'[i] = secrets[j]
    BY <1>7, TouchedEntries DEF Post, TypeOK
  <2> QED BY <1>1, <1>3, <1>7, <2>1 DEF Post
<1>8. ASSUME NEW r \in Requests, StoreToken(r) PROVE SecretsInv'
  <2> DEFINE q == req[r]
             new == [path |-> BotPath, value |-> q.token, exp |-> now + SecretTtl]
  <2>1. \A i \in DOMAIN secrets' : secrets'[i] = new \/ \E j \in DOMAIN secrets : secrets'[i] = secrets[j]
    BY <1>8, StoreTokenTypes
  <2>2. q \in Stages /\ q.pc = "store" /\ StageInv(q) /\ UNCHANGED <<now, bot, retired>>
    BY <1>8 DEF StoreToken, TypeOK
  <2>3. q.since \in Nat /\ q.since <= now /\ now <= q.since + FetchTimeout
        /\ Serves(q.token, q.since + SecretTtl + FetchTimeout)
    BY <2>2, StageTypes DEF StageInv, Times
  <2>4. Serves(q.token, now + SecretTtl)
    <3>1. q.since + SecretTtl + FetchTimeout \in Int /\ now + SecretTtl \in Int
          /\ now + SecretTtl <= q.since + SecretTtl + FetchTimeout
      BY <1>1, <2>3
    <3> QED BY <2>3, <3>1, ServesLess
  <2> SUFFICES ASSUME NEW i \in DOMAIN secrets', secrets'[i].path = BotPath
               PROVE  Serves(secrets[i].value, secrets[i].exp)' /\ secrets'[i].exp <= now' + SecretTtl
    BY DEF SecretsInv
  <2>5. CASE secrets'[i] = new
    BY <1>1, <2>2, <2>4, <2>5 DEF Serves
  <2>6. ASSUME NEW j \in DOMAIN secrets, secrets'[i] = secrets[j]
        PROVE  Serves(secrets[i].value, secrets[i].exp)' /\ secrets'[i].exp <= now' + SecretTtl
    <3>1. Serves(secrets[j].value, secrets[j].exp) /\ secrets[j].exp <= now + SecretTtl
      BY <2>6 DEF SecretsInv
    <3> QED BY <2>2, <2>6, <3>1 DEF Serves
  <2> QED BY <2>1, <2>5, <2>6
<1>9. CASE UNCHANGED <<now, bot, retired, secrets>>
  BY <1>1, <1>3, <1>9
<1>10. ASSUME NEW r \in Requests,
              \/ AllowUser(r) \/ AllowIp(r) \/ ResolveWallet(r) \/ ReadSnapshot(r)
              \/ StoreSnapshot(r) \/ Finish(r)
       PROVE  UNCHANGED <<now, bot, retired, secrets>>
  BY <1>10 DEF AllowUser, AllowIp, ResolveWallet, ReadSnapshot, StoreSnapshot, Finish
<1>11. ASSUME NEW u \in Users, WriteWallet(u) PROVE UNCHANGED <<now, bot, retired, secrets>>
  BY <1>11 DEF WriteWallet
<1>12. CASE UNCHANGED vars
  BY <1>9, <1>12 DEF vars
<1> QED BY <1>4, <1>5, <1>6, <1>7, <1>8, <1>9, <1>10, <1>11, <1>12 DEF Next

-----------------------------------------------------------------------------
LEMMA WindowTypes ==
  ASSUME TypeOK, NEW u \in Users
  PROVE  /\ passed[u] \in Seq(Nat) /\ events[u] \in Seq(Nat) /\ now \in Nat
         /\ passed[u] \in Seq(Times)
<1>1. passed[u] \in Seq(Times) /\ events[u] \in Seq(Times) /\ now \in Times
  BY DEF TypeOK
<1>2. Times \subseteq Nat
  BY DEF Times
<1> QED BY <1>1, <1>2, SeqMonotonic

(* The user's limiter pops, and lets the request through if it may.        *)
LEMMA AllowUserWindow ==
  ASSUME TypeOK, NEW r \in Requests, AllowUser(r), StageInv(req[r]),
         WindowInv(req[r].user)
  PROVE  HoldsLast(passed'[req[r].user], events'[req[r].user], now)
<1> DEFINE u == req[r].user
           t == req[r].t
           held == events[u]
           all == passed[u]
<1>1. req[r] \in Stages /\ req[r].pc = "user"
  BY DEF TypeOK, AllowUser
<1>2. u \in Users /\ t \in Times /\ t \in Nat /\ t <= now /\ now <= t + LockWait
  BY <1>1, StageTypes DEF StageInv, Times
<1>3. Record(u, MaxPerUser, t)
  BY DEF AllowUser
<1>4. IF Limited(u, MaxPerUser, t) THEN passed' = passed
      ELSE passed' = [passed EXCEPT ![u] = Append(passed[u], t)]
  BY DEF AllowUser
<1> HIDE DEF u, t
<1>5. PICK k \in 0 .. Len(held) :
        LET rest == SubSeq(held, k + 1, Len(held))
        IN  /\ \A i \in 1 .. k : held[i] <= t - Window
            /\ Limited(u, MaxPerUser, t) <=> Len(rest) >= MaxPerUser
            /\ rest \in Seq(Times)
            /\ events' = [events EXCEPT ![u] =
                           IF Limited(u, MaxPerUser, t) THEN rest ELSE Append(rest, t)]
  BY <1>2, <1>3, Records
<1> DEFINE rest == SubSeq(held, k + 1, Len(held))
<1>6. all \in Seq(Nat) /\ held \in Seq(Nat) /\ now \in Nat
  BY <1>2, WindowTypes
<1>7. HoldsLast(all, held, now)
  BY DEF WindowInv, u
<1>8. HoldsLast(all, rest, now) /\ rest \in Seq(Nat)
  <2>1. ASSUME NEW i \in 1 .. k PROVE held[i] <= now - Window
    <3>1. held[i] \in Nat
      BY <1>6, ElementOfSeq, LenProperties
    <3>2. held[i] <= t - Window
      BY <1>5
    <3> HIDE DEF held
    <3> QED BY <1>2, <1>6, <3>1, <3>2, Constants
  <2>2. HoldsLast(all, rest, now)
    BY <1>6, <1>7, <2>1, Pops
  <2>3. rest \in Seq(Times) /\ Times \subseteq Nat
    BY <1>5 DEF Times
  <2> QED BY <2>2, <2>3, SeqMonotonic
<1>9. events \in [Users \cup {Ip} -> Seq(Times)] /\ passed \in [Users -> Seq(Times)]
  BY DEF TypeOK
<1>10. HoldsLast(passed'[u], events'[u], now)
  <2>1. CASE Limited(u, MaxPerUser, t)
    <3>1. passed'[u] = all /\ events'[u] = rest
      BY <1>2, <1>4, <1>5, <1>9, <2>1
    <3> QED BY <1>8, <3>1
  <2>2. CASE ~Limited(u, MaxPerUser, t)
    <3>1. passed'[u] = Append(all, t) /\ events'[u] = Append(rest, t)
      BY <1>2, <1>4, <1>5, <1>9, <2>2
    <3>2. Len(rest) < MaxPerUser
      <4>1. ~ (Len(rest) >= MaxPerUser)
        BY <1>5, <2>2
      <4>2. Len(rest) \in Nat /\ MaxPerUser \in Nat
        BY <1>8, LenProperties, Constants
      <4> QED BY <4>1, <4>2
    <3> HIDE DEF all, rest
    <3>3. HoldsLast(Append(all, t), Append(rest, t), now)
      BY <1>2, <1>6, <1>8, <3>2, Admits
    <3> QED BY <3>1, <3>3
  <2> QED BY <2>1, <2>2
<1> QED BY <1>10 DEF u

LEMMA NextWindow ==
  TypeOK /\ (\A u \in Users : WindowInv(u)) /\ (\A r \in Requests : StageInv(req[r])) /\ [Next]_vars
    => (\A u \in Users : WindowInv(u))'
<1> SUFFICES ASSUME TypeOK, \A u \in Users : WindowInv(u), \A r \in Requests : StageInv(req[r]),
                    [Next]_vars, NEW u \in Users
             PROVE  HoldsLast(passed'[u], events'[u], now')
  BY DEF WindowInv
<1>1. HoldsLast(passed[u], events[u], now)
  BY DEF WindowInv
<1>2. passed[u] \in Seq(Nat) /\ events[u] \in Seq(Nat) /\ now \in Nat
  BY WindowTypes
<1>3. ASSUME UNCHANGED <<now, events, passed>>
      PROVE  HoldsLast(passed'[u], events'[u], now')
  BY <1>1, <1>3
<1>4. CASE Tick
  <2>1. now' = now + 1 /\ now' \in Nat /\ now <= now' /\ passed' = passed /\ events' = events
    BY <1>2, <1>4 DEF Tick
  <2> QED BY <1>1, <1>2, <2>1, TimePasses
<1>5. ASSUME NEW r \in Requests, AllowUser(r)
      PROVE  HoldsLast(passed'[u], events'[u], now')
  <2>1. now' = now /\ req[r] \in Stages /\ req[r].pc = "user"
    BY <1>5 DEF AllowUser, TypeOK
  <2>2. req[r].user \in Users /\ req[r].t \in Times
    BY <2>1, StageTypes
  <2>3. CASE u = req[r].user
    BY <1>5, <2>1, <2>3, AllowUserWindow
  <2>4. CASE u # req[r].user
    <3>1. events'[u] = events[u]
      BY <1>5, <2>2, <2>4, RecordsTypes DEF AllowUser
    <3>2. passed'[u] = passed[u]
      BY <1>5, <2>2, <2>4 DEF AllowUser, TypeOK
    <3> QED BY <1>1, <2>1, <3>1, <3>2
  <2> QED BY <2>3, <2>4
<1>6. ASSUME NEW r \in Requests, AllowIp(r)
      PROVE  HoldsLast(passed'[u], events'[u], now')
  <2>1. events'[u] = events[u]
    BY <1>6, AllowIpTypes
  <2> QED BY <1>1, <1>6, <2>1 DEF AllowIp
<1>7. CASE RotateToken \/ ReadOtherSecret \/ (\E v \in Users : WriteWallet(v))
  BY <1>3, <1>7 DEF RotateToken, ReadOtherSecret, WriteWallet
<1>8. ASSUME NEW r \in Requests,
             \/ (\E v \in Users : Post(r, v)) \/ StoreToken(r) \/ ResolveWallet(r)
             \/ ReadSnapshot(r) \/ StoreSnapshot(r) \/ Finish(r)
      PROVE  HoldsLast(passed'[u], events'[u], now')
  BY <1>3, <1>8 DEF Post, StoreToken, ResolveWallet, ReadSnapshot, StoreSnapshot, Finish
<1>9. CASE UNCHANGED vars
  BY <1>3, <1>9 DEF vars
<1> QED BY <1>4, <1>5, <1>6, <1>7, <1>8, <1>9 DEF Next

-----------------------------------------------------------------------------
LEMMA KeyNames ==
  ASSUME NEW q
  PROVE  CacheKey(q)[2] = q.wallet /\ CacheKey(q)[3] = NormalizeChartPeriod(q.period)
BY DEF CacheKey

LEMMA NextSnapshots ==
  TypeOK /\ SnapshotsInv /\ (\A r \in Requests : StageInv(req[r])) /\ [Next]_vars
    => SnapshotsInv'
<1> SUFFICES ASSUME TypeOK, SnapshotsInv, \A r \in Requests : StageInv(req[r]), [Next]_vars
             PROVE  SnapshotsInv'
  OBVIOUS
<1>1. CASE UNCHANGED snapshots
  BY <1>1 DEF SnapshotsInv
<1>2. ASSUME NEW r \in Requests, ReadSnapshot(r) PROVE SnapshotsInv'
  <2>1. \A k \in DOMAIN snapshots' : k \in DOMAIN snapshots /\ snapshots'[k] = snapshots[k]
    BY <1>2, PurgedTypes DEF ReadSnapshot
  <2> QED BY <2>1 DEF SnapshotsInv
<1>3. ASSUME NEW r \in Requests, StoreSnapshot(r) PROVE SnapshotsInv'
  <2> DEFINE q == req[r]
             snap == [wallet |-> q.wallet, period |-> NormalizeChartPeriod(q.period),
                      at |-> q.since]
             new == [snap |-> snap, exp |-> now + SnapshotTtl]
  <2>1. \A k \in DOMAIN snapshots' :
          \/ k \in DOMAIN snapshots /\ snapshots'[k] = snapshots[k]
          \/ k = CacheKey(q) /\ snapshots'[k] = new
    BY <1>3, StoresSnapshot
  <2>2. q \in Stages /\ q.pc = "fetch" /\ StageInv(q) /\ now \in Nat
    BY <1>3, RetiredTypes DEF StoreSnapshot, TypeOK
  <2>3. q.since \in Nat /\ now <= q.since + FetchTimeout
    BY <2>2, StageTypes DEF StageInv, Times
  <2>4. new.exp <= new.snap.at + FetchTimeout + SnapshotTtl
    BY <2>2, <2>3, Constants
  <2>5. CacheKey(q)[2] = new.snap.wallet /\ CacheKey(q)[3] = new.snap.period
    BY KeyNames
  <2> HIDE DEF q, new
  <2> QED BY <2>1, <2>4, <2>5 DEF SnapshotsInv
<1>4. CASE Tick \/ RotateToken \/ ReadOtherSecret \/ (\E u \in Users : WriteWallet(u))
  BY <1>1, <1>4 DEF Tick, RotateToken, ReadOtherSecret, WriteWallet
<1>5. ASSUME NEW r \in Requests,
             \/ (\E u \in Users : Post(r, u)) \/ StoreToken(r) \/ AllowUser(r) \/ AllowIp(r)
             \/ ResolveWallet(r) \/ Finish(r)
      PROVE  SnapshotsInv'
  BY <1>1, <1>5 DEF Post, StoreToken, AllowUser, AllowIp, ResolveWallet, Finish
<1>6. CASE UNCHANGED vars
  BY <1>1, <1>6 DEF vars
<1> QED BY <1>2, <1>3, <1>4, <1>5, <1>6 DEF Next

-----------------------------------------------------------------------------
(* One thread goes on and the others stay where they are.                  *)
LEMMA OneGoes ==
  ASSUME TypeOK, \A r \in Requests : StageInv(req[r]), UNCHANGED <<now, bot, retired>>,
         NEW r \in Requests, NEW q \in Stages, StageInv(q), req' = [req EXCEPT ![r] = q]
  PROVE  (\A s \in Requests : StageInv(req[s]))'
<1> SUFFICES ASSUME NEW s \in Requests PROVE StageInv(req[s])'
  OBVIOUS
<1>1. req'[r] = q /\ \A t \in Requests \ {r} : req'[t] = req[t]
  BY Goes
<1>2. CASE s = r
  BY <1>1, <1>2 DEF StageInv, Serves
<1>3. CASE s # r
  <2>1. req'[s] = req[s] /\ StageInv(req[s])
    BY <1>1, <1>3
  <2> QED BY <2>1 DEF StageInv, Serves
<1> QED BY <1>2, <1>3

LEMMA AuthenticatesStages ==
  ASSUME TypeOK, \A s \in Requests : StageInv(req[s]), UNCHANGED <<now, bot, retired>>,
         NEW r \in Requests, NEW u \in Users, NEW token \in Tokens, Serves(token, now + 1),
         Authenticate(r, u, token)
  PROVE  (\A s \in Requests : StageInv(req[s]))'
<1> DEFINE q == [pc |-> "user", user |-> u, token |-> token, t |-> now]
<1>1. now \in Nat /\ now \in Times
  BY RetiredTypes DEF TypeOK
<1>2. q \in Stages /\ StageInv(q) /\ Idle \in Stages /\ StageInv(Idle)
  BY <1>1, Constants DEF Stages, StageInv, Idle
<1>3. req' = [req EXCEPT ![r] = Idle] \/ req' = [req EXCEPT ![r] = q]
  BY Authenticates
<1> HIDE DEF q
<1> QED BY <1>2, <1>3, OneGoes

LEMMA PostStages ==
  ASSUME TypeOK, SecretsInv, \A r \in Requests : StageInv(req[r]),
         NEW r \in Requests, NEW u \in Users, Post(r, u)
  PROVE  (\A s \in Requests : StageInv(req[s]))'
<1>1. UNCHANGED <<now, bot, retired>> /\ now \in Nat /\ bot \in Tokens /\ now \in Times
  BY RetiredTypes DEF Post, TypeOK
<1>2. CASE Hit(secrets, BotPath)
  <2> DEFINE e == Entry(secrets, BotPath)
  <2>1. PICK j \in DOMAIN secrets : e = secrets[j] /\ secrets[j].path = BotPath
    BY <1>2, EntryHeld DEF Hit, TypeOK
  <2>2. e \in SecretEntries /\ Serves(e.value, e.exp) /\ now < e.exp
    BY <1>2, <2>1, ElementOfSeq, LenProperties DEF Hit, TypeOK, SecretsInv
  <2>3. Authenticate(r, u, e.value)
    BY <1>2 DEF Post
  <2> HIDE DEF e
  <2>4. Serves(e.value, now + 1)
    <3>1. e.exp \in Int /\ now + 1 \in Int /\ now + 1 <= e.exp
      BY <1>1, <2>2 DEF SecretEntries
    <3> QED BY <2>2, <3>1, ServesLess
  <2>5. e.value \in Tokens
    BY <1>1, <2>2, Constants DEF Serves, Tokens
  <2> QED BY <1>1, <2>3, <2>4, <2>5, AuthenticatesStages
<1>3. CASE req' = [req EXCEPT ![r] = [pc |-> "store", user |-> u, token |-> bot, since |-> now]]
  <2> DEFINE q == [pc |-> "store", user |-> u, token |-> bot, since |-> now]
  <2>1. q \in Stages
    BY <1>1 DEF Stages
  <2>2. bot \in 1 .. bot /\ now <= now + FetchTimeout
    BY <1>1, Constants DEF Tokens
  <2>3. StageInv(q)
    BY <1>1, <2>2 DEF StageInv, Serves
  <2>4. req' = [req EXCEPT ![r] = q]
    BY <1>3
  <2> HIDE DEF q
  <2> QED BY <1>1, <2>1, <2>3, <2>4, OneGoes
<1>4. CASE UNCHANGED req
  BY <1>1, <1>4 DEF StageInv, Serves
<1> QED BY <1>2, <1>3, <1>4 DEF Post

LEMMA StoreTokenStages ==
  ASSUME TypeOK, \A r \in Requests : StageInv(req[r]), NEW r \in Requests, StoreToken(r)
  PROVE  (\A s \in Requests : StageInv(req[s]))'
<1> DEFINE p == req[r]
<1>1. /\ p \in Stages /\ p.pc = "store" /\ StageInv(p) /\ UNCHANGED <<now, bot, retired>>
      /\ Authenticate(r, p.user, p.token) /\ now \in Nat
  BY RetiredTypes DEF StoreToken, TypeOK
<1>2. p.user \in Users /\ p.token \in Tokens /\ p.since \in Nat
  BY <1>1, StageTypes DEF Times
<1>3. Serves(p.token, now + 1)
  <2>1. now + 1 \in Int /\ p.since + SecretTtl + FetchTimeout \in Int
        /\ now + 1 <= p.since + SecretTtl + FetchTimeout
    BY <1>1, <1>2, Constants DEF StageInv
  <2> QED BY <1>1, <2>1, ServesLess DEF StageInv
<1> QED BY <1>1, <1>2, <1>3, AuthenticatesStages

LEMMA AllowUserStages ==
  ASSUME TypeOK, \A r \in Requests : StageInv(req[r]), NEW r \in Requests, AllowUser(r)
  PROVE  (\A s \in Requests : StageInv(req[s]))'
<1> DEFINE p == req[r]
           q == [pc |-> "ip", user |-> p.user, t |-> now]
<1>1. p \in Stages /\ p.pc = "user" /\ UNCHANGED <<now, bot, retired>> /\ now \in Nat /\ now \in Times
  BY RetiredTypes DEF AllowUser, TypeOK
<1>2. p.user \in Users
  BY <1>1, StageTypes
<1>3. q \in Stages /\ StageInv(q)
  BY <1>1, <1>2, Constants DEF Stages, StageInv
<1>4. Idle \in Stages /\ StageInv(Idle)
  BY DEF Stages, StageInv, Idle
<1>5. req' = [req EXCEPT ![r] = Idle] \/ req' = [req EXCEPT ![r] = q]
  BY DEF AllowUser
<1> HIDE DEF q
<1> QED BY <1>1, <1>3, <1>4, <1>5, OneGoes

LEMMA AllowIpStages ==
  ASSUME TypeOK, \A r \in Requests : StageInv(req[r]), NEW r \in Requests,
         AllowIp(r) \/ ResolveWallet(r) \/ Finish(r)
  PROVE  (\A s \in Requests : StageInv(req[s]))'
<1> DEFINE p == req[r]
           w == wallet[p.user]
           q1 == [pc |-> "wallet", user |-> p.user]
           q2(period) == [pc |-> "cache", user |-> p.user, period |-> period, wallet |-> w]
<1>1. CASE req' = [req EXCEPT ![r] = Idle]
  <2>1. Idle \in Stages /\ StageInv(Idle)
    BY DEF Stages, StageInv, Idle
  <2>2. UNCHANGED <<now, bot, retired>>
    BY DEF AllowIp, ResolveWallet, Finish
  <2> QED BY <1>1, <2>1, <2>2, OneGoes
<1>2. CASE AllowIp(r) /\ req' = [req EXCEPT ![r] = q1]
  <2>1. p \in Stages /\ p.pc = "ip" /\ UNCHANGED <<now, bot, retired>>
    BY <1>2 DEF AllowIp, TypeOK
  <2>2. p.user \in Users
    BY <2>1, StageTypes
  <2>3. q1 \in Stages /\ StageInv(q1)
    BY <2>2 DEF Stages, StageInv
  <2> HIDE DEF q1
  <2> QED BY <1>2, <2>1, <2>3, OneGoes
<1>3. ASSUME NEW period \in Periods, ResolveWallet(r), req' = [req EXCEPT ![r] = q2(period)]
      PROVE  (\A s \in Requests : StageInv(req[s]))'
  <2>1. p \in Stages /\ p.pc = "wallet" /\ UNCHANGED <<now, bot, retired>>
    BY <1>3 DEF ResolveWallet, TypeOK
  <2>2. p.user \in Users
    BY <2>1, StageTypes
  <2>3. w \in Wallets
    BY <2>2 DEF TypeOK, Wallets
  <2>4. q2(period) \in Stages /\ StageInv(q2(period))
    BY <2>2, <2>3 DEF Stages, StageInv
  <2> HIDE DEF q2
  <2> QED BY <1>3, <2>1, <2>4, OneGoes
<1>4. \/ req' = [req EXCEPT ![r] = Idle]
      \/ AllowIp(r) /\ req' = [req EXCEPT ![r] = q1]
      \/ ResolveWallet(r) /\ \E period \in Periods : req' = [req EXCEPT ![r] = q2(period)]
  BY DEF AllowIp, ResolveWallet, Finish
<1> HIDE DEF q1, q2
<1> QED BY <1>1, <1>2, <1>3, <1>4

LEMMA ReadSnapshotStages ==
  ASSUME TypeOK, SnapshotsInv, \A r \in Requests : StageInv(req[r]),
         NEW r \in Requests, ReadSnapshot(r)
  PROVE  (\A s \in Requests : StageInv(req[s]))'
<1> DEFINE p == req[r]
           k == CacheKey(p)
           e == snapshots[k]
           hit == [pc |-> "reply", period |-> p.period, wallet |-> p.wallet, reply |-> e.snap]
           miss == [pc |-> "fetch", user |-> p.user, period |-> p.period,
                    wallet |-> p.wallet, since |-> now]
<1>1. /\ p \in Stages /\ p.pc = "cache" /\ UNCHANGED <<now, bot, retired>>
      /\ now \in Times /\ now \in Nat
  BY RetiredTypes DEF ReadSnapshot, TypeOK
<1>2. p.user \in Users /\ p.period \in Periods /\ p.wallet \in Wallets
  BY <1>1, StageTypes
<1>3. CASE k \in DOMAIN Purged(snapshots)
  <2>1. k \in DOMAIN snapshots /\ now < e.exp /\ e \in [snap: Snapshots, exp: Nat]
    BY <1>3, PurgedTypes DEF TypeOK
  <2>2. /\ k[2] = e.snap.wallet /\ k[3] = e.snap.period
        /\ e.exp <= e.snap.at + FetchTimeout + SnapshotTtl
    BY <2>1 DEF SnapshotsInv
  <2>3. e.snap.wallet = p.wallet /\ e.snap.period = NormalizeChartPeriod(p.period)
    BY <2>2, KeyNames
  <2>4. e.snap.at + SnapshotTtl + FetchTimeout >= now
    <3>1. e.snap.at \in Nat /\ e.exp \in Nat
      BY <2>1 DEF Snapshots, Times
    <3> QED BY <1>1, <2>1, <2>2, <3>1, Constants
  <2>5. req' = [req EXCEPT ![r] = hit]
    BY <1>3 DEF ReadSnapshot
  <2>6. hit \in Stages
    BY <1>2, <2>1 DEF Stages
  <2> HIDE DEF e
  <2>7. StageInv(hit)
    BY <2>3, <2>4 DEF StageInv
  <2> HIDE DEF hit
  <2> QED BY <1>1, <2>5, <2>6, <2>7, OneGoes
<1>4. CASE k \notin DOMAIN Purged(snapshots)
  <2>1. req' = [req EXCEPT ![r] = miss]
    BY <1>4 DEF ReadSnapshot
  <2>2. miss \in Stages /\ StageInv(miss)
    BY <1>1, <1>2, Constants DEF Stages, StageInv
  <2> HIDE DEF miss
  <2> QED BY <1>1, <2>1, <2>2, OneGoes
<1> QED BY <1>3, <1>4

LEMMA StoreSnapshotStages ==
  ASSUME TypeOK, \A r \in Requests : StageInv(req[r]), NEW r \in Requests, StoreSnapshot(r)
  PROVE  (\A s \in Requests : StageInv(req[s]))'
<1> DEFINE p == req[r]
           snap == [wallet |-> p.wallet, period |-> NormalizeChartPeriod(p.period),
                    at |-> p.since]
           q == [pc |-> "reply", period |-> p.period, wallet |-> p.wallet, reply |-> snap]
<1>1. /\ p \in Stages /\ p.pc = "fetch" /\ StageInv(p) /\ UNCHANGED <<now, bot, retired>>
      /\ req' = [req EXCEPT ![r] = q] /\ now \in Nat
  BY RetiredTypes DEF StoreSnapshot, TypeOK
<1>2. /\ p.user \in Users /\ p.period \in Periods /\ p.wallet \in Wallets
      /\ p.since \in Nat /\ snap \in Snapshots
  BY <1>1, StageTypes, StoresSnapshot DEF Times
<1>3. p.since + SnapshotTtl + FetchTimeout >= now
  BY <1>1, <1>2, Constants DEF StageInv
<1>4. q \in Stages /\ StageInv(q)
  BY <1>2, <1>3 DEF Stages, StageInv
<1> HIDE DEF q
<1> QED BY <1>1, <1>4, OneGoes

LEMMA NextStages ==
  IInv /\ [Next]_vars => (\A s \in Requests : StageInv(req[s]))'
<1> SUFFICES ASSUME IInv, [Next]_vars PROVE (\A s \in Requests : StageInv(req[s]))'
  OBVIOUS
<1>1. TypeOK /\ SecretsInv /\ SnapshotsInv /\ \A r \in Requests : StageInv(req[r])
  BY DEF IInv
<1>2. CASE Tick
  <2> SUFFICES ASSUME NEW s \in Requests PROVE StageInv(req[s])'
    OBVIOUS
  <2>1. /\ req[s] \in Stages /\ StageInv(req[s]) /\ now \in Nat /\ now' = now + 1
        /\ UNCHANGED <<req, bot, retired>>
    BY <1>1, <1>2, RetiredTypes DEF Tick, TypeOK
  <2>2. CASE req[s] = Idle
    BY <2>1, <2>2 DEF StageInv, Idle
  <2>3. CASE req[s].pc \in {"store", "fetch"} /\ now < req[s].since + FetchTimeout
    <3>1. req[s].since \in Nat
      BY <2>1, <2>3, StageTypes DEF Times
    <3>2. req[s].since <= now + 1 /\ now + 1 <= req[s].since + FetchTimeout
      BY <2>1, <2>3, <3>1, Constants DEF StageInv
    <3> QED BY <2>1, <2>3, <3>2 DEF StageInv, Serves
  <2>4. CASE req[s].pc \in {"user", "ip"} /\ now < req[s].t + LockWait
    <3>1. req[s].t \in Nat
      BY <2>1, <2>4, StageTypes DEF Times
    <3>2. req[s].t <= now + 1 /\ now + 1 <= req[s].t + LockWait
      BY <2>1, <2>4, <3>1, Constants DEF StageInv
    <3> QED BY <2>1, <2>4, <3>2 DEF StageInv, Serves
  <2> QED BY <1>2, <2>2, <2>3, <2>4 DEF Tick
<1>3. CASE RotateToken
  <2> SUFFICES ASSUME NEW s \in Requests PROVE StageInv(req[s])'
    OBVIOUS
  <2> DEFINE q == req[s]
  <2>1. q \in Stages /\ StageInv(q) /\ now \in Nat /\ UNCHANGED <<now, req>>
    BY <1>1, <1>3, RetiredTypes DEF RotateToken, TypeOK
  <2>2. ASSUME q.pc = "store"
        PROVE  Serves(q.token, q.since + SecretTtl + FetchTimeout)'
    <3>1. q.since \in Nat /\ q.since <= now /\ Serves(q.token, q.since + SecretTtl + FetchTimeout)
      BY <2>1, <2>2, StageTypes DEF StageInv, Times
    <3>2. q.since + SecretTtl + FetchTimeout <= now + SecretTtl + FetchTimeout
      BY <2>1, <3>1, Constants
    <3> QED BY <1>1, <1>3, <2>1, <3>1, <3>2, ServesOn DEF Serves
  <2>3. ASSUME q.pc = "user"
        PROVE  Serves(q.token, q.t + 1)'
    <3>1. q.t \in Nat /\ q.t <= now /\ Serves(q.token, q.t + 1)
      BY <2>1, <2>3, StageTypes DEF StageInv, Times
    <3>2. q.t + 1 <= now + SecretTtl + FetchTimeout
      BY <2>1, <3>1, Constants
    <3> QED BY <1>1, <1>3, <2>1, <3>1, <3>2, ServesOn DEF Serves
  <2> QED BY <2>1, <2>2, <2>3 DEF StageInv
<1>4. CASE UNCHANGED <<now, bot, retired, req>>
  BY <1>1, <1>4 DEF StageInv, Serves
<1>5. CASE ReadOtherSecret \/ (\E u \in Users : WriteWallet(u))
  BY <1>4, <1>5 DEF ReadOtherSecret, WriteWallet
<1>6. ASSUME NEW r \in Requests, NEW u \in Users, Post(r, u)
      PROVE  (\A s \in Requests : StageInv(req[s]))'
  BY <1>1, <1>6, PostStages
<1>7. ASSUME NEW r \in Requests, StoreToken(r) PROVE (\A s \in Requests : StageInv(req[s]))'
  BY <1>1, <1>7, StoreTokenStages
<1>8. ASSUME NEW r \in Requests, AllowUser(r) PROVE (\A s \in Requests : StageInv(req[s]))'
  BY <1>1, <1>8, AllowUserStages
<1>9. ASSUME NEW r \in Requests, AllowIp(r) \/ ResolveWallet(r) \/ Finish(r)
      PROVE  (\A s \in Requests : StageInv(req[s]))'
  BY <1>1, <1>9, AllowIpStages
<1>10. ASSUME NEW r \in Requests, ReadSnapshot(r) PROVE (\A s \in Requests : StageInv(req[s]))'
  BY <1>1, <1>10, ReadSnapshotStages
<1>11. ASSUME NEW r \in Requests, StoreSnapshot(r) PROVE (\A s \in Requests : StageInv(req[s]))'
  BY <1>1, <1>11, StoreSnapshotStages
<1>12. CASE UNCHANGED vars
  BY <1>4, <1>12 DEF vars
<1> QED BY <1>2, <1>3, <1>5, <1>6, <1>7, <1>8, <1>9, <1>10, <1>11, <1>12 DEF Next

-----------------------------------------------------------------------------
LEMMA InitIInv == Init => IInv
<1> SUFFICES ASSUME Init PROVE IInv
  OBVIOUS
<1>1. \A u \in Users : WindowInv(u)
  BY DEF Init, WindowInv, HoldsLast
<1>2. SecretsInv /\ SnapshotsInv /\ \A r \in Requests : StageInv(req[r])
  BY DEF Init, SecretsInv, SnapshotsInv, StageInv, Idle
<1> QED BY <1>1, <1>2, InitTypes DEF IInv

LEMMA NextIInv == IInv /\ [Next]_vars => IInv'
BY NextTypes, NextSecrets, NextWindow, NextSnapshots, NextStages DEF IInv

LEMMA InvariantIInv == Spec => []IInv
BY InitIInv, NextIInv, PTL DEF Spec

(* Every variable has its type, and neither the secret cache nor the       *)
(* snapshot cache outgrows its size (ttl_lru_cache.py:42-48,               *)
(* portfolio_cache_server.py:51-68).                                       *)
THEOREM TypeCorrect == Spec => []TypeOK
BY InvariantIInv, PTL DEF IInv

(* A replaced bot token is accepted no longer than one lifetime of the     *)
(* cache and one read of the vault, whichever reader stores last           *)
(* (caching_secret_store.py:23-35).                                        *)
THEOREM OldTokensEnd == Spec => []OldTokenRefused
<1>1. IInv => OldTokenRefused
  <2> SUFFICES ASSUME IInv, NEW r \in Requests, req[r].pc = "user", req[r].token # bot
               PROVE  req[r].t < retired[req[r].token] + SecretTtl + FetchTimeout
    BY DEF OldTokenRefused
  <2>1. TypeOK /\ req[r] \in Stages /\ Serves(req[r].token, req[r].t + 1)
    BY DEF IInv, StageInv, TypeOK
  <2>2. req[r].t \in Nat
    BY <2>1, StageTypes DEF Times
  <2>3. /\ req[r].token \in 1 .. bot - 1
        /\ req[r].t + 1 <= retired[req[r].token] + SecretTtl + FetchTimeout
    BY <2>1, RetiredTypes DEF Serves
  <2> QED BY <2>1, <2>2, <2>3, RetiredTypes, Constants
<1> QED BY <1>1, InvariantIInv, PTL

(* Whatever the order in which threads that read the clock get the lock,   *)
(* no window that is LockWait shorter than the limiter's holds more of a   *)
(* user's admitted requests than the limit (rate_limit.py:29-38).          *)
THEOREM WindowsBounded == Spec => []RateLimited
<1>1. IInv => RateLimited
  <2> SUFFICES ASSUME IInv, NEW u \in Users, NEW t \in Times
               PROVE  Cardinality({i \in DOMAIN passed[u] :
                        passed[u][i] \in (t - (Window - LockWait) + 1) .. t}) <= MaxPerUser
    BY DEF RateLimited
  <2>1. TypeOK /\ HoldsLast(passed[u], events[u], now) /\ t \in Nat
    BY DEF IInv, WindowInv, Times
  <2>2. passed[u] \in Seq(Nat) /\ events[u] \in Seq(Nat) /\ now \in Nat
    BY <2>1, WindowTypes
  <2> QED BY <2>1, <2>2, FewInWindow
<1> QED BY <1>1, InvariantIInv, PTL

(* The reply is about the wallet and period of its own request and at most *)
(* one lifetime and one fetch old, although the snapshot may come from     *)
(* another request (portfolio_cache_server.py:27-68).                      *)
THEOREM RepliesOwn == Spec => []ReplyOfCaller
<1>1. IInv => ReplyOfCaller
  BY DEF IInv, StageInv, ReplyOfCaller
<1> QED BY <1>1, InvariantIInv, PTL
=============================================================================
