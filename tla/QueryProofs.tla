----------------------------- MODULE QueryProofs -----------------------------
(***************************************************************************)
(* Theorems about Query: what a reply contains, for every number of        *)
(* readers and writers, every range and every size of the block.           *)
(***************************************************************************)
EXTENDS Query, RecoveryProofs, FiniteSetTheorems

-----------------------------------------------------------------------------
(***************************************************************************)
(* What a scan of an array selects.                                        *)
(***************************************************************************)

Rank(hits, k) == Cardinality({j \in hits : j <= k})

\* Ranks number the elements of a set of positions from 1, in their order.
LEMMA RankFacts ==
  ASSUME NEW n \in Nat, NEW hits \in SUBSET (1 .. n)
  PROVE  /\ IsFiniteSet(hits) /\ Cardinality(hits) \in Nat
         /\ \A k \in hits : Rank(hits, k) \in 1 .. Cardinality(hits)
         /\ \A j, k \in hits : Rank(hits, j) = Rank(hits, k) => j = k
         /\ \A m \in 1 .. Cardinality(hits) : \E k \in hits : Rank(hits, k) = m
  <1> DEFINE Upto(k) == {j \in hits : j <= k}
             c == Cardinality(hits)
  <1>1. IsFiniteSet(1 .. n)
    BY FS_Interval
  <1>2. IsFiniteSet(hits)
    BY <1>1, FS_Subset
  <1>3. c \in Nat
    BY <1>2, FS_CardinalityType
  <1>4. ASSUME NEW k \in hits
        PROVE  /\ IsFiniteSet(Upto(k)) /\ Upto(k) \in SUBSET hits /\ Rank(hits, k) = Cardinality(Upto(k))
               /\ Rank(hits, k) \in 1 .. c
    <2>1. Upto(k) \in SUBSET hits /\ k \in Upto(k)
      BY <1>4
    <2> HIDE DEF Upto
    <2>2. IsFiniteSet(Upto(k)) /\ Cardinality(Upto(k)) <= c
      BY <1>2, <2>1, FS_Subset
    <2>3. Cardinality(Upto(k)) \in Nat /\ Cardinality(Upto(k)) # 0
      BY <2>1, <2>2, FS_CardinalityType, FS_EmptySet
    <2>4. Rank(hits, k) = Cardinality(Upto(k))
      BY DEF Rank, Upto
    <2> HIDE DEF c
    <2> QED
      BY <1>3, <2>1, <2>2, <2>3, <2>4
  <1>5. ASSUME NEW j \in hits, NEW k \in hits, j < k
        PROVE  Rank(hits, j) # Rank(hits, k)
    <2>0. hits \subseteq Int
      OBVIOUS
    <2>1. /\ Upto(j) \in SUBSET Upto(k) /\ k \in Upto(k) /\ k \notin Upto(j)
      <3>1. \A i \in hits : i <= j => i <= k
        BY <1>5, <2>0
      <3>2. k <= k /\ ~ (k <= j)
        BY <1>5, <2>0
      <3> QED
        BY <3>1, <3>2
    <2> HIDE DEF Upto
    <2>2. IsFiniteSet(Upto(k))
      BY <1>4
    <2>3. Cardinality(Upto(k)) = Cardinality(Upto(j)) => Upto(k) = Upto(j)
      BY <2>1, <2>2, FS_Subset
    <2> QED
      BY <1>4, <2>1, <2>3
  <1>6. \A j, k \in hits : Rank(hits, j) = Rank(hits, k) => j = k
    <2>1. \A j, k \in hits : j < k \/ k < j \/ j = k
      OBVIOUS
    <2> QED
      BY <1>5, <2>1
  <1>7. \A m \in 1 .. c : \E k \in hits : Rank(hits, k) = m
    <2> DEFINE f == [k \in hits |-> Rank(hits, k)]
    <2>1. f \in Injection(hits, 1 .. c)
      BY <1>4, <1>6 DEF Injection, IsInjective
    <2>2. IsFiniteSet(1 .. c) /\ Cardinality(1 .. c) = c
      BY <1>3, FS_Interval
    <2> HIDE DEF f
    <2>3. f \in Surjection(hits, 1 .. c)
      BY <2>1, <2>2, FS_Injection
    <2> QED
      BY <2>3 DEF Surjection, f
  <1> QED
    BY <1>2, <1>3, <1>4, <1>6, <1>7

\* A scan returns the points of its range, each as often as the array has it.
LEMMA SelectFacts ==
  ASSUME NEW S, NEW pts \in Seq(S), NEW from, NEW to
  PROVE  /\ Select(pts, from, to) \in Seq(S)
         /\ Range(Select(pts, from, to)) = {p \in Range(pts) : InRange(p, from, to)}
         /\ (\A j, k \in DOMAIN pts : pts[j] = pts[k] => j = k) =>
              LET s == Select(pts, from, to) IN
              \A j, k \in DOMAIN s : s[j] = s[k] => j = k
  <1> DEFINE hits == {k \in DOMAIN pts : InRange(pts[k], from, to)}
             Nth(m) == CHOOSE k \in hits : Rank(hits, k) = m
             c == Cardinality(hits)
             s == Select(pts, from, to)
  <1>1. Len(pts) \in Nat /\ DOMAIN pts = 1 .. Len(pts)
    OBVIOUS
  <1>2. hits \in SUBSET (1 .. Len(pts))
    BY <1>1
  <1>3. s = [m \in 1 .. c |-> pts[Nth(m)]]
    BY DEF Select, Rank
  <1>4. \A k \in hits : k \in DOMAIN pts /\ InRange(pts[k], from, to)
    OBVIOUS
  <1>5. \A k \in DOMAIN pts : InRange(pts[k], from, to) => k \in hits
    OBVIOUS
  <1> HIDE DEF hits, s
  <1>6. /\ c \in Nat
        /\ \A k \in hits : Rank(hits, k) \in 1 .. c
        /\ \A j, k \in hits : Rank(hits, j) = Rank(hits, k) => j = k
        /\ \A m \in 1 .. c : \E k \in hits : Rank(hits, k) = m
    <2>1. PICK n \in Nat : hits \in SUBSET (1 .. n)
      BY <1>1, <1>2
    <2> QED
      BY <2>1, RankFacts
  <1>7. \A m \in 1 .. c : Nth(m) \in hits /\ Rank(hits, Nth(m)) = m
    BY <1>6
  <1>8. \A k \in hits : Nth(Rank(hits, k)) = k
    BY <1>6, <1>7
  <1> HIDE DEF c, Nth
  <1>9. s \in Seq(S) /\ DOMAIN s = 1 .. c
    <2>1. \A m \in 1 .. c : pts[Nth(m)] \in S
      BY <1>4, <1>7
    <2> QED
      BY <1>3, <1>6, <2>1
  <1>10. ASSUME NEW p, p \in Range(pts), InRange(p, from, to)
         PROVE  p \in Range(s)
    <2>1. PICK k \in DOMAIN pts : pts[k] = p
      BY <1>10 DEF Range
    <2>2. k \in hits /\ Rank(hits, k) \in 1 .. c
      BY <1>5, <1>6, <1>10, <2>1
    <2>3. s[Rank(hits, k)] = p
      BY <1>3, <1>8, <2>1, <2>2
    <2> QED
      BY <1>9, <2>2, <2>3 DEF Range
  <1>11. ASSUME NEW p \in Range(s)
         PROVE  p \in Range(pts) /\ InRange(p, from, to)
    <2>1. PICK m \in 1 .. c : s[m] = p
      BY <1>9, <1>11 DEF Range
    <2>2. p = pts[Nth(m)] /\ Nth(m) \in hits
      BY <1>3, <1>7, <2>1
    <2> QED
      BY <1>4, <2>2 DEF Range
  <1>12. ASSUME \A j, k \in DOMAIN pts : pts[j] = pts[k] => j = k,
                NEW j \in DOMAIN s, NEW k \in DOMAIN s, s[j] = s[k]
         PROVE  j = k
    <2>1. j \in 1 .. c /\ k \in 1 .. c
      BY <1>9
    <2>2. pts[Nth(j)] = pts[Nth(k)] /\ Nth(j) \in DOMAIN pts /\ Nth(k) \in DOMAIN pts
      BY <1>3, <1>4, <1>7, <1>12, <2>1
    <2>3. Nth(j) = Nth(k)
      BY <1>12, <2>2
    <2> QED
      BY <1>7, <2>1, <2>3
  <1> QED
    BY <1>9, <1>10, <1>11, <1>12 DEF s

\* Two scans one after the other.
LEMMA ConcatFacts ==
  ASSUME NEW S, NEW a \in Seq(S), NEW b \in Seq(S)
  PROVE  a \o b \in Seq(S) /\ Range(a \o b) = Range(a) \cup Range(b)
  <1> DEFINE m == Len(a)
             n == Len(b)
             ab == a \o b
  <1>1. m \in Nat /\ n \in Nat /\ DOMAIN a = 1 .. m /\ DOMAIN b = 1 .. n
    OBVIOUS
  <1>2. ab \in Seq(S) /\ Len(ab) = m + n /\ \A i \in 1 .. m + n : ab[i] = IF i <= m THEN a[i] ELSE b[i - m]
    BY ConcatProperties, Zenon
  <1> HIDE DEF ab, m, n
  <1>3. DOMAIN ab = 1 .. m + n
    BY <1>2
  <1>4. \A i \in 1 .. m : i \in 1 .. m + n /\ ab[i] = a[i]
    BY <1>1, <1>2
  <1>5. \A i \in 1 .. n : m + i \in 1 .. m + n /\ ab[m + i] = b[i]
    <2> SUFFICES ASSUME NEW i \in 1 .. n PROVE m + i \in 1 .. m + n /\ ab[m + i] = b[i]
      OBVIOUS
    <2>1. m + i \in 1 .. m + n /\ ~ (m + i <= m) /\ m + i - m = i
      BY <1>1
    <2>2. PICK j \in 1 .. m + n : j = m + i
      BY <2>1
    <2>3. ab[j] = b[j - m]
      BY <1>2, <2>1, <2>2
    <2>4. j - m = i
      BY <1>1, <2>2
    <2>5. ab[m + i] = ab[j] /\ b[j - m] = b[i]
      BY <2>2, <2>4, Zenon
    <2> QED
      BY <2>1, <2>3, <2>5
  <1>6. \A i \in 1 .. m + n : i \in 1 .. m \/ \E k \in 1 .. n : i = m + k
    <2> SUFFICES ASSUME NEW i \in 1 .. m + n, i \notin 1 .. m PROVE \E k \in 1 .. n : i = m + k
      OBVIOUS
    <2>1. i - m \in 1 .. n /\ i = m + (i - m)
      BY <1>1
    <2> QED
      BY <2>1
  <1>7. \A x \in Range(ab) : x \in Range(a) \cup Range(b)
    <2> SUFFICES ASSUME NEW i \in 1 .. m + n PROVE ab[i] \in Range(a) \cup Range(b)
      BY <1>3 DEF Range
    <2>1. CASE i \in 1 .. m
      BY <1>1, <1>4, <2>1 DEF Range
    <2>2. CASE \E k \in 1 .. n : i = m + k
      BY <1>1, <1>5, <2>2 DEF Range
    <2> QED
      BY <1>6, <2>1, <2>2
  <1>8. Range(a) \subseteq Range(ab)
    BY <1>1, <1>3, <1>4 DEF Range
  <1>9. Range(b) \subseteq Range(ab)
    BY <1>1, <1>3, <1>5 DEF Range
  <1> QED
    BY <1>2, <1>7, <1>8, <1>9 DEF ab

-----------------------------------------------------------------------------
(***************************************************************************)
(* What has not been logged yet is only in the block, under its lock.      *)
(***************************************************************************)

HeadLogged ==
    \A p \in Range(head.pts) : p \in accepted \/ \E t \in Threads : pc[t] = "wal" /\ p = pt[t]

CommittedInv ==
    /\ Range(wal) \subseteq accepted
    /\ \A i \in ChunkIds : FilePoints(i) \subseteq accepted
    /\ HeadLogged

\* A step that leaves the points alone and no PUT behind.
LEMMA CommittedFrame ==
  ASSUME CommittedInv, UNCHANGED <<wal, accepted>>,
         \A i \in ChunkIds : files'[i].pts = files[i].pts,
         \/ head'.pts = << >>
         \/ /\ head'.pts = head.pts
            /\ \A t \in Threads : pc[t] = "wal" => pc'[t] = "wal" /\ pt'[t] = pt[t]
  PROVE  CommittedInv'
  <1>1. \A i \in ChunkIds : FilePoints(i)' = FilePoints(i)
    BY DEF FilePoints, Range
  <1>2. HeadLogged'
    <2>1. CASE head'.pts = << >>
      BY <2>1 DEF HeadLogged, Range
    <2>2. CASE /\ head'.pts = head.pts
               /\ \A t \in Threads : pc[t] = "wal" => pc'[t] = "wal" /\ pt'[t] = pt[t]
      BY <2>2 DEF HeadLogged, CommittedInv
    <2> QED
      BY <2>1, <2>2
  <1> QED
    BY <1>1, <1>2 DEF CommittedInv

\* While the lock is free every point of the block has been logged.
LEMMA HeadCommitted ==
  ASSUME TypeInv, CommittedInv, lock = NoThread
  PROVE  Range(head.pts) \subseteq accepted
  BY EngineAssumption DEF TypeInv, LockInv, Critical, CommittedInv, HeadLogged, Threads

LEMMA CommittedTry ==
  ASSUME TypeInv, CommittedInv, NEW t \in Clients, Head_PUT_try(t)
  PROVE  CommittedInv'
  <1>1. t \in Threads /\ lock = NoThread /\ UNCHANGED <<wal, accepted, files>>
    BY DEF Head_PUT_try, Threads, disk, history
  <1>2. \A u \in Threads : pc[u] # "wal"
    BY <1>1, EngineAssumption DEF TypeInv, LockInv, Critical, Threads
  <1>3. CASE head' = head
    BY <1>1, <1>2, <1>3, CommittedFrame
  <1>4. CASE head' = PUT_value(head, pt[t]) /\ pc' = [pc EXCEPT ![t] = "wal"] /\ pt' = pt
    <2>1. head.pts \in Seq(Sent) /\ pt[t] \in Sent \cup {NoPoint} /\ pc'[t] = "wal"
      BY <1>1, <1>4 DEF TypeInv, TypeOK, MemoryOK
    <2>2. head.pts \in Seq(Sent \cup {NoPoint})
      BY <2>1
    <2>3. Range(head'.pts) = Range(head.pts) \cup {pt[t]}
      BY <1>4, <2>1, <2>2, AppendFacts DEF PUT_value
    <2>4. HeadLogged'
      BY <1>1, <1>4, <2>1, <2>3, HeadCommitted DEF HeadLogged
    <2> QED
      BY <1>1, <2>4 DEF CommittedInv, FilePoints
  <1> QED
    BY <1>3, <1>4 DEF Head_PUT_try

LEMMA CommittedLog ==
  ASSUME TypeInv, CommittedInv, NEW t \in Clients, Head_PUT_log(t)
  PROVE  CommittedInv'
  <1>1. /\ t \in Threads /\ lock = t /\ pc[t] = "wal" /\ UNCHANGED <<head, files>>
        /\ accepted' = accepted \cup {pt[t]}
        /\ wal' = Append(wal, pt[t]) \/ wal' = wal
    BY DEF Head_PUT_log, Threads, wal_append, TypeInv, LockInv, Critical
  <1>2. \A u \in Threads : pc[u] = "wal" => u = t
    BY <1>1 DEF TypeInv, LockInv, Critical
  <1>3. HeadLogged'
    BY <1>1, <1>2 DEF HeadLogged, CommittedInv
  <1>4. Range(wal') \subseteq accepted'
    <2>1. wal \in Seq(Sent \cup {NoPoint}) /\ pt[t] \in Sent \cup {NoPoint}
      BY <1>1 DEF TypeInv, TypeOK, MemoryOK, DiskOK
    <2>2. Range(Append(wal, pt[t])) = Range(wal) \cup {pt[t]}
      BY <2>1, AppendFacts
    <2> QED
      BY <1>1, <2>2 DEF CommittedInv
  <1>5. \A i \in ChunkIds : FilePoints(i)' \subseteq accepted'
    BY <1>1 DEF CommittedInv, FilePoints
  <1> QED
    BY <1>3, <1>4, <1>5 DEF CommittedInv

LEMMA CommittedOpen ==
  ASSUME TypeInv, CommittedInv, NEW t \in Threads, headflush_open(t)
  PROVE  CommittedInv'
  <1>1. /\ lock = NoThread /\ UNCHANGED <<head, wal, accepted, pt>>
        /\ \A u \in Threads : pc[u] # "wal"
    BY EngineAssumption DEF headflush_open, history, TypeInv, LockInv, Critical, Threads
  <1>2. CASE files' = files
    BY <1>1, <1>2, CommittedFrame
  <1>3. CASE head.pts # << >> /\ files' = [files EXCEPT ![HeadId] = [state |-> "torn", pts |-> head.pts]]
    <2>1. \A i \in ChunkIds : files'[i] = IF i = HeadId THEN [state |-> "torn", pts |-> head.pts]
                                          ELSE files[i]
      BY <1>3, HeadIdType DEF TypeInv, TypeOK, DiskOK
    <2>2. ASSUME NEW i \in ChunkIds PROVE FilePoints(i)' \subseteq accepted
      <3>1. files'[i].pts = head.pts \/ files'[i].pts = files[i].pts
        BY <2>1, <2>2
      <3> QED
        BY <1>1, <2>2, <3>1, HeadCommitted DEF FilePoints, CommittedInv
    <2>3. HeadLogged'
      BY <1>1, HeadCommitted DEF HeadLogged
    <2> QED
      BY <1>1, <2>2, <2>3 DEF CommittedInv
  <1> QED
    BY <1>2, <1>3 DEF headflush_open

LEMMA CommittedReplay ==
  ASSUME TypeInv, CommittedInv, wal_replay
  PROVE  CommittedInv'
  <1>1. UNCHANGED <<wal, accepted, files, pc, pt>>
    BY DEF wal_replay, disk, history
  <1>2. CASE head' = head
    BY <1>1, <1>2, CommittedFrame
  <1>3. CASE head' = PUT_value(head, wal[rpos])
    <2>1. head.pts \in Seq(Sent) /\ wal \in Seq(Sent) /\ rpos \in DOMAIN wal
      BY DEF TypeInv, TypeOK, MemoryOK, DiskOK, wal_replay
    <2>2. wal[rpos] \in Sent /\ wal[rpos] \in Range(wal)
      BY <2>1 DEF Range
    <2>3. Range(head'.pts) = Range(head.pts) \cup {wal[rpos]}
      BY <1>3, <2>1, <2>2, AppendFacts DEF PUT_value
    <2>4. HeadLogged'
      BY <1>1, <2>2, <2>3 DEF HeadLogged, CommittedInv
    <2> QED
      BY <1>1, <2>4 DEF CommittedInv, FilePoints
  <1> QED
    BY <1>2, <1>3 DEF wal_replay

LEMMA CommittedFlush ==
  ASSUME TypeInv, CommittedInv, NEW t \in Threads,
         flushtochunk(t) \/ headflush_register(t) \/ headflush_truncate(t)
  PROVE  CommittedInv'
  <1>1. accepted' = accepted /\ pt' = pt /\ pc[t] # "wal"
        /\ \A u \in Threads : u # t => pc'[u] = pc[u]
    BY DEF flushtochunk, headflush_register, headflush_truncate, history, TypeInv, TypeOK, MemoryOK
  <1>2. CASE flushtochunk(t)
    <2>1. head' = head /\ wal' = wal
      BY <1>2 DEF flushtochunk
    <2>2. \A i \in ChunkIds : files'[i].pts = files[i].pts
      <3>1. \A i \in ChunkIds : files[i] \in File
        BY DEF TypeInv, TypeOK, DiskOK
      <3>2. files' = files \/ files' = [files EXCEPT ![HeadId].state = "whole"]
        BY <1>2 DEF flushtochunk
      <3>3. files \in [ChunkIds -> File]
        BY DEF TypeInv, TypeOK, DiskOK
      <3>4. CASE files' = [files EXCEPT ![HeadId].state = "whole"]
        <4>1. HeadId \in ChunkIds
          BY <1>2, HeadIdType DEF TypeInv, PcInv, flushtochunk
        <4> QED
          BY <3>1, <3>3, <3>4, <4>1 DEF File
      <3> QED
        BY <3>2, <3>4
    <2> QED
      BY <1>1, <2>1, <2>2, CommittedFrame
  <1>3. CASE headflush_register(t)
    BY <1>1, <1>3, CommittedFrame DEF headflush_register, EmptiedHead, disk
  <1>4. CASE headflush_truncate(t)
    <2>1. UNCHANGED <<head, files>> /\ (wal' = << >> \/ wal' = wal)
      BY <1>4 DEF headflush_truncate, wal_truncate
    <2>2. Range(wal') \subseteq accepted
      BY <2>1 DEF CommittedInv, Range
    <2>3. HeadLogged'
      BY <1>1, <2>1 DEF CommittedInv, HeadLogged
    <2> QED
      BY <1>1, <2>1, <2>2, <2>3 DEF CommittedInv, FilePoints
  <1> QED
    BY <1>2, <1>3, <1>4

LEMMA CommittedHalt ==
  ASSUME TypeInv, CommittedInv, Halt, UNCHANGED <<wal, accepted>>,
         \A i \in ChunkIds : files'[i].pts = files[i].pts
  PROVE  CommittedInv'
  BY CommittedFrame DEF Halt, getNewHeadBlock

LEMMA CommittedStep ==
  ASSUME TypeInv, CommittedInv, [Next]_vars
  PROVE  CommittedInv' /\ accepted \subseteq accepted'
  <1>1. ASSUME NEW t \in Clients, NEW ts \in Timestamps, Head_PUT_lookup(t, ts)
        PROVE  CommittedInv' /\ accepted \subseteq accepted'
    <2>1. UNCHANGED <<wal, accepted, files>> /\ (head' = head \/ head'.pts = << >>)
      BY <1>1 DEF Head_PUT_lookup, getNewHeadBlock, disk
    <2>2. \A u \in Threads : pc[u] = "wal" => pc'[u] = "wal" /\ pt'[u] = pt[u]
      BY <1>1 DEF Head_PUT_lookup, TypeInv, TypeOK, MemoryOK
    <2> QED
      BY <2>1, <2>2, CommittedFrame
  <1>2. ASSUME NEW t \in Clients, headflush_lookup(t)
        PROVE  CommittedInv' /\ accepted \subseteq accepted'
    <2>1. UNCHANGED <<wal, accepted, files>>
      BY <1>2 DEF headflush_lookup, disk
    <2>2. CASE Halt
      BY <2>1, <2>2, CommittedHalt
    <2>3. CASE ~ Halt
      <3>1. \A u \in Threads : pc[u] = "wal" => pc'[u] = "wal" /\ pt'[u] = pt[u]
        BY <1>2, <2>3 DEF headflush_lookup, TypeInv, TypeOK, MemoryOK
      <3> QED
        BY <1>2, <2>1, <2>3, <3>1, CommittedFrame DEF headflush_lookup
    <2> QED
      BY <2>2, <2>3
  <1>3. ASSUME NEW t \in Clients, Head_PUT_try(t) PROVE CommittedInv' /\ accepted \subseteq accepted'
    BY <1>3, CommittedTry DEF Head_PUT_try, history
  <1>4. ASSUME NEW t \in Clients, Head_PUT_log(t) PROVE CommittedInv' /\ accepted \subseteq accepted'
    BY <1>4, CommittedLog DEF Head_PUT_log
  <1>5. ASSUME NEW t \in Threads, headflush_open(t) PROVE CommittedInv' /\ accepted \subseteq accepted'
    BY <1>5, CommittedOpen DEF headflush_open, history
  <1>6. ASSUME NEW t \in Threads, flushtochunk(t) \/ headflush_register(t) \/ headflush_truncate(t)
        PROVE  CommittedInv' /\ accepted \subseteq accepted'
    BY <1>6, CommittedFlush DEF flushtochunk, headflush_register, headflush_truncate, history
  <1>7. ASSUME cleanupRegistry PROVE CommittedInv' /\ accepted \subseteq accepted'
    <2>1. UNCHANGED <<wal, accepted, files, head, pt>>
      BY <1>7 DEF cleanupRegistry, disk
    <2>2. \A u \in Threads : pc[u] = "wal" => pc'[u] = "wal"
      BY <1>7 DEF cleanupRegistry, TypeInv, TypeOK, MemoryOK
    <2> QED
      BY <2>1, <2>2, CommittedFrame
  <1>8. ASSUME exitProcess \/ Crash \/ PowerLoss PROVE CommittedInv' /\ accepted \subseteq accepted'
    <2>1. Halt /\ UNCHANGED <<wal, accepted>>
      BY <1>8 DEF exitProcess, Crash, PowerLoss, disk, history
    <2>2. \A i \in ChunkIds : files'[i].pts = files[i].pts
      BY <1>8 DEF exitProcess, Crash, PowerLoss, disk, TypeInv, TypeOK, DiskOK, File
    <2> QED
      BY <2>1, <2>2, CommittedHalt
  <1>9. ASSUME NEW i \in ChunkIds, Writeback(i) PROVE CommittedInv' /\ accepted \subseteq accepted'
    BY <1>9, CommittedFrame DEF Writeback, memory, history
  <1>10. ASSUME loadRegistry PROVE CommittedInv' /\ accepted \subseteq accepted'
    BY <1>10, CommittedFrame DEF loadRegistry, getNewHeadBlock, disk, history
  <1>11. ASSUME NEW i \in ChunkIds, loadChunkMetadata(i) PROVE CommittedInv' /\ accepted \subseteq accepted'
    BY <1>11, CommittedFrame DEF loadChunkMetadata, disk, history
  <1>12. ASSUME wal_replay PROVE CommittedInv' /\ accepted \subseteq accepted'
    BY <1>12, CommittedReplay DEF wal_replay, history
  <1>13. ASSUME loadRegistry_done PROVE CommittedInv' /\ accepted \subseteq accepted'
    BY <1>13, CommittedFrame DEF loadRegistry_done, disk, history
  <1>14. ASSUME UNCHANGED vars PROVE CommittedInv' /\ accepted \subseteq accepted'
    BY <1>14, CommittedFrame DEF vars, memory, disk, history
  <1> QED
    BY <1>1, <1>2, <1>3, <1>4, <1>5, <1>6, <1>7, <1>8, <1>9, <1>10, <1>11, <1>12, <1>13, <1>14, Steps

-----------------------------------------------------------------------------
(***************************************************************************)
(* The readers, step by step.                                              *)
(***************************************************************************)

Kinds == {"GET", "AGG", "STATS"}

ReaderRec ==
    [pc : {"idle", "scan", "head", "chunks", "reply", "error"}, kind : Kinds,
     from : Int, to : Int, i : Nat \ {0}, got : Seq(Sent), body : Seq(Sent),
     first : Int, last : Int, size : Nat, known : SUBSET Sent, len : Nat, moved : BOOLEAN]

ReadersOK == reader \in [Readers -> ReaderRec]

\* What the chunk at hand and the block add to an answer.
LEMMA AddedPoints ==
  ASSUME TypeInv, NEW q \in ReaderRec
  PROVE  /\ HeadPoints(q) \in Seq(Sent)
         /\ Range(HeadPoints(q)) = {p \in Range(head.pts) : InRange(p, q.from, q.to)}
         /\ \A c \in ChunkMetadata :
              /\ ChunkPoints(q, c) \in Seq(Sent)
              /\ Range(ChunkPoints(q, c)) = {p \in FilePoints(c.id) : InRange(p, q.from, q.to)}
  <1>1. head.pts \in Seq(Sent)
    BY DEF TypeInv, TypeOK, MemoryOK
  <1>2. \A c \in ChunkMetadata : files[c.id].pts \in Seq(Sent)
    BY DEF TypeInv, TypeOK, DiskOK, ChunkMetadata, File
  <1> QED
    BY <1>1, <1>2, SelectFacts DEF HeadPoints, GET_value, ChunkPoints, FilePoints

\* A step of a reader of GET or AGG through the chunk list.
ScanStep(r) ==
    LET q == reader[r]
        x == reader'[r]
    IN /\ q.pc = "scan"
       /\ x.kind = q.kind /\ x.from = q.from /\ x.to = q.to /\ x.known = q.known
       /\ \/ /\ q.i <= Len(chunks) /\ x.pc = "scan" /\ x.i = q.i + 1 /\ x.got = q.got
             /\ ~ Overlaps(q, chunks[q.i]) \/ files[chunks[q.i].id].state # "whole"
          \/ /\ q.i <= Len(chunks) /\ x.pc = "scan" /\ x.i = q.i + 1
             /\ x.got = q.got \o ChunkPoints(q, chunks[q.i])
          \/ x.pc = "error" /\ x.got = q.got
          \/ /\ q.i > Len(chunks) /\ x.pc = "head" /\ x.got = q.got /\ x.len = Len(chunks)

\* The same reader at the block.
HeadStep(r) ==
    LET q == reader[r]
        x == reader'[r]
    IN /\ q.pc = "head" /\ q.kind # "STATS" /\ lock = NoThread
       /\ x.kind = q.kind /\ x.from = q.from /\ x.to = q.to /\ x.known = q.known
       /\ x.pc = "reply" /\ x.got = q.got \o HeadPoints(q)
       /\ ~ x.moved => Len(chunks) = q.len

\* A new request.
LookupStep(r) ==
    LET x == reader'[r]
    IN /\ proc = "up"
       /\ x.got = << >> /\ x.known = accepted /\ x.i = 1
       /\ \/ ~ registered /\ x.pc = "reply"
          \/ registered /\ x.kind = "STATS" /\ x.pc = "head"
          \/ registered /\ x.kind # "STATS" /\ x.pc = "scan"

\* A step of STATS.
StatsStep(r) ==
    LET q == reader[r]
        x == reader'[r]
    IN /\ q.kind = "STATS" \/ q.pc = "chunks"
       /\ x.kind = q.kind /\ x.known = q.known /\ x.got = q.got
       /\ \/ /\ q.pc = "head" /\ lock = NoThread /\ x.pc = "chunks" /\ x.size = Len(head.pts)
             /\ head.pts = << >> => x.first = -1 /\ x.last = -1
             /\ head.pts # << >> => x.first = head.pts[1].ts /\ x.last = head.last
          \/ /\ q.pc = "chunks" /\ x.pc = "reply" /\ x.size = q.size /\ x.len = Len(chunks)
             /\ chunks = << >> => x.first = q.first /\ x.last = q.last
             /\ chunks # << >> => /\ x.first = chunks[1].start_ts
                                  /\ x.last = IF q.last = -1 THEN chunks[Len(chunks)].end_ts ELSE q.last

LEMMA ReaderCases ==
  ASSUME TypeInv, ReadersOK, NEW r \in Readers, Read(r)
  PROVE  /\ ReadersOK'
         /\ \A d \in Readers \ {r} : reader'[d] = reader[d]
         /\ ScanStep(r) \/ HeadStep(r) \/ LookupStep(r) \/ StatsStep(r)
  <1> DEFINE q == reader[r]
             x == reader'[r]
  <1>1. q \in ReaderRec
    BY DEF ReadersOK
  <1>2. /\ q.kind \in Kinds /\ q.from \in Int /\ q.to \in Int /\ q.i \in Nat \ {0}
        /\ q.got \in Seq(Sent) /\ q.body \in Seq(Sent) /\ q.first \in Int /\ q.last \in Int
        /\ q.size \in Nat /\ q.known \in SUBSET Sent /\ q.len \in Nat /\ q.moved \in BOOLEAN
    BY <1>1 DEF ReaderRec
  <1>3. /\ chunks \in Seq(ChunkMetadata) /\ Len(chunks) \in Nat /\ head.pts \in Seq(Sent)
        /\ Len(head.pts) \in Nat /\ head.last \in Int /\ accepted \in SUBSET Sent
    BY DEF TypeInv, TypeOK, MemoryOK, HistoryOK
  <1>4. ASSUME NEW y \in ReaderRec, reader' = [reader EXCEPT ![r] = y]
        PROVE  ReadersOK' /\ (\A d \in Readers \ {r} : reader'[d] = reader[d]) /\ reader'[r] = y
    BY <1>4 DEF ReadersOK
  <1>5. ASSUME NEW kind \in Kinds, NEW range \in Ranges, Query_lookup(r, kind, range)
        PROVE  ReadersOK' /\ (\A d \in Readers \ {r} : reader'[d] = reader[d]) /\ LookupStep(r)
    <2> DEFINE pcn == IF ~ registered THEN "reply" ELSE IF kind = "STATS" THEN "head" ELSE "scan"
               y == Reader(pcn, kind, range)
    <2>1. range[1] \in Int /\ range[2] \in Int
      BY QueryAssumption
    <2>2. y \in ReaderRec
      BY <1>3, <2>1 DEF Reader, ReaderRec
    <2>3. y.got = << >> /\ y.known = accepted /\ y.i = 1 /\ y.kind = kind /\ y.pc = pcn
      BY DEF Reader
    <2>4. reader' = [reader EXCEPT ![r] = y] /\ proc = "up"
      BY <1>5, SMTT(40) DEF Query_lookup
    <2> HIDE DEF y
    <2> QED
      BY <1>4, <2>2, <2>3, <2>4 DEF LookupStep
  <1>6. ASSUME Scan_chunk(r)
        PROVE  ReadersOK' /\ (\A d \in Readers \ {r} : reader'[d] = reader[d]) /\ ScanStep(r)
    <2> DEFINE c == chunks[q.i]
    <2>1. q.pc = "scan" /\ q.i <= Len(chunks)
      BY <1>6 DEF Scan_chunk
    <2>2. q.i \in 1 .. Len(chunks)
      BY <1>2, <1>3, <2>1, SMTT(40)
    <2>3. c \in ChunkMetadata
      BY <1>3, <2>2, ElementOfSeq
    <2>4. q.got \o ChunkPoints(q, c) \in Seq(Sent)
      BY <1>1, <1>2, <2>3, AddedPoints, ConcatFacts
    <2>5. q.i + 1 \in Nat \ {0}
      BY <1>2, SMTT(40)
    <2> HIDE DEF c
    <2>6. CASE /\ reader' = [reader EXCEPT ![r] = Advance(q)]
               /\ ~ Overlaps(q, c) \/ files[c.id].state # "whole"
      <3> DEFINE y == Advance(q)
      <3>1. y \in ReaderRec
        BY <1>1, <2>5 DEF ReaderRec, Advance
      <3>2. /\ y.kind = q.kind /\ y.from = q.from /\ y.to = q.to /\ y.known = q.known
            /\ y.pc = q.pc /\ y.i = q.i + 1 /\ y.got = q.got
        BY <1>1, SMTT(40) DEF ReaderRec, Advance
      <3> HIDE DEF y
      <3> QED
        BY <1>4, <2>1, <2>6, <3>1, <3>2 DEF ScanStep, y, c
    <2>7. CASE reader' = [reader EXCEPT ![r] = [Advance(q) EXCEPT !.got = @ \o ChunkPoints(q, c)]]
      <3> DEFINE y == [Advance(q) EXCEPT !.got = @ \o ChunkPoints(q, c)]
      <3>1. y \in ReaderRec
        BY <1>1, <2>4, <2>5 DEF ReaderRec, Advance
      <3>2. /\ y.kind = q.kind /\ y.from = q.from /\ y.to = q.to /\ y.known = q.known
            /\ y.pc = q.pc /\ y.i = q.i + 1 /\ y.got = q.got \o ChunkPoints(q, c)
        BY <1>1 DEF ReaderRec, Advance
      <3> HIDE DEF y
      <3> QED
        BY <1>4, <2>1, <2>7, <3>1, <3>2 DEF ScanStep, y, c
    <2>8. CASE reader' = [reader EXCEPT ![r].pc = "error"]
      <3> DEFINE y == [q EXCEPT !.pc = "error"]
      <3>1. y \in ReaderRec
        BY <1>1 DEF ReaderRec
      <3>2. /\ y.kind = q.kind /\ y.from = q.from /\ y.to = q.to /\ y.known = q.known
            /\ y.pc = "error" /\ y.got = q.got
        BY <1>1 DEF ReaderRec
      <3>3. reader' = [reader EXCEPT ![r] = y]
        BY <2>8
      <3> HIDE DEF y
      <3> QED
        BY <1>4, <2>1, <3>1, <3>2, <3>3 DEF ScanStep
    <2> QED
      BY <1>6, <2>6, <2>7, <2>8 DEF Scan_chunk, c
  <1>7. ASSUME Scan_end(r)
        PROVE  ReadersOK' /\ (\A d \in Readers \ {r} : reader'[d] = reader[d]) /\ ScanStep(r)
    <2> DEFINE y == [q EXCEPT !.pc = "head", !.len = Len(chunks)]
    <2>1. y \in ReaderRec
      BY <1>1, <1>3 DEF ReaderRec
    <2>2. /\ y.kind = q.kind /\ y.from = q.from /\ y.to = q.to /\ y.known = q.known
          /\ y.pc = "head" /\ y.got = q.got /\ y.len = Len(chunks)
      BY <1>1 DEF ReaderRec
    <2>3. reader' = [reader EXCEPT ![r] = y]
      BY <1>7 DEF Scan_end
    <2> HIDE DEF y
    <2> QED
      BY <1>4, <1>7, <2>1, <2>2, <2>3 DEF ScanStep, Scan_end
  <1>8. ASSUME Head_read(r)
        PROVE  ReadersOK' /\ (\A d \in Readers \ {r} : reader'[d] = reader[d]) /\ HeadStep(r)
    <2> DEFINE got == q.got \o HeadPoints(q)
               body == IF q.kind = "GET" THEN q.got ELSE got
               moved == Len(chunks) # q.len
               y == [q EXCEPT !.pc = "reply", !.got = got, !.body = body, !.moved = moved]
    <2>1. got \in Seq(Sent) /\ body \in Seq(Sent) /\ moved \in BOOLEAN
      BY <1>1, <1>2, AddedPoints, ConcatFacts
    <2>2. reader' = [reader EXCEPT ![r] = y]
      BY <1>8 DEF Head_read
    <2>3. ~ moved => Len(chunks) = q.len
      OBVIOUS
    <2> HIDE DEF got, body, moved
    <2>4. y \in ReaderRec
      BY <1>1, <2>1 DEF ReaderRec
    <2>5. /\ y.kind = q.kind /\ y.from = q.from /\ y.to = q.to /\ y.known = q.known
          /\ y.pc = "reply" /\ y.got = got /\ y.moved = moved
      BY <1>1 DEF ReaderRec
    <2> HIDE DEF y
    <2> QED
      BY <1>4, <1>8, <2>2, <2>3, <2>4, <2>5 DEF HeadStep, Head_read, got
  <1>9. ASSUME Stats(r)
        PROVE  ReadersOK' /\ (\A d \in Readers \ {r} : reader'[d] = reader[d]) /\ StatsStep(r)
    <2>1. CASE q.pc = "head"
      <3> DEFINE first == IF head.pts = << >> THEN -1 ELSE head.pts[1].ts
                 last == IF head.pts = << >> THEN -1 ELSE head.last
                 y == [q EXCEPT !.pc = "chunks", !.size = Len(head.pts), !.first = first, !.last = last]
      <3>1. head.pts # << >> => head.pts[1].ts \in Int
        BY HeadIdType, EngineAssumption DEF TypeInv, Sent
      <3>2. first \in Int /\ last \in Int
        BY <1>3, <3>1
      <3>3. y \in ReaderRec
        BY <1>1, <1>3, <3>2 DEF ReaderRec
      <3>4. /\ y.kind = q.kind /\ y.known = q.known /\ y.got = q.got
            /\ y.pc = "chunks" /\ y.size = Len(head.pts) /\ y.first = first /\ y.last = last
        BY <1>1 DEF ReaderRec
      <3>5. reader' = [reader EXCEPT ![r] = y] /\ q.kind = "STATS" /\ lock = NoThread
        BY <1>9, <2>1 DEF Stats
      <3> HIDE DEF y
      <3> QED
        BY <1>4, <2>1, <3>3, <3>4, <3>5 DEF StatsStep
    <2>2. CASE q.pc = "chunks"
      <3> DEFINE first == IF chunks # << >> THEN chunks[1].start_ts ELSE q.first
                 last == IF q.last = -1 /\ chunks # << >> THEN chunks[Len(chunks)].end_ts ELSE q.last
                 y == [q EXCEPT !.pc = "reply", !.len = Len(chunks), !.first = first, !.last = last]
      <3>1. chunks # << >> => chunks[1] \in ChunkMetadata /\ chunks[Len(chunks)] \in ChunkMetadata
        <4>1. chunks # << >> => 1 \in 1 .. Len(chunks) /\ Len(chunks) \in 1 .. Len(chunks)
          BY <1>3
        <4> QED
          BY <1>3, <4>1, ElementOfSeq
      <3>2. first \in Int /\ last \in Int
        BY <1>2, <3>1 DEF ChunkMetadata
      <3>3. y \in ReaderRec
        BY <1>1, <1>3, <3>2 DEF ReaderRec
      <3>4. /\ y.kind = q.kind /\ y.known = q.known /\ y.got = q.got
            /\ y.pc = "reply" /\ y.size = q.size /\ y.len = Len(chunks)
            /\ y.first = first /\ y.last = last
        BY <1>1 DEF ReaderRec
      <3>5. reader' = [reader EXCEPT ![r] = y]
        BY <1>9, <2>2 DEF Stats
      <3> HIDE DEF y
      <3> QED
        BY <1>4, <2>2, <3>3, <3>4, <3>5 DEF StatsStep
    <2> QED
      BY <1>9, <2>1, <2>2 DEF Stats
  <1> QED
    BY <1>5, <1>6, <1>7, <1>8, <1>9 DEF Read, ReadStep, Kinds

\* A reader that has not been asked, or whose process has ended.
LEMMA NoReaderFacts ==
  ASSUME TypeInv
  PROVE  /\ NoReader \in ReaderRec
         /\ NoReader.pc = "idle" /\ NoReader.got = << >> /\ NoReader.known = {}
  <1>1. Reader("idle", "GET", <<0, 0>>) =
          [pc |-> "idle", kind |-> "GET", from |-> 0, to |-> 0, i |-> 1,
           got |-> << >>, body |-> << >>, first |-> -1, last |-> -1, size |-> 0,
           known |-> accepted, len |-> 0, moved |-> FALSE]
    BY Zenon DEF Reader
  <1>2. << >> \in Seq(Sent) /\ -1 \in Int /\ {} \in SUBSET Sent
    OBVIOUS
  <1>3. NoReader \in ReaderRec
    <2> DEFINE y == Reader("idle", "GET", <<0, 0>>)
    <2>1. accepted \in SUBSET Sent
      BY DEF TypeInv, TypeOK, HistoryOK
    <2>2. y \in ReaderRec
      BY <1>2, <2>1 DEF Reader, ReaderRec, Kinds
    <2> HIDE DEF y
    <2>3. [y EXCEPT !.known = {}] \in ReaderRec
      BY <1>2, <2>2 DEF ReaderRec
    <2> QED
      BY <2>3 DEF NoReader, y
  <1>4. NoReader.pc = "idle" /\ NoReader.got = << >> /\ NoReader.known = {}
    BY <1>1 DEF NoReader
  <1> QED
    BY <1>3, <1>4

\* A step of the engine beside the readers.
LEMMA WriteFacts ==
  ASSUME TypeInv, ReadersOK, Write
  PROVE  /\ [Next]_vars /\ ReadersOK'
         /\ \A r \in Readers :
              \/ proc' # "down" /\ reader'[r] = reader[r]
              \/ proc' = "down" /\ reader'[r] = NoReader
  BY NoReaderFacts DEF Write, ReadersOK

-----------------------------------------------------------------------------
(***************************************************************************)
(* Replies contain committed points only.                                  *)
(***************************************************************************)

CommittedReads == TypeInv /\ CommittedInv /\ ReadersOK /\ ReadsCommitted

LEMMA CommittedRead ==
  ASSUME CommittedReads, UNCHANGED vars, NEW r \in Readers, Read(r)
  PROVE  ReadsCommitted'
  <1>1. /\ TypeInv /\ CommittedInv /\ ReadersOK /\ \A d \in Readers : Got(d) \subseteq accepted
        /\ reader[r] \in ReaderRec /\ reader[r].got \in Seq(Sent)
    BY DEF CommittedReads, ReadsCommitted, ReadersOK, ReaderRec
  <1>2. /\ \A d \in Readers \ {r} : reader'[d] = reader[d]
        /\ ScanStep(r) \/ HeadStep(r) \/ LookupStep(r) \/ StatsStep(r)
    BY <1>1, ReaderCases
  <1>3. accepted' = accepted
    BY DEF vars, history
  <1>4. ASSUME NEW b \in Seq(Sent), Range(b) \subseteq accepted, reader'[r].got = reader[r].got \o b
        PROVE  Got(r)' \subseteq accepted
    BY <1>1, <1>4, ConcatFacts DEF Got
  <1>5. CASE reader'[r].got = reader[r].got
    BY <1>1, <1>2, <1>3, <1>5 DEF ReadsCommitted, Got
  <1>6. CASE reader'[r].got = << >>
    <2>1. Got(r)' = {}
      BY <1>6 DEF Got, Range
    <2> QED
      BY <1>1, <1>2, <1>3, <2>1 DEF ReadsCommitted, Got
  <1>7. CASE HeadStep(r)
    <2>1. HeadPoints(reader[r]) \in Seq(Sent) /\ Range(HeadPoints(reader[r])) \subseteq accepted
      BY <1>1, <1>7, AddedPoints, HeadCommitted DEF HeadStep
    <2>2. Got(r)' \subseteq accepted
      BY <1>4, <1>7, <2>1 DEF HeadStep
    <2> QED
      BY <1>1, <1>2, <1>3, <2>2 DEF ReadsCommitted, Got
  <1>8. ASSUME ScanStep(r), reader'[r].got = reader[r].got \o ChunkPoints(reader[r], chunks[reader[r].i]),
               reader[r].i <= Len(chunks)
        PROVE  ReadsCommitted'
    <2>1. chunks \in Seq(ChunkMetadata) /\ reader[r].i \in 1 .. Len(chunks)
      BY <1>1, <1>8, SMTT(40) DEF TypeInv, TypeOK, MemoryOK, ReaderRec
    <2>2. chunks[reader[r].i] \in ChunkMetadata
      BY <2>1, ElementOfSeq
    <2> DEFINE c == chunks[reader[r].i]
    <2> HIDE DEF c
    <2>3. c \in ChunkMetadata /\ c.id \in ChunkIds
      BY <2>2 DEF c, ChunkMetadata
    <2>4. ChunkPoints(reader[r], c) \in Seq(Sent) /\ Range(ChunkPoints(reader[r], c)) \subseteq accepted
      BY <1>1, <2>3, AddedPoints DEF CommittedInv
    <2>5. Got(r)' \subseteq accepted
      BY <1>4, <1>8, <2>4 DEF c
    <2> QED
      BY <1>1, <1>2, <1>3, <2>5 DEF ReadsCommitted, Got
  <1> QED
    BY <1>2, <1>5, <1>6, <1>7, <1>8 DEF ScanStep, LookupStep, StatsStep

\* Whatever fails, a reply of GET, AGG or STATS contains only points whose PUT has
\* been logged: Head_PUT has head->lock from PUT_value to the end of wal_append,
\* readers take the same lock, and a flush writes only logged points to a file.
THEOREM ReadsCommittedSafe == QuerySpec => []ReadsCommitted
  <1>1. QueryInit => CommittedReads
    <2> SUFFICES ASSUME QueryInit PROVE CommittedReads
      OBVIOUS
    <2>1. Init /\ TypeInv
      BY InitTypeInv DEF QueryInit
    <2>2. CommittedInv
      BY <2>1 DEF Init, CommittedInv, HeadLogged, Range, FilePoints, NoFile, getNewHeadBlock
    <2>3. \A r \in Readers : reader[r] = NoReader
      BY DEF QueryInit
    <2>4. ReadersOK
      BY <2>1, NoReaderFacts DEF QueryInit, ReadersOK
    <2>5. ReadsCommitted
      BY <2>1, <2>3, NoReaderFacts DEF ReadsCommitted, Got, Range
    <2> QED
      BY <2>1, <2>2, <2>4, <2>5 DEF CommittedReads
  <1>2. CommittedReads /\ [QueryNext]_queryVars => CommittedReads'
    <2> SUFFICES ASSUME CommittedReads, [QueryNext]_queryVars PROVE CommittedReads'
      OBVIOUS
    <2>1. CASE Write
      <3>1. /\ [Next]_vars /\ ReadersOK'
            /\ \A r \in Readers : reader'[r] = reader[r] \/ reader'[r] = NoReader
        BY <2>1, WriteFacts DEF CommittedReads
      <3>2. TypeInv' /\ CommittedInv' /\ accepted \subseteq accepted'
        BY <3>1, NextTypeInv, CommittedStep DEF CommittedReads
      <3>3. \A r \in Readers : Got(r)' = Got(r) \/ Got(r)' = {}
        BY <3>1, NoReaderFacts DEF CommittedReads, Got, Range
      <3> QED
        BY <3>1, <3>2, <3>3 DEF CommittedReads, ReadsCommitted
    <2>2. ASSUME UNCHANGED vars, NEW r \in Readers, Read(r) PROVE CommittedReads'
      <3>1. TypeInv' /\ CommittedInv'
        BY <2>2, NextTypeInv, CommittedStep DEF CommittedReads
      <3>2. ReadersOK'
        BY <2>2, ReaderCases DEF CommittedReads
      <3> QED
        BY <2>2, <3>1, <3>2, CommittedRead DEF CommittedReads
    <2>3. CASE UNCHANGED queryVars
      <3>1. UNCHANGED vars /\ reader' = reader
        BY <2>3 DEF queryVars
      <3>2. TypeInv' /\ CommittedInv' /\ accepted' = accepted
        BY <3>1, NextTypeInv, CommittedStep DEF CommittedReads, vars, history
      <3> QED
        BY <3>1, <3>2 DEF CommittedReads, ReadersOK, ReadsCommitted, Got
    <2> QED
      BY <2>1, <2>2, <2>3 DEF QueryNext
  <1>3. CommittedReads => ReadsCommitted
    BY DEF CommittedReads
  <1> QED
    BY <1>1, <1>2, <1>3, PTL DEF QuerySpec

-----------------------------------------------------------------------------
(***************************************************************************)
(* A query against the flushes that run beside it.                         *)
(***************************************************************************)

\* A scan that is at chunk i can still meet p.
Ahead(p, i) ==
    p \in Range(head.pts) \/ \E k \in DOMAIN chunks : k >= i /\ InChunk(p, k)

\* What a step of the engine does for a reader: the chunk list grows at its end
\* only, the block loses its points only when the list grows, and no point moves
\* behind the scan.
Grows ==
    /\ Len(chunks) <= Len(chunks')
    /\ \A k \in DOMAIN chunks : k \in DOMAIN chunks' /\ chunks'[k] = chunks[k]
    /\ Len(chunks') = Len(chunks) => Range(head.pts) \subseteq Range(head'.pts)
    /\ \A i \in Nat : i <= Len(chunks) + 1 => \A p \in Sent : Ahead(p, i) => Ahead(p, i)'

LEMMA GrowFrame ==
  ASSUME TypeInv, chunks' = chunks, Range(head.pts) \subseteq Range(head'.pts),
         \A k \in DOMAIN chunks, p \in Sent :
           InChunk(p, k) => InChunk(p, k)' \/ p \in Range(head.pts)
  PROVE  Grows
  <1>1. Len(chunks) \in Nat
    BY DEF TypeInv, TypeOK, MemoryOK
  <1>2. ASSUME NEW i \in Nat, NEW p \in Sent, Ahead(p, i) PROVE Ahead(p, i)'
    BY <1>2 DEF Ahead
  <1> QED
    BY <1>1, <1>2 DEF Grows

LEMMA GrowSame ==
  ASSUME TypeInv, chunks' = chunks, Range(head.pts) \subseteq Range(head'.pts), files' = files
  PROVE  Grows
  <1>1. \A k, p : InChunk(p, k) => InChunk(p, k)'
    BY DEF InChunk, Whole, FilePoints
  <1> QED
    BY <1>1, GrowFrame

LEMMA GrowTry ==
  ASSUME TypeInv, NEW t \in Clients, Head_PUT_try(t)
  PROVE  Grows
  <1>1. t \in Threads /\ UNCHANGED <<chunks, files>>
    BY DEF Head_PUT_try, disk, Threads
  <1>2. head' = head \/ head' = PUT_value(head, pt[t])
    BY DEF Head_PUT_try
  <1>3. Range(head.pts) \subseteq Range(head'.pts)
    <2>1. head.pts \in Seq(Sent \cup {NoPoint}) /\ pt[t] \in Sent \cup {NoPoint}
      BY <1>1 DEF TypeInv, TypeOK, MemoryOK
    <2>2. Range(Append(head.pts, pt[t])) = Range(head.pts) \cup {pt[t]}
      BY <2>1, AppendFacts
    <2>3. head'.pts = head.pts \/ head'.pts = Append(head.pts, pt[t])
      BY <1>2 DEF PUT_value
    <2> QED
      BY <2>2, <2>3
  <1> QED
    BY <1>1, <1>3, GrowSame

\* fopen truncates a file whose points are all in the block.
LEMMA GrowOpen ==
  ASSUME IInv, NEW t \in Threads, headflush_open(t)
  PROVE  Grows
  <1>1. TypeInv /\ UNCHANGED <<chunks, head>> /\ proc = "up" /\ lock = NoThread /\ head.pts = wal
    BY Serving DEF headflush_open, IInv, RecoveryInv, HeadInv
  <1>2. CASE files' = files
    BY <1>1, <1>2, GrowSame
  <1>3. CASE head.pts # << >> /\ files' = [files EXCEPT ![HeadId] = [state |-> "torn", pts |-> head.pts]]
    <2>1. HeadId \in ChunkIds /\ HeadId = ChunkId(wal[1].ts)
      BY <1>1, <1>3, HeadIdType DEF TypeInv, HeadId
    <2>2. \A i \in ChunkIds : i # HeadId => files'[i] = files[i]
      BY <1>1, <1>3 DEF TypeInv, TypeOK, DiskOK
    <2>3. Whole(HeadId) => FilePoints(HeadId) \subseteq Range(head.pts)
      BY <1>1, <1>3, <2>1 DEF IInv, RecoveryInv, FlushInv, Kept
    <2>4. ASSUME NEW k \in DOMAIN chunks, NEW p \in Sent, InChunk(p, k)
          PROVE  InChunk(p, k)' \/ p \in Range(head.pts)
      <3>1. chunks[k].id \in ChunkIds
        <4>1. chunks[k] \in ChunkMetadata
          BY <1>1, <2>4 DEF TypeInv, TypeOK, MemoryOK
        <4> QED
          BY <4>1 DEF ChunkMetadata
      <3>2. CASE chunks[k].id = HeadId
        BY <2>3, <2>4, <3>2 DEF InChunk
      <3>3. CASE chunks[k].id # HeadId
        BY <1>1, <2>2, <2>4, <3>1, <3>3 DEF InChunk, Whole, FilePoints
      <3> QED
        BY <3>2, <3>3
    <2> QED
      BY <1>1, <2>4, GrowFrame
  <1> QED
    BY <1>2, <1>3 DEF headflush_open

LEMMA GrowWrite ==
  ASSUME TypeInv, NEW t \in Threads, flushtochunk(t)
  PROVE  Grows
  <1>1. UNCHANGED <<chunks, head>>
    BY DEF flushtochunk
  <1>2. CASE files' = files
    BY <1>1, <1>2, GrowSame
  <1>3. CASE files' = [files EXCEPT ![HeadId].state = "whole"]
    <2>1. HeadId \in ChunkIds /\ files \in [ChunkIds -> File]
      BY HeadIdType DEF TypeInv, TypeOK, DiskOK, PcInv, flushtochunk
    <2>2. \A i \in ChunkIds : /\ files'[i].pts = files[i].pts
                              /\ files[i].state = "whole" => files'[i].state = "whole"
      BY <1>3, <2>1 DEF File
    <2>3. ASSUME NEW k \in DOMAIN chunks, NEW p \in Sent, InChunk(p, k)
          PROVE  InChunk(p, k)'
      <3>1. chunks[k].id \in ChunkIds
        <4>1. chunks[k] \in ChunkMetadata
          BY <2>3 DEF TypeInv, TypeOK, MemoryOK
        <4> QED
          BY <4>1 DEF ChunkMetadata
      <3> QED
        BY <1>1, <2>2, <2>3, <3>1 DEF InChunk, Whole, FilePoints
    <2> QED
      BY <1>1, <2>3, GrowFrame
  <1> QED
    BY <1>2, <1>3 DEF flushtochunk

\* The points of the block are behind the end of the list as it was.
LEMMA GrowRegister ==
  ASSUME Benign, IInv, NEW t \in Threads, headflush_register(t)
  PROVE  Grows
  <1>1. /\ TypeInv /\ files' = files /\ chunks \in Seq(ChunkMetadata) /\ head.pts \in Seq(Sent)
        /\ Kept(HeadId) /\ files[HeadId].pts = head.pts
        /\ head.pts # << >> /\ Sorted(head.pts) /\ head.last = head.pts[Len(head.pts)].ts
    BY DEF headflush_register, disk, IInv, TypeInv, TypeOK, MemoryOK, PcInv, RecoveryInv,
           FlushInv, SortedInv
  <1>w. HeadId \in ChunkIds /\ Whole(HeadId)
    BY <1>1, HeadIdType, BenignKept DEF TypeInv
  <1>2. NewMeta(head) \in ChunkMetadata
    BY <1>1, HeadIdType, EngineAssumption
       DEF TypeInv, TypeOK, MemoryOK, NewMeta, ChunkMetadata, HeadId, Sent
  <1>3. PICK n \in Nat : n = Len(chunks)
    BY <1>1
  <1>4. /\ Len(chunks') = n + 1 /\ DOMAIN chunks = 1 .. n /\ DOMAIN chunks' = 1 .. n + 1
        /\ \A k \in 1 .. n : chunks'[k] = chunks[k]
        /\ chunks'[n + 1] = NewMeta(head)
    BY <1>1, <1>2, <1>3 DEF headflush_register
  <1>5. \A k \in 1 .. n : k \in 1 .. n + 1
    OBVIOUS
  <1>6. \A k \in 1 .. n, p \in Sent : InChunk(p, k) => InChunk(p, k)'
    BY <1>1, <1>4 DEF InChunk, Whole, FilePoints
  <1>7. ASSUME NEW p \in Range(head.pts) PROVE InChunk(p, n + 1)'
    <2>1. head.pts[1].ts <= p.ts /\ p.ts <= head.last
      BY <1>1, <1>7, SortedBounds
    <2> QED
      BY <1>1, <1>w, <1>4, <1>7, <2>1 DEF InChunk, Whole, FilePoints, NewMeta, HeadId
  <1>8. ASSUME NEW i \in Nat, i <= n + 1, NEW p \in Sent, Ahead(p, i) PROVE Ahead(p, i)'
    <2>1. CASE p \in Range(head.pts)
      <3>1. n + 1 \in 1 .. n + 1 /\ n + 1 >= i
        BY <1>8
      <3> QED
        BY <1>4, <1>7, <2>1, <3>1 DEF Ahead
    <2>2. CASE \E k \in DOMAIN chunks : k >= i /\ InChunk(p, k)
      BY <1>4, <1>5, <1>6, <2>2 DEF Ahead
    <2> QED
      BY <1>8, <2>1, <2>2 DEF Ahead
  <1>9. n <= n + 1 /\ n + 1 # n
    OBVIOUS
  <1> QED
    BY <1>3, <1>4, <1>5, <1>8, <1>9 DEF Grows

LEMMA GrowStep ==
  ASSUME Benign, IInv, [Next]_vars, proc = "up", proc' # "down"
  PROVE  Grows /\ proc' = "up"
  <1>0. TypeInv
    BY DEF IInv
  <1>1. ASSUME NEW t \in Clients, NEW ts \in Timestamps, Head_PUT_lookup(t, ts)
        PROVE  Grows /\ proc' = "up"
    <2>1. UNCHANGED <<chunks, files, proc>> /\ head'.pts = head.pts
      BY <1>1 DEF Head_PUT_lookup, IInv, RecoveryInv, DirInv, getNewHeadBlock, disk
    <2> QED
      BY <1>0, <2>1, GrowSame
  <1>2. ASSUME NEW t \in Clients, headflush_lookup(t) PROVE Grows /\ proc' = "up"
    BY <1>0, <1>2, GrowSame DEF headflush_lookup, Halt, disk
  <1>3. ASSUME NEW t \in Clients, Head_PUT_try(t) PROVE Grows /\ proc' = "up"
    BY <1>0, <1>3, GrowTry DEF Head_PUT_try
  <1>4. ASSUME NEW t \in Clients, Head_PUT_log(t) PROVE Grows /\ proc' = "up"
    BY <1>0, <1>4, GrowSame DEF Head_PUT_log
  <1>5. ASSUME NEW t \in Threads,
               headflush_open(t) \/ flushtochunk(t) \/ headflush_register(t)
        PROVE  Grows /\ proc' = "up"
    BY <1>0, <1>5, GrowOpen, GrowWrite, GrowRegister DEF headflush_open, flushtochunk, headflush_register
  <1>6. ASSUME NEW t \in Threads, headflush_truncate(t) PROVE Grows /\ proc' = "up"
    BY <1>0, <1>6, GrowSame DEF headflush_truncate
  <1>7. ASSUME cleanupRegistry PROVE Grows /\ proc' = "up"
    BY <1>0, <1>7, GrowSame DEF cleanupRegistry, disk
  <1>8. ~ (exitProcess \/ Crash \/ PowerLoss)
    BY DEF exitProcess, Crash, PowerLoss, Halt
  <1>9. ASSUME NEW i \in ChunkIds, Writeback(i) PROVE Grows /\ proc' = "up"
    BY <1>0, <1>9, GrowSame DEF Writeback, memory
  <1>10. ~ (loadRegistry \/ wal_replay \/ loadRegistry_done \/ \E i \in ChunkIds : loadChunkMetadata(i))
    BY DEF loadRegistry, wal_replay, loadRegistry_done, loadChunkMetadata
  <1>11. ASSUME UNCHANGED vars PROVE Grows /\ proc' = "up"
    BY <1>0, <1>11, GrowSame DEF vars, memory, disk
  <1> QED
    BY <1>1, <1>2, <1>3, <1>4, <1>5, <1>6, <1>7, <1>8, <1>9, <1>10, <1>11, Steps

\* Where a reader of GET or AGG finds the points it was asked for: in what it has,
\* or ahead of it; at the end of the scan in the block, unless a chunk is added.
SearchInv(r) ==
    LET q == reader[r] IN
    /\ q.pc = "idle" \/ proc = "up"
    /\ (q.pc = "chunks" => q.kind = "STATS") /\ (q.pc = "scan" => q.kind # "STATS")
    /\ q.pc = "scan" =>
         /\ q.i <= Len(chunks) + 1
         /\ \A p \in Asked(r) : p \in Got(r) \/ Ahead(p, q.i)
    /\ q.pc = "head" /\ q.kind # "STATS" =>
         /\ q.len <= Len(chunks)
         /\ q.len = Len(chunks) => \A p \in Asked(r) : p \in Got(r) \/ p \in Range(head.pts)
    /\ q.pc = "reply" /\ q.kind # "STATS" /\ ~ q.moved => Asked(r) \subseteq Got(r)

SearchOK == IInv /\ ReadersOK /\ \A r \in Readers : SearchInv(r)

\* The engine does a step and the reader does not.
LEMMA SearchKept ==
  ASSUME IInv, TypeInv', ReadersOK, NEW r \in Readers, SearchInv(r), reader'[r] = reader[r],
         proc = "up" => Grows /\ proc' = "up"
  PROVE  SearchInv(r)'
  <1> DEFINE q == reader[r]
  <1>1. Asked(r)' = Asked(r) /\ Got(r)' = Got(r) /\ reader'[r] = q
    BY DEF Asked, Got
  <1>2. q \in ReaderRec /\ q.i \in Nat /\ q.len \in Nat /\ Asked(r) \subseteq Sent
    BY DEF ReadersOK, ReaderRec, Asked
  <1>3. q.pc # "idle" => Grows /\ proc' = "up"
    BY DEF SearchInv
  <1>4. Len(chunks) \in Nat /\ Len(chunks') \in Nat
    BY DEF IInv, TypeInv, TypeOK, MemoryOK
  <1>i. PICK i \in Nat : i = reader[r].i /\ i = reader'[r].i
    BY <1>1, <1>2
  <1> HIDE DEF q
  <1>5. q.pc = "idle" \/ proc' = "up"
    BY <1>3
  <1>6. ASSUME q.pc = "scan"
        PROVE  /\ i <= Len(chunks') + 1
               /\ \A p \in Asked(r) : p \in Got(r) \/ Ahead(p, i)'
    <2>1. /\ i <= Len(chunks) + 1 /\ \A p \in Asked(r) : p \in Got(r) \/ Ahead(p, i)
      BY <1>i, <1>6 DEF SearchInv, q
    <2>2. /\ Len(chunks) <= Len(chunks')
          /\ i <= Len(chunks) + 1 => \A p \in Sent : Ahead(p, i) => Ahead(p, i)'
      BY <1>3, <1>6 DEF Grows
    <2>3. \A p \in Asked(r) : Ahead(p, i) => Ahead(p, i)'
      BY <1>2, <2>1, <2>2
    <2>4. i <= Len(chunks') + 1
      BY <1>4, <2>1, <2>2
    <2> QED
      BY <2>1, <2>3, <2>4
  <1>7. ASSUME q.pc = "head", q.kind # "STATS"
        PROVE  /\ q.len <= Len(chunks')
               /\ q.len = Len(chunks') => \A p \in Asked(r) : p \in Got(r) \/ p \in Range(head'.pts)
    <2>1. /\ q.len <= Len(chunks)
          /\ q.len = Len(chunks) => \A p \in Asked(r) : p \in Got(r) \/ p \in Range(head.pts)
      BY <1>7 DEF SearchInv, q
    <2>2. /\ Len(chunks) <= Len(chunks')
          /\ Len(chunks') = Len(chunks) => Range(head.pts) \subseteq Range(head'.pts)
      BY <1>3, <1>7 DEF Grows
    <2> QED
      BY <1>2, <1>4, <2>1, <2>2
  <1>8. /\ (q.pc = "chunks" => q.kind = "STATS") /\ (q.pc = "scan" => q.kind # "STATS")
        /\ q.pc = "reply" /\ q.kind # "STATS" /\ ~ q.moved => Asked(r) \subseteq Got(r)
    BY DEF SearchInv, q
  <1>9. \A p : Ahead(p, i)' => Ahead(p, reader[r].i)'
    BY <1>i DEF Ahead
  <1> QED
    BY <1>1, <1>i, <1>5, <1>6, <1>7, <1>8, <1>9 DEF SearchInv

\* A metric that is not registered has no points.
LEMMA UnknownEmpty ==
  ASSUME IInv, proc = "up", ~ registered
  PROVE  accepted = {}
  <1>1. wal = << >> /\ \A i \in ChunkIds : ~ Kept(i)
    BY DEF IInv, RecoveryInv, DirInv
  <1>2. \A p \in accepted : Stored(p)
    BY DEF IInv, RecoveryInv, AckedInv
  <1> QED
    BY <1>1, <1>2 DEF Stored, Range

\* The scan takes every point of its range from a chunk that holds it.
LEMMA ScanFinds ==
  ASSUME TypeInv, NEW q \in ReaderRec, NEW k \in DOMAIN chunks,
         NEW p \in Sent, InRange(p, q.from, q.to), InChunk(p, k)
  PROVE  Overlaps(q, chunks[k]) /\ Whole(chunks[k].id) /\ p \in Range(ChunkPoints(q, chunks[k]))
  <1> DEFINE c == chunks[k]
  <1>1. c \in ChunkMetadata
    BY DEF TypeInv, TypeOK, MemoryOK
  <1>2. c.start_ts <= p.ts /\ p.ts <= c.end_ts /\ Whole(c.id) /\ p \in FilePoints(c.id)
    BY DEF InChunk
  <1> HIDE DEF c
  <1>3. c.start_ts \in Int /\ c.end_ts \in Int /\ p.ts \in Int /\ q.from \in Int /\ q.to \in Int
    BY <1>1, EngineAssumption DEF ChunkMetadata, ReaderRec, Sent
  <1>4. p.ts >= q.from /\ p.ts < q.to
    BY DEF InRange
  <1>5. c.start_ts < q.to /\ c.start_ts <= q.to /\ c.end_ts >= q.from
    BY <1>2, <1>3, <1>4
  <1>6. p \in Range(ChunkPoints(q, c))
    BY <1>1, <1>2, AddedPoints
  <1> QED
    BY <1>2, <1>5, <1>6 DEF Overlaps, c

LEMMA SearchScan ==
  ASSUME IInv, UNCHANGED vars, NEW r \in Readers, reader[r] \in ReaderRec, SearchInv(r), ScanStep(r)
  PROVE  SearchInv(r)'
  <1> DEFINE q == reader[r]
             c == chunks[q.i]
  <1>0. TypeInv /\ UNCHANGED <<chunks, head, files, proc>>
    BY DEF IInv, vars, memory, disk
  <1>1. /\ q \in ReaderRec /\ q.i \in Nat \ {0} /\ q.got \in Seq(Sent) /\ Asked(r) \subseteq Sent
        /\ \A p \in Asked(r) : InRange(p, q.from, q.to)
    BY SMTT(40) DEF ReaderRec, Asked
  <1>2. Len(chunks) \in Nat /\ DOMAIN chunks = 1 .. Len(chunks) /\ chunks \in Seq(ChunkMetadata)
    BY <1>0 DEF TypeInv, TypeOK, MemoryOK
  <1>3. /\ q.pc = "scan" /\ q.i <= Len(chunks) + 1 /\ proc = "up" /\ reader'[r].kind # "STATS"
        /\ \A p \in Asked(r) : p \in Got(r) \/ Ahead(p, q.i)
    BY DEF SearchInv, ScanStep
  <1>4. Asked(r)' = Asked(r)
    BY DEF Asked, ScanStep
  <1>6. ASSUME q.i <= Len(chunks), reader'[r].pc = "scan", reader'[r].i = q.i + 1,
               \A p \in Asked(r) : p \in Got(r) \/ InChunk(p, q.i) => p \in Got(r)'
        PROVE  SearchInv(r)'
    <2>1. q.i \in DOMAIN chunks
      BY <1>1, <1>2, <1>6
    <2>2. ASSUME NEW p \in Asked(r) PROVE p \in Got(r)' \/ Ahead(p, reader[r].i)'
      <3>1. CASE p \in Got(r)
        BY <1>6, <2>2, <3>1
      <3>2. CASE p \in Range(head.pts)
        BY <1>0, <3>2 DEF Ahead
      <3>3. ASSUME NEW k \in DOMAIN chunks, k >= q.i, InChunk(p, k)
            PROVE  p \in Got(r)' \/ Ahead(p, reader[r].i)'
        <4>1. CASE k = q.i
          BY <1>6, <2>2, <3>3, <4>1
        <4>2. CASE k # q.i
          <5>1. k >= reader'[r].i
            BY <1>1, <1>2, <1>6, <3>3, <4>2
          <5>2. InChunk(p, k)'
            BY <1>0, <3>3 DEF InChunk, Whole, FilePoints
          <5> QED
            BY <1>0, <5>1, <5>2 DEF Ahead
        <4> QED
          BY <4>1, <4>2
      <3> QED
        BY <1>3, <2>2, <3>1, <3>2, <3>3 DEF Ahead
    <2>3. reader'[r].i <= Len(chunks') + 1
      BY <1>0, <1>1, <1>2, <1>6
    <2> QED
      BY <1>0, <1>3, <1>4, <1>6, <2>2, <2>3 DEF SearchInv
  <1>7. CASE /\ q.i <= Len(chunks) /\ reader'[r].pc = "scan" /\ reader'[r].i = q.i + 1
             /\ reader'[r].got = q.got
             /\ ~ Overlaps(q, chunks[q.i]) \/ files[chunks[q.i].id].state # "whole"
    <2>1. q.i \in DOMAIN chunks
      BY <1>1, <1>2, <1>7
    <2>2. \A p \in Asked(r) : ~ InChunk(p, q.i)
      BY <1>0, <1>1, <1>7, <2>1, ScanFinds DEF Whole
    <2>3. Got(r)' = Got(r)
      BY <1>7 DEF Got
    <2> QED
      BY <1>6, <1>7, <2>2, <2>3
  <1>8. CASE /\ q.i <= Len(chunks) /\ reader'[r].pc = "scan" /\ reader'[r].i = q.i + 1
             /\ reader'[r].got = q.got \o ChunkPoints(q, chunks[q.i])
    <2>1. q.i \in DOMAIN chunks
      BY <1>1, <1>2, <1>8
    <2>2. \A p \in Asked(r) : InChunk(p, q.i) => p \in Range(ChunkPoints(q, chunks[q.i]))
      BY <1>0, <1>1, <2>1, ScanFinds
    <2>3. Got(r)' = Got(r) \cup Range(ChunkPoints(q, chunks[q.i]))
      <3>1. chunks[q.i] \in ChunkMetadata
        BY <1>2, <2>1, ElementOfSeq
      <3>2. ChunkPoints(q, chunks[q.i]) \in Seq(Sent)
        BY <1>0, <1>1, <3>1, AddedPoints
      <3> QED
        BY <1>1, <1>8, <3>2, ConcatFacts DEF Got
    <2> QED
      BY <1>6, <1>8, <2>2, <2>3
  <1>9. CASE reader'[r].pc = "error"
    BY <1>0, <1>3, <1>9 DEF SearchInv
  <1>10. CASE /\ q.i > Len(chunks) /\ reader'[r].pc = "head" /\ reader'[r].got = q.got
              /\ reader'[r].len = Len(chunks)
    <2>1. \A p \in Asked(r) : p \in Got(r) \/ p \in Range(head.pts)
      <3>1. \A k \in DOMAIN chunks : ~ (k >= q.i)
        BY <1>1, <1>2, <1>10
      <3> QED
        BY <1>3, <3>1 DEF Ahead
    <2>2. Got(r)' = Got(r)
      BY <1>10 DEF Got
    <2>3. Len(chunks) <= Len(chunks)
      BY <1>2
    <2> QED
      BY <1>0, <1>3, <1>4, <1>10, <2>1, <2>2, <2>3 DEF SearchInv
  <1> QED
    BY <1>7, <1>8, <1>9, <1>10 DEF ScanStep

LEMMA SearchRead ==
  ASSUME Benign, SearchOK, UNCHANGED vars, NEW r \in Readers, Read(r)
  PROVE  SearchInv(r)'
  <1> DEFINE q == reader[r]
  <1>0. IInv /\ TypeInv /\ ReadersOK /\ SearchInv(r) /\ UNCHANGED <<chunks, head, files, proc>>
    BY DEF SearchOK, IInv, vars, memory, disk
  <1>1. q \in ReaderRec /\ q.got \in Seq(Sent)
    BY <1>0 DEF ReadersOK, ReaderRec
  <1>2. ScanStep(r) \/ HeadStep(r) \/ LookupStep(r) \/ StatsStep(r)
    BY <1>0, ReaderCases
  <1>3. CASE ScanStep(r)
    BY <1>0, <1>1, <1>3, SearchScan
  <1>4. CASE HeadStep(r)
    <2>1. /\ q.pc = "head" /\ q.kind # "STATS" /\ reader'[r].kind = q.kind /\ reader'[r].pc = "reply"
          /\ reader'[r].got = q.got \o HeadPoints(q)
          /\ ~ reader'[r].moved => Len(chunks) = q.len
          /\ Asked(r)' = Asked(r)
      BY <1>4 DEF HeadStep, Asked
    <2>2. /\ proc = "up"
          /\ q.len = Len(chunks) => \A p \in Asked(r) : p \in Got(r) \/ p \in Range(head.pts)
      BY <1>0, <2>1 DEF SearchInv
    <2>3. Got(r)' = Got(r) \cup {p \in Range(head.pts) : InRange(p, q.from, q.to)}
      <3>1. /\ HeadPoints(q) \in Seq(Sent)
            /\ Range(HeadPoints(q)) = {p \in Range(head.pts) : InRange(p, q.from, q.to)}
        BY <1>0, <1>1, AddedPoints
      <3>2. Range(q.got \o HeadPoints(q)) = Range(q.got) \cup Range(HeadPoints(q))
        BY <1>1, <3>1, ConcatFacts
      <3> QED
        BY <2>1, <3>1, <3>2 DEF Got
    <2>4. \A p \in Asked(r) : InRange(p, q.from, q.to)
      BY DEF Asked
    <2>5. ~ reader'[r].moved => Asked(r)' \subseteq Got(r)'
      BY <2>1, <2>2, <2>3, <2>4
    <2> QED
      BY <1>0, <2>1, <2>2, <2>5 DEF SearchInv
  <1>5. CASE LookupStep(r)
    <2>1. /\ proc = "up" /\ reader'[r].i = 1
          /\ \/ ~ registered /\ reader'[r].pc = "reply"
             \/ registered /\ reader'[r].kind = "STATS" /\ reader'[r].pc = "head"
             \/ registered /\ reader'[r].kind # "STATS" /\ reader'[r].pc = "scan"
          /\ Asked(r)' \subseteq accepted
      BY <1>5 DEF LookupStep, Asked
    <2>2. CASE ~ registered /\ reader'[r].pc = "reply"
      BY <1>0, <2>1, <2>2, UnknownEmpty DEF SearchInv
    <2>3. CASE registered /\ reader'[r].kind = "STATS" /\ reader'[r].pc = "head"
      BY <1>0, <2>1, <2>3 DEF SearchInv
    <2>4. CASE registered /\ reader'[r].kind # "STATS" /\ reader'[r].pc = "scan"
      <3>1. chunks \in Seq(ChunkMetadata) /\ Len(chunks) \in Nat /\ DOMAIN chunks = 1 .. Len(chunks)
        BY <1>0 DEF TypeInv, TypeOK, MemoryOK
      <3>2. reader'[r].i <= Len(chunks') + 1 /\ \A k \in DOMAIN chunks : k >= 1
        BY <1>0, <2>1, <3>1
      <3>3. ASSUME NEW p \in Asked(r)' PROVE Ahead(p, reader[r].i)'
        <4>1. Visible(p)
          BY <1>0, <2>1, <3>3, BenignKept, DurableVisible DEF IInv, RecoveryInv, AckedInv
        <4>2. \A k \in DOMAIN chunks : InChunk(p, k) => InChunk(p, k)'
          BY <1>0 DEF InChunk, Whole, FilePoints
        <4> QED
          BY <1>0, <2>1, <3>2, <4>1, <4>2 DEF Visible, Ahead
      <3> QED
        BY <1>0, <2>1, <2>4, <3>2, <3>3 DEF SearchInv
    <2> QED
      BY <2>1, <2>2, <2>3, <2>4
  <1>6. CASE StatsStep(r)
    <2>1. reader'[r].kind = "STATS" /\ reader'[r].pc \in {"chunks", "reply"} /\ proc = "up"
      BY <1>0, <1>6 DEF StatsStep, SearchInv
    <2> QED
      BY <1>0, <2>1 DEF SearchInv
  <1> QED
    BY <1>2, <1>3, <1>4, <1>5, <1>6

LEMMA SearchInit ==
  ASSUME Benign, QueryInit
  PROVE  SearchOK
  <1>1. IInv
    BY InitTypeInv, InitRecoveryInv DEF QueryInit, IInv
  <1>2. ReadersOK /\ \A r \in Readers : reader[r].pc = "idle"
    BY <1>1, NoReaderFacts DEF QueryInit, ReadersOK, IInv
  <1>3. \A r \in Readers : SearchInv(r)
    BY <1>2 DEF SearchInv
  <1> QED
    BY <1>1, <1>2, <1>3 DEF SearchOK

LEMMA SearchNext ==
  ASSUME Benign, SearchOK, [QueryNext]_queryVars
  PROVE  SearchOK'
  <1>0. IInv /\ TypeInv /\ ReadersOK /\ \A r \in Readers : SearchInv(r)
    BY DEF SearchOK, IInv
  <1>1. [Next]_vars
    BY DEF QueryNext, queryVars, Write
  <1>2. IInv' /\ TypeInv'
    BY <1>0, <1>1, BenignKept, NextTypeInv, NextRecoveryInv DEF IInv
  <1>3. CASE Write
    <2>1. /\ ReadersOK'
          /\ \A r \in Readers :
               \/ proc' # "down" /\ reader'[r] = reader[r]
               \/ proc' = "down" /\ reader'[r] = NoReader
      BY <1>0, <1>3, WriteFacts
    <2>2. ASSUME NEW r \in Readers PROVE SearchInv(r)'
      <3>1. CASE proc' # "down" /\ reader'[r] = reader[r]
        BY <1>0, <1>1, <1>2, <3>1, GrowStep, SearchKept
      <3>2. CASE reader'[r] = NoReader
        <4>1. reader'[r].pc = "idle"
          BY <1>0, <3>2, NoReaderFacts
        <4> QED
          BY <4>1 DEF SearchInv
      <3> QED
        BY <2>1, <3>1, <3>2
    <2> QED
      BY <1>2, <2>1, <2>2 DEF SearchOK
  <1>4. ASSUME UNCHANGED vars, NEW r \in Readers, Read(r) PROVE SearchOK'
    <2>1. ReadersOK' /\ \A d \in Readers \ {r} : reader'[d] = reader[d]
      BY <1>0, <1>4, ReaderCases
    <2>2. proc' = proc /\ Grows
      BY <1>0, <1>4, GrowSame DEF vars, memory, disk
    <2>3. \A d \in Readers \ {r} : SearchInv(d)'
      BY <1>0, <1>2, <2>1, <2>2, SearchKept
    <2>4. SearchInv(r)'
      BY <1>4, SearchRead
    <2> QED
      BY <1>2, <2>1, <2>3, <2>4 DEF SearchOK
  <1>5. CASE UNCHANGED queryVars
    <2>1. proc' = proc /\ reader' = reader /\ Grows
      BY <1>0, <1>5, GrowSame DEF queryVars, vars, memory, disk
    <2>2. \A r \in Readers : SearchInv(r)'
      BY <1>0, <1>2, <2>1, SearchKept
    <2> QED
      BY <1>0, <1>2, <2>1, <2>2 DEF SearchOK, ReadersOK
  <1> QED
    BY <1>3, <1>4, <1>5 DEF QueryNext

\* In a benign environment GET and AGG return every point of their range that was
\* accepted before they began, through flushes that move the points from the block
\* to the list under their feet and rewrite chunk files, unless a flush registers a
\* chunk between the end of their scan and their lock of the head.
THEOREM CompleteSafe ==
  ASSUME Benign
  PROVE  QuerySpec => []CompleteUnlessMoved
  <1>1. QueryInit => SearchOK
    BY SearchInit
  <1>2. SearchOK /\ [QueryNext]_queryVars => SearchOK'
    BY SearchNext
  <1>3. SearchOK => CompleteUnlessMoved
    BY DEF SearchOK, SearchInv, CompleteUnlessMoved, Answered
  <1> QED
    BY <1>1, <1>2, <1>3, PTL DEF QuerySpec

-----------------------------------------------------------------------------
(***************************************************************************)
(* STATS.                                                                  *)
(***************************************************************************)

\* Every chunk has bounds that clients have sent.
MetaTimes ==
    \A k \in DOMAIN chunks : chunks[k].start_ts \in Timestamps /\ chunks[k].end_ts \in Timestamps

\* A reader of STATS that has not seen points in the block will see chunks.
StatsInv(r) ==
    LET q == reader[r] IN
    q.kind = "STATS" /\ q.known # {} =>
      /\ q.pc = "head" => accepted # {}
      /\ q.pc = "chunks" =>
           (q.size > 0 /\ q.first # -1 /\ q.last # -1) \/ chunks # << >>
      /\ q.pc = "reply" =>
           q.first # -1 /\ q.last # -1 /\ (q.size > 0 \/ q.len > 0)

StatsOK == SearchOK /\ MetaTimes /\ \A r \in Readers : StatsInv(r)

LEMMA MetaAppend ==
  ASSUME TypeInv, MetaTimes, NEW m \in ChunkMetadata, chunks' = Append(chunks, m),
         m.start_ts \in Timestamps, m.end_ts \in Timestamps
  PROVE  MetaTimes'
  <1>1. chunks \in Seq(ChunkMetadata)
    BY DEF TypeInv, TypeOK, MemoryOK
  <1>2. PICK n \in Nat : n = Len(chunks)
    BY <1>1
  <1>3. /\ DOMAIN chunks = 1 .. n /\ DOMAIN chunks' = 1 .. n + 1
        /\ \A k \in 1 .. n : chunks'[k] = chunks[k]
        /\ chunks'[n + 1] = m
    BY <1>1, <1>2
  <1>4. \A k \in 1 .. n + 1 : k \in 1 .. n \/ k = n + 1
    OBVIOUS
  <1> QED
    BY <1>3, <1>4 DEF MetaTimes

\* The bounds of a nonempty array of points.
LEMMA EndTimes ==
  ASSUME NEW pts \in Seq(Sent), pts # << >>
  PROVE  pts[1].ts \in Timestamps /\ pts[Len(pts)].ts \in Timestamps
  <1>1. 1 \in 1 .. Len(pts) /\ Len(pts) \in 1 .. Len(pts)
    OBVIOUS
  <1>2. pts[1] \in Sent /\ pts[Len(pts)] \in Sent
    BY <1>1, ElementOfSeq
  <1> QED
    BY <1>2 DEF Sent

LEMMA MetaStep ==
  ASSUME IInv, MetaTimes, [Next]_vars
  PROVE  MetaTimes'
  <1>0. TypeInv
    BY DEF IInv
  <1>1. ASSUME NEW t \in Threads, headflush_register(t) PROVE MetaTimes'
    <2>1. /\ head.pts \in Seq(Sent) /\ head.pts # << >> /\ head.last = head.pts[Len(head.pts)].ts
          /\ chunks' = Append(chunks, NewMeta(head))
      BY <1>1 DEF headflush_register, IInv, TypeInv, TypeOK, MemoryOK, PcInv, RecoveryInv, SortedInv
    <2>2. head.pts[1].ts \in Timestamps /\ head.last \in Timestamps
      BY <2>1, EndTimes
    <2>3. /\ NewMeta(head) \in ChunkMetadata
          /\ NewMeta(head).start_ts = head.pts[1].ts /\ NewMeta(head).end_ts = head.last
      BY <2>2, ChunkIdType, EngineAssumption DEF NewMeta, ChunkMetadata
    <2> QED
      BY <1>0, <2>1, <2>2, <2>3, MetaAppend
  <1>2. ASSUME NEW i \in ChunkIds, loadChunkMetadata(i) PROVE MetaTimes'
    <2>1. CASE chunks' = chunks
      BY <2>1 DEF MetaTimes
    <2>2. CASE files[i].state = "whole" /\ chunks' = Append(chunks, LoadedMeta(i))
      <3>1. files[i].pts \in Seq(Sent) /\ files[i].pts # << >>
        BY <1>0, <2>2 DEF TypeInv, TypeOK, DiskOK, File, PcInv
      <3>2. files[i].pts[1].ts \in Timestamps /\ files[i].pts[Len(files[i].pts)].ts \in Timestamps
        BY <3>1, EndTimes
      <3>3. /\ LoadedMeta(i) \in ChunkMetadata
            /\ LoadedMeta(i).start_ts = files[i].pts[1].ts
            /\ LoadedMeta(i).end_ts = files[i].pts[Len(files[i].pts)].ts
        BY <3>2, EngineAssumption DEF LoadedMeta, ChunkMetadata
      <3> QED
        BY <1>0, <2>2, <3>2, <3>3, MetaAppend
    <2> QED
      BY <1>2, <2>1, <2>2 DEF loadChunkMetadata
  <1>3. CASE chunks' = chunks
    BY <1>3 DEF MetaTimes
  <1>4. CASE chunks' = << >>
    BY <1>4 DEF MetaTimes
  <1>5. ASSUME NEW t \in Clients, NEW ts \in Timestamps, Head_PUT_lookup(t, ts) PROVE MetaTimes'
    BY <1>3, <1>5 DEF Head_PUT_lookup
  <1>6. ASSUME NEW t \in Clients, headflush_lookup(t) \/ Head_PUT_try(t) \/ Head_PUT_log(t)
        PROVE  MetaTimes'
    BY <1>3, <1>4, <1>6 DEF headflush_lookup, Head_PUT_try, Head_PUT_log, Halt
  <1>7. ASSUME NEW t \in Threads, headflush_open(t) \/ flushtochunk(t) \/ headflush_truncate(t)
        PROVE  MetaTimes'
    BY <1>3, <1>7 DEF headflush_open, flushtochunk, headflush_truncate
  <1>8. ASSUME cleanupRegistry \/ exitProcess \/ Crash \/ PowerLoss PROVE MetaTimes'
    BY <1>3, <1>4, <1>8 DEF cleanupRegistry, exitProcess, Crash, PowerLoss, Halt
  <1>9. ASSUME loadRegistry \/ wal_replay \/ loadRegistry_done \/ UNCHANGED vars PROVE MetaTimes'
    BY <1>3, <1>9 DEF loadRegistry, wal_replay, loadRegistry_done, vars, memory
  <1>10. ASSUME NEW i \in ChunkIds, Writeback(i) PROVE MetaTimes'
    BY <1>3, <1>10 DEF Writeback, memory
  <1> QED
    BY <1>1, <1>2, <1>5, <1>6, <1>7, <1>8, <1>9, <1>10, Steps

\* The engine does a step and the reader does not.
LEMMA StatsKept ==
  ASSUME TypeInv, TypeInv', NEW r \in Readers, reader[r].pc = "idle" \/ Grows,
         reader'[r] = reader[r], StatsInv(r), accepted \subseteq accepted'
  PROVE  StatsInv(r)'
  <1>1. chunks # << >> /\ Grows => chunks' # << >>
    <2>1. chunks \in Seq(ChunkMetadata) /\ chunks' \in Seq(ChunkMetadata)
      BY DEF TypeInv, TypeOK, MemoryOK
    <2>2. chunks # << >> => Len(chunks) > 0
      BY <2>1
    <2>3. Grows => Len(chunks) <= Len(chunks')
      BY DEF Grows
    <2>4. chunks' = << >> => Len(chunks') = 0
      OBVIOUS
    <2> QED
      BY <2>1, <2>2, <2>3, <2>4
  <1>2. reader[r].pc = "chunks" => Grows
    OBVIOUS
  <1> QED
    BY <1>1, <1>2 DEF StatsInv

LEMMA StatsRead ==
  ASSUME Benign, -1 \notin Timestamps, StatsOK, UNCHANGED vars, NEW r \in Readers, Read(r)
  PROVE  StatsInv(r)'
  <1> DEFINE q == reader[r]
             x == reader'[r]
  <1>0. /\ IInv /\ TypeInv /\ ReadersOK /\ SearchInv(r) /\ MetaTimes /\ StatsInv(r)
        /\ UNCHANGED <<chunks, head, files, proc, accepted>>
    BY DEF StatsOK, SearchOK, IInv, vars, memory, disk, history
  <1>1. ScanStep(r) \/ HeadStep(r) \/ LookupStep(r) \/ StatsStep(r)
    BY <1>0, ReaderCases
  <1>2. CASE HeadStep(r)
    BY <1>2 DEF HeadStep, StatsInv
  <1>3. CASE ScanStep(r)
    <2>1. q.kind # "STATS"
      BY <1>0, <1>3 DEF ScanStep, SearchInv
    <2> QED
      BY <1>3, <2>1 DEF ScanStep, StatsInv
  <1>4. CASE LookupStep(r)
    <2>1. CASE ~ registered
      BY <1>0, <1>4, <2>1, UnknownEmpty DEF LookupStep, StatsInv
    <2>2. CASE registered
      BY <1>0, <1>4, <2>2 DEF LookupStep, StatsInv
    <2> QED
      BY <2>1, <2>2
  <1>5. CASE StatsStep(r)
    <2> SUFFICES ASSUME x.kind = "STATS", x.known # {} PROVE StatsInv(r)'
      BY DEF StatsInv
    <2>1. q.kind = "STATS" /\ q.known # {} /\ proc = "up"
      BY <1>0, <1>5 DEF StatsStep, SearchInv
    <2>2. head.pts \in Seq(Sent) /\ chunks \in Seq(ChunkMetadata)
      BY <1>0 DEF TypeInv, TypeOK, MemoryOK
    <2>3. CASE q.pc = "head" /\ head.pts = << >>
      <3>1. PICK p \in accepted : Visible(p)
        BY <1>0, <2>1, <2>3, BenignKept, DurableVisible DEF StatsInv, IInv, RecoveryInv, AckedInv
      <3>2. chunks # << >>
        BY <2>3, <3>1 DEF Visible, Range
      <3> QED
        BY <1>0, <1>5, <2>3, <3>2 DEF StatsStep, StatsInv
    <2>4. CASE q.pc = "head" /\ head.pts # << >>
      <3>1. Len(head.pts) > 0 /\ head.last = head.pts[Len(head.pts)].ts
        BY <1>0, <2>2, <2>4 DEF IInv, RecoveryInv, SortedInv
      <3>2. head.pts[1].ts # -1 /\ head.last # -1
        BY <2>2, <2>4, <3>1, EndTimes
      <3> QED
        BY <1>5, <2>4, <3>1, <3>2 DEF StatsStep, StatsInv
    <2>5. CASE q.pc = "chunks" /\ chunks = << >>
      BY <1>0, <1>5, <2>1, <2>5 DEF StatsStep, StatsInv
    <2>6. CASE q.pc = "chunks" /\ chunks # << >>
      <3>1. Len(chunks) > 0 /\ 1 \in DOMAIN chunks /\ Len(chunks) \in DOMAIN chunks
        BY <2>2, <2>6
      <3>2. chunks[1].start_ts # -1 /\ chunks[Len(chunks)].end_ts # -1
        BY <1>0, <3>1 DEF MetaTimes
      <3> QED
        BY <1>5, <2>6, <3>1, <3>2 DEF StatsStep, StatsInv
    <2> QED
      BY <1>5, <2>3, <2>4, <2>5, <2>6 DEF StatsStep
  <1> QED
    BY <1>1, <1>2, <1>3, <1>4, <1>5

\* In a benign environment whose clients do not send the timestamp -1, the code's
\* mark for "none", STATS never reports "N/A" for a metric that had points when it
\* was asked: what has left the block before STATS locks it is in the chunk list,
\* which it reads afterwards.
THEOREM StatsSafe ==
  ASSUME Benign, -1 \notin Timestamps
  PROVE  QuerySpec => []StatsSeesData
  <1>1. QueryInit => StatsOK
    <2> SUFFICES ASSUME QueryInit PROVE StatsOK
      OBVIOUS
    <2>1. SearchOK /\ TypeInv
      BY SearchInit DEF SearchOK, IInv
    <2>2. chunks = << >> /\ \A r \in Readers : reader[r].known = {}
      BY <2>1, NoReaderFacts DEF QueryInit, Init
    <2> QED
      BY <2>1, <2>2 DEF StatsOK, StatsInv, MetaTimes
  <1>2. StatsOK /\ [QueryNext]_queryVars => StatsOK'
    <2> SUFFICES ASSUME StatsOK, [QueryNext]_queryVars PROVE StatsOK'
      OBVIOUS
    <2>0. /\ SearchOK /\ IInv /\ TypeInv /\ ReadersOK /\ MetaTimes /\ [Next]_vars
          /\ \A r \in Readers : SearchInv(r) /\ StatsInv(r)
      BY DEF StatsOK, SearchOK, IInv, QueryNext, queryVars, Write
    <2>1. SearchOK' /\ TypeInv' /\ MetaTimes'
      BY <2>0, SearchNext, MetaStep DEF SearchOK, IInv
    <2>2. accepted \subseteq accepted'
      BY <2>0, Steps DEF Head_PUT_lookup, headflush_lookup, Head_PUT_try, Head_PUT_log, headflush_open,
         flushtochunk, headflush_register, headflush_truncate, cleanupRegistry, exitProcess, Crash,
         PowerLoss, Writeback, loadChunkMetadata, loadRegistry, wal_replay, loadRegistry_done,
         history, vars
    <2>3. CASE Write
      <3>1. \A r \in Readers :
               \/ proc' # "down" /\ reader'[r] = reader[r]
               \/ proc' = "down" /\ reader'[r] = NoReader
        BY <2>0, <2>3, WriteFacts
      <3>2. ASSUME NEW r \in Readers PROVE StatsInv(r)'
        <4>1. CASE proc' # "down" /\ reader'[r] = reader[r]
          <5>1. reader[r].pc = "idle" \/ Grows
            BY <2>0, <4>1, GrowStep DEF SearchInv
          <5> QED
            BY <2>0, <2>1, <2>2, <4>1, <5>1, StatsKept
        <4>2. CASE reader'[r] = NoReader
          BY <2>0, <4>2, NoReaderFacts DEF StatsInv
        <4> QED
          BY <3>1, <4>1, <4>2
      <3> QED
        BY <2>1, <3>2 DEF StatsOK
    <2>4. ASSUME UNCHANGED vars, NEW r \in Readers, Read(r) PROVE StatsOK'
      <3>1. \A d \in Readers \ {r} : reader'[d] = reader[d]
        BY <2>0, <2>4, ReaderCases
      <3>2. Grows
        BY <2>0, <2>4, GrowSame DEF vars, memory, disk
      <3>3. \A d \in Readers \ {r} : StatsInv(d)'
        BY <2>0, <2>1, <2>2, <3>1, <3>2, StatsKept
      <3>4. StatsInv(r)'
        BY <2>4, StatsRead
      <3> QED
        BY <2>1, <3>3, <3>4 DEF StatsOK
    <2>5. CASE UNCHANGED queryVars
      <3>1. reader' = reader /\ Grows
        BY <2>0, <2>5, GrowSame DEF queryVars, vars, memory, disk
      <3>2. \A r \in Readers : StatsInv(r)'
        BY <2>0, <2>1, <2>2, <3>1, StatsKept
      <3> QED
        BY <2>1, <3>2 DEF StatsOK
    <2> QED
      BY <2>3, <2>4, <2>5 DEF QueryNext
  <1>3. StatsOK => StatsSeesData
    BY DEF StatsOK, StatsInv, StatsSeesData, Answered
  <1> QED
    BY <1>1, <1>2, <1>3, PTL DEF QuerySpec

-----------------------------------------------------------------------------
(***************************************************************************)
(* Without a restart nothing is stored or read twice.                      *)
(***************************************************************************)

\* Listed files are left alone.
LEMMA ListedFrame ==
  ASSUME chunks' = chunks, \A k \in DOMAIN chunks : files'[chunks[k].id] = files[chunks[k].id]
  PROVE  /\ ListedInv => ListedInv'
         /\ \A k \in DOMAIN chunks : /\ FilePoints(chunks[k].id)' = FilePoints(chunks[k].id)
                                     /\ ChunkTimes(k)' = ChunkTimes(k)
  BY DEF ListedInv, Whole, LoadedMeta, FilePoints, ChunkTimes

\* Where points are does not change.
LEMMA PlacesKept ==
  ASSUME OnceInv, chunks' = chunks,
         \A k \in DOMAIN chunks : files'[chunks[k].id] = files[chunks[k].id],
         head'.pts = head.pts, head'.pts # << >> => head'.last = head.last
  PROVE  /\ ListedInv'
         /\ Sorted(head.pts)'
         /\ (head.pts # << >> => head.last = head.pts[Len(head.pts)].ts)'
         /\ HeadTimes' = HeadTimes
         /\ \A k \in DOMAIN chunks : ChunkTimes(k)' = ChunkTimes(k)
         /\ accepted' = accepted => PlacedInv'
  <1>1. ListedInv' /\ \A k \in DOMAIN chunks : /\ FilePoints(chunks[k].id)' = FilePoints(chunks[k].id)
                                               /\ ChunkTimes(k)' = ChunkTimes(k)
    BY ListedFrame DEF OnceInv
  <1>2. PlacedInv /\ accepted' = accepted => PlacedInv'
    BY <1>1 DEF PlacedInv
  <1> QED
    BY <1>1, <1>2 DEF OnceInv, BlockInv, Sorted, HeadTimes

\* A request that goes on, gives up or is dropped.
LEMMA ApartKept ==
  ASSUME TypeInv, OnceInv, chunks' = chunks, HeadTimes' = HeadTimes,
         \A k \in DOMAIN chunks : ChunkTimes(k)' = ChunkTimes(k), used' = used,
         \A t \in Threads : \/ pt'[t] = NoPoint
                            \/ pt'[t] = pt[t] /\ (pc'[t] = pc[t] \/ pc[t] # "wal")
  PROVE  ApartInv'
  BY DEF OnceInv, ApartInv

\* The lock's owner is alone in its critical section.
LEMMA Owner ==
  ASSUME TypeInv, NEW t \in Threads
  PROVE  /\ lock = NoThread => pc[t] \notin Critical
         /\ pc[t] \in Critical => \A u \in Threads \ {t} : pc[u] \notin Critical
         /\ pc[t] \notin {"idle", "exit"} => proc = "up" /\ registered
  BY EngineAssumption DEF TypeInv, TypeOK, MemoryOK, LockInv, PcInv, Threads, PCs

LEMMA OnceLookup ==
  ASSUME NoRestart, TypeInv, OnceInv, NEW t \in Clients, NEW ts \in Timestamps,
         Head_PUT_lookup(t, ts)
  PROVE  OnceInv'
  <1>1. t \in Threads /\ Main \in Threads /\ t # Main
    BY EngineAssumption DEF Threads
  <1>2. /\ UNCHANGED <<proc, chunks, lock, files, dir, accepted>> /\ ts \notin used
        /\ used' = used \cup {ts} /\ pc' = [pc EXCEPT ![t] = "put"] /\ proc = "up"
        /\ pt' = [pt EXCEPT ![t] = [ts |-> ts, val |-> nput']] /\ registered' = TRUE
        /\ pc[t] = "idle"
    BY DEF Head_PUT_lookup, disk, NoRestart
  <1>3. head'.pts = head.pts /\ (head'.pts # << >> => head'.last = head.last)
    BY DEF Head_PUT_lookup, OnceInv, RunInv, getNewHeadBlock
  <1>4. /\ ListedInv' /\ Sorted(head.pts)'
        /\ (head.pts # << >> => head.last = head.pts[Len(head.pts)].ts)'
        /\ HeadTimes' = HeadTimes /\ PlacedInv'
        /\ \A k \in DOMAIN chunks : ChunkTimes(k)' = ChunkTimes(k)
    BY <1>2, <1>3, PlacesKept
  <1>5. pc \in [Threads -> PCs] /\ pt \in [Threads -> Sent \cup {NoPoint}]
    BY DEF TypeInv, TypeOK, MemoryOK
  <1>6. /\ \A u \in Threads \ {t} : pc'[u] = pc[u] /\ pt'[u] = pt[u]
        /\ pc'[t] = "put" /\ pt'[t].ts = ts
    BY <1>1, <1>2, <1>5
  <1>7. RunInv'
    BY <1>1, <1>2, <1>6 DEF OnceInv, RunInv
  <1>8. BlockInv'
    BY <1>2, <1>3, <1>4, <1>6 DEF OnceInv, BlockInv, HeadId
  <1>9. ApartInv'
    <2>1. ts \notin HeadTimes /\ \A k \in DOMAIN chunks : ts \notin ChunkTimes(k)
      BY <1>2 DEF OnceInv, ApartInv
    <2>2. \A u \in Threads \ {t} : pt[u] # NoPoint => pt[u].ts # ts
      BY <1>2 DEF OnceInv, ApartInv
    <2> QED
      BY <1>2, <1>4, <1>6, <2>1, <2>2 DEF OnceInv, ApartInv
  <1> QED
    BY <1>4, <1>7, <1>8, <1>9 DEF OnceInv

\* A point at the end of the block, newer than all that are in it.
LEMMA AppendSorted ==
  ASSUME NEW s \in Seq(Sent), Sorted(s), NEW p \in Sent,
         s # << >> => s[Len(s)].ts < p.ts
  PROVE  Sorted(Append(s, p))
  <1> DEFINE a == Append(s, p)
  <1>1. PICK n \in Nat : n = Len(s)
    BY LenProperties
  <1>2. /\ DOMAIN s = 1 .. n /\ DOMAIN a = 1 .. n + 1 /\ a[n + 1] = p
        /\ \A j \in 1 .. n : a[j] = s[j]
    BY <1>1, AppendFacts
  <1>3. \A j \in 1 .. n : s[j].ts \in Int
    <2>1. \A j \in 1 .. n : s[j] \in Sent
      BY <1>1, ElementOfSeq
    <2> QED
      BY <2>1, EngineAssumption DEF Sent
  <1>4. \A j \in 1 .. n : s[j].ts < p.ts
    <2> SUFFICES ASSUME NEW j \in 1 .. n PROVE s[j].ts < p.ts
      OBVIOUS
    <2>0. n \in 1 .. n
      OBVIOUS
    <2>a. s # << >>
      BY <1>1, <1>2, <2>0
    <2>b. p.ts \in Int
      <3>1. p.ts \in Timestamps
        BY DEF Sent
      <3> QED
        BY <3>1, EngineAssumption
    <2>1. n \in 1 .. n /\ s[n].ts < p.ts /\ p.ts \in Int
      BY <1>1, <2>0, <2>a, <2>b
    <2>2. j = n \/ s[j].ts < s[n].ts
      BY <1>2, <2>1 DEF Sorted
    <2> QED
      BY <1>3, <2>1, <2>2
  <1> HIDE DEF a
  <1>5. ASSUME NEW j \in 1 .. n + 1, NEW k \in 1 .. n + 1, j < k
        PROVE  a[j].ts < a[k].ts
    <2>1. j \in 1 .. n /\ (k \in 1 .. n \/ k = n + 1)
      BY <1>5
    <2> QED
      BY <1>2, <1>4, <1>5, <2>1 DEF Sorted
  <1>6. Sorted(a)
    BY <1>2, <1>5 DEF Sorted
  <1> QED
    BY <1>6 DEF a

LEMMA OnceAccept ==
  ASSUME TypeInv, OnceInv, NEW t \in Clients, pc[t] \in {"put", "reput"}, lock = NoThread,
         PUT_accepts(head, pt[t]), head' = PUT_value(head, pt[t]),
         pc' = [pc EXCEPT ![t] = "wal"],
         UNCHANGED <<proc, registered, chunks, pt, disk, history>>
  PROVE  OnceInv'
  <1> DEFINE p == pt[t]
  <1>1. t \in Threads /\ Main \in Threads /\ t # Main /\ proc = "up" /\ registered
    BY EngineAssumption, Owner DEF Threads
  <1>2. /\ p \in Sent /\ p # NoPoint /\ head.pts \in Seq(Sent)
        /\ pc \in [Threads -> PCs] /\ pt \in [Threads -> Sent \cup {NoPoint}]
    BY <1>1 DEF TypeInv, TypeOK, MemoryOK, PcInv
  <1>3. /\ pc'[t] = "wal" /\ \A u \in Threads \ {t} : pc'[u] = pc[u] /\ pc[u] \notin Critical
    BY <1>1, <1>2, Owner
  <1>4. p.ts \notin HeadTimes /\ \A k \in DOMAIN chunks : p.ts \notin ChunkTimes(k)
    BY <1>1, <1>2 DEF OnceInv, ApartInv
  <1>5. /\ head'.pts = Append(head.pts, p) /\ head'.last = p.ts
        /\ head'.pts # << >> /\ head'.pts[Len(head'.pts)] = p
        /\ Range(head'.pts) = Range(head.pts) \cup {p}
    <2>1. head'.pts = Append(head.pts, p) /\ head'.last = p.ts
      BY DEF PUT_value
    <2> HIDE DEF p
    <2> QED
      BY <1>2, <2>1, AppendFacts
  <1>6. Sorted(head'.pts)
    <2>1. ASSUME head.pts # << >> PROVE head.pts[Len(head.pts)].ts < p.ts
      <3>1. Len(head.pts) \in DOMAIN head.pts /\ Len(head.pts) > 0
        BY <1>2, <2>1
      <3>2. head.last = head.pts[Len(head.pts)].ts /\ ~ (p.ts < head.last)
        BY <2>1, <3>1 DEF OnceInv, BlockInv, PUT_accepts
      <3>3. head.pts[Len(head.pts)] \in Range(head.pts)
        BY <3>1 DEF Range
      <3>4. head.last # p.ts
        BY <1>4, <3>2, <3>3 DEF HeadTimes
      <3>5. head.last \in Int /\ p.ts \in Int
        <4>1. p.ts \in Timestamps
          BY <1>2 DEF Sent
        <4> QED
          BY <4>1, EngineAssumption DEF TypeInv, TypeOK, MemoryOK
      <3> QED
        BY <3>2, <3>4, <3>5
    <2> HIDE DEF p
    <2> QED
      BY <1>2, <1>5, <2>1, AppendSorted DEF OnceInv, BlockInv
  <1>7. HeadTimes' = HeadTimes \cup {p.ts}
    <2> HIDE DEF p
    <2> QED
      BY <1>5 DEF HeadTimes
  <1>8. /\ ListedInv' /\ chunks' = chunks
        /\ \A k \in DOMAIN chunks : /\ FilePoints(chunks[k].id)' = FilePoints(chunks[k].id)
                                    /\ ChunkTimes(k)' = ChunkTimes(k)
    BY ListedFrame DEF OnceInv, disk
  <1>9. RunInv'
    BY <1>1, <1>3 DEF OnceInv, RunInv, disk, history
  <1>10. BlockInv'
    <2>1. \A u \in Threads : /\ pc'[u] = "wal" => pt'[u] \in Range(head'.pts)
                             /\ pc'[u] \notin {"write", "register"}
      BY <1>3, <1>5 DEF Critical
    <2> QED
      BY <1>5, <1>6, <2>1 DEF BlockInv
  <1>11. ApartInv'
    <2>1. used' = used /\ pt' = pt /\ p.ts \in used
      BY <1>1, <1>2 DEF OnceInv, ApartInv, history
    <2>2. HeadTimes' \subseteq used'
      BY <1>7, <2>1 DEF OnceInv, ApartInv
    <2>3. \A k \in DOMAIN chunks : ChunkTimes(k)' \cap HeadTimes' = {}
      BY <1>4, <1>7, <1>8 DEF OnceInv, ApartInv
    <2>4. \A u \in Threads : pt[u] # NoPoint /\ pc'[u] # "wal" => pt[u].ts \notin HeadTimes'
      BY <1>1, <1>2, <1>3, <1>7 DEF OnceInv, ApartInv, Critical
    <2> QED
      BY <1>8, <2>1, <2>2, <2>3, <2>4 DEF OnceInv, ApartInv
  <1>12. PlacedInv'
    BY <1>5, <1>8 DEF OnceInv, PlacedInv, history
  <1> QED
    BY <1>8, <1>9, <1>10, <1>11, <1>12 DEF OnceInv

\* A step that leaves the block and the listed files alone, and enters or stays
\* in no critical section whose promise it does not keep.
LEMMA OnceKept ==
  ASSUME TypeInv, OnceInv, UNCHANGED <<proc, registered, head, chunks, accepted, used>>,
         \A k \in DOMAIN chunks : files'[chunks[k].id] = files[chunks[k].id],
         registered \/ dir' = dir, pc'[Main] = "idle",
         \A t \in Threads : \/ pt'[t] = NoPoint
                            \/ pt'[t] = pt[t] /\ (pc'[t] = pc[t] \/ pc[t] # "wal"),
         \A t \in Threads :
           /\ pc'[t] = "wal" => pc[t] = "wal" /\ pt'[t] = pt[t]
           /\ pc'[t] = "write" => files'[HeadId] = [state |-> "torn", pts |-> head.pts]
           /\ pc'[t] = "register" => files'[HeadId] = [state |-> "whole", pts |-> head.pts]
  PROVE  OnceInv'
  <1>1. /\ ListedInv' /\ Sorted(head.pts)'
        /\ (head.pts # << >> => head.last = head.pts[Len(head.pts)].ts)'
        /\ HeadTimes' = HeadTimes /\ PlacedInv'
        /\ \A k \in DOMAIN chunks : ChunkTimes(k)' = ChunkTimes(k)
    BY PlacesKept
  <1>2. RunInv'
    BY DEF OnceInv, RunInv
  <1>3. BlockInv'
    BY <1>1 DEF OnceInv, BlockInv, HeadId
  <1>4. ApartInv'
    BY <1>1, ApartKept
  <1> QED
    BY <1>1, <1>2, <1>3, <1>4 DEF OnceInv

LEMMA OnceTry ==
  ASSUME TypeInv, OnceInv, NEW t \in Clients, Head_PUT_try(t)
  PROVE  OnceInv'
  <1>1. CASE PUT_accepts(head, pt[t])
    BY <1>1, OnceAccept DEF Head_PUT_try
  <1>2. CASE ~ PUT_accepts(head, pt[t])
    <2>1. t \in Threads /\ Main \in Threads /\ t # Main /\ registered /\ pc[t] # "wal"
      BY EngineAssumption, Owner DEF Threads, Head_PUT_try
    <2>2. /\ UNCHANGED <<proc, registered, head, chunks, accepted, used, files, dir>>
          /\ pt' = pt \/ pt' = [pt EXCEPT ![t] = NoPoint]
          /\ \E s \in {"flush", "idle"} : pc' = [pc EXCEPT ![t] = s]
      BY <1>2 DEF Head_PUT_try, disk, history
    <2>3. pc \in [Threads -> PCs] /\ pt \in [Threads -> Sent \cup {NoPoint}]
      BY DEF TypeInv, TypeOK, MemoryOK
    <2>4. /\ pc'[t] \in {"flush", "idle"} /\ (pt'[t] = pt[t] \/ pt'[t] = NoPoint)
          /\ \A u \in Threads \ {t} : pc'[u] = pc[u] /\ pt'[u] = pt[u]
      BY <2>1, <2>2, <2>3
    <2>5. \A u \in Threads : \/ pt'[u] = NoPoint
                             \/ pt'[u] = pt[u] /\ (pc'[u] = pc[u] \/ pc[u] # "wal")
      BY <2>1, <2>4
    <2>6. \A u \in Threads :
           /\ pc'[u] = "wal" => pc[u] = "wal" /\ pt'[u] = pt[u]
           /\ pc'[u] = "write" => files'[HeadId] = [state |-> "torn", pts |-> head.pts]
           /\ pc'[u] = "register" => files'[HeadId] = [state |-> "whole", pts |-> head.pts]
      BY <2>2, <2>4 DEF OnceInv, BlockInv
    <2>7. pc'[Main] = "idle"
      BY <2>1, <2>4 DEF OnceInv, RunInv
    <2> QED
      BY <2>1, <2>2, <2>5, <2>6, <2>7, OnceKept
  <1> QED
    BY <1>1, <1>2

LEMMA OnceLog ==
  ASSUME TypeInv, OnceInv, NEW t \in Clients, Head_PUT_log(t)
  PROVE  OnceInv'
  <1>1. t \in Threads /\ Main \in Threads /\ t # Main /\ registered /\ pc[t] = "wal"
    BY EngineAssumption, Owner DEF Threads, Head_PUT_log
  <1>2. /\ UNCHANGED <<proc, registered, head, chunks, files, used>>
        /\ pt' = [pt EXCEPT ![t] = NoPoint] /\ pc' = [pc EXCEPT ![t] = "idle"]
        /\ accepted' = accepted \cup {pt[t]}
    BY DEF Head_PUT_log
  <1>3. pc \in [Threads -> PCs] /\ pt \in [Threads -> Sent \cup {NoPoint}]
    BY DEF TypeInv, TypeOK, MemoryOK
  <1>4. /\ pc'[t] = "idle" /\ pt'[t] = NoPoint
        /\ \A u \in Threads \ {t} : pc'[u] = pc[u] /\ pt'[u] = pt[u]
    BY <1>1, <1>2, <1>3
  <1>5. /\ ListedInv' /\ Sorted(head.pts)'
        /\ (head.pts # << >> => head.last = head.pts[Len(head.pts)].ts)'
        /\ HeadTimes' = HeadTimes
        /\ \A k \in DOMAIN chunks : ChunkTimes(k)' = ChunkTimes(k)
    BY <1>2, PlacesKept
  <1>6. RunInv'
    BY <1>1, <1>2, <1>4 DEF OnceInv, RunInv
  <1>7. BlockInv'
    BY <1>2, <1>4, <1>5 DEF OnceInv, BlockInv, HeadId
  <1>8. ApartInv'
    BY <1>2, <1>4, <1>5, ApartKept
  <1>9. PlacedInv'
    BY <1>1, <1>2 DEF OnceInv, PlacedInv, BlockInv, FilePoints
  <1> QED
    BY <1>5, <1>6, <1>7, <1>8, <1>9 DEF OnceInv

\* Only a FLUSH of an unknown metric comes here: there is nothing to lose.
LEMMA OnceHalt ==
  ASSUME TypeInv, OnceInv, ~ registered, Halt, UNCHANGED <<dir, accepted, used>>
  PROVE  OnceInv'
  <1>1. dir' = FALSE /\ accepted' = {}
    BY DEF OnceInv, RunInv, TypeInv, TypeOK, FlagsOK
  <1>2. /\ proc' = "down" /\ registered' = FALSE /\ chunks' = << >>
        /\ head'.pts = << >>
        /\ \A t \in Threads : pc'[t] = "idle" /\ pt'[t] = NoPoint
    BY DEF Halt, getNewHeadBlock
  <1>3. DOMAIN chunks' = {} /\ DOMAIN head'.pts = {} /\ Main \in Threads
    BY <1>2 DEF Threads
  <1>4. Range(head'.pts) = {}
    BY <1>3 DEF Range
  <1>5. RunInv' /\ ListedInv' /\ PlacedInv'
    BY <1>1, <1>2, <1>3 DEF RunInv, ListedInv, PlacedInv
  <1>6. BlockInv'
    BY <1>2, <1>3 DEF BlockInv, Sorted
  <1>7. ApartInv'
    <2>1. HeadTimes' = {}
      BY <1>4 DEF HeadTimes
    <2> QED
      BY <1>2, <1>3, <2>1 DEF ApartInv
  <1> QED
    BY <1>5, <1>6, <1>7 DEF OnceInv

\* A thread outside the critical sections moves on outside of them.
LEMMA OnceMove ==
  ASSUME TypeInv, OnceInv, NEW t \in Clients, pc[t] # "wal",
         UNCHANGED <<proc, registered, head, chunks, accepted, used, files, pt>>,
         registered \/ dir' = dir,
         NEW s \in PCs \ Critical, pc' = [pc EXCEPT ![t] = s]
  PROVE  OnceInv'
  <1>1. t \in Threads /\ Main \in Threads /\ t # Main
    BY EngineAssumption DEF Threads
  <1>2. pc \in [Threads -> PCs]
    BY DEF TypeInv, TypeOK, MemoryOK
  <1>3. pc'[t] \notin Critical /\ \A u \in Threads \ {t} : pc'[u] = pc[u]
    BY <1>1, <1>2
  <1>4. \A u \in Threads :
           /\ pc'[u] = "wal" => pc[u] = "wal" /\ pt'[u] = pt[u]
           /\ pc'[u] = "write" => files'[HeadId] = [state |-> "torn", pts |-> head.pts]
           /\ pc'[u] = "register" => files'[HeadId] = [state |-> "whole", pts |-> head.pts]
    BY <1>3 DEF OnceInv, BlockInv, Critical
  <1>5. pc'[Main] = "idle"
    BY <1>1, <1>3 DEF OnceInv, RunInv
  <1>6. \A u \in Threads : pt'[u] = pt[u] /\ (pc'[u] = pc[u] \/ pc[u] # "wal")
    BY <1>3
  <1> QED
    BY <1>4, <1>5, <1>6, OnceKept

LEMMA OnceFlushLookup ==
  ASSUME TypeInv, OnceInv, NEW t \in Clients, headflush_lookup(t)
  PROVE  OnceInv'
  <1>1. CASE registered
    <2>1. /\ UNCHANGED <<proc, registered, head, chunks, accepted, used, files, pt, dir>>
          /\ pc[t] # "wal" /\ pc' = [pc EXCEPT ![t] = "flush"]
      BY <1>1 DEF headflush_lookup, disk
    <2>2. "flush" \in PCs \ Critical
      BY DEF PCs, Critical
    <2> QED
      BY <2>1, <2>2, OnceMove
  <1>2. CASE ~ registered
    BY <1>2, OnceHalt DEF headflush_lookup, disk
  <1> QED
    BY <1>1, <1>2

\* The file that a flush writes is no listed one: the registry names a file after
\* its first timestamp, and no timestamp of the block is in a listed file.
LEMMA HeadIdFresh ==
  ASSUME NoRestart, TypeInv, OnceInv, head.pts # << >>
  PROVE  \A k \in DOMAIN chunks : chunks[k].id # HeadId
  <1> SUFFICES ASSUME NEW k \in DOMAIN chunks, chunks[k].id = HeadId
               PROVE  FALSE
    OBVIOUS
  <1>1. PICK i \in ChunkIds : i = chunks[k].id
    BY HeadIdType DEF TypeInv
  <1>2. Whole(i) /\ ChunkId(files[i].pts[1].ts) = i
    BY <1>1 DEF OnceInv, ListedInv
  <1>3. files[i].pts \in Seq(Sent) /\ files[i].pts # << >> /\ head.pts \in Seq(Sent)
    BY <1>2 DEF TypeInv, TypeOK, MemoryOK, DiskOK, File, PcInv, Whole
  <1>4. /\ 1 \in DOMAIN files[i].pts /\ files[i].pts[1] \in Sent
        /\ 1 \in DOMAIN head.pts /\ head.pts[1] \in Sent
    BY <1>3
  <1>5. head.pts[1].ts = files[i].pts[1].ts
    BY <1>1, <1>2, <1>4 DEF NoRestart, HeadId, Sent
  <1>6. files[i].pts[1] \in FilePoints(i) /\ head.pts[1] \in Range(head.pts)
    BY <1>4 DEF FilePoints, Range
  <1>7. files[i].pts[1].ts \in ChunkTimes(k) /\ head.pts[1].ts \in HeadTimes
    BY <1>1, <1>6 DEF ChunkTimes, HeadTimes
  <1> QED
    BY <1>5, <1>7 DEF OnceInv, ApartInv

LEMMA ListedIds ==
  ASSUME TypeInv
  PROVE  \A k \in DOMAIN chunks : chunks[k] \in ChunkMetadata /\ chunks[k].id \in ChunkIds
  <1>1. chunks \in Seq(ChunkMetadata)
    BY DEF TypeInv, TypeOK, MemoryOK
  <1>2. \A k \in DOMAIN chunks : chunks[k] \in ChunkMetadata
    BY <1>1
  <1> QED
    BY <1>2 DEF ChunkMetadata

\* The thread that flushes serves a client; what it may do next.
LEMMA Flusher ==
  ASSUME TypeInv, OnceInv, NEW t \in Threads, pc[t] \in {"flush", "write", "register", "truncate"}
  PROVE  /\ t \in Clients /\ t # Main /\ registered /\ proc = "up"
         /\ AfterFlush(t) \in PCs \ Critical
  <1>1. t # Main
    BY DEF OnceInv, RunInv
  <1> QED
    BY <1>1, Owner, AfterFlushType DEF Threads

LEMMA OnceOpen ==
  ASSUME NoRestart, TypeInv, OnceInv, NEW t \in Threads, headflush_open(t)
  PROVE  OnceInv'
  <1>1. /\ t \in Clients /\ t # Main /\ registered /\ pc[t] = "flush" /\ lock = NoThread
        /\ AfterFlush(t) \in PCs \ Critical
    BY Flusher DEF headflush_open
  <1>2. CASE files' = files /\ pc' = [pc EXCEPT ![t] = AfterFlush(t)]
    <2>1. UNCHANGED <<proc, registered, head, chunks, accepted, used, files, pt>>
      BY <1>2 DEF headflush_open, history
    <2> HIDE DEF AfterFlush
    <2> QED
      BY <1>1, <1>2, <2>1, OnceMove
  <1>3. CASE /\ head.pts # << >> /\ pc' = [pc EXCEPT ![t] = "write"]
             /\ files' = [files EXCEPT ![HeadId] = [state |-> "torn", pts |-> head.pts]]
    <2>1. UNCHANGED <<proc, registered, head, chunks, accepted, used, pt>>
      BY <1>3 DEF headflush_open, history
    <2>2. PICK h \in ChunkIds : h = HeadId
      BY <1>3, HeadIdType DEF TypeInv
    <2>3. files'[h] = [state |-> "torn", pts |-> head.pts] /\ \A i \in ChunkIds \ {h} : files'[i] = files[i]
      BY <1>3, <2>2 DEF TypeInv, TypeOK, DiskOK
    <2>4. \A k \in DOMAIN chunks : files'[chunks[k].id] = files[chunks[k].id]
      <3>1. \A k \in DOMAIN chunks : chunks[k].id \in ChunkIds \ {h}
        BY <1>3, <2>2, HeadIdFresh, ListedIds
      <3> QED
        BY <2>3, <3>1
    <2>5. pc'[t] = "write" /\ \A u \in Threads \ {t} : pc'[u] = pc[u] /\ pc[u] \notin Critical
      BY <1>1, <1>3, Owner DEF TypeInv, TypeOK, MemoryOK
    <2>6. \A u \in Threads :
           /\ pc'[u] = "wal" => pc[u] = "wal" /\ pt'[u] = pt[u]
           /\ pc'[u] = "write" => files'[HeadId] = [state |-> "torn", pts |-> head.pts]
           /\ pc'[u] = "register" => files'[HeadId] = [state |-> "whole", pts |-> head.pts]
      BY <2>2, <2>3, <2>5 DEF Critical
    <2>7. pc'[Main] = "idle"
      BY <1>1, <2>5 DEF OnceInv, RunInv, Threads
    <2>8. \A u \in Threads : pt'[u] = pt[u] /\ (pc'[u] = pc[u] \/ pc[u] # "wal")
      BY <1>1, <2>1, <2>5
    <2> QED
      BY <1>1, <2>1, <2>4, <2>6, <2>7, <2>8, OnceKept
  <1> QED
    BY <1>2, <1>3 DEF headflush_open

LEMMA OnceWrite ==
  ASSUME NoRestart, TypeInv, OnceInv, NEW t \in Threads, flushtochunk(t)
  PROVE  OnceInv'
  <1>1. /\ t \in Clients /\ t # Main /\ registered /\ pc[t] = "write"
        /\ AfterFlush(t) \in PCs \ Critical /\ dir' = dir
        /\ UNCHANGED <<proc, registered, head, chunks, accepted, used, pt>>
    BY Flusher DEF flushtochunk, history
  <1>2. CASE files' = files /\ pc' = [pc EXCEPT ![t] = AfterFlush(t)]
    <2> HIDE DEF AfterFlush
    <2> QED
      BY <1>1, <1>2, OnceMove
  <1>3. CASE /\ pc' = [pc EXCEPT ![t] = "register"]
             /\ files' = [files EXCEPT ![HeadId].state = "whole"]
    <2>1. head.pts # << >> /\ files[HeadId] = [state |-> "torn", pts |-> head.pts]
      BY <1>1 DEF TypeInv, PcInv, OnceInv, BlockInv
    <2>2. PICK h \in ChunkIds : h = HeadId
      BY <2>1, HeadIdType DEF TypeInv
    <2>3. files'[h] = [state |-> "whole", pts |-> head.pts] /\ \A i \in ChunkIds \ {h} : files'[i] = files[i]
      BY <1>3, <2>1, <2>2 DEF TypeInv, TypeOK, DiskOK, File
    <2>4. \A k \in DOMAIN chunks : files'[chunks[k].id] = files[chunks[k].id]
      <3>1. \A k \in DOMAIN chunks : chunks[k].id \in ChunkIds \ {h}
        BY <2>1, <2>2, HeadIdFresh, ListedIds
      <3> QED
        BY <2>3, <3>1
    <2>5. pc'[t] = "register" /\ \A u \in Threads \ {t} : pc'[u] = pc[u] /\ pc[u] \notin Critical
      BY <1>1, <1>3, Owner DEF TypeInv, TypeOK, MemoryOK, Critical
    <2>6. \A u \in Threads :
           /\ pc'[u] = "wal" => pc[u] = "wal" /\ pt'[u] = pt[u]
           /\ pc'[u] = "write" => files'[HeadId] = [state |-> "torn", pts |-> head.pts]
           /\ pc'[u] = "register" => files'[HeadId] = [state |-> "whole", pts |-> head.pts]
      BY <2>2, <2>3, <2>5 DEF Critical
    <2>7. pc'[Main] = "idle"
      BY <1>1, <2>5 DEF OnceInv, RunInv, Threads
    <2>8. \A u \in Threads : pt'[u] = pt[u] /\ (pc'[u] = pc[u] \/ pc[u] # "wal")
      BY <1>1, <2>5
    <2> QED
      BY <1>1, <2>4, <2>6, <2>7, <2>8, OnceKept
  <1> QED
    BY <1>2, <1>3 DEF flushtochunk, NoRestart

LEMMA OnceTruncate ==
  ASSUME TypeInv, OnceInv, NEW t \in Threads, headflush_truncate(t)
  PROVE  OnceInv'
  <1>1. /\ t \in Clients /\ t # Main /\ registered /\ pc[t] # "wal"
        /\ AfterFlush(t) \in PCs \ Critical /\ pc' = [pc EXCEPT ![t] = AfterFlush(t)]
        /\ UNCHANGED <<proc, registered, head, chunks, accepted, used, files, pt>>
    BY Flusher DEF headflush_truncate, history
  <1> HIDE DEF AfterFlush
  <1> QED
    BY <1>1, OnceMove

\* The chunk that a flush adds to the list holds what the block held, which is
\* empty from the same step on.
LEMMA RegisterFacts ==
  ASSUME TypeInv, OnceInv, NEW t \in Threads, headflush_register(t)
  PROVE  LET n == Len(chunks) IN
         /\ n \in Nat /\ DOMAIN chunks = 1 .. n /\ DOMAIN chunks' = 1 .. n + 1
         /\ \A k \in DOMAIN chunks : chunks'[k] = chunks[k]
         /\ chunks'[n + 1].id = HeadId /\ HeadId \in ChunkIds
         /\ chunks'[n + 1] = LoadedMeta(HeadId)
         /\ files' = files /\ files[HeadId] = [state |-> "whole", pts |-> head.pts]
         /\ head.pts \in Seq(Sent) /\ head.pts # << >> /\ head'.pts = << >>
         /\ pc[t] = "register"
  <1>1. pc[t] = "register" /\ head.pts # << >> /\ files' = files /\ head'.pts = << >>
    BY DEF TypeInv, PcInv, headflush_register, disk, EmptiedHead
  <1>2. /\ files[HeadId] = [state |-> "whole", pts |-> head.pts]
        /\ head.last = head.pts[Len(head.pts)].ts
    BY <1>1 DEF OnceInv, BlockInv
  <1>3. /\ chunks \in Seq(ChunkMetadata) /\ chunks' \in Seq(ChunkMetadata)
        /\ head.pts \in Seq(Sent) /\ HeadId \in ChunkIds
    BY <1>1, HeadIdType, headflush_registerTypeInv DEF TypeInv, TypeOK, MemoryOK
  <1>4. NewMeta(head) = LoadedMeta(HeadId) /\ LoadedMeta(HeadId).id = HeadId
    BY <1>2 DEF NewMeta, LoadedMeta, HeadId
  <1>5. NewMeta(head) \in ChunkMetadata
    <2>1. head.pts[1].ts \in Int
      BY <1>1, <1>3, EndTimes, EngineAssumption
    <2> QED
      BY <1>3, <2>1 DEF NewMeta, ChunkMetadata, HeadId, TypeInv, TypeOK, MemoryOK
  <1>6. PICK m \in ChunkMetadata : m = NewMeta(head)
    BY <1>5
  <1>7. chunks' = Append(chunks, m)
    BY <1>6 DEF headflush_register
  <1>8. PICK n \in Nat : n = Len(chunks)
    BY <1>3
  <1>9. /\ DOMAIN chunks = 1 .. n /\ DOMAIN chunks' = 1 .. n + 1
        /\ \A k \in DOMAIN chunks : chunks'[k] = chunks[k]
        /\ chunks'[n + 1] = m
    BY <1>3, <1>7, <1>8, AppendFacts
  <1> QED
    BY <1>1, <1>2, <1>3, <1>4, <1>6, <1>8, <1>9

LEMMA OnceRegister ==
  ASSUME NoRestart, TypeInv, OnceInv, NEW t \in Threads, headflush_register(t)
  PROVE  OnceInv'
  <1>1. PICK n \in Nat : n = Len(chunks)
    BY RegisterFacts
  <1>2. PICK h : h = HeadId
    OBVIOUS
  <1>3. /\ DOMAIN chunks = 1 .. n /\ DOMAIN chunks' = 1 .. n + 1
        /\ \A k \in DOMAIN chunks : chunks'[k] = chunks[k]
        /\ chunks'[n + 1].id = h /\ chunks'[n + 1] = LoadedMeta(h)
        /\ files' = files /\ files[h] = [state |-> "whole", pts |-> head.pts]
        /\ head.pts # << >> /\ head'.pts = << >> /\ pc[t] = "register"
        /\ h \in ChunkIds /\ head.pts \in Seq(Sent)
    BY <1>1, <1>2, RegisterFacts
  <1>4. /\ UNCHANGED <<proc, registered, pt, dir, accepted, used>>
        /\ pc' = [pc EXCEPT ![t] = "truncate"]
    BY DEF headflush_register, disk, history
  <1>5. /\ t # Main /\ Main \in Threads /\ registered /\ proc = "up"
        /\ pc'[t] = "truncate" /\ \A u \in Threads \ {t} : pc'[u] = pc[u] /\ pc[u] \notin Critical
    BY <1>3, <1>4, Flusher, Owner DEF TypeInv, TypeOK, MemoryOK, Critical, Threads
  <1>6. Range(head'.pts) = {} /\ HeadTimes' = {} /\ DOMAIN head'.pts = {}
    BY <1>3 DEF Range, HeadTimes
  <1>7. /\ \A k \in 1 .. n : ChunkTimes(k)' = ChunkTimes(k)
        /\ ChunkTimes(n + 1)' = HeadTimes
        /\ FilePoints(h)' = Range(head.pts)
        /\ \A k \in 1 .. n : FilePoints(chunks[k].id)' = FilePoints(chunks[k].id)
    BY <1>3, SMTT(40) DEF ChunkTimes, HeadTimes, FilePoints
  <1>8. RunInv'
    BY <1>4, <1>5 DEF OnceInv, RunInv
  <1>9. ListedInv'
    <2> DEFINE Meta(i) == [start_ts |-> files[i].pts[1].ts,
                           end_ts |-> files[i].pts[Len(files[i].pts)].ts, id |-> i]
               Fits(c) == /\ files[c.id].state = "whole" /\ c = Meta(c.id)
                          /\ Sorted(files[c.id].pts) /\ ChunkId(files[c.id].pts[1].ts) = c.id
    <2>1. \A k \in 1 .. n : Fits(chunks[k])
      BY <1>3 DEF OnceInv, ListedInv, Whole, LoadedMeta
    <2>2. Fits(chunks'[n + 1])
      <3>1. Sorted(head.pts) /\ ChunkId(head.pts[1].ts) = h
        BY <1>2 DEF OnceInv, BlockInv, HeadId
      <3>2. files[h].state = "whole" /\ files[h].pts = head.pts
        BY <1>3
      <3>3. chunks'[n + 1] = Meta(h)
        BY <1>3 DEF LoadedMeta
      <3> HIDE DEF Meta
      <3> QED
        BY <1>3, <3>1, <3>2, <3>3
    <2>3. \A k \in 1 .. n + 1 : Fits(chunks'[k])
      <3> HIDE DEF Fits
      <3>1. \A k \in 1 .. n + 1 : k \in 1 .. n \/ k = n + 1
        OBVIOUS
      <3> QED
        BY <1>3, <2>1, <2>2, <3>1
    <2>4. \A k \in DOMAIN chunks' : Fits(chunks'[k])
      BY <1>3, <2>3
    <2>5. files' = files
      BY <1>3
    <2> QED
      BY <2>4, <2>5 DEF ListedInv, Whole, LoadedMeta
  <1>10. BlockInv'
    <2>1. \A u \in Threads : pc'[u] \notin {"wal", "write", "register"}
      BY <1>5 DEF Critical
    <2> QED
      BY <1>3, <1>6, <2>1 DEF BlockInv, Sorted
  <1>11. ApartInv'
    <2>1. /\ HeadTimes \subseteq used
          /\ \A k \in 1 .. n :
               /\ ChunkTimes(k) \subseteq used /\ ChunkTimes(k) \cap HeadTimes = {}
               /\ \A j \in 1 .. n : j # k => ChunkTimes(j) \cap ChunkTimes(k) = {}
      BY <1>3 DEF OnceInv, ApartInv
    <2>2. \A u \in Threads : pt[u] # NoPoint =>
            /\ pt[u].ts \in used /\ pt[u].ts \notin HeadTimes
            /\ \A k \in 1 .. n : pt[u].ts \notin ChunkTimes(k)
            /\ \A v \in Threads \ {u} : pt[v] # NoPoint => pt[v].ts # pt[u].ts
      BY <1>3, <1>5 DEF OnceInv, ApartInv, Critical
    <2>3. \A k \in 1 .. n + 1 :
            /\ ChunkTimes(k)' \subseteq used
            /\ \A j \in 1 .. n + 1 : j # k => ChunkTimes(j)' \cap ChunkTimes(k)' = {}
      <3>1. \A k \in 1 .. n + 1 : k \in 1 .. n \/ k = n + 1
        OBVIOUS
      <3> QED
        BY <1>7, <2>1, <3>1
    <2>4. \A u \in Threads : pt[u] # NoPoint => \A k \in 1 .. n + 1 : pt[u].ts \notin ChunkTimes(k)'
      <3>1. \A k \in 1 .. n + 1 : k \in 1 .. n \/ k = n + 1
        OBVIOUS
      <3> QED
        BY <1>7, <2>2, <3>1
    <2> QED
      BY <1>3, <1>4, <1>6, <2>2, <2>3, <2>4 DEF ApartInv
  <1>12. PlacedInv'
    <2> SUFFICES ASSUME NEW p \in accepted
                 PROVE  \E k \in 1 .. n + 1 : p \in FilePoints(chunks[k].id)'
      BY <1>3, <1>4 DEF PlacedInv
    <2>1. CASE p \in Range(head.pts)
      <3>1. n + 1 \in 1 .. n + 1
        OBVIOUS
      <3> QED
        BY <1>3, <1>7, <2>1, <3>1
    <2>2. CASE \E k \in 1 .. n : p \in FilePoints(chunks[k].id)
      <3>1. PICK k \in 1 .. n : p \in FilePoints(chunks[k].id)
        BY <2>2
      <3>2. k \in 1 .. n + 1 /\ chunks'[k] = chunks[k]
        BY <1>3, <3>1
      <3> QED
        BY <1>7, <3>1, <3>2
    <2> QED
      BY <1>3, <2>1, <2>2 DEF OnceInv, PlacedInv
  <1> QED
    BY <1>8, <1>9, <1>10, <1>11, <1>12 DEF OnceInv

LEMMA OnceSame ==
  ASSUME TypeInv, OnceInv,
         UNCHANGED <<registered, head, chunks, pc, pt, dir, files, accepted, used>>,
         proc' = proc \/ proc' = "up"
  PROVE  OnceInv'
  <1>1. RunInv'
    BY DEF OnceInv, RunInv
  <1>2. ListedInv' /\ BlockInv'
    BY DEF OnceInv, ListedInv, BlockInv, Whole, LoadedMeta, Sorted, HeadId
  <1>3. HeadTimes' = HeadTimes /\ PlacedInv' /\ \A k \in DOMAIN chunks : ChunkTimes(k)' = ChunkTimes(k)
    BY PlacesKept
  <1>4. ApartInv'
    BY <1>3, ApartKept
  <1> QED
    BY <1>1, <1>2, <1>3, <1>4 DEF OnceInv

LEMMA OnceInit == Init => OnceInv
  <1> SUFFICES ASSUME Init PROVE OnceInv
    OBVIOUS
  <1>1. /\ head.pts = << >> /\ chunks = << >> /\ accepted = {} /\ used = {}
        /\ proc = "down" /\ ~ registered /\ ~ dir
        /\ \A t \in Threads : pc[t] = "idle" /\ pt[t] = NoPoint
    BY DEF Init, getNewHeadBlock
  <1>2. DOMAIN chunks = {} /\ DOMAIN head.pts = {} /\ Main \in Threads
    BY <1>1 DEF Threads
  <1>3. Range(head.pts) = {}
    BY <1>2 DEF Range
  <1>4. RunInv /\ ListedInv /\ PlacedInv /\ BlockInv
    BY <1>1, <1>2 DEF RunInv, ListedInv, PlacedInv, BlockInv, Sorted
  <1>5. HeadTimes = {}
    BY <1>3 DEF HeadTimes
  <1>6. ApartInv
    BY <1>1, <1>2, <1>5 DEF ApartInv
  <1> QED
    BY <1>4, <1>6 DEF OnceInv

LEMMA OnceStep ==
  ASSUME NoRestart, TypeInv, OnceInv, [Next]_vars
  PROVE  OnceInv'
  <1>1. ASSUME NEW t \in Clients, NEW ts \in Timestamps, Head_PUT_lookup(t, ts) PROVE OnceInv'
    BY <1>1, OnceLookup
  <1>2. ASSUME NEW t \in Clients, headflush_lookup(t) \/ Head_PUT_try(t) \/ Head_PUT_log(t)
        PROVE  OnceInv'
    BY <1>2, OnceFlushLookup, OnceTry, OnceLog
  <1>3. ASSUME NEW t \in Threads, \/ headflush_open(t) \/ flushtochunk(t)
                                  \/ headflush_register(t) \/ headflush_truncate(t)
        PROVE  OnceInv'
    BY <1>3, OnceOpen, OnceWrite, OnceRegister, OnceTruncate
  <1>4. ~ (nstop < MaxStops)
    BY EngineAssumption DEF NoRestart, TypeInv, TypeOK, HistoryOK
  <1>5. ~ cleanupRegistry /\ ~ exitProcess /\ ~ Crash /\ ~ PowerLoss
    BY <1>4 DEF cleanupRegistry, exitProcess, Crash, PowerLoss, OnceInv, RunInv
  <1>6. ~ wal_replay /\ ~ loadRegistry_done /\ \A i \in ChunkIds : ~ loadChunkMetadata(i)
    BY DEF wal_replay, loadRegistry_done, loadChunkMetadata, OnceInv, RunInv
  <1>7. ASSUME NEW i \in ChunkIds, Writeback(i) PROVE OnceInv'
    BY <1>7, OnceSame DEF Writeback, memory, history
  <1>8. ASSUME loadRegistry PROVE OnceInv'
    <2>1. ~ dir
      BY <1>8 DEF loadRegistry, OnceInv, RunInv
    <2> QED
      BY <1>8, <2>1, OnceSame DEF loadRegistry, disk, history
  <1>9. ASSUME UNCHANGED vars PROVE OnceInv'
    BY <1>9, OnceSame DEF vars, memory, disk, history
  <1> QED
    BY Steps, <1>1, <1>2, <1>3, <1>5, <1>6, <1>7, <1>8, <1>9

\* A sorted sequence holds a point once.
LEMMA SortedDistinct ==
  ASSUME NEW s \in Seq(Sent), Sorted(s)
  PROVE  \A j, k \in DOMAIN s : s[j] = s[k] => j = k
  <1> SUFFICES ASSUME NEW j \in DOMAIN s, NEW k \in DOMAIN s, s[j] = s[k], j < k
               PROVE  FALSE
    OBVIOUS
  <1>1. s[j] \in Sent
    OBVIOUS
  <1>2. s[j].ts \in Int
    BY <1>1, EngineAssumption DEF Sent
  <1>3. s[j].ts < s[k].ts
    BY DEF Sorted
  <1> QED
    BY <1>2, <1>3

LEMMA OnceCounted ==
  ASSUME TypeInv, OnceInv, NEW p \in accepted
  PROVE  Occurrences(p) = 1
  <1> DEFINE C == {k \in DOMAIN chunks : InChunk(p, k)}
             H == {j \in DOMAIN head.pts : head.pts[j] = p}
  <1>1. head.pts \in Seq(Sent) /\ Sorted(head.pts)
    BY DEF TypeInv, TypeOK, MemoryOK, OnceInv, BlockInv
  <1>2. \A k \in DOMAIN chunks : InChunk(p, k) => p.ts \in ChunkTimes(k)
    BY DEF InChunk, ChunkTimes
  <1>3. \A j \in DOMAIN head.pts : head.pts[j] = p => p.ts \in HeadTimes
    BY DEF HeadTimes, Range
  <1>4. CASE p \in Range(head.pts)
    <2>1. PICK j \in DOMAIN head.pts : head.pts[j] = p
      BY <1>4 DEF Range
    <2>2. H = {j}
      BY <1>1, <2>1, SortedDistinct
    <2>3. C = {}
      BY <1>2, <1>3, <2>1 DEF OnceInv, ApartInv
    <2>4. Cardinality(H) = 1 /\ Cardinality(C) = 0
      <3> HIDE DEF H, C
      <3> QED
        BY <2>2, <2>3, FS_EmptySet, FS_Singleton
    <2> QED
      BY <2>4 DEF Occurrences
  <1>5. CASE \E k \in DOMAIN chunks : p \in FilePoints(chunks[k].id)
    <2>1. PICK k \in DOMAIN chunks : p \in FilePoints(chunks[k].id)
      BY <1>5
    <2>2. PICK i \in ChunkIds : i = chunks[k].id
      BY ListedIds
    <2>3. Whole(i) /\ chunks[k] = LoadedMeta(i) /\ Sorted(files[i].pts)
      BY <2>2 DEF OnceInv, ListedInv
    <2>4. files[i].pts \in Seq(Sent) /\ p \in Range(files[i].pts)
      BY <2>1, <2>2 DEF TypeInv, TypeOK, DiskOK, File, FilePoints
    <2>5. files[i].pts[1].ts <= p.ts /\ p.ts <= files[i].pts[Len(files[i].pts)].ts
      BY <2>3, <2>4, SortedBounds
    <2>6. InChunk(p, k)
      BY <2>1, <2>2, <2>3, <2>5 DEF InChunk, LoadedMeta
    <2>7. p.ts \in ChunkTimes(k)
      BY <1>2, <2>6
    <2>8. C = {k}
      BY <1>2, <2>6, <2>7 DEF OnceInv, ApartInv
    <2>9. H = {}
      BY <1>3, <2>7 DEF OnceInv, ApartInv
    <2>10. Cardinality(H) = 0 /\ Cardinality(C) = 1
      <3> HIDE DEF H, C
      <3> QED
        BY <2>8, <2>9, FS_EmptySet, FS_Singleton
    <2> QED
      BY <2>10 DEF Occurrences
  <1> QED
    BY <1>4, <1>5 DEF OnceInv, PlacedInv

\* While the server runs, a scan over everything meets each acknowledged point
\* exactly once: Head_PUT and headflush never store a point in two places, nor
\* drop it, also when the log or a chunk file cannot be opened or written.
THEOREM OnceSafe ==
  ASSUME NoRestart
  PROVE  Spec => []ExactlyOnce
  <1>1. Init => TypeInv /\ OnceInv
    BY InitTypeInv, OnceInit
  <1>2. TypeInv /\ OnceInv /\ [Next]_vars => (TypeInv /\ OnceInv)'
    BY NextTypeInv, OnceStep
  <1>3. TypeInv /\ OnceInv => ExactlyOnce
    BY OnceCounted DEF ExactlyOnce
  <1> QED
    BY <1>1, <1>2, <1>3, PTL DEF Spec

-----------------------------------------------------------------------------
(***************************************************************************)
(* Nothing is read twice.                                                  *)
(***************************************************************************)

Distinct(s) == \A j, k \in DOMAIN s : s[j] = s[k] => j = k

\* A reader has each point once, and all it has while it scans comes from the
\* chunks that it has passed.
ReadOnceInv(r) ==
    LET q == reader[r] IN
    /\ Distinct(q.got)
    /\ q.pc \in {"scan", "head"} =>
         \A p \in Range(q.got) : \E k \in DOMAIN chunks :
           (q.pc = "scan" => k < q.i) /\ p \in FilePoints(chunks[k].id)

ReadOnce == TypeInv /\ OnceInv /\ ReadersOK /\ \A r \in Readers : ReadOnceInv(r)

LEMMA ConcatDistinct ==
  ASSUME NEW S, NEW a \in Seq(S), NEW b \in Seq(S),
         Distinct(a), Distinct(b), Range(a) \cap Range(b) = {}
  PROVE  Distinct(a \o b)
  <1> DEFINE m == Len(a)
             n == Len(b)
             ab == a \o b
  <1>1. m \in Nat /\ n \in Nat /\ DOMAIN a = 1 .. m /\ DOMAIN b = 1 .. n
    OBVIOUS
  <1>2. ab \in Seq(S) /\ Len(ab) = m + n /\ \A i \in 1 .. m + n : ab[i] = IF i <= m THEN a[i] ELSE b[i - m]
    BY ConcatProperties, Zenon
  <1> HIDE DEF ab, m, n
  <1>3. DOMAIN ab = 1 .. m + n
    BY <1>2
  <1>4. \A i \in 1 .. m + n :
          \/ i \in 1 .. m /\ ab[i] = a[i] /\ ab[i] \in Range(a)
          \/ i - m \in 1 .. n /\ ab[i] = b[i - m] /\ ab[i] \in Range(b)
    <2> SUFFICES ASSUME NEW i \in 1 .. m + n
                 PROVE  \/ i \in 1 .. m /\ ab[i] = a[i] /\ ab[i] \in Range(a)
                        \/ i - m \in 1 .. n /\ ab[i] = b[i - m] /\ ab[i] \in Range(b)
      OBVIOUS
    <2>1. CASE i <= m
      <3>1. i \in 1 .. m /\ ab[i] = a[i]
        BY <1>1, <1>2, <2>1
      <3> QED
        BY <1>1, <3>1 DEF Range
    <2>2. CASE ~ (i <= m)
      <3>1. PICK d \in Int : d = i - m
        BY <1>1
      <3>2. d \in 1 .. n /\ ab[i] = b[d]
        BY <1>1, <1>2, <2>2, <3>1
      <3> QED
        BY <1>1, <3>1, <3>2 DEF Range
    <2> QED
      BY <2>1, <2>2
  <1>5. ASSUME NEW j \in 1 .. m + n, NEW k \in 1 .. m + n, ab[j] = ab[k]
        PROVE  j = k
    <2>1. CASE j \in 1 .. m /\ ab[j] = a[j] /\ ab[j] \in Range(a)
      <3>1. k \in 1 .. m /\ ab[k] = a[k]
        BY <1>4, <1>5, <2>1
      <3> QED
        BY <1>1, <1>5, <2>1, <3>1 DEF Distinct
    <2>2. CASE j - m \in 1 .. n /\ ab[j] = b[j - m] /\ ab[j] \in Range(b)
      <3>1. k - m \in 1 .. n /\ ab[k] = b[k - m]
        BY <1>4, <1>5, <2>2
      <3>2. PICK x \in 1 .. n, y \in 1 .. n : x = j - m /\ y = k - m
        BY <2>2, <3>1
      <3>3. b[x] = b[y]
        BY <1>5, <2>2, <3>1, <3>2
      <3>4. x = y
        BY <1>1, <3>3 DEF Distinct
      <3> QED
        BY <1>1, <3>2, <3>4
    <2> QED
      BY <1>4, <2>1, <2>2
  <1>6. Distinct(ab)
    BY <1>3, <1>5 DEF Distinct
  <1> QED
    BY <1>6 DEF ab

\* A step keeps the listed chunks, in their places and with their points.
LEMMA ListKept ==
  ASSUME NoRestart, TypeInv, OnceInv, [Next]_vars, proc' # "down"
  PROVE  \A k \in DOMAIN chunks :
           /\ k \in DOMAIN chunks' /\ chunks'[k] = chunks[k]
           /\ FilePoints(chunks[k].id)' = FilePoints(chunks[k].id)
  <1> DEFINE SameList == \A k \in DOMAIN chunks :
           /\ k \in DOMAIN chunks' /\ chunks'[k] = chunks[k]
           /\ FilePoints(chunks[k].id)' = FilePoints(chunks[k].id)
  <1>1. ASSUME chunks' = chunks, files' = files PROVE SameList
    BY <1>1 DEF FilePoints
  <1>2. ASSUME chunks' = chunks, head.pts # << >>, NEW f \in File,
               files' = [files EXCEPT ![HeadId] = f]
        PROVE  SameList
    <2>1. PICK h \in ChunkIds : h = HeadId
      BY <1>2, HeadIdType DEF TypeInv
    <2>2. \A i \in ChunkIds \ {h} : files'[i] = files[i]
      BY <1>2, <2>1 DEF TypeInv, TypeOK, DiskOK
    <2>3. \A k \in DOMAIN chunks : chunks[k].id \in ChunkIds \ {h}
      BY <1>2, <2>1, HeadIdFresh, ListedIds
    <2> QED
      BY <1>2, <2>2, <2>3 DEF FilePoints
  <1>3. ASSUME NEW t \in Clients, NEW ts \in Timestamps, Head_PUT_lookup(t, ts) PROVE SameList
    BY <1>1, <1>3 DEF Head_PUT_lookup, disk
  <1>4. ASSUME NEW t \in Clients, headflush_lookup(t) \/ Head_PUT_try(t) \/ Head_PUT_log(t)
        PROVE  SameList
    BY <1>1, <1>4 DEF headflush_lookup, Head_PUT_try, Head_PUT_log, disk, Halt
  <1>5. ASSUME NEW t \in Threads, headflush_open(t) PROVE SameList
    <2>1. [state |-> "torn", pts |-> head.pts] \in File
      BY DEF TypeInv, TypeOK, MemoryOK, File
    <2> QED
      BY <1>1, <1>2, <1>5, <2>1 DEF headflush_open
  <1>6. ASSUME NEW t \in Threads, flushtochunk(t) PROVE SameList
    <2>1. head.pts # << >> /\ HeadId \in ChunkIds
      BY <1>6, HeadIdType DEF TypeInv, PcInv, flushtochunk
    <2>2. [files[HeadId] EXCEPT !.state = "whole"] \in File
      BY <2>1 DEF TypeInv, TypeOK, DiskOK, File
    <2>3. PICK f \in File : f = [files[HeadId] EXCEPT !.state = "whole"]
      BY <2>2
    <2>4. chunks' = chunks /\ (files' = files \/ files' = [files EXCEPT ![HeadId] = f])
      BY <1>6, <2>3 DEF flushtochunk
    <2> QED
      BY <1>1, <1>2, <2>1, <2>4
  <1>7. ASSUME NEW t \in Threads, headflush_register(t) PROVE SameList
    <2>1. PICK n \in Nat : n = Len(chunks)
      BY <1>7, RegisterFacts
    <2>2. /\ DOMAIN chunks = 1 .. n /\ DOMAIN chunks' = 1 .. n + 1 /\ files' = files
          /\ \A k \in DOMAIN chunks : chunks'[k] = chunks[k]
      BY <1>7, <2>1, RegisterFacts
    <2> QED
      BY <2>2 DEF FilePoints
  <1>8. ASSUME NEW t \in Threads, headflush_truncate(t) PROVE SameList
    BY <1>1, <1>8 DEF headflush_truncate
  <1>9. ~ (nstop < MaxStops)
    BY EngineAssumption DEF NoRestart, TypeInv, TypeOK, HistoryOK
  <1>10. /\ ~ cleanupRegistry /\ ~ exitProcess /\ ~ Crash /\ ~ PowerLoss
         /\ ~ wal_replay /\ ~ loadRegistry_done /\ \A i \in ChunkIds : ~ loadChunkMetadata(i)
    BY <1>9 DEF cleanupRegistry, exitProcess, Crash, PowerLoss, wal_replay, loadRegistry_done,
                loadChunkMetadata, OnceInv, RunInv
  <1>11. ASSUME (\E i \in ChunkIds : Writeback(i)) \/ loadRegistry \/ UNCHANGED vars PROVE SameList
    BY <1>1, <1>11 DEF Writeback, loadRegistry, vars, memory, disk
  <1> HIDE DEF SameList
  <1>12. SameList
    BY Steps, <1>3, <1>4, <1>5, <1>6, <1>7, <1>8, <1>10, <1>11
  <1> QED
    BY <1>12 DEF SameList

LEMMA ReadOnceKept ==
  ASSUME NEW r \in Readers, ReadOnceInv(r), reader'[r] = reader[r],
         \A k \in DOMAIN chunks :
           /\ k \in DOMAIN chunks' /\ chunks'[k] = chunks[k]
           /\ FilePoints(chunks[k].id)' = FilePoints(chunks[k].id)
  PROVE  ReadOnceInv(r)'
  <1>1. Distinct(reader'[r].got)
    BY DEF ReadOnceInv
  <1>2. ASSUME reader[r].pc \in {"scan", "head"}, NEW p \in Range(reader[r].got)
        PROVE  \E k \in DOMAIN chunks' :
                 (reader[r].pc = "scan" => k < reader[r].i) /\ p \in FilePoints(chunks[k].id)'
    <2>1. PICK k \in DOMAIN chunks :
            (reader[r].pc = "scan" => k < reader[r].i) /\ p \in FilePoints(chunks[k].id)
      BY <1>2 DEF ReadOnceInv
    <2>2. k \in DOMAIN chunks' /\ FilePoints(chunks[k].id)' = FilePoints(chunks[k].id)
      OBVIOUS
    <2> QED
      BY <2>1, <2>2
  <1> QED
    BY <1>1, <1>2 DEF ReadOnceInv

\* What a reader adds is distinct, and is in the chunk, or in the block.
LEMMA AddedDistinct ==
  ASSUME TypeInv, OnceInv, NEW q \in ReaderRec
  PROVE  /\ Distinct(HeadPoints(q))
         /\ \A k \in DOMAIN chunks : Distinct(ChunkPoints(q, chunks[k]))
  <1>1. head.pts \in Seq(Sent) /\ Sorted(head.pts)
    BY DEF TypeInv, TypeOK, MemoryOK, OnceInv, BlockInv
  <1>2. Distinct(HeadPoints(q))
    <2>1. \A j, k \in DOMAIN head.pts : head.pts[j] = head.pts[k] => j = k
      BY <1>1, SortedDistinct
    <2> QED
      BY <1>1, <2>1, SelectFacts DEF HeadPoints, GET_value, Distinct
  <1>3. ASSUME NEW k \in DOMAIN chunks PROVE Distinct(ChunkPoints(q, chunks[k]))
    <2>1. PICK i \in ChunkIds : i = chunks[k].id
      BY ListedIds
    <2>2. PICK s \in Seq(Sent) : s = files[i].pts
      BY DEF TypeInv, TypeOK, DiskOK, File
    <2>3. Sorted(s)
      BY <2>1, <2>2 DEF OnceInv, ListedInv
    <2>4. \A x, y \in DOMAIN s : s[x] = s[y] => x = y
      BY <2>3, SortedDistinct
    <2>5. Distinct(Select(s, q.from, q.to))
      BY <2>4, SelectFacts DEF Distinct
    <2> QED
      BY <2>1, <2>2, <2>5 DEF ChunkPoints
  <1> QED
    BY <1>2, <1>3

\* No point is in two listed chunks, or in one and in the block.
LEMMA PlacesApart ==
  ASSUME OnceInv, NEW k \in DOMAIN chunks
  PROVE  /\ FilePoints(chunks[k].id) \cap Range(head.pts) = {}
         /\ \A j \in DOMAIN chunks : j # k =>
              FilePoints(chunks[j].id) \cap FilePoints(chunks[k].id) = {}
  <1>1. /\ ChunkTimes(k) \cap HeadTimes = {}
        /\ \A j \in DOMAIN chunks : j # k => ChunkTimes(j) \cap ChunkTimes(k) = {}
    BY DEF OnceInv, ApartInv
  <1>2. \A j \in DOMAIN chunks : \A p \in FilePoints(chunks[j].id) : p.ts \in ChunkTimes(j)
    BY DEF ChunkTimes
  <1>3. \A p \in Range(head.pts) : p.ts \in HeadTimes
    BY DEF HeadTimes
  <1> QED
    BY <1>1, <1>2, <1>3

LEMMA ReadOnceRead ==
  ASSUME ReadOnce, UNCHANGED vars, NEW r \in Readers, Read(r)
  PROVE  ReadOnceInv(r)'
  <1> DEFINE q == reader[r]
             x == reader'[r]
  <1>1. /\ TypeInv /\ OnceInv /\ ReadersOK /\ ReadOnceInv(r)
        /\ q \in ReaderRec /\ q.got \in Seq(Sent) /\ q.i \in Nat \ {0}
    BY DEF ReadOnce, ReadersOK, ReaderRec
  <1>2. ScanStep(r) \/ HeadStep(r) \/ LookupStep(r) \/ StatsStep(r)
    BY <1>1, ReaderCases
  <1>3. chunks' = chunks /\ files' = files
    BY DEF vars, memory, disk
  <1>4. /\ Distinct(q.got)
        /\ q.pc \in {"scan", "head"} =>
             \A p \in Range(q.got) : \E k \in DOMAIN chunks :
               (q.pc = "scan" => k < q.i) /\ p \in FilePoints(chunks[k].id)
    BY <1>1 DEF ReadOnceInv
  <1>5. SUFFICES /\ Distinct(x.got)
                 /\ x.pc \in {"scan", "head"} =>
                      \A p \in Range(x.got) : \E k \in DOMAIN chunks :
                        (x.pc = "scan" => k < x.i) /\ p \in FilePoints(chunks[k].id)
    BY <1>3 DEF ReadOnceInv, FilePoints
  <1>6. CASE LookupStep(r)
    <2>1. DOMAIN x.got = {}
      BY <1>6 DEF LookupStep
    <2>2. Range(x.got) = {}
      BY <2>1 DEF Range
    <2> QED
      BY <2>1, <2>2 DEF Distinct
  <1>7. CASE StatsStep(r)
    <2>1. x.got = q.got /\ x.pc \notin {"scan", "head"}
      BY <1>7 DEF StatsStep
    <2> QED
      BY <1>4, <2>1
  <1>8. CASE HeadStep(r)
    <2>1. x.pc = "reply" /\ x.got = q.got \o HeadPoints(q) /\ q.pc = "head"
      BY <1>8 DEF HeadStep
    <2>2. PICK b \in Seq(Sent) : b = HeadPoints(q) /\ Range(b) \subseteq Range(head.pts) /\ Distinct(b)
      <3> HIDE DEF q
      <3> QED
        BY <1>1, AddedPoints, AddedDistinct
    <2>3. Range(q.got) \cap Range(b) = {}
      <3> SUFFICES ASSUME NEW p \in Range(q.got) PROVE p \notin Range(b)
        OBVIOUS
      <3>1. PICK k \in DOMAIN chunks : p \in FilePoints(chunks[k].id)
        BY <1>4, <2>1
      <3> QED
        BY <1>1, <2>2, <3>1, PlacesApart
    <2>4. Distinct(q.got \o b)
      <3> HIDE DEF q
      <3> QED
        BY <1>1, <1>4, <2>2, <2>3, ConcatDistinct, SMTT(40)
    <2> QED
      BY <2>1, <2>2, <2>4
  <1>9. CASE ScanStep(r)
    <2>1. CASE x.got = q.got
      <3>1. q.pc = "scan" /\ (x.pc = "scan" => x.i = q.i + 1)
        BY <1>9, <2>1 DEF ScanStep
      <3>2. \A k \in DOMAIN chunks : k < q.i => k < q.i + 1
        <4>1. DOMAIN chunks \subseteq Nat
          BY <1>1 DEF TypeInv, TypeOK, MemoryOK
        <4> HIDE DEF q
        <4> QED
          BY <1>1, <4>1
      <3> HIDE DEF q, x
      <3> QED
        BY <1>4, <2>1, <3>1, <3>2
    <2>2. CASE /\ q.i <= Len(chunks) /\ x.pc = "scan" /\ x.i = q.i + 1
               /\ x.got = q.got \o ChunkPoints(q, chunks[q.i])
      <3>1. PICK i \in Nat \ {0} : i = q.i
        BY <1>1
      <3>2. i \in DOMAIN chunks /\ DOMAIN chunks \subseteq Nat /\ chunks[i] \in ChunkMetadata
        <4>1. chunks \in Seq(ChunkMetadata)
          BY <1>1 DEF TypeInv, TypeOK, MemoryOK
        <4>2. i \in DOMAIN chunks /\ DOMAIN chunks \subseteq Nat
          BY <2>2, <3>1, <4>1
        <4> QED
          BY <1>1, <4>2, ListedIds
      <3>3. PICK b \in Seq(Sent) : /\ b = ChunkPoints(q, chunks[i]) /\ Distinct(b)
                                   /\ Range(b) \subseteq FilePoints(chunks[i].id)
        <4> HIDE DEF q
        <4> QED
          BY <1>1, <3>2, AddedPoints, AddedDistinct, SMTT(40)
      <3>4. q.pc = "scan" /\ x.got = q.got \o b
        BY <1>9, <2>2, <3>1, <3>3 DEF ScanStep
      <3>5. \A p \in Range(q.got) : \E k \in DOMAIN chunks : k < i /\ p \in FilePoints(chunks[k].id)
        BY <1>4, <3>1, <3>4
      <3>6. Range(q.got) \cap Range(b) = {}
        <4> SUFFICES ASSUME NEW p \in Range(q.got) PROVE p \notin Range(b)
          OBVIOUS
        <4>1. PICK k \in DOMAIN chunks : k < i /\ p \in FilePoints(chunks[k].id)
          BY <3>5
        <4>2. k # i
          BY <3>2, <4>1
        <4> QED
          BY <1>1, <3>2, <3>3, <4>1, <4>2, PlacesApart
      <3> HIDE DEF q, x
      <3>7. Distinct(x.got) /\ Range(x.got) = Range(q.got) \cup Range(b)
        BY <1>1, <1>4, <3>3, <3>4, <3>6, ConcatDistinct, ConcatFacts
      <3>8. ASSUME NEW p \in Range(x.got)
            PROVE  \E k \in DOMAIN chunks : k < x.i /\ p \in FilePoints(chunks[k].id)
        <4>1. CASE p \in Range(q.got)
          <5>1. PICK k \in DOMAIN chunks : k < i /\ p \in FilePoints(chunks[k].id)
            BY <3>5, <4>1
          <5>2. k < x.i
            BY <2>2, <3>1, <3>2, <5>1
          <5> QED
            BY <5>1, <5>2
        <4>2. CASE p \in Range(b)
          <5>1. i < x.i
            BY <2>2, <3>1
          <5> QED
            BY <3>2, <3>3, <4>2, <5>1
        <4> QED
          BY <3>7, <3>8, <4>1, <4>2
      <3> QED
        BY <2>2, <3>7, <3>8
    <2> QED
      BY <1>9, <2>1, <2>2 DEF ScanStep
  <1> QED
    BY <1>2, <1>6, <1>7, <1>8, <1>9

\* While the server runs, a GET or an AGG collects no point twice, although it
\* walks the chunk list without a lock and flushes move points meanwhile: a
\* point only moves from the block to the end of the list, and the reader comes
\* to the block last.
THEOREM NoDoubleReadSafe ==
  ASSUME NoRestart
  PROVE  QuerySpec => []NoDoubleRead
  <1>1. QueryInit => ReadOnce
    <2> SUFFICES ASSUME QueryInit PROVE ReadOnce
      OBVIOUS
    <2>1. Init /\ TypeInv /\ OnceInv
      BY InitTypeInv, OnceInit DEF QueryInit
    <2>2. ReadersOK /\ \A r \in Readers : reader[r] = NoReader
      BY <2>1, NoReaderFacts DEF QueryInit, ReadersOK
    <2>3. \A r \in Readers : DOMAIN reader[r].got = {} /\ reader[r].pc = "idle"
      BY <2>1, <2>2, NoReaderFacts
    <2>4. \A r \in Readers : ReadOnceInv(r)
      BY <2>3 DEF ReadOnceInv, Distinct
    <2> QED
      BY <2>1, <2>2, <2>4 DEF ReadOnce
  <1>2. ReadOnce /\ [QueryNext]_queryVars => ReadOnce'
    <2> SUFFICES ASSUME ReadOnce, [QueryNext]_queryVars PROVE ReadOnce'
      OBVIOUS
    <2>0. TypeInv /\ OnceInv /\ ReadersOK /\ \A r \in Readers : ReadOnceInv(r)
      BY DEF ReadOnce
    <2>1. [Next]_vars
      BY DEF QueryNext, queryVars, Write
    <2>2. TypeInv' /\ OnceInv'
      BY <2>0, <2>1, NextTypeInv, OnceStep
    <2>3. CASE Write
      <3>1. /\ ReadersOK'
            /\ \A r \in Readers :
                 \/ proc' # "down" /\ reader'[r] = reader[r]
                 \/ proc' = "down" /\ reader'[r] = NoReader
        BY <2>0, <2>3, WriteFacts
      <3>2. ASSUME NEW r \in Readers PROVE ReadOnceInv(r)'
        <4>1. CASE proc' # "down" /\ reader'[r] = reader[r]
          BY <2>0, <2>1, <4>1, ListKept, ReadOnceKept
        <4>2. CASE reader'[r] = NoReader
          <5>1. DOMAIN reader'[r].got = {} /\ reader'[r].pc = "idle"
            BY <2>0, <4>2, NoReaderFacts
          <5> QED
            BY <5>1 DEF ReadOnceInv, Distinct
        <4> QED
          BY <3>1, <4>1, <4>2
      <3> QED
        BY <2>2, <3>1, <3>2 DEF ReadOnce
    <2>4. ASSUME UNCHANGED vars, NEW r \in Readers, Read(r) PROVE ReadOnce'
      <3>1. ReadersOK' /\ \A d \in Readers \ {r} : reader'[d] = reader[d]
        BY <2>0, <2>4, ReaderCases
      <3>2. chunks' = chunks /\ files' = files
        BY <2>4 DEF vars, memory, disk
      <3>3. \A d \in Readers \ {r} : ReadOnceInv(d)'
        BY <2>0, <3>1, <3>2, ReadOnceKept DEF FilePoints
      <3> QED
        BY <2>2, <2>4, <3>1, <3>3, ReadOnceRead DEF ReadOnce
    <2>5. CASE UNCHANGED queryVars
      <3>1. chunks' = chunks /\ files' = files /\ reader' = reader
        BY <2>5 DEF queryVars, vars, memory, disk
      <3>2. \A r \in Readers : ReadOnceInv(r)'
        BY <2>0, <3>1, ReadOnceKept DEF FilePoints
      <3> QED
        BY <2>0, <2>2, <3>1, <3>2 DEF ReadOnce, ReadersOK
    <2> QED
      BY <2>3, <2>4, <2>5 DEF QueryNext
  <1>3. ReadOnce => NoDoubleRead
    BY DEF ReadOnce, ReadOnceInv, Distinct, NoDoubleRead
  <1> QED
    BY <1>1, <1>2, <1>3, PTL DEF QuerySpec
=============================================================================
