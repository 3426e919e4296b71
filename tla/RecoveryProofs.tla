--------------------------- MODULE RecoveryProofs ---------------------------
(***************************************************************************)
(* Where the log works an acknowledged point is lost only with the chunk   *)
(* file it was written to, and in a benign environment never: the          *)
(* inductive invariant IInv, one lemma per action.  There the engine also  *)
(* implements the abstract series.                                         *)
(***************************************************************************)
EXTENDS EngineProofs

USE EngineAssumption, CapacityAssumption

\* A benign environment is one where the log works and no file is cut short.
LEMMA BenignKept ==
  ASSUME Benign
  PROVE  /\ LogWorks /\ ~ Lossy
         /\ \A i : Kept(i) <=> Whole(i)
         /\ \A p : (Stored(p) <=> Durable(p)) /\ (Stored(p)' <=> Durable(p)')
  <1>1. LogWorks /\ Failures \cap {"fclose_chunk", "power"} = {}
    BY DEF Benign, LogWorks
  <1> QED
    BY <1>1 DEF Kept, Stored, Durable, Lossy

\* What is stored depends on the log and the chunk files only.
LEMMA StoredFrame ==
  ASSUME wal' = wal, files' = files
  PROVE  \A p : Stored(p)' <=> Stored(p)
  BY DEF Stored, Kept, Whole, Lossy, FilePoints

\* A step that leaves log, files, chunk list and the points of the block alone,
\* and starts or ends no critical section, keeps everything said about them.
LEMMA FlushFrame ==
  ASSUME IInv,
         UNCHANGED <<proc, files, wal, chunks, unloaded>>,
         head'.pts = head.pts,
         \A t \in Threads : pc'[t] = pc[t] \/ {pc[t], pc'[t]} \cap Critical = {}
  PROVE  FileInv' /\ FlushInv'
  <1>1. \A t \in Threads, x \in {"write", "register", "truncate"} : pc'[t] = x <=> pc[t] = x
    BY DEF Critical
  <1>2. HeadId' = HeadId
    BY DEF HeadId
  <1>3. FileInv'
    BY <1>1, <1>2 DEF IInv, RecoveryInv, FileInv, Kept, Whole, Lossy, HasMeta, LoadedMeta
  <1>4. FlushInv'
    BY <1>1, <1>2 DEF IInv, RecoveryInv, FlushInv, Kept, Whole, Lossy, FilePoints
  <1> QED
    BY <1>3, <1>4

LEMMA InitRecoveryInv == Init => RecoveryInv
  <1> SUFFICES ASSUME Init PROVE RecoveryInv
    OBVIOUS
  <1>1. \A i \in ChunkIds : ~ Kept(i)
    BY DEF Init, NoFile, Kept, Whole, Lossy
  <1>2. \A p : ~ Stored(p)
    BY <1>1 DEF Init, Stored, Range
  <1>3. SortedInv
    BY DEF Init, SortedInv, Sorted, getNewHeadBlock
  <1>4. HeadInv /\ LoadInv
    BY DEF Init, HeadInv, LoadInv, getNewHeadBlock
  <1>5. DirInv /\ FileInv /\ FlushInv
    BY <1>1 DEF Init, DirInv, FileInv, FlushInv
  <1>6. FreshInv /\ AckedInv
    BY <1>2 DEF Init, FreshInv, AckedInv
  <1> QED
    BY <1>3, <1>4, <1>5, <1>6 DEF RecoveryInv

\* The process ends: only the disk counts.
LEMMA HaltRecoveryInv ==
  ASSUME LogWorks, IInv, Halt, UNCHANGED <<wal, dir, accepted, used>>,
         \A i \in ChunkIds : files'[i].pts = files[i].pts /\ (Kept(i)' <=> Kept(i))
  PROVE  RecoveryInv'
  <1>0. \A p : Stored(p)' <=> Stored(p)
    BY DEF Stored, FilePoints
  <1>1. SortedInv'
    BY DEF IInv, RecoveryInv, SortedInv, Sorted, Halt, getNewHeadBlock
  <1>2. HeadInv' /\ LoadInv'
    BY DEF HeadInv, LoadInv, Halt, getNewHeadBlock
  <1>3. DirInv' /\ FileInv' /\ FlushInv'
    <2>1. DirInv'
      BY DEF IInv, RecoveryInv, DirInv, Halt
    <2>2. FileInv'
      BY DEF IInv, RecoveryInv, FileInv, Halt, Sorted
    <2>3. FlushInv'
      <3>1. \A t \in Threads : pc'[t] = "idle"
        BY DEF Halt
      <3>2. wal # << >> => ChunkId(wal[1].ts) \in ChunkIds
        <4>1. wal \in Seq(Sent)
          BY DEF IInv, TypeInv, TypeOK, DiskOK
        <4>2. wal # << >> => wal[1] \in Sent
          BY <4>1
        <4> QED
          BY <4>2, ChunkIdType DEF Sent
      <3> QED
        BY <3>1, <3>2 DEF IInv, RecoveryInv, FlushInv, FilePoints
    <2> QED
      BY <2>1, <2>2, <2>3
  <1>4. FreshInv' /\ AckedInv'
    BY <1>0 DEF IInv, RecoveryInv, FreshInv, AckedInv, Halt
  <1> QED
    BY <1>1, <1>2, <1>3, <1>4 DEF RecoveryInv

\* A step of a running server that touches no file and enters or leaves no
\* critical section: only the requests on their way change.
LEMMA QuietRecoveryInv ==
  ASSUME IInv, proc = "up",
         UNCHANGED <<proc, files, wal, chunks, unloaded, lock, accepted>>,
         head'.pts = head.pts,
         head'.pts # << >> => head'.last = head.last,
         \A t \in Threads : pc'[t] = pc[t] \/ {pc[t], pc'[t]} \cap Critical = {},
         \A t \in Threads : pc[t] = "wal" => pt'[t] = pt[t],
         DirInv', FreshInv'
  PROVE  RecoveryInv'
  <1>1. FileInv' /\ FlushInv'
    BY FlushFrame
  <1>2. SortedInv'
    BY DEF IInv, RecoveryInv, SortedInv, Sorted
  <1>3. HeadInv'
    BY DEF IInv, RecoveryInv, HeadInv, Critical
  <1>4. LoadInv'
    BY DEF LoadInv
  <1>5. AckedInv'
    BY StoredFrame DEF IInv, RecoveryInv, AckedInv
  <1> QED
    BY <1>1, <1>2, <1>3, <1>4, <1>5 DEF RecoveryInv

\* Head_PUT_lookup: the new timestamp was never used, so it is on no durable
\* point and on no other request.
LEMMA Head_PUT_lookupRecoveryInv ==
  ASSUME LogWorks, IInv, NEW t \in Clients, NEW ts \in Timestamps, Head_PUT_lookup(t, ts)
  PROVE  RecoveryInv'
  <1>1. head'.pts = head.pts /\ (head'.pts # << >> => head'.last = head.last)
    BY DEF Head_PUT_lookup, IInv, RecoveryInv, DirInv, getNewHeadBlock
  <1>2. DirInv'
    BY DEF Head_PUT_lookup, IInv, RecoveryInv, DirInv, Kept, Whole, Lossy, disk
  <1>3. FreshInv'
    <2>1. ts \notin used /\ used' = used \cup {ts}
      BY DEF Head_PUT_lookup, LogWorks
    <2>2. /\ pt'[t].ts = ts
          /\ \A u \in Threads \ {t} : pt'[u] = pt[u]
      BY DEF Head_PUT_lookup, IInv, TypeInv, TypeOK, MemoryOK, Threads
    <2>3. \A p : Stored(p)' <=> Stored(p)
      BY StoredFrame DEF Head_PUT_lookup, disk
    <2> QED
      BY <2>1, <2>2, <2>3 DEF IInv, RecoveryInv, FreshInv
  <1> QED
    BY <1>1, <1>2, <1>3, QuietRecoveryInv
       DEF Head_PUT_lookup, disk, IInv, TypeInv, TypeOK, MemoryOK, Critical

\* A thread that has a request to serve: the server is up and the metric has
\* an entry.
LEMMA Serving ==
  ASSUME IInv, NEW t \in Threads, pc[t] \notin {"idle", "exit"}
  PROVE  proc = "up" /\ registered
  BY DEF IInv, TypeInv, TypeOK, MemoryOK, LockInv, PcInv

\* A free lock means that no thread is in a critical section.
LEMMA NoneCritical ==
  ASSUME IInv, lock = NoThread
  PROVE  \A t \in Threads : pc[t] \notin Critical
  BY DEF IInv, TypeInv, LockInv, Threads

\* With the lock held by t, t alone is in a critical section.
LEMMA OneCritical ==
  ASSUME IInv, NEW t \in Threads, pc[t] \in Critical
  PROVE  lock = t /\ \A u \in Threads \ {t} : pc[u] \notin Critical
  BY DEF IInv, TypeInv, LockInv, Threads

\* A refused PUT drops its request or goes on to flush.
LEMMA DropRequest ==
  ASSUME IInv, NEW t \in Threads,
         pt' = pt \/ pt' = [pt EXCEPT ![t] = NoPoint],
         UNCHANGED <<wal, files, used>>
  PROVE  FreshInv'
  <1>1. \A u \in Threads : pt'[u] = pt[u] \/ pt'[u] = NoPoint
    BY DEF IInv, TypeInv, TypeOK, MemoryOK
  <1> QED
    BY <1>1, StoredFrame DEF IInv, RecoveryInv, FreshInv

\* Head_PUT_try: an accepted point is newer than the block's last one, because
\* its timestamp is fresh and PUT_value refuses older ones.
LEMMA Head_PUT_tryRecoveryInv ==
  ASSUME LogWorks, IInv, NEW t \in Clients, Head_PUT_try(t)
  PROVE  RecoveryInv'
  <1> t \in Threads
    BY DEF Threads
  <1>0. /\ proc = "up" /\ registered /\ lock = NoThread
        /\ \A u \in Threads : pc[u] \notin Critical
        /\ UNCHANGED <<proc, registered, chunks, unloaded, rpos, disk, history>>
    BY Serving, NoneCritical DEF Head_PUT_try
  <1>1. CASE /\ PUT_accepts(head, pt[t])
             /\ head' = PUT_value(head, pt[t])
             /\ lock' = t
             /\ pc' = [pc EXCEPT ![t] = "wal"]
             /\ pt' = pt
    <2>1. pt[t] \in Sent /\ pt[t] # NoPoint /\ head.pts \in Seq(Sent) /\ head.pts = wal
      BY <1>0 DEF Head_PUT_try, IInv, TypeInv, TypeOK, MemoryOK, PcInv, RecoveryInv, HeadInv
    <2> DEFINE n == Len(head.pts)
    <2>2. /\ n \in Nat /\ DOMAIN head.pts = 1 .. n
          /\ \A j \in 1 .. n : head.pts[j] \in Sent
          /\ head'.pts = Append(head.pts, pt[t]) /\ head'.last = pt[t].ts
          /\ Len(head'.pts) = n + 1 /\ DOMAIN head'.pts = 1 .. n + 1
          /\ \A j \in 1 .. n : head'.pts[j] = head.pts[j]
          /\ head'.pts[n + 1] = pt[t]
      BY <1>1, <2>1, AppendFacts, LenProperties DEF PUT_value
    <2>3. n + 1 <= HEAD_CAPACITY
      BY <1>1, <2>2 DEF PUT_accepts, IsFull
    <2>4. \A j \in 1 .. n : head.pts[j].ts < pt[t].ts
      <3> SUFFICES ASSUME NEW j \in 1 .. n PROVE head.pts[j].ts < pt[t].ts
        OBVIOUS
      <3>1. head.pts[j].ts # pt[t].ts
        <4>1. Stored(head.pts[j])
          BY <2>1, <2>2 DEF Stored, Range
        <4> QED
          BY <2>1, <2>2, <4>1 DEF IInv, RecoveryInv, FreshInv
      <3>0. /\ n > 0 /\ head.pts # << >>
            /\ head.last \in Int /\ pt[t].ts \in Int
            /\ head.pts[j].ts \in Int /\ head.pts[n].ts \in Int
        <4>1. n > 0 /\ n \in 1 .. n
          BY <2>2
        <4>2. head.pts # << >>
          BY <4>1
        <4>3. \A p \in Sent : p.ts \in Int
          BY DEF Sent
        <4>4. head.last \in Int
          BY DEF IInv, TypeInv, TypeOK, MemoryOK
        <4> QED
          BY <2>1, <2>2, <4>1, <4>2, <4>3, <4>4
      <3>2. head.last <= pt[t].ts /\ head.last = head.pts[n].ts
        BY <1>1, <2>2, <3>0 DEF PUT_accepts, IInv, RecoveryInv, SortedInv
      <3>3. j = n \/ head.pts[j].ts < head.pts[n].ts
        BY <2>2, SMTT(40) DEF IInv, RecoveryInv, SortedInv, Sorted
      <3> QED
        BY <3>0, <3>1, <3>2, <3>3
    <2>5. SortedInv'
      <3>1. Sorted(head.pts)' 
        BY <2>2, <2>4, SMTT(40) DEF Sorted, IInv, RecoveryInv, SortedInv
      <3> QED
        BY <1>0, <2>2, <2>3, <3>1 DEF IInv, RecoveryInv, SortedInv, Sorted, disk
    <2>6. \A u \in Threads : /\ pc'[u] \notin Critical \ {"wal"}
                             /\ pc'[u] = "wal" => u = t
                             /\ pc[u] # "register"
      BY <1>0, <1>1, SMTT(40) DEF Critical, IInv, TypeInv, TypeOK, MemoryOK
    <2>7. HeadInv' /\ LoadInv' /\ DirInv'
      BY <1>0, <1>1, <2>1, <2>2, <2>6
         DEF HeadInv, LoadInv, DirInv, Critical, disk, Kept, Whole, Lossy, IInv, RecoveryInv
    <2>8. FileInv' /\ FlushInv'
      BY <1>0, <2>6 DEF IInv, RecoveryInv, FileInv, FlushInv, Kept, Whole, Lossy, FilePoints,
                        HasMeta, LoadedMeta, Critical, disk
    <2>9. FreshInv' /\ AckedInv'
      BY <1>0, <1>1, StoredFrame DEF IInv, RecoveryInv, FreshInv, AckedInv, disk, history
    <2> QED
      BY <2>5, <2>7, <2>8, <2>9 DEF RecoveryInv
  <1>2. CASE /\ pt' = pt \/ pt' = [pt EXCEPT ![t] = NoPoint]
             /\ pc' = [pc EXCEPT ![t] = "flush"] \/ pc' = [pc EXCEPT ![t] = "idle"]
             /\ UNCHANGED <<head, lock>>
    <2>1. DirInv'
      BY <1>0, <1>2 DEF IInv, RecoveryInv, DirInv, Kept, Whole, Lossy, disk
    <2>2. FreshInv'
      BY <1>0, <1>2, DropRequest DEF disk, history
    <2>3. \A u \in Threads : {pc[u], pc'[u]} \cap Critical = {}
      BY <1>0, <1>2 DEF Critical, IInv, TypeInv, TypeOK, MemoryOK
    <2> QED
      BY <1>0, <1>2, <2>1, <2>2, <2>3, QuietRecoveryInv DEF disk, history, Critical
  <1> QED
    BY <1>1, <1>2 DEF Head_PUT_try

\* Head_PUT_log: the log catches up with the block.
LEMMA Head_PUT_logFacts ==
  ASSUME LogWorks, IInv, NEW t \in Clients, Head_PUT_log(t)
  PROVE  /\ pt[t] \in Sent /\ pt[t] # NoPoint
         /\ wal' = head.pts
         /\ Range(wal') = Range(wal) \cup {pt[t]}
         /\ wal' # << >>
         /\ wal = << >> => wal'[1] = pt[t]
         /\ wal # << >> => wal'[1] = wal[1]
         /\ \A p : Stored(p)' <=> Stored(p) \/ p = pt[t]
  <1>0. t \in Threads /\ pc[t] = "wal"
    BY DEF Threads, Head_PUT_log, wal_append
  <1>1. /\ wal \in Seq(Sent) /\ pt[t] \in Sent /\ pt[t] # NoPoint
        /\ wal' = Append(wal, pt[t]) /\ wal' = head.pts
    <2>1. wal \in Seq(Sent) /\ pt[t] \in Sent /\ pt[t] # NoPoint
      BY <1>0 DEF IInv, TypeInv, TypeOK, MemoryOK, DiskOK, PcInv
    <2>2. wal' = Append(wal, pt[t])
      BY DEF Head_PUT_log, LogWorks, wal_append
    <2>3. head.pts = Append(wal, pt[t])
      BY <1>0 DEF IInv, RecoveryInv, HeadInv
    <2> QED
      BY <2>1, <2>2, <2>3
  <1>2. /\ Range(wal') = Range(wal) \cup {pt[t]}
        /\ wal' # << >>
        /\ wal = << >> => wal'[1] = pt[t]
        /\ wal # << >> => wal'[1] = wal[1]
    <2>1. Len(wal) \in Nat /\ (wal # << >> => 1 \in 1 .. Len(wal)) /\ (wal = << >> => Len(wal) = 0)
      BY <1>1, LenProperties, EmptySeq
    <2>0. wal \in Seq(Sent) /\ pt[t] \in Sent
      BY <1>1
    <2>a. Range(Append(wal, pt[t])) = Range(wal) \cup {pt[t]}
      BY <2>0, AppendFacts
    <2>2. /\ Append(wal, pt[t]) # << >>
          /\ \A j \in 1 .. Len(wal) : Append(wal, pt[t])[j] = wal[j]
          /\ Append(wal, pt[t])[Len(wal) + 1] = pt[t]
      BY <2>0, AppendFacts
    <2>3. 0 + 1 = 1
      OBVIOUS
    <2> QED
      BY <1>1, <2>a, <2>1, <2>2, <2>3
  <1>3. \A p : Stored(p)' <=> Stored(p) \/ p = pt[t]
    BY <1>2 DEF Stored, Kept, Whole, Lossy, FilePoints, Head_PUT_log, wal_append
  <1> QED
    BY <1>1, <1>2, <1>3

\* Head_PUT_log: a first record names the
\* file of the next flush; no readable file has that name, because its first
\* point would have the fresh timestamp.
LEMMA Head_PUT_logRecoveryInv ==
  ASSUME LogWorks, IInv, NEW t \in Clients, Head_PUT_log(t)
  PROVE  RecoveryInv'
  <1> t \in Threads
    BY DEF Threads
  <1>0. /\ proc = "up" /\ registered
        /\ \A u \in Threads \ {t} : pc[u] \notin Critical
        /\ pc[t] = "wal"
    BY Serving, OneCritical DEF Head_PUT_log, Critical, wal_append
  <1>1. /\ pt[t] \in Sent /\ pt[t] # NoPoint /\ wal' = head.pts
    BY Head_PUT_logFacts
  <1>2. /\ Range(wal') = Range(wal) \cup {pt[t]}
        /\ wal' # << >>
        /\ wal = << >> => wal'[1] = pt[t]
        /\ wal # << >> => wal'[1] = wal[1]
    BY Head_PUT_logFacts
  <1>3. \A p : Stored(p)' <=> Stored(p) \/ p = pt[t]
    BY Head_PUT_logFacts
  <1>4. \A u \in Threads : /\ pc'[u] \notin Critical
                           /\ pc[u] # "register"
                           /\ u # t => pt'[u] = pt[u]
                           /\ pt'[t] = NoPoint
    BY <1>0 DEF Head_PUT_log, Critical, IInv, TypeInv, TypeOK, MemoryOK, wal_append
  <1>5. SortedInv'
    BY <1>1 DEF Head_PUT_log, IInv, RecoveryInv, SortedInv, Sorted, wal_append
  <1>6. HeadInv' /\ LoadInv' /\ DirInv'
    BY <1>0, <1>1, <1>4 DEF Head_PUT_log, HeadInv, LoadInv, DirInv, Critical, wal_append
  <1>7. FileInv'
    BY <1>4
      DEF Head_PUT_log, IInv, RecoveryInv, FileInv, Kept, Whole, Lossy, HasMeta, LoadedMeta, Critical,
          wal_append
  <1>8. FlushInv'
    <2>1. ASSUME wal = << >>, ChunkId(pt[t].ts) \in ChunkIds PROVE ~ Kept(ChunkId(pt[t].ts))
      <3> DEFINE i == ChunkId(pt[t].ts)
      <3> SUFFICES ASSUME Kept(i) PROVE FALSE
        OBVIOUS
      <3>1. files[i].pts \in Seq(Sent) /\ files[i].pts # << >>
        BY <2>1 DEF IInv, TypeInv, TypeOK, DiskOK, PcInv, File, Kept, Whole, Lossy
      <3>2. files[i].pts[1] \in Sent /\ files[i].pts[1] \in Range(files[i].pts)
        BY <3>1, EmptySeq, LenProperties, ElementOfSeq DEF Range
      <3>3. Stored(files[i].pts[1])
        BY <2>1, <3>2 DEF Stored, FilePoints
      <3>4. ChunkId(files[i].pts[1].ts) = i
        BY <2>1 DEF IInv, RecoveryInv, FileInv
      <3>5. files[i].pts[1].ts = pt[t].ts
        BY <1>1, <3>2, <3>4 DEF LogWorks, Sent
      <3> QED
        BY <1>1, <3>2, <3>3, <3>5 DEF IInv, RecoveryInv, FreshInv
    <2>2. ChunkId(pt[t].ts) \in ChunkIds
      BY <1>1, ChunkIdType DEF Sent
    <2>3. Kept(ChunkId(wal'[1].ts)) =>
            FilePoints(ChunkId(wal'[1].ts)) \subseteq Range(wal')
      BY <1>2, <2>1, <2>2 DEF IInv, RecoveryInv, FlushInv
    <2> QED
      BY <1>4, <2>3 DEF FlushInv, Kept, Whole, Lossy, FilePoints, Head_PUT_log, Critical, wal_append
  <1>9. FreshInv'
    BY <1>1, <1>3, <1>4 DEF Head_PUT_log, IInv, RecoveryInv, FreshInv, wal_append
  <1>10. AckedInv'
    BY <1>3 DEF Head_PUT_log, IInv, RecoveryInv, AckedInv, wal_append
  <1> QED
    BY <1>5, <1>6, <1>7, <1>8, <1>9, <1>10 DEF RecoveryInv

LEMMA headflush_lookupRecoveryInv ==
  ASSUME LogWorks, IInv, NEW t \in Clients, headflush_lookup(t)
  PROVE  RecoveryInv'
  <1> t \in Threads
    BY DEF Threads
  <1>1. CASE Halt
    BY <1>1, HaltRecoveryInv DEF headflush_lookup, disk, Kept, Whole, Lossy
  <1>2. CASE /\ registered
             /\ pc' = [pc EXCEPT ![t] = "flush"]
             /\ UNCHANGED <<proc, registered, head, chunks, lock, pt, unloaded, rpos>>
    <2>1. DirInv'
      BY <1>2 DEF headflush_lookup, IInv, RecoveryInv, DirInv, Kept, Whole, Lossy, disk
    <2>2. FreshInv'
      BY <1>2, DropRequest DEF headflush_lookup, disk
    <2>3. \A u \in Threads : pc'[u] = pc[u] \/ {pc[u], pc'[u]} \cap Critical = {}
      BY <1>2 DEF headflush_lookup, Critical, IInv, TypeInv, TypeOK, MemoryOK
    <2> QED
      BY <1>2, <2>1, <2>2, <2>3, QuietRecoveryInv DEF headflush_lookup, disk
  <1> QED
    BY <1>1, <1>2 DEF headflush_lookup

\* What a thread that leaves a critical section without a change needs.
LEMMA AfterFlushCases ==
  ASSUME NEW t \in Threads
  PROVE  AfterFlush(t) \in {"idle", "exit", "reput"}
  BY DEF AfterFlush

\* headflush_open: fopen truncates the file named after wal[1]; its points are
\* all in the log, so nothing durable is lost.
LEMMA headflush_openStored ==
  ASSUME IInv, NEW t \in Threads, headflush_open(t)
  PROVE  \A p : Stored(p)' <=> Stored(p)
  <1>0. wal' = wal /\ head.pts = wal
    BY Serving DEF headflush_open, IInv, RecoveryInv, HeadInv
  <1>1. CASE files' = files
    BY <1>0, <1>1, StoredFrame
  <1>2. CASE /\ head.pts # << >>
             /\ files' = [files EXCEPT ![HeadId] = [state |-> "torn", pts |-> head.pts]]
    <2>1. HeadId \in ChunkIds /\ HeadId = ChunkId(wal[1].ts)
      BY <1>0, <1>2, HeadIdType DEF IInv, TypeInv, HeadId
    <2>2. /\ files'[HeadId].state # "whole" /\ files'[HeadId].pts = wal
          /\ \A i \in ChunkIds \ {HeadId} : files'[i] = files[i]
      BY <1>0, <1>2, <2>1 DEF IInv, TypeInv, TypeOK, DiskOK
    <2>3. \A i \in ChunkIds : \A p : Kept(i)' /\ p \in FilePoints(i)' =>
                                       \/ Kept(i) /\ p \in FilePoints(i)
                                       \/ p \in Range(wal)
      BY <2>2 DEF Kept, Whole, Lossy, FilePoints
    <2>4. \A i \in ChunkIds : \A p : Kept(i) /\ p \in FilePoints(i) =>
                                       \/ Kept(i)' /\ p \in FilePoints(i)'
                                       \/ p \in Range(wal)
      BY <1>0, <1>2, <2>1, <2>2 DEF Kept, Whole, Lossy, FilePoints, IInv, RecoveryInv, FlushInv
    <2> QED
      BY <1>0, <2>3, <2>4 DEF Stored
  <1> QED
    BY <1>1, <1>2 DEF headflush_open

LEMMA headflush_openRecoveryInv ==
  ASSUME LogWorks, IInv, NEW t \in Threads, headflush_open(t)
  PROVE  RecoveryInv'
  <1>0. /\ proc = "up" /\ registered /\ lock = NoThread
        /\ \A u \in Threads : pc[u] \notin Critical
        /\ head.pts = wal
    BY Serving, NoneCritical DEF headflush_open, IInv, RecoveryInv, HeadInv
  <1>1. CASE /\ pc' = [pc EXCEPT ![t] = AfterFlush(t)]
             /\ UNCHANGED <<lock, files, dirty>>
    <2>1. DirInv'
      BY <1>0, <1>1 DEF headflush_open, IInv, RecoveryInv, DirInv, Kept, Whole, Lossy
    <2>2. FreshInv'
      BY <1>1, DropRequest DEF headflush_open, history
    <2>3. \A u \in Threads : {pc[u], pc'[u]} \cap Critical = {}
      BY <1>0, <1>1, AfterFlushCases DEF Critical, IInv, TypeInv, TypeOK, MemoryOK
    <2> QED
      BY <1>0, <1>1, <2>1, <2>2, <2>3, QuietRecoveryInv DEF headflush_open, history, Critical
  <1>2. CASE /\ head.pts # << >>
             /\ dir' = TRUE
             /\ lock' = t
             /\ files' = [files EXCEPT ![HeadId] = [state |-> "torn", pts |-> head.pts]]
             /\ pc' = [pc EXCEPT ![t] = "write"]
    <2>1. HeadId \in ChunkIds /\ HeadId = ChunkId(wal[1].ts)
      BY <1>0, <1>2, HeadIdType DEF IInv, TypeInv, HeadId
    <2>2. /\ files'[HeadId] = [state |-> "torn", pts |-> head.pts]
          /\ \A i \in ChunkIds \ {HeadId} : files'[i] = files[i]
          /\ UNCHANGED <<proc, registered, head, chunks, pt, unloaded, rpos, wal, history>>
      BY <1>2, <2>1 DEF headflush_open, IInv, TypeInv, TypeOK, DiskOK
    <2>3. /\ files'[HeadId].state # "whole"
          /\ \A i \in ChunkIds \ {HeadId} : (Kept(i)' <=> Kept(i)) /\ (Whole(i)' <=> Whole(i))
      BY <2>1, <2>2 DEF Kept, Whole, Lossy
    <2>4. \A u \in Threads : /\ u # t => pc'[u] = pc[u] /\ pc'[u] \notin Critical
                             /\ pc'[t] = "write"
      BY <1>0, <1>2 DEF IInv, TypeInv, TypeOK, MemoryOK
    <2>5. \A p : Stored(p)' <=> Stored(p)
      BY headflush_openStored
    <2>6. SortedInv' /\ LoadInv' /\ DirInv'
      BY <1>0, <1>2, <2>2 DEF IInv, RecoveryInv, SortedInv, LoadInv, DirInv, Sorted
    <2>7. HeadInv'
      BY <1>0, <1>2, <2>2, <2>4 DEF HeadInv, Critical
    <2>8. FileInv'
      <3>1. PICK h \in ChunkIds : h = HeadId
        BY <2>1
      <3>2. Sorted(files'[h].pts) /\ ChunkId(files'[h].pts[1].ts) = h /\ ~ Whole(h)'
        BY <2>2, <2>3, <3>1 DEF IInv, RecoveryInv, SortedInv, HeadId, Whole
      <3>3. \A i \in ChunkIds \ {h} : /\ files'[i] = files[i] /\ (HasMeta(i) => HasMeta(i)')
                                      /\ (Kept(i)' => Kept(i)) /\ (Whole(i)' => Whole(i))
        BY <2>2, <2>3, <3>1 DEF HasMeta, LoadedMeta
      <3>4. \A u \in Threads : pc[u] # "register"
        BY <1>0 DEF Critical
      <3> QED
        BY <1>0, <2>2, <3>2, <3>3, <3>4 DEF IInv, RecoveryInv, FileInv
    <2>9. FlushInv'
      <3>1. HeadId' = HeadId
        BY <2>2 DEF HeadId
      <3>2. files'[ChunkId(wal'[1].ts)].pts = wal'
        BY <1>0, <2>1, <2>2
      <3> QED
        BY <2>2, <2>4, <3>1, <3>2 DEF FlushInv, Critical, FilePoints
    <2>10. FreshInv' /\ AckedInv'
      BY <2>2, <2>5 DEF IInv, RecoveryInv, FreshInv, AckedInv, history
    <2> QED
      BY <2>6, <2>7, <2>8, <2>9, <2>10 DEF RecoveryInv
  <1> QED
    BY <1>1, <1>2 DEF headflush_open

\* flushtochunk: the rewritten file holds the log's points, no more, no less.
LEMMA flushtochunkStored ==
  ASSUME LogWorks, IInv, NEW t \in Threads, flushtochunk(t)
  PROVE  \A p : Stored(p)' <=> Stored(p)
  <1>0. /\ wal' = wal /\ head.pts = wal /\ HeadId \in ChunkIds
        /\ files[HeadId] = [state |-> "torn", pts |-> head.pts]
    BY HeadIdType DEF flushtochunk, IInv, TypeInv, PcInv, RecoveryInv, HeadInv, FlushInv
  <1>1. CASE files' = files
    BY <1>0, <1>1, StoredFrame
  <1>2. CASE files' = [files EXCEPT ![HeadId].state = "whole"]
    <2>1. /\ files'[HeadId] = [state |-> "whole", pts |-> head.pts]
          /\ \A i \in ChunkIds \ {HeadId} : files'[i] = files[i]
      BY <1>0, <1>2 DEF IInv, TypeInv, TypeOK, DiskOK, File
    <2>2. \A i \in ChunkIds : \A p : Kept(i)' /\ p \in FilePoints(i)' =>
              \/ Kept(i) /\ p \in FilePoints(i)
              \/ p \in Range(wal)
      BY <1>0, <2>1 DEF Kept, Whole, Lossy, FilePoints
    <2>3. \A i \in ChunkIds : \A p : Kept(i) /\ p \in FilePoints(i) =>
              Kept(i)' /\ p \in FilePoints(i)'
      BY <1>0, <2>1 DEF Kept, Whole, Lossy, FilePoints
    <2> QED
      BY <1>0, <2>2, <2>3 DEF Stored
  <1> QED
    BY <1>1, <1>2 DEF flushtochunk

LEMMA flushtochunkRecoveryInv ==
  ASSUME LogWorks, IInv, NEW t \in Threads, flushtochunk(t)
  PROVE  RecoveryInv'
  <1>0. /\ pc[t] = "write" /\ proc = "up" /\ registered
        /\ \A u \in Threads \ {t} : pc[u] \notin Critical
        /\ head.pts = wal /\ head.pts # << >>
        /\ files[HeadId] = [state |-> "torn", pts |-> head.pts]
        /\ HeadId \in ChunkIds
        /\ UNCHANGED <<proc, registered, head, chunks, pt, unloaded, rpos, dir, wal, history>>
    BY Serving, OneCritical, HeadIdType
       DEF flushtochunk, Critical, IInv, TypeInv, PcInv, RecoveryInv, HeadInv, FlushInv
  <1>1. SortedInv' /\ LoadInv'
    BY <1>0 DEF IInv, RecoveryInv, SortedInv, LoadInv, Sorted
  <1>2. HeadId' = HeadId /\ HeadId = ChunkId(wal[1].ts)
    BY <1>0 DEF HeadId
  <1>3. CASE /\ files' = [files EXCEPT ![HeadId].state = "whole"]
             /\ pc' = [pc EXCEPT ![t] = "register"]
             /\ lock' = lock
    <2>1. /\ files'[HeadId] = [state |-> "whole", pts |-> head.pts]
          /\ \A i \in ChunkIds \ {HeadId} : files'[i] = files[i]
      BY <1>0, <1>3 DEF IInv, TypeInv, TypeOK, DiskOK, File
    <2>2. \A u \in Threads : /\ u # t => pc'[u] \notin Critical
                             /\ pc'[t] = "register"
      BY <1>0, <1>3 DEF IInv, TypeInv, TypeOK, MemoryOK
    <2>3. \A p : Stored(p)' <=> Stored(p)
      BY flushtochunkStored
    <2>4. HeadInv'
      BY <1>0, <1>3, <2>2 DEF IInv, RecoveryInv, HeadInv, TypeInv, LockInv, Critical
    <2>5. DirInv'
      BY <1>0, <1>3, <2>1 DEF IInv, RecoveryInv, DirInv, Kept, Whole, Lossy
    <2>6. FileInv'
      <3>1. PICK h \in ChunkIds : h = HeadId
        BY <1>0
      <3>2. Sorted(files'[h].pts) /\ ChunkId(files'[h].pts[1].ts) = h
        BY <1>0, <1>2, <2>1, <3>1 DEF IInv, RecoveryInv, SortedInv
      <3>3. \A i \in ChunkIds \ {h} : /\ files'[i] = files[i] /\ (HasMeta(i) => HasMeta(i)')
                                      /\ (Kept(i)' => Kept(i)) /\ (Whole(i)' => Whole(i))
        BY <1>0, <2>1, <3>1 DEF HasMeta, LoadedMeta, Kept, Whole, Lossy
      <3>4. \A u \in Threads : pc[u] # "register"
        BY <1>0 DEF Critical
      <3>5. h = HeadId' /\ pc'[t] = "register"
        BY <1>2, <2>2, <3>1
      <3> QED
        BY <1>0, <3>2, <3>3, <3>4, <3>5 DEF IInv, RecoveryInv, FileInv
    <2>7. FlushInv'
      BY <1>0, <1>2, <2>1, <2>2 DEF FlushInv, Kept, Whole, Lossy, FilePoints, Critical
    <2>8. FreshInv' /\ AckedInv'
      BY <1>0, <2>3 DEF IInv, RecoveryInv, FreshInv, AckedInv, history
    <2> QED
      BY <1>1, <2>4, <2>5, <2>6, <2>7, <2>8 DEF RecoveryInv
  <1>4. CASE /\ pc' = [pc EXCEPT ![t] = AfterFlush(t)]
             /\ lock' = NoThread
             /\ UNCHANGED <<files, dirty>>
    <2>1. \A u \in Threads : pc'[u] \notin Critical /\ pc[u] # "register"
      BY <1>0, <1>4, AfterFlushCases DEF IInv, TypeInv, TypeOK, MemoryOK, Critical
    <2>2. HeadInv' /\ DirInv'
      BY <1>0, <1>4, <2>1 DEF IInv, RecoveryInv, HeadInv, DirInv, Critical, Kept, Whole, Lossy
    <2>3. FileInv'
      BY <1>0, <1>4, <2>1 DEF IInv, RecoveryInv, FileInv, Kept, Whole, Lossy, HasMeta, LoadedMeta
    <2>4. FlushInv'
      BY <1>0, <1>2, <1>4, <2>1 DEF FlushInv, FilePoints, Critical
    <2>5. FreshInv' /\ AckedInv'
      BY <1>0, <1>4, StoredFrame DEF IInv, RecoveryInv, FreshInv, AckedInv, history
    <2> QED
      BY <1>1, <2>2, <2>3, <2>4, <2>5 DEF RecoveryInv
  <1>5. CASE /\ Lossy
             /\ pc' = [pc EXCEPT ![t] = "register"]
             /\ UNCHANGED <<files, dirty, lock>>
    <2>1. \A u \in Threads : /\ u # t => pc'[u] \notin Critical
                             /\ pc'[t] = "register" /\ pc[u] # "register"
      BY <1>0, <1>5 DEF IInv, TypeInv, TypeOK, MemoryOK, Critical
    <2>2. HeadInv' /\ DirInv'
      BY <1>0, <1>5, <2>1
         DEF IInv, RecoveryInv, HeadInv, DirInv, TypeInv, LockInv, Critical, Kept, Whole, Lossy
    <2>3. FileInv'
      BY <1>0, <1>5, <2>1 DEF IInv, RecoveryInv, FileInv, Kept, Whole, Lossy, HasMeta, LoadedMeta
    <2>4. FlushInv'
      <3>1. Kept(HeadId)' /\ files'[HeadId'].pts = head'.pts
        BY <1>0, <1>2, <1>5 DEF Kept, Lossy
      <3> QED
        BY <1>0, <1>2, <1>5, <2>1, <3>1 DEF FlushInv, FilePoints, Critical
    <2>5. FreshInv' /\ AckedInv'
      BY <1>0, <1>5, StoredFrame DEF IInv, RecoveryInv, FreshInv, AckedInv, history
    <2> QED
      BY <1>1, <2>2, <2>3, <2>4, <2>5 DEF RecoveryInv
  <1> QED
    BY <1>3, <1>4, <1>5 DEF flushtochunk, Lossy

\* headflush_register: the new entry has exactly the bounds of the file, since
\* lastTimestamp is the last point's.
LEMMA headflush_registerRecoveryInv ==
  ASSUME LogWorks, IInv, NEW t \in Threads, headflush_register(t)
  PROVE  RecoveryInv'
  <1>0. /\ pc[t] = "register" /\ proc = "up" /\ registered
        /\ \A u \in Threads \ {t} : pc[u] \notin Critical
        /\ head.pts = wal /\ head.pts # << >>
        /\ Kept(HeadId) /\ files[HeadId].pts = head.pts
        /\ HeadId \in ChunkIds
        /\ head.last = head.pts[Len(head.pts)].ts
        /\ UNCHANGED <<proc, registered, lock, pt, unloaded, rpos, dir, wal, files, dirty, history>>
    BY Serving, OneCritical, HeadIdType
       DEF headflush_register, disk, Critical, IInv, TypeInv, PcInv, RecoveryInv,
           SortedInv, HeadInv, FlushInv, NewMeta, EmptiedHead, HeadId
  <1>1. /\ head'.pts = << >>
        /\ \A u \in Threads : /\ pc'[u] \notin Critical \ {"truncate"}
                              /\ pc'[u] = "truncate" => u = t
    BY <1>0
      DEF headflush_register, IInv, TypeInv, TypeOK, MemoryOK, Critical, NewMeta, EmptiedHead,
          HeadId
  <1>2. SortedInv' /\ HeadInv' /\ LoadInv' /\ DirInv'
    BY <1>0, <1>1 DEF IInv, TypeInv, LockInv, RecoveryInv, SortedInv, HeadInv, LoadInv, DirInv,
                      Sorted, Critical, Kept, Whole, Lossy, Threads
  <1>3. \A i \in ChunkIds : HasMeta(i) => HasMeta(i)'
    <2> SUFFICES ASSUME NEW i \in ChunkIds, NEW k \in DOMAIN chunks, chunks[k] = LoadedMeta(i)
                 PROVE  HasMeta(i)'
      BY DEF HasMeta
    <2>1. k \in DOMAIN chunks' /\ chunks'[k] = chunks[k]
      BY DEF headflush_register, IInv, TypeInv, TypeOK, MemoryOK, NewMeta, EmptiedHead, HeadId
    <2>2. LoadedMeta(i)' = LoadedMeta(i)
      BY <1>0 DEF LoadedMeta
    <2> QED
      BY <2>1, <2>2 DEF HasMeta
  <1>4. ASSUME NEW i \in ChunkIds, i = HeadId PROVE HasMeta(i)'
    <2>1. /\ Len(chunks) + 1 \in DOMAIN chunks'
          /\ chunks'[Len(chunks) + 1] =
               [start_ts |-> head.pts[1].ts, end_ts |-> head.last, id |-> HeadId]
      BY DEF headflush_register, IInv, TypeInv, TypeOK, MemoryOK, NewMeta, EmptiedHead, HeadId
    <2>2. LoadedMeta(i)' = [start_ts |-> head.pts[1].ts, end_ts |-> head.last, id |-> HeadId]
      BY <1>0, <1>4 DEF LoadedMeta
    <2> QED
      BY <2>1, <2>2 DEF HasMeta
  <1>5. FileInv'
    <2>1. \A i \in ChunkIds : Whole(i) => HasMeta(i)'
      BY <1>0, <1>3, <1>4 DEF IInv, RecoveryInv, FileInv, Critical
    <2> QED
      BY <1>0, <2>1 DEF IInv, RecoveryInv, FileInv, Kept, Whole, Lossy, Sorted
  <1>6. FlushInv'
    BY <1>0, <1>1 DEF IInv, RecoveryInv, FlushInv, Kept, Whole, Lossy, FilePoints, Critical
  <1>7. FreshInv' /\ AckedInv'
    BY <1>0, StoredFrame DEF IInv, RecoveryInv, FreshInv, AckedInv, history
  <1> QED
    BY <1>2, <1>5, <1>6, <1>7 DEF RecoveryInv

\* headflush_truncate: every record of the log is in a readable file.
LEMMA headflush_truncateStored ==
  ASSUME LogWorks, IInv, NEW t \in Threads, headflush_truncate(t)
  PROVE  \A p : Stored(p)' <=> Stored(p)
  <1>1. PICK i \in ChunkIds : Kept(i) /\ files[i].pts = wal
    BY DEF headflush_truncate, IInv, RecoveryInv, FlushInv, wal_truncate
  <1>2. Range(wal') = {}
    BY DEF headflush_truncate, LogWorks, Range, wal_truncate
  <1>3. \A p \in Range(wal) : Kept(i) /\ p \in FilePoints(i)
    BY <1>1 DEF FilePoints
  <1>4. \A j \in ChunkIds : (Kept(j)' <=> Kept(j)) /\ FilePoints(j)' = FilePoints(j)
    BY DEF headflush_truncate, Kept, Whole, Lossy, FilePoints, wal_truncate
  <1> QED
    BY <1>2, <1>3, <1>4 DEF Stored

LEMMA headflush_truncateRecoveryInv ==
  ASSUME LogWorks, IInv, NEW t \in Threads, headflush_truncate(t)
  PROVE  RecoveryInv'
  <1>0. /\ pc[t] = "truncate" /\ proc = "up" /\ registered
        /\ \A u \in Threads \ {t} : pc[u] \notin Critical
        /\ head.pts = << >> /\ wal' = << >>
        /\ UNCHANGED <<proc, registered, head, chunks, pt, unloaded, rpos, dir, files, dirty, history>>
    BY Serving, OneCritical
      DEF headflush_truncate, LogWorks, Critical, IInv, RecoveryInv, HeadInv, wal_truncate
  <1>1. \A u \in Threads : pc'[u] \notin Critical /\ pc[u] # "register"
    BY <1>0, AfterFlushCases
      DEF headflush_truncate, IInv, TypeInv, TypeOK, MemoryOK, Critical, wal_truncate
  <1>2. \A p : Stored(p)' <=> Stored(p)
    BY headflush_truncateStored
  <1>3. SortedInv' /\ HeadInv' /\ LoadInv' /\ DirInv'
    BY <1>0, <1>1 DEF IInv, RecoveryInv, SortedInv, HeadInv, LoadInv, DirInv,
                      Sorted, Critical, Kept, Whole, Lossy
  <1>4. FileInv' /\ FlushInv'
    BY <1>0, <1>1
      DEF IInv, RecoveryInv, FileInv, FlushInv, Kept, Whole, Lossy, HasMeta, LoadedMeta, Sorted, Critical
  <1>5. FreshInv' /\ AckedInv'
    BY <1>0, <1>2 DEF IInv, RecoveryInv, FreshInv, AckedInv, history
  <1> QED
    BY <1>3, <1>4, <1>5 DEF RecoveryInv

LEMMA cleanupRegistryRecoveryInv ==
  ASSUME LogWorks, IInv, cleanupRegistry
  PROVE  RecoveryInv'
  <1>1. \A u \in Threads : pc'[u] = pc[u] \/ {pc[u], pc'[u]} \cap Critical = {}
    BY DEF cleanupRegistry, Critical, IInv, TypeInv, TypeOK, MemoryOK
  <1>2. DirInv'
    BY DEF cleanupRegistry, IInv, RecoveryInv, DirInv, Kept, Whole, Lossy, disk
  <1>3. FreshInv'
    BY StoredFrame DEF cleanupRegistry, IInv, RecoveryInv, FreshInv, disk
  <1> QED
    BY <1>1, <1>2, <1>3, QuietRecoveryInv DEF cleanupRegistry, disk

\* exitProcess, Crash; a power loss, where it can happen, cuts files short.
LEMMA StopRecoveryInv ==
  ASSUME LogWorks, IInv, exitProcess \/ Crash \/ PowerLoss
  PROVE  RecoveryInv'
  <1>1. CASE exitProcess \/ Crash
    <2>1. files' = files /\ UNCHANGED <<wal, dir, accepted, used>> /\ Halt
      BY <1>1 DEF exitProcess, Crash, disk, history
    <2>2. \A i \in ChunkIds : files'[i].pts = files[i].pts /\ (Kept(i)' <=> Kept(i))
      BY <2>1 DEF Kept, Whole, Lossy
    <2> QED
      BY <2>1, <2>2, HaltRecoveryInv
  <1>2. CASE PowerLoss
    <2>1. "power" \in Failures /\ UNCHANGED <<wal, dir, accepted, used>> /\ Halt
      BY <1>2 DEF PowerLoss
    <2>2. \A i \in ChunkIds : \/ files'[i] = files[i]
                              \/ /\ files[i].state = "whole"
                                 /\ files'[i] = [files[i] EXCEPT !.state = "torn"]
      BY <1>2 DEF PowerLoss
    <2>3. files \in [ChunkIds -> File]
      BY DEF IInv, TypeInv, TypeOK, DiskOK
    <2>4. \A i \in ChunkIds : files'[i].pts = files[i].pts /\ (Kept(i)' <=> Kept(i))
      <3> SUFFICES ASSUME NEW i \in ChunkIds
                   PROVE  files'[i].pts = files[i].pts /\ (Kept(i)' <=> Kept(i))
        OBVIOUS
      <3>1. CASE files'[i] = files[i]
        BY <3>1 DEF Kept, Whole, Lossy
      <3>2. CASE files[i].state = "whole" /\ files'[i] = [files[i] EXCEPT !.state = "torn"]
        <4>1. files'[i].state = "torn" /\ files'[i].pts = files[i].pts
          BY <2>3, <3>2 DEF File
        <4>2. Kept(i) /\ Kept(i)'
          BY <2>1, <3>2, <4>1 DEF Kept, Whole, Lossy
        <4> QED
          BY <4>1, <4>2
      <3> QED
        BY <2>2, <3>1, <3>2
    <2> QED
      BY <2>1, <2>4, HaltRecoveryInv
  <1> QED
    BY <1>1, <1>2

\* A step that changes nothing the invariant speaks of.
LEMMA StutterRecoveryInv ==
  ASSUME IInv, UNCHANGED <<memory, dir, wal, files, history>>
  PROVE  RecoveryInv'
  <1>1. FileInv' /\ FlushInv'
    BY FlushFrame DEF memory
  <1>2. SortedInv' /\ HeadInv' /\ LoadInv' /\ DirInv'
    BY DEF IInv, RecoveryInv, SortedInv, HeadInv, LoadInv, DirInv, Sorted, Kept, Whole, Lossy, memory
  <1>3. FreshInv' /\ AckedInv'
    BY StoredFrame DEF IInv, RecoveryInv, FreshInv, AckedInv, memory, history
  <1> QED
    BY <1>1, <1>2, <1>3 DEF RecoveryInv

\* loadRegistry: recovery starts with an empty block whose stale lastTimestamp
\* is older than every record.
LEMMA loadRegistryRecoveryInv ==
  ASSUME LogWorks, IInv, loadRegistry
  PROVE  RecoveryInv'
  <1>0. /\ proc = "down" /\ head.pts = << >> /\ rpos = 1 /\ lock = NoThread
        /\ \A t \in Threads : pc[t] = "idle"
        /\ head'.pts = << >>
        /\ UNCHANGED <<chunks, lock, pc, pt, rpos, dir, wal, files, dirty, history>>
    BY DEF loadRegistry, getNewHeadBlock, disk, IInv, TypeInv, TypeOK, MemoryOK, LockInv, PcInv,
           RecoveryInv, HeadInv, Critical, Threads
  <1>1. SortedInv'
    BY <1>0 DEF IInv, RecoveryInv, SortedInv, Sorted
  <1>2. \/ /\ dir /\ proc' = "load" /\ registered' = TRUE
           /\ head'.last \in Garbage
           /\ unloaded' = {i \in ChunkIds : files[i].state # "none"}
        \/ ~ dir /\ proc' = "up"
    BY DEF loadRegistry, getNewHeadBlock
  <1>3. HeadInv' /\ LoadInv' /\ DirInv'
    BY <1>0, <1>2 DEF IInv, RecoveryInv, HeadInv, LoadInv, DirInv, Kept, Whole, Lossy
  <1>4. FileInv' /\ FlushInv'
    BY <1>0, <1>2 DEF IInv, RecoveryInv, DirInv, FileInv, FlushInv, Kept, Whole, Lossy, FilePoints, Sorted
  <1>5. FreshInv' /\ AckedInv'
    BY <1>0, StoredFrame DEF IInv, RecoveryInv, FreshInv, AckedInv, history
  <1> QED
    BY <1>1, <1>3, <1>4, <1>5 DEF RecoveryInv

LEMMA loadChunkMetadataRecoveryInv ==
  ASSUME LogWorks, IInv, NEW i \in ChunkIds, loadChunkMetadata(i)
  PROVE  RecoveryInv'
  <1>0. /\ proc = "load"
        /\ unloaded' = unloaded \ {i}
        /\ UNCHANGED <<proc, registered, head, lock, pc, pt, rpos, dir, wal, files, dirty, history>>
        /\ \A t \in Threads : pc[t] = "idle"
    BY DEF loadChunkMetadata, disk, IInv, TypeInv, LockInv, LoadedMeta, LeftToLoad
  <1>1. \A j \in ChunkIds : LoadedMeta(j)' = LoadedMeta(j)
    BY <1>0 DEF LoadedMeta
  <1>2. chunks \in Seq(ChunkMetadata)
    BY DEF IInv, TypeInv, TypeOK, MemoryOK
  <1>3. chunks' = (IF Whole(i) THEN Append(chunks, LoadedMeta(i)) ELSE chunks)
    BY DEF loadChunkMetadata, Kept, Whole, Lossy, LoadedMeta, LoadedMeta, LeftToLoad
  <1>4. \A j \in ChunkIds : HasMeta(j) => HasMeta(j)'
    BY <1>1, <1>2, <1>3 DEF HasMeta
  <1>5. Whole(i) => HasMeta(i)'
    BY <1>1, <1>2, <1>3 DEF HasMeta
  <1>6. FileInv'
    BY <1>0, <1>4, <1>5 DEF IInv, RecoveryInv, FileInv, Kept, Whole, Lossy, Sorted
  <1>7. SortedInv' /\ HeadInv' /\ LoadInv' /\ DirInv' /\ FlushInv'
    BY <1>0 DEF IInv, RecoveryInv, SortedInv, HeadInv, LoadInv, DirInv, FlushInv,
                Sorted, Kept, Whole, Lossy, FilePoints
  <1>8. FreshInv' /\ AckedInv'
    BY <1>0, StoredFrame DEF IInv, RecoveryInv, FreshInv, AckedInv, history
  <1> QED
    BY <1>6, <1>7, <1>8 DEF RecoveryInv

\* wal_replay: no record is skipped and none is refused.
LEMMA wal_replayRecoveryInv ==
  ASSUME LogWorks, IInv, wal_replay
  PROVE  RecoveryInv'
  <1> DEFINE n == Len(head.pts)
             p == wal[rpos]
  <1>0. /\ proc = "load" /\ rpos' = rpos + 1
        /\ UNCHANGED <<proc, registered, chunks, lock, pc, pt, unloaded, dir, wal, files, dirty, history>>
        /\ \A t \in Threads : pc[t] = "idle"
    BY DEF wal_replay, disk, IInv, TypeInv, LockInv, ReplaySkips
  <1>1. /\ wal \in Seq(Sent) /\ Len(wal) \in Nat /\ DOMAIN wal = 1 .. Len(wal)
        /\ \A j \in 1 .. Len(wal) : wal[j] \in Sent /\ wal[j].ts \in Int
        /\ head.pts \in Seq(Sent) /\ n \in Nat /\ DOMAIN head.pts = 1 .. n
    <2>1. wal \in Seq(Sent) /\ head.pts \in Seq(Sent)
      BY DEF IInv, TypeInv, TypeOK, MemoryOK, DiskOK
    <2>2. \A q \in Sent : q.ts \in Int
      BY DEF Sent
    <2>3. \A j \in 1 .. Len(wal) : wal[j] \in Sent
      BY <2>1, ElementOfSeq
    <2>4. /\ Len(wal) \in Nat /\ DOMAIN wal = 1 .. Len(wal)
          /\ n \in Nat /\ DOMAIN head.pts = 1 .. n
      BY <2>1, LenProperties
    <2> QED
      BY <2>1, <2>2, <2>3, <2>4
  <1>2. /\ rpos \in 1 .. Len(wal) /\ n = rpos - 1
        /\ \A j \in 1 .. n : head.pts[j] = wal[j]
    BY <1>1 DEF wal_replay, IInv, TypeInv, TypeOK, MemoryOK, RecoveryInv, LoadInv, ReplaySkips
  <1>3. n + 1 <= HEAD_CAPACITY /\ ~ IsFull(head)
    BY <1>1, <1>2 DEF IInv, RecoveryInv, SortedInv, IsFull
  <1>4. \A j \in 1 .. n : head.pts[j].ts < p.ts
    <2>1. \A j \in 1 .. n : j \in DOMAIN wal /\ rpos \in DOMAIN wal /\ j < rpos
      BY <1>1, <1>2
    <2>2. \A j \in 1 .. n : wal[j].ts < wal[rpos].ts
      BY <2>1 DEF IInv, RecoveryInv, SortedInv, Sorted
    <2> QED
      BY <1>2, <2>2
  <1>5. head.last < p.ts /\ head.last \in Int
    <2>1. CASE rpos = 1
      <3>1. head.last \in Garbage /\ p.ts \in Timestamps
        BY <1>0, <1>1, <1>2, <2>1 DEF IInv, RecoveryInv, LoadInv, Sent
      <3> QED
        BY <3>1 DEF LogWorks
    <2>2. CASE rpos # 1
      <3>1. n \in 1 .. n /\ head.pts # << >>
        BY <1>1, <1>2, <2>2
      <3>2. head.last = head.pts[n].ts
        BY <3>1 DEF IInv, RecoveryInv, SortedInv
      <3> QED
        BY <1>1, <1>2, <1>4, <3>1, <3>2
    <2> QED
      BY <2>1, <2>2
  <1>6. head' = PUT_value(head, p)
    BY <1>1, <1>2, <1>3, <1>5 DEF wal_replay, PUT_accepts, ReplaySkips
  <1>7. /\ head'.last = p.ts
        /\ Len(head'.pts) = n + 1 /\ DOMAIN head'.pts = 1 .. n + 1
        /\ \A j \in 1 .. n : head'.pts[j] = head.pts[j]
        /\ head'.pts[n + 1] = p
    <2>1. head.pts \in Seq(Sent) /\ p \in Sent /\ head'.pts = Append(head.pts, p)
      BY <1>1, <1>2, <1>6 DEF PUT_value
    <2>2. head'.last = p.ts
      BY <1>6 DEF PUT_value
    <2> QED
      BY <2>1, <2>2, AppendFacts, LenProperties
  <1>8. SortedInv'
    <2>1. Sorted(head.pts)'
      <3> HIDE DEF n, p
      <3>1. \A j, k \in 1 .. n : j < k => head.pts[j].ts < head.pts[k].ts
        BY <1>1 DEF Sorted, IInv, RecoveryInv, SortedInv
      <3>2. \A j, k \in 1 .. n + 1 : j < k => head'.pts[j].ts < head'.pts[k].ts
        <4> SUFFICES ASSUME NEW j \in 1 .. n + 1, NEW k \in 1 .. n + 1, j < k
                     PROVE  head'.pts[j].ts < head'.pts[k].ts
          OBVIOUS
        <4>0. n \in Nat
          BY <1>1
        <4>1. j \in 1 .. n /\ (k \in 1 .. n \/ k = n + 1)
          BY <4>0
        <4>2. CASE k \in 1 .. n
          BY <1>7, <3>1, <4>1, <4>2
        <4>3. CASE k = n + 1
          BY <1>4, <1>7, <4>1, <4>3
        <4> QED
          BY <4>1, <4>2, <4>3
      <3> QED
        BY <1>7, <3>2 DEF Sorted
    <2> QED
      BY <1>0, <1>1, <1>3, <1>7, <2>1 DEF IInv, RecoveryInv, SortedInv, Sorted
  <1>9. LoadInv'
    <2>1. registered' /\ Len(head'.pts) = rpos' - 1 /\ rpos' # 1
      BY <1>0, <1>1, <1>2, <1>7 DEF IInv, RecoveryInv, LoadInv
    <2>2. \A j \in 1 .. n + 1 : head'.pts[j] = wal[j]
      <3> SUFFICES ASSUME NEW j \in 1 .. n + 1 PROVE head'.pts[j] = wal[j]
        OBVIOUS
      <3>1. j \in 1 .. n \/ j = n + 1
        BY <1>1
      <3> QED
        BY <1>1, <1>2, <1>7, <3>1
    <2>3. rpos' - 1 = n + 1
      BY <1>0, <1>1, <1>2
    <2> HIDE DEF n
    <2> QED
      BY <1>0, <2>1, <2>2, <2>3 DEF LoadInv
  <1>10. HeadInv' /\ DirInv' /\ FileInv' /\ FlushInv'
    BY <1>0 DEF IInv, RecoveryInv, HeadInv, DirInv, FileInv, FlushInv, Kept, Whole, Lossy, FilePoints,
                HasMeta, LoadedMeta, Sorted
  <1>11. FreshInv' /\ AckedInv'
    BY <1>0, StoredFrame DEF IInv, RecoveryInv, FreshInv, AckedInv, history
  <1> QED
    BY <1>8, <1>9, <1>10, <1>11 DEF RecoveryInv

\* loadRegistry_done: the block is the log again.
LEMMA loadRegistry_doneRecoveryInv ==
  ASSUME LogWorks, IInv, loadRegistry_done
  PROVE  RecoveryInv'
  <1>0. /\ proc = "load" /\ proc' = "up" /\ unloaded = {} /\ rpos' = 1
        /\ UNCHANGED <<registered, head, chunks, lock, pc, pt, unloaded, dir, wal, files, dirty, history>>
        /\ \A t \in Threads : pc[t] = "idle"
        /\ registered
    BY DEF loadRegistry_done, disk, IInv, TypeInv, LockInv, RecoveryInv, LoadInv
  <1>1. head.pts = wal
    <2>1. head.pts \in Seq(Sent) /\ wal \in Seq(Sent)
      BY DEF IInv, TypeInv, TypeOK, MemoryOK, DiskOK
    <2>2. Len(head.pts) = Len(wal) /\ \A j \in 1 .. Len(wal) : head.pts[j] = wal[j]
      BY <1>0, <2>1 DEF loadRegistry_done, IInv, RecoveryInv, LoadInv
    <2> QED
      BY <2>1, <2>2, SeqEqual
  <1>2. SortedInv' /\ HeadInv' /\ LoadInv' /\ DirInv'
    BY <1>0, <1>1 DEF IInv, RecoveryInv, SortedInv, HeadInv, LoadInv, DirInv, Sorted, Kept, Whole, Lossy
  <1>3. FileInv' /\ FlushInv'
    BY <1>0
      DEF IInv, RecoveryInv, FileInv, FlushInv, Kept, Whole, Lossy, FilePoints, HasMeta, LoadedMeta, Sorted
  <1>4. FreshInv' /\ AckedInv'
    BY <1>0, StoredFrame DEF IInv, RecoveryInv, FreshInv, AckedInv, history
  <1> QED
    BY <1>2, <1>3, <1>4 DEF RecoveryInv

LEMMA NextRecoveryInv ==
  ASSUME LogWorks, IInv, [Next]_vars
  PROVE  RecoveryInv'
  <1>1. ASSUME NEW i \in ChunkIds, Writeback(i) PROVE RecoveryInv'
    BY <1>1, StutterRecoveryInv DEF Writeback
  <1>2. ASSUME UNCHANGED vars PROVE RecoveryInv'
    BY <1>2, StutterRecoveryInv DEF vars, disk
  <1> QED
    BY <1>1, <1>2, Steps, Head_PUT_lookupRecoveryInv, Head_PUT_tryRecoveryInv,
       Head_PUT_logRecoveryInv, headflush_lookupRecoveryInv, headflush_openRecoveryInv,
       flushtochunkRecoveryInv, headflush_registerRecoveryInv,
       headflush_truncateRecoveryInv, cleanupRegistryRecoveryInv, StopRecoveryInv,
       loadRegistryRecoveryInv, loadChunkMetadataRecoveryInv, wal_replayRecoveryInv,
       loadRegistry_doneRecoveryInv, Zenon

\* The inductive invariant holds in every reachable state where the log works,
\* whatever happens to the chunk files: Head_PUT, headflush and loadRegistry keep
\* block, log and chunk files in step, with any number of clients and kills at any
\* point.
THEOREM Recovery ==
  ASSUME LogWorks
  PROVE  Spec => []IInv
  <1>1. Init => IInv
    BY InitTypeInv, InitRecoveryInv DEF IInv
  <1>2. IInv /\ [Next]_vars => IInv'
    BY NextTypeInv, NextRecoveryInv DEF IInv
  <1> QED
    BY <1>1, <1>2, PTL DEF Spec

-----------------------------------------------------------------------------
\* The first and the last point bound a sorted array.
LEMMA SortedBounds ==
  ASSUME NEW pts \in Seq(Sent), Sorted(pts), NEW p \in Range(pts)
  PROVE  pts[1].ts <= p.ts /\ p.ts <= pts[Len(pts)].ts
  <1>1. Len(pts) \in Nat /\ DOMAIN pts = 1 .. Len(pts)
    BY LenProperties
  <1>2. PICK j \in 1 .. Len(pts) : p = pts[j]
    BY <1>1 DEF Range
  <1>3. \A m \in 1 .. Len(pts) : pts[m].ts \in Int
    <2>1. \A m \in 1 .. Len(pts) : pts[m] \in Sent
      BY ElementOfSeq
    <2> QED
      BY <2>1 DEF Sent
  <1>4. 1 \in DOMAIN pts /\ Len(pts) \in DOMAIN pts /\ j \in DOMAIN pts
    BY <1>1
  <1>5. (j = 1 \/ pts[1].ts < pts[j].ts) /\ (j = Len(pts) \/ pts[j].ts < pts[Len(pts)].ts)
    <2>1. j = 1 \/ 1 < j
      BY <1>1
    <2>2. j = Len(pts) \/ j < Len(pts)
      <3>1. PICK n \in Nat : n = Len(pts)
        BY <1>1
      <3>2. j \in 1 .. n
        BY <3>1
      <3> QED
        BY <3>1, <3>2, SMTT(40)
    <2> QED
      BY <1>4, <2>1, <2>2 DEF Sorted
  <1>6. pts[1].ts \in Int /\ pts[j].ts \in Int /\ pts[Len(pts)].ts \in Int
    BY <1>1, <1>3, <1>4
  <1>7. pts[1].ts <= pts[j].ts /\ pts[j].ts <= pts[Len(pts)].ts
    BY <1>5, <1>6
  <1> QED
    BY <1>2, <1>7

\* A readable, sorted file whose bounds are in the registry: each of its points
\* is found by a query.
LEMMA FoundInChunk ==
  ASSUME IInv, NEW i \in ChunkIds, Whole(i), HasMeta(i), NEW p \in FilePoints(i)
  PROVE  Visible(p)
  <1> DEFINE pts == files[i].pts
  <1>1. pts \in Seq(Sent) /\ Sorted(pts)
    BY DEF IInv, TypeInv, TypeOK, DiskOK, File, Kept, RecoveryInv, FileInv
  <1>2. pts[1].ts <= p.ts /\ p.ts <= pts[Len(pts)].ts
    BY <1>1, SortedBounds DEF FilePoints
  <1>3. PICK k \in DOMAIN chunks : chunks[k] = LoadedMeta(i)
    BY DEF HasMeta
  <1>4. InChunk(p, k)
    BY <1>2, <1>3 DEF InChunk, LoadedMeta
  <1> QED
    BY <1>4 DEF Visible

\* While the server is up, what is stored is found, or its file is torn.
LEMMA StoredVisible ==
  ASSUME IInv, proc = "up", NEW p, Stored(p)
  PROVE  Visible(p) \/ \E i \in ChunkIds : Lossy /\ files[i].state = "torn" /\ p \in FilePoints(i)
  <1> DEFINE Torn == \E i \in ChunkIds : Lossy /\ files[i].state = "torn" /\ p \in FilePoints(i)
  <1>1. ASSUME NEW i \in ChunkIds, Kept(i), p \in FilePoints(i) PROVE Visible(p) \/ Torn
    <2>1. CASE ~ Whole(i)
      BY <1>1, <2>1 DEF Kept
    <2>2. CASE Whole(i) /\ HasMeta(i)
      BY <1>1, <2>2, FoundInChunk
    <2>3. CASE \E t \in Threads : pc[t] = "register" /\ i = HeadId
      BY <1>1, <2>3 DEF IInv, RecoveryInv, FlushInv, FilePoints, Visible
    <2> QED
      BY <1>1, <2>1, <2>2, <2>3 DEF IInv, RecoveryInv, FileInv
  <1> HIDE DEF Torn
  <1>2. ASSUME p \in Range(wal) PROVE Visible(p) \/ Torn
    <2>1. CASE lock = NoThread
      BY <1>2, <2>1 DEF IInv, RecoveryInv, HeadInv, Visible
    <2>2. CASE \E t \in Threads : pc[t] = "wal"
      <3>1. PICK t \in Threads : pc[t] = "wal"
        BY <2>2
      <3>2. wal \in Seq(Sent) /\ pt[t] \in Sent /\ head.pts = Append(wal, pt[t])
        BY <3>1 DEF IInv, TypeInv, TypeOK, MemoryOK, DiskOK, PcInv, RecoveryInv, HeadInv
      <3>3. Range(Append(wal, pt[t])) = Range(wal) \cup {pt[t]}
        BY <3>2, AppendFacts
      <3> QED
        BY <1>2, <3>2, <3>3 DEF Visible
    <2>3. CASE \E t \in Threads : pc[t] \in {"write", "register"}
      BY <1>2, <2>3 DEF IInv, RecoveryInv, HeadInv, Visible
    <2>4. CASE \E t \in Threads : pc[t] = "truncate"
      <3>1. PICK i \in ChunkIds : Kept(i) /\ files[i].pts = wal
        BY <2>4 DEF IInv, RecoveryInv, FlushInv
      <3> QED
        BY <1>1, <1>2, <3>1 DEF FilePoints
    <2> QED
      BY <2>1, <2>2, <2>3, <2>4 DEF IInv, TypeInv, TypeOK, MemoryOK, LockInv, Critical
  <1>3. Visible(p) \/ Torn
    BY <1>1, <1>2 DEF Stored
  <1> QED
    BY <1>3 DEF Torn

LEMMA DurableVisible ==
  ASSUME Benign, IInv, proc = "up", NEW p, Durable(p)
  PROVE  Visible(p)
  BY BenignKept, StoredVisible

\* Where the log works, an acknowledged point is found whenever the server is up,
\* or was written to a chunk file that was cut short: by fclose, whose result
\* flushtochunk ignores, or by a power loss, since chunk files are not fsynced.
\* Nothing else loses a point: no interleaving, kill or restart.
THEOREM LossSafe ==
  ASSUME LogWorks
  PROVE  Spec => []LossOnlyInTornChunk
  <1>1. IInv => LossOnlyInTornChunk
    BY StoredVisible DEF IInv, RecoveryInv, AckedInv, LossOnlyInTornChunk
  <1> QED
    BY <1>1, Recovery, PTL

\* The main theorem: in a benign environment a point whose PUT was accepted can
\* be found whenever the server is up, through any interleaving of PUTs and
\* flushes and any number of kills, also of kills during recovery.
THEOREM NoLoss ==
  ASSUME Benign
  PROVE  Spec => []NoAckedLoss
  <1>1. LogWorks
    BY BenignKept
  <1>2. IInv => NoAckedLoss
    BY BenignKept, DurableVisible DEF IInv, RecoveryInv, AckedInv, NoAckedLoss
  <1>3. Spec => []IInv
    BY <1>1, Recovery
  <1> QED
    BY <1>2, <1>3, PTL

\* Between two critical sections the log is the head block, record by record,
\* also when chunk files are cut short.
THEOREM LogIsHead ==
  ASSUME LogWorks
  PROVE  Spec => []WalMirrorsHead
  <1>1. IInv => WalMirrorsHead
    BY DEF IInv, RecoveryInv, HeadInv, WalMirrorsHead
  <1> QED
    BY <1>1, Recovery, PTL

-----------------------------------------------------------------------------
(***************************************************************************)
(* Refinement: in a benign environment the engine implements the abstract  *)
(* series, and a chunk file is truncated only while the log holds its      *)
(* points.                                                                 *)
(***************************************************************************)

\* What is durable depends on the log and the chunk files only.
LEMMA DurableFrame ==
  ASSUME wal' = wal, files' = files
  PROVE  \A p : Durable(p)' <=> Durable(p)
  BY DEF Durable, Whole, FilePoints

\* What a query finds is durable, but for the point of the one PUT that is
\* between PUT_value and wal_append.
LEMMA VisibleDurable ==
  ASSUME IInv, proc = "up", NEW p, Visible(p)
  PROVE  Durable(p) \/ \E t \in Threads : pc[t] = "wal" /\ p = pt[t]
  <1>1. CASE \E k \in DOMAIN chunks : InChunk(p, k)
    <2>1. PICK k \in DOMAIN chunks : InChunk(p, k)
      BY <1>1
    <2>2. chunks[k].id \in ChunkIds
      <3>1. chunks \in Seq(ChunkMetadata)
        BY DEF IInv, TypeInv, TypeOK, MemoryOK
      <3>2. chunks[k] \in ChunkMetadata
        BY <2>1, <3>1, LenProperties, ElementOfSeq
      <3> QED
        BY <3>2 DEF ChunkMetadata
    <2> QED
      BY <2>1, <2>2 DEF InChunk, Durable
  <1>2. CASE p \in Range(head.pts)
    <2>1. CASE head.pts = wal
      BY <1>2, <2>1 DEF Durable
    <2>2. CASE \E t \in Threads : pc[t] = "wal"
      <3>1. PICK t \in Threads : pc[t] = "wal"
        BY <2>2
      <3>2. wal \in Seq(Sent) /\ pt[t] \in Sent /\ head.pts = Append(wal, pt[t])
        BY <3>1 DEF IInv, TypeInv, TypeOK, MemoryOK, DiskOK, PcInv, RecoveryInv, HeadInv
      <3>3. Range(Append(wal, pt[t])) = Range(wal) \cup {pt[t]}
        BY <3>2, AppendFacts
      <3> QED
        BY <1>2, <3>1, <3>2, <3>3 DEF Durable
    <2>3. CASE head.pts = << >>
      BY <1>2, <2>3 DEF Range
    <2> QED
      BY <2>1, <2>2, <2>3
         DEF IInv, TypeInv, TypeOK, MemoryOK, LockInv, Critical, RecoveryInv, HeadInv
  <1> QED
    BY <1>1, <1>2 DEF Visible

\* The abstract view, by the state of the server: nothing when it is down, the
\* durable points when no PUT is being logged, else one point more.
ViewInv ==
    /\ proc # "up" => VisiblePoints = {}
    /\ proc = "up" /\ (\A t \in Threads : pc[t] # "wal") => VisiblePoints = DurablePoints
    /\ \A t \in Threads : pc[t] = "wal" => /\ VisiblePoints = DurablePoints \cup {pt[t]}
                                           /\ pt[t] \in Sent
                                           /\ pt[t] \notin DurablePoints

LEMMA ViewFacts ==
  ASSUME Benign, IInv
  PROVE  ViewInv
  <1>1. proc # "up" => VisiblePoints = {}
    BY DEF VisiblePoints
  <1>2. ASSUME proc = "up", \A t \in Threads : pc[t] # "wal"
        PROVE  VisiblePoints = DurablePoints
    BY <1>2, DurableVisible, VisibleDurable DEF VisiblePoints, DurablePoints
  <1>3. ASSUME NEW t \in Threads, pc[t] = "wal"
        PROVE  /\ VisiblePoints = DurablePoints \cup {pt[t]}
               /\ pt[t] \in Sent
               /\ pt[t] \notin DurablePoints
    <2>1. proc = "up" /\ \A u \in Threads : pc[u] = "wal" => u = t
      BY <1>3, Serving, OneCritical DEF Critical
    <2>2. /\ wal \in Seq(Sent) /\ pt[t] \in Sent /\ pt[t] # NoPoint
          /\ head.pts = Append(wal, pt[t])
      BY <1>3 DEF IInv, TypeInv, TypeOK, MemoryOK, DiskOK, PcInv, RecoveryInv, HeadInv
    <2>3. Range(Append(wal, pt[t])) = Range(wal) \cup {pt[t]}
      BY <2>2, AppendFacts
    <2>4. Visible(pt[t])
      BY <2>2, <2>3 DEF Visible
    <2>5. ~ Durable(pt[t])
      BY <2>2, BenignKept DEF IInv, RecoveryInv, FreshInv
    <2> QED
      BY <2>1, <2>2, <2>4, <2>5, DurableVisible, VisibleDurable
         DEF VisiblePoints, DurablePoints
  <1> QED
    BY <1>1, <1>2, <1>3 DEF ViewInv

\* A step that leaves the durable points alone, and neither starts nor stops
\* the server nor begins or ends the log step of a PUT, is a stutter.
LEMMA QuietStep ==
  ASSUME ViewInv, ViewInv',
         \A p : Durable(p)' <=> Durable(p),
         proc' = "up" <=> proc = "up",
         \A t \in Threads : /\ pc'[t] = "wal" <=> pc[t] = "wal"
                            /\ pc[t] = "wal" => pt'[t] = pt[t]
  PROVE  UNCHANGED <<DurablePoints, proc = "up", VisiblePoints>>
  <1>1. DurablePoints' = DurablePoints
    BY DEF DurablePoints
  <1>2. VisiblePoints' = VisiblePoints
    BY <1>1 DEF ViewInv
  <1> QED
    BY <1>1, <1>2

\* The steps of the abstract series in terms of the engine's state.
AbstractStep ==
    \/ UNCHANGED <<DurablePoints, proc = "up", VisiblePoints>>
    \/ /\ proc = "up" /\ proc' # "up"
       /\ VisiblePoints' = {} /\ UNCHANGED DurablePoints
    \/ /\ proc # "up" /\ proc' = "up"
       /\ VisiblePoints' = DurablePoints /\ UNCHANGED DurablePoints
    \/ \E p \in Sent :
         /\ proc = "up" /\ proc' = "up" /\ VisiblePoints = DurablePoints
         /\ p \notin DurablePoints
         /\ VisiblePoints' = VisiblePoints \cup {p} /\ UNCHANGED DurablePoints
    \/ \E p \in Sent :
         /\ proc = "up" /\ proc' = "up"
         /\ VisiblePoints = DurablePoints \cup {p}
         /\ DurablePoints' = DurablePoints \cup {p} /\ UNCHANGED VisiblePoints

LEMMA AbstractSteps ==
  ASSUME AbstractStep
  PROVE  [Abstract!SeriesNext]_(Abstract!seriesVars)
  BY DEF AbstractStep, Abstract!SeriesNext, Abstract!seriesVars, Abstract!Open,
         Abstract!Close, Abstract!Apply, Abstract!Commit

\* The process stops: an abstract Close, or nothing if it was not up.
LEMMA HaltStep ==
  ASSUME IInv, ViewInv, ViewInv', Halt, UNCHANGED <<wal, files>>
  PROVE  AbstractStep
  <1>1. DurablePoints' = DurablePoints
    BY DurableFrame DEF DurablePoints
  <1>2. proc' # "up" /\ VisiblePoints' = {}
    BY DEF Halt, ViewInv
  <1>3. CASE proc = "up"
    BY <1>1, <1>2, <1>3 DEF AbstractStep
  <1>4. CASE proc # "up"
    BY <1>1, <1>2, <1>4 DEF AbstractStep, ViewInv
  <1> QED
    BY <1>3, <1>4

\* The server comes up: an abstract Open.
LEMMA OpenStep ==
  ASSUME IInv, ViewInv', proc # "up", proc' = "up", UNCHANGED <<wal, files, pc>>
  PROVE  AbstractStep
  <1>1. DurablePoints' = DurablePoints
    BY DurableFrame DEF DurablePoints
  <1>2. \A t \in Threads : pc'[t] # "wal"
    BY DEF IInv, TypeInv, LockInv
  <1> QED
    BY <1>1, <1>2 DEF AbstractStep, ViewInv

\* A PUT: Head_PUT_try applies the point, Head_PUT_log commits it.
LEMMA Head_PUT_tryStep ==
  ASSUME Benign, IInv, ViewInv, ViewInv', NEW t \in Clients, Head_PUT_try(t)
  PROVE  AbstractStep
  <1> t \in Threads
    BY DEF Threads
  <1>0. /\ proc = "up" /\ proc' = "up"
        /\ \A u \in Threads : pc[u] # "wal"
        /\ \A p : Durable(p)' <=> Durable(p)
    BY Serving, NoneCritical, DurableFrame DEF Head_PUT_try, Critical, disk
  <1>1. CASE pc' = [pc EXCEPT ![t] = "wal"] /\ pt' = pt
    <2>1. pc'[t] = "wal" /\ pt'[t] = pt[t]
      BY <1>1 DEF IInv, TypeInv, TypeOK, MemoryOK
    <2>2. DurablePoints' = DurablePoints /\ VisiblePoints = DurablePoints
      BY <1>0 DEF DurablePoints, ViewInv
    <2>3. /\ VisiblePoints' = DurablePoints' \cup {pt[t]}
          /\ pt[t] \in Sent /\ pt[t] \notin DurablePoints
      BY <2>1, <2>2 DEF ViewInv
    <2> QED
      BY <1>0, <2>2, <2>3 DEF AbstractStep
  <1>2. CASE pc' = [pc EXCEPT ![t] = "flush"] \/ pc' = [pc EXCEPT ![t] = "idle"]
    <2>1. \A u \in Threads : pc'[u] # "wal"
      BY <1>0, <1>2 DEF IInv, TypeInv, TypeOK, MemoryOK
    <2> QED
      BY <1>0, <2>1, QuietStep DEF AbstractStep
  <1> QED
    BY <1>1, <1>2 DEF Head_PUT_try

LEMMA Head_PUT_logStep ==
  ASSUME Benign, IInv, ViewInv, ViewInv', NEW t \in Clients, Head_PUT_log(t)
  PROVE  AbstractStep
  <1> t \in Threads
    BY DEF Threads
  <1>0. /\ proc = "up" /\ proc' = "up" /\ pc[t] = "wal"
        /\ \A u \in Threads \ {t} : pc[u] \notin Critical
    BY Serving, OneCritical DEF Head_PUT_log, Critical, wal_append
  <1>1. pt[t] \in Sent /\ \A p : Durable(p)' <=> Durable(p) \/ p = pt[t]
    BY Head_PUT_logFacts, BenignKept
  <1>2. \A u \in Threads : pc'[u] # "wal"
    BY <1>0 DEF Head_PUT_log, Critical, IInv, TypeInv, TypeOK, MemoryOK, wal_append
  <1>3. DurablePoints' = DurablePoints \cup {pt[t]}
    BY <1>1 DEF DurablePoints
  <1>4. VisiblePoints = DurablePoints \cup {pt[t]} /\ VisiblePoints' = DurablePoints'
    BY <1>0, <1>2 DEF ViewInv
  <1> QED
    BY <1>0, <1>1, <1>3, <1>4 DEF AbstractStep

\* headflush changes where points are, never which points there are.
LEMMA FlushStep ==
  ASSUME Benign, IInv, ViewInv, ViewInv', NEW t \in Threads,
         \/ headflush_open(t) \/ flushtochunk(t)
         \/ headflush_register(t) \/ headflush_truncate(t)
  PROVE  AbstractStep
  <1>1. \A p : Durable(p)' <=> Durable(p)
    <2>1. CASE headflush_register(t)
      BY <2>1, DurableFrame DEF headflush_register, disk, NewMeta, EmptiedHead, HeadId
    <2>2. CASE ~ headflush_register(t)
      <3>1. \A p : Stored(p)' <=> Stored(p)
        BY <2>2, BenignKept, headflush_openStored, flushtochunkStored, headflush_truncateStored
      <3> QED
        BY <3>1, BenignKept
    <2> QED
      BY <2>1, <2>2
  <1>2. \A u \in Threads : (pc'[u] = "wal" <=> pc[u] = "wal") /\ pt'[u] = pt[u]
    BY AfterFlushCases
       DEF headflush_open, flushtochunk, headflush_register, headflush_truncate,
           IInv, TypeInv, TypeOK, MemoryOK, wal_truncate, NewMeta, EmptiedHead, HeadId
  <1>3. proc' = proc
    BY
      DEF headflush_open, flushtochunk, headflush_register, headflush_truncate, wal_truncate,
          NewMeta, EmptiedHead, HeadId
  <1> QED
    BY <1>1, <1>2, <1>3, QuietStep DEF AbstractStep

\* Steps that touch neither log nor files and leave the server up or down.
LEMMA OtherStep ==
  ASSUME IInv, ViewInv, ViewInv', UNCHANGED <<wal, files>>,
         proc' = proc \/ {proc, proc'} = {"down", "load"},
         \A t \in Threads : \/ pc'[t] = pc[t] /\ pt'[t] = pt[t]
                            \/ pc[t] = "idle" /\ pc'[t] # "wal"
  PROVE  AbstractStep
  <1>1. \A p : Durable(p)' <=> Durable(p)
    BY DurableFrame
  <1>2. proc' = "up" <=> proc = "up"
    OBVIOUS
  <1> QED
    BY <1>1, <1>2, QuietStep DEF AbstractStep

LEMMA EngineStep ==
  ASSUME Benign, IInv, ViewInv, ViewInv', [Next]_vars
  PROVE  AbstractStep
  <1> USE DEF IInv, TypeInv, TypeOK, MemoryOK
  <1>1. ASSUME NEW t \in Clients, NEW ts \in Timestamps, Head_PUT_lookup(t, ts)
        PROVE  AbstractStep
    BY <1>1, OtherStep DEF Head_PUT_lookup, disk
  <1>2. ASSUME NEW t \in Clients, headflush_lookup(t) PROVE AbstractStep
    <2>1. CASE Halt
      BY <1>2, <2>1, HaltStep DEF headflush_lookup, disk
    <2>2. CASE ~ Halt
      BY <1>2, <2>2, OtherStep DEF headflush_lookup, disk
    <2> QED
      BY <2>1, <2>2
  <1>3. ASSUME cleanupRegistry PROVE AbstractStep
    BY <1>3, OtherStep DEF cleanupRegistry, disk
  <1>4. ASSUME exitProcess \/ Crash \/ PowerLoss PROVE AbstractStep
    BY <1>4, HaltStep DEF exitProcess, Crash, PowerLoss, Benign, disk
  <1>5. ASSUME NEW i \in ChunkIds, Writeback(i) \/ loadChunkMetadata(i) PROVE AbstractStep
    BY <1>5, OtherStep DEF Writeback, loadChunkMetadata, memory, disk, LoadedMeta, LeftToLoad
  <1>6. ASSUME loadRegistry PROVE AbstractStep
    <2>1. CASE proc' = "load"
      BY <1>6, <2>1, OtherStep DEF loadRegistry, disk
    <2>2. CASE proc' = "up"
      BY <1>6, <2>2, OpenStep DEF loadRegistry, disk
    <2> QED
      BY <1>6, <2>1, <2>2 DEF loadRegistry
  <1>7. ASSUME wal_replay PROVE AbstractStep
    BY <1>7, OtherStep DEF wal_replay, disk, ReplaySkips
  <1>8. ASSUME loadRegistry_done PROVE AbstractStep
    BY <1>8, OpenStep DEF loadRegistry_done, disk
  <1>9. ASSUME UNCHANGED vars PROVE AbstractStep
    BY <1>9, OtherStep DEF vars, memory, disk
  <1> QED
    BY <1>1, <1>2, <1>3, <1>4, <1>5, <1>6, <1>7, <1>8, <1>9, Steps,
       Head_PUT_tryStep, Head_PUT_logStep, FlushStep, Zenon

\* In a benign environment the engine implements the abstract series: durable
\* points are never dropped, a query sees at most one point that is not yet
\* durable, and a restart shows exactly the durable points.
THEOREM Refinement ==
  ASSUME Benign
  PROVE  Spec => ImplementsSeries
  <1>1. Init => Abstract!SeriesInit
    <2> SUFFICES ASSUME Init PROVE Abstract!SeriesInit
      OBVIOUS
    <2>1. \A p : ~ Durable(p)
      BY DEF Init, Durable, Range, Whole, NoFile
    <2> QED
      BY <2>1 DEF Init, Abstract!SeriesInit, DurablePoints, VisiblePoints
  <1>2. IInv /\ ViewInv /\ ViewInv' /\ [Next]_vars
           => [Abstract!SeriesNext]_(Abstract!seriesVars)
    BY EngineStep, AbstractSteps
  <1>3. Spec => []IInv
    BY BenignKept, Recovery
  <1>4. IInv => ViewInv
    BY ViewFacts
  <1> QED
    BY <1>1, <1>2, <1>3, <1>4, PTL DEF Spec, ImplementsSeries, Abstract!SeriesSpec

\* A readable chunk file is truncated only while the log holds its points.
THEOREM Overwrite ==
  ASSUME Benign
  PROVE  Spec => OverwriteProtected
  <1> DEFINE A == \A i \in ChunkIds : Whole(i) /\ files'[i].state # "whole"
                                        => FilePoints(i) \subseteq Range(wal)
  <1>1. IInv /\ [Next]_vars => [A]_vars
    <2> SUFFICES ASSUME IInv, [Next]_vars, NEW i \in ChunkIds, Whole(i),
                        files'[i].state # "whole"
                 PROVE  FilePoints(i) \subseteq Range(wal)
      OBVIOUS
    <2>1. PICK t \in Threads : headflush_open(t)
      <3>1. ASSUME NEW t \in Threads, flushtochunk(t) PROVE FALSE
        <4>1. HeadId \in ChunkIds
          BY <3>1, HeadIdType DEF flushtochunk, IInv, TypeInv, PcInv
        <4> QED
          BY <3>1, <4>1, ZenonT(40) DEF flushtochunk, Whole, IInv, TypeInv, TypeOK, DiskOK, File
      <3>2. files' # files
        BY DEF Whole
      <3> QED
        BY <3>1, <3>2, Steps
           DEF Head_PUT_lookup, headflush_lookup, Head_PUT_try, Head_PUT_log,
               headflush_register, headflush_truncate, cleanupRegistry, exitProcess,
               Crash, PowerLoss, Benign, Writeback, loadChunkMetadata, loadRegistry,
               wal_replay, loadRegistry_done, vars, disk, wal_append, wal_truncate, NewMeta,
                EmptiedHead, HeadId, LoadedMeta, LeftToLoad, ReplaySkips
    <2>2. head.pts = wal /\ head.pts # << >> /\ i = HeadId
      BY <2>1, Serving
        DEF headflush_open, Whole, IInv, TypeInv, TypeOK, DiskOK, RecoveryInv, HeadInv
    <2> QED
      BY <2>2 DEF HeadId, IInv, RecoveryInv, FlushInv, Kept
  <1>2. Spec => []IInv
    BY BenignKept, Recovery
  <1> QED
    BY <1>1, <1>2, PTL DEF Spec, OverwriteProtected
=============================================================================
