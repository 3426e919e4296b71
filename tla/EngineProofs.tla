---------------------------- MODULE EngineProofs ----------------------------
(***************************************************************************)
(* Theorems about Engine, for every number of clients, every capacity of   *)
(* the head block and every set of timestamps.                             *)
(***************************************************************************)
EXTENDS EngineInv, SequenceTheorems, TLAPS

USE EngineAssumption, CapacityAssumption

\* Appending keeps what was there and adds one element at the end.
LEMMA AppendFacts ==
  ASSUME NEW S, NEW s \in Seq(S), NEW e \in S
  PROVE  /\ Append(s, e) \in Seq(S)
         /\ Append(s, e) # << >>
         /\ Len(Append(s, e)) = Len(s) + 1
         /\ \A j \in 1 .. Len(s) : Append(s, e)[j] = s[j]
         /\ Append(s, e)[Len(s) + 1] = e
         /\ Range(Append(s, e)) = Range(s) \cup {e}
  <1>1. /\ Append(s, e) \in Seq(S)
        /\ Append(s, e) # << >>
        /\ Len(Append(s, e)) = Len(s) + 1
        /\ \A j \in 1 .. Len(s) : Append(s, e)[j] = s[j]
        /\ Append(s, e)[Len(s) + 1] = e
    BY AppendProperties
  <1>2. DOMAIN s = 1 .. Len(s) /\ DOMAIN Append(s, e) = 1 .. Len(s) + 1 /\ Len(s) \in Nat
    BY <1>1
  <1> QED
    BY <1>1, <1>2 DEF Range

LEMMA ChunkIdType == \A ts \in Timestamps : ChunkId(ts) \in ChunkIds
  BY DEF ChunkIds

LEMMA HeadIdType ==
  ASSUME TypeOK, head.pts # << >>
  PROVE  /\ head.pts[1] \in Sent
         /\ HeadId \in ChunkIds
  <1>1. head.pts \in Seq(Sent)
    BY DEF TypeOK, MemoryOK
  <1>2. head.pts[1] \in Sent
    BY <1>1
  <1> QED
    BY <1>2, ChunkIdType DEF Sent, HeadId

LEMMA AfterFlushType ==
  ASSUME NEW t \in Threads
  PROVE  /\ AfterFlush(t) \in PCs \ Critical
         /\ AfterFlush(t) # "put"
         /\ AfterFlush(t) = "reput" => pt[t] # NoPoint
         /\ AfterFlush(t) = "exit" => t = Main
  BY DEF AfterFlush, PCs, Critical

LEMMA InitTypeInv == Init => TypeInv
  <1> SUFFICES ASSUME Init PROVE TypeInv
    OBVIOUS
  <1>a. MemoryOK
    BY DEF Init, MemoryOK, getNewHeadBlock, Threads, PCs
  <1>b. DiskOK
    BY DEF Init, DiskOK, File, NoFile
  <1>c. HistoryOK
    BY DEF Init, HistoryOK
  <1>d. FlagsOK
    BY Zenon DEF Init, FlagsOK
  <1>1. TypeOK
    BY <1>a, <1>b, <1>c, <1>d DEF TypeOK
  <1>2. LockInv
    BY DEF Init, LockInv, Threads, Critical
  <1>3. PcInv
    BY DEF Init, PcInv, NoFile
  <1> QED
    BY <1>1, <1>2, <1>3 DEF TypeInv

\* The process ends: memory is reset and the files stay as they are.
LEMMA HaltTypeInv ==
  ASSUME TypeInv, Halt,
         UNCHANGED <<dir, wal>>,
         files' \in [ChunkIds -> File],
         \A i \in ChunkIds : files'[i].pts = files[i].pts
                             /\ (files'[i].state # "none" => files[i].state # "none"),
         dirty' \subseteq ChunkIds,
         UNCHANGED <<accepted, used>>,
         nput' \in 0 .. MaxPuts, nflush' \in 0 .. MaxFlushes, nstop' \in 0 .. MaxStops
  PROVE  TypeInv'
  <1>a. MemoryOK'
    BY DEF Halt, MemoryOK, getNewHeadBlock, Threads, PCs
  <1>b. DiskOK'
    BY DEF TypeInv, TypeOK, DiskOK
  <1>c. HistoryOK'
    BY DEF TypeInv, TypeOK, HistoryOK
  <1>d. FlagsOK'
    BY Zenon DEF TypeInv, TypeOK, Halt, FlagsOK
  <1>1. TypeOK'
    BY <1>a, <1>b, <1>c, <1>d DEF TypeOK
  <1>2. LockInv'
    BY DEF LockInv, Halt, Threads, Critical
  <1>3. PcInv'
    <2>1. Len(wal) \in Nat /\ rpos' <= Len(wal') + 1
      BY LenProperties DEF TypeInv, TypeOK, DiskOK, Halt
    <2>2. \A t \in Threads : pc'[t] = "idle"
      BY DEF Halt
    <2> QED
      BY <2>1, <2>2 DEF TypeInv, PcInv, Halt, HeadId
  <1> QED
    BY <1>1, <1>2, <1>3 DEF TypeInv
LEMMA Head_PUT_lookupTypeInv ==
  ASSUME TypeInv, NEW t \in Clients, NEW ts \in Timestamps, Head_PUT_lookup(t, ts)
  PROVE  TypeInv'
  <1>0. /\ [ts |-> ts, val |-> nput'] \in Sent
        /\ [ts |-> ts, val |-> nput'] # NoPoint
        /\ nput' \in 0 .. MaxPuts
    BY DEF TypeInv, TypeOK, HistoryOK, Head_PUT_lookup, Sent, NoPoint
  <1>h. head' \in [pts : Seq(Sent), last : Int]
    <2>1. CASE head' = head
      BY <2>1 DEF TypeInv, TypeOK, MemoryOK
    <2>2. CASE \E g \in Garbage : head' = getNewHeadBlock(g)
      BY <2>2 DEF getNewHeadBlock
    <2> QED
      BY <2>1, <2>2 DEF Head_PUT_lookup
  <1>1. MemoryOK'
    BY <1>0, <1>h DEF TypeInv, TypeOK, MemoryOK, Head_PUT_lookup, getNewHeadBlock, PCs, Threads
  <1>2. DiskOK'
    BY <1>0 DEF TypeInv, TypeOK, DiskOK, Head_PUT_lookup, getNewHeadBlock, disk
  <1>3. HistoryOK'
    BY <1>0 DEF TypeInv, TypeOK, MemoryOK, HistoryOK, Head_PUT_lookup, getNewHeadBlock, history
  <1>4. FlagsOK'
    BY Zenon DEF TypeInv, TypeOK, FlagsOK, Head_PUT_lookup, getNewHeadBlock, disk
  <1>5. LockInv'
    BY <1>0
      DEF TypeInv, TypeOK, MemoryOK, LockInv, Head_PUT_lookup, getNewHeadBlock, Critical,
          Threads
  <1>6. PcInv'
    BY <1>0
      DEF TypeInv, TypeOK, MemoryOK, DiskOK, LockInv, PcInv, HeadId, Head_PUT_lookup,
          getNewHeadBlock, Critical, Threads, disk
  <1> QED
    BY <1>1, <1>2, <1>3, <1>4, <1>5, <1>6 DEF TypeInv, TypeOK

LEMMA Head_PUT_tryTypeInv ==
  ASSUME TypeInv, NEW t \in Clients, Head_PUT_try(t)
  PROVE  TypeInv'
  <1>0. /\ pt[t] \in Sent
        /\ PUT_value(head, pt[t]) \in [pts : Seq(Sent), last : Int]
        /\ PUT_value(head, pt[t]).pts # << >>
    <2>1. head.pts \in Seq(Sent) /\ pt[t] \in Sent
      BY DEF TypeInv, TypeOK, MemoryOK, PcInv, Head_PUT_try, Threads
    <2>2. pt[t].ts \in Int
      BY <2>1 DEF Sent
    <2>3. Append(head.pts, pt[t]) \in Seq(Sent) /\ Append(head.pts, pt[t]) # << >>
      BY <2>1, AppendFacts
    <2> QED
      BY <2>1, <2>2, <2>3 DEF PUT_value
  <1>1. MemoryOK'
    BY <1>0 DEF TypeInv, TypeOK, MemoryOK, Head_PUT_try, PCs, Threads
  <1>2. DiskOK'
    BY <1>0 DEF TypeInv, TypeOK, DiskOK, Head_PUT_try, disk
  <1>3. HistoryOK'
    BY <1>0 DEF TypeInv, TypeOK, MemoryOK, HistoryOK, Head_PUT_try, history
  <1>4. FlagsOK'
    BY Zenon DEF TypeInv, TypeOK, FlagsOK, Head_PUT_try, disk
  <1>5. LockInv'
    BY <1>0 DEF TypeInv, TypeOK, MemoryOK, LockInv, Head_PUT_try, Critical, Threads
  <1>6. PcInv'
    BY <1>0, ZenonT(40)
      DEF TypeInv, TypeOK, MemoryOK, DiskOK, LockInv, PcInv, HeadId, Head_PUT_try, Critical,
          Threads, disk
  <1> QED
    BY <1>1, <1>2, <1>3, <1>4, <1>5, <1>6 DEF TypeInv, TypeOK

LEMMA Head_PUT_logTypeInv ==
  ASSUME TypeInv, NEW t \in Clients, Head_PUT_log(t)
  PROVE  TypeInv'
  <1>0. /\ pt[t] \in Sent
        /\ Len(wal') >= Len(wal) /\ wal' \in Seq(Sent)
    <2>1. wal \in Seq(Sent) /\ pt[t] \in Sent
      BY DEF TypeInv, TypeOK, MemoryOK, DiskOK, PcInv, Head_PUT_log, Threads, wal_append
    <2> QED
      BY <2>1 DEF Head_PUT_log, wal_append
  <1>1. MemoryOK'
    BY <1>0 DEF TypeInv, TypeOK, MemoryOK, Head_PUT_log, PCs, Threads, wal_append
  <1>2. DiskOK'
    BY <1>0 DEF TypeInv, TypeOK, DiskOK, Head_PUT_log, disk, wal_append
  <1>3. HistoryOK'
    BY <1>0 DEF TypeInv, TypeOK, MemoryOK, HistoryOK, Head_PUT_log, history, wal_append
  <1>4. FlagsOK'
    BY Zenon DEF TypeInv, TypeOK, FlagsOK, Head_PUT_log, disk, wal_append
  <1>5. LockInv'
    BY <1>0 DEF TypeInv, TypeOK, MemoryOK, LockInv, Head_PUT_log, Critical, Threads, wal_append
  <1>6. PcInv'
    BY <1>0
      DEF TypeInv, TypeOK, MemoryOK, DiskOK, LockInv, PcInv, HeadId, Head_PUT_log, Critical,
          Threads, disk, wal_append
  <1> QED
    BY <1>1, <1>2, <1>3, <1>4, <1>5, <1>6 DEF TypeInv, TypeOK

LEMMA headflush_lookupTypeInv ==
  ASSUME TypeInv, NEW t \in Clients, headflush_lookup(t)
  PROVE  TypeInv'
  <1>0. UNCHANGED <<disk, accepted, used, nput, nstop>> /\ nflush' \in 0 .. MaxFlushes
    BY DEF TypeInv, TypeOK, HistoryOK, headflush_lookup
  <1>1. CASE Halt
    BY <1>0, <1>1, HaltTypeInv DEF TypeInv, TypeOK, DiskOK, HistoryOK, disk, Whole
  <1>2. CASE /\ registered
             /\ pc' = [pc EXCEPT ![t] = "flush"]
             /\ UNCHANGED <<proc, registered, head, chunks, lock, pt, unloaded, rpos>>
    <2>1. MemoryOK'
      BY <1>2 DEF TypeInv, TypeOK, MemoryOK, PCs
    <2>2. DiskOK' /\ HistoryOK'
      BY <1>0 DEF TypeInv, TypeOK, DiskOK, HistoryOK, disk
    <2>3. FlagsOK'
      BY <1>0, <1>2, Zenon DEF TypeInv, TypeOK, FlagsOK, disk
    <2>4. LockInv'
      BY <1>2 DEF TypeInv, TypeOK, MemoryOK, LockInv, Critical, Threads, headflush_lookup
    <2>5. PcInv'
      BY <1>0, <1>2 DEF TypeInv, TypeOK, MemoryOK, DiskOK, PcInv, HeadId, disk
    <2> QED
      BY <2>1, <2>2, <2>3, <2>4, <2>5 DEF TypeInv, TypeOK
  <1> QED
    BY <1>1, <1>2 DEF headflush_lookup

LEMMA headflush_openTypeInv ==
  ASSUME TypeInv, NEW t \in Threads, headflush_open(t)
  PROVE  TypeInv'
  <1>0. head.pts # << >> => /\ HeadId \in ChunkIds
                            /\ [state |-> "torn", pts |-> head.pts] \in File
    BY HeadIdType DEF TypeInv, TypeOK, MemoryOK, File
  <1>1. MemoryOK'
    BY AfterFlushType DEF TypeInv, TypeOK, MemoryOK, headflush_open, PCs
  <1>2. DiskOK'
    BY <1>0 DEF TypeInv, TypeOK, DiskOK, headflush_open
  <1>3. HistoryOK'
    BY DEF TypeInv, TypeOK, HistoryOK, headflush_open, history
  <1>4. FlagsOK'
    BY Zenon DEF TypeInv, TypeOK, FlagsOK, headflush_open
  <1>5. LockInv'
    BY AfterFlushType DEF TypeInv, TypeOK, MemoryOK, LockInv, headflush_open, Critical, Threads
  <1>6. PcInv'
    BY <1>0, AfterFlushType
      DEF TypeInv, TypeOK, MemoryOK, DiskOK, LockInv, PcInv, HeadId, headflush_open, Critical,
          Threads
  <1> QED
    BY <1>1, <1>2, <1>3, <1>4, <1>5, <1>6 DEF TypeInv, TypeOK

LEMMA flushtochunkTypeInv ==
  ASSUME TypeInv, NEW t \in Threads, flushtochunk(t)
  PROVE  TypeInv'
  <1>0. /\ head.pts # << >> /\ HeadId \in ChunkIds
        /\ [files[HeadId] EXCEPT !.state = "whole"] \in File
    BY HeadIdType DEF TypeInv, TypeOK, DiskOK, PcInv, flushtochunk, File
  <1>f. \A i \in ChunkIds : /\ files'[i].pts = files[i].pts
                            /\ files'[i].state # "none" => files[i].state # "none"
                            /\ files[i].state # "none" => files'[i].state # "none"
    <2>1. files[HeadId].state # "none"
      BY DEF TypeInv, PcInv, flushtochunk
    <2>2. files' = [files EXCEPT ![HeadId].state = "whole"] \/ files' = files
      BY DEF flushtochunk
    <2>3. CASE files' = files
      BY <2>3
    <2>4. CASE files' = [files EXCEPT ![HeadId].state = "whole"]
      BY <1>0, <2>1, <2>4 DEF TypeInv, TypeOK, DiskOK, File
    <2> QED
      BY <2>2, <2>3, <2>4
  <1>1. MemoryOK'
    BY AfterFlushType, SMTT(40) DEF TypeInv, TypeOK, MemoryOK, flushtochunk, PCs
  <1>2. DiskOK'
    BY <1>0 DEF TypeInv, TypeOK, DiskOK, flushtochunk
  <1>3. HistoryOK'
    BY DEF TypeInv, TypeOK, HistoryOK, flushtochunk, history
  <1>4. FlagsOK'
    BY Zenon DEF TypeInv, TypeOK, FlagsOK, flushtochunk
  <1>5. LockInv'
    BY AfterFlushType DEF TypeInv, TypeOK, MemoryOK, LockInv, flushtochunk, Critical, Threads
  <1>6. PcInv'
    BY <1>0, <1>f, AfterFlushType, ZenonT(40)
      DEF TypeInv, TypeOK, MemoryOK, DiskOK, LockInv, PcInv, HeadId, flushtochunk, Critical,
          Threads
  <1> QED
    BY <1>1, <1>2, <1>3, <1>4, <1>5, <1>6 DEF TypeInv, TypeOK

LEMMA headflush_registerTypeInv ==
  ASSUME TypeInv, NEW t \in Threads, headflush_register(t)
  PROVE  TypeInv'
  <1>0. [start_ts |-> head.pts[1].ts, end_ts |-> head.last, id |-> HeadId] \in ChunkMetadata
    BY HeadIdType
      DEF TypeInv, TypeOK, MemoryOK, PcInv, headflush_register, ChunkMetadata, Sent, NewMeta,
          EmptiedHead, HeadId
  <1>1. MemoryOK'
    BY <1>0, AppendProperties
      DEF TypeInv, TypeOK, MemoryOK, headflush_register, PCs, NewMeta, EmptiedHead, HeadId
  <1>2. DiskOK'
    BY DEF TypeInv, TypeOK, DiskOK, headflush_register, disk, NewMeta, EmptiedHead, HeadId
  <1>3. HistoryOK'
    BY DEF TypeInv, TypeOK, HistoryOK, headflush_register, history, NewMeta, EmptiedHead, HeadId
  <1>4. FlagsOK'
    BY Zenon
      DEF TypeInv, TypeOK, FlagsOK, headflush_register, disk, NewMeta, EmptiedHead, HeadId
  <1>5. LockInv'
    BY
      DEF TypeInv, TypeOK, MemoryOK, LockInv, headflush_register, Critical, Threads, NewMeta,
          EmptiedHead, HeadId
  <1>6. PcInv'
    BY
      DEF TypeInv, TypeOK, MemoryOK, DiskOK, LockInv, PcInv, HeadId, headflush_register,
          Critical, Threads, disk, NewMeta, EmptiedHead
  <1> QED
    BY <1>1, <1>2, <1>3, <1>4, <1>5, <1>6 DEF TypeInv, TypeOK

LEMMA headflush_truncateTypeInv ==
  ASSUME TypeInv, NEW t \in Threads, headflush_truncate(t)
  PROVE  TypeInv'
  <1>0. wal' \in Seq(Sent) /\ Len(wal') \in Nat
    <2>1. wal' = << >> \/ wal' = wal
      BY DEF headflush_truncate, wal_truncate
    <2>2. << >> \in Seq(Sent)
      BY EmptySeq
    <2>3. wal' \in Seq(Sent)
      BY <2>1, <2>2 DEF TypeInv, TypeOK, DiskOK
    <2> QED
      BY <2>3, LenProperties
  <1>1. MemoryOK'
    BY AfterFlushType DEF TypeInv, TypeOK, MemoryOK, headflush_truncate, PCs, wal_truncate
  <1>2. DiskOK'
    BY <1>0 DEF TypeInv, TypeOK, DiskOK, headflush_truncate, wal_truncate
  <1>3. HistoryOK'
    BY DEF TypeInv, TypeOK, HistoryOK, headflush_truncate, history, wal_truncate
  <1>4. FlagsOK'
    BY Zenon DEF TypeInv, TypeOK, FlagsOK, headflush_truncate, wal_truncate
  <1>5. LockInv'
    BY AfterFlushType
      DEF TypeInv, TypeOK, MemoryOK, LockInv, headflush_truncate, Critical, Threads,
          wal_truncate
  <1>6. PcInv'
    BY AfterFlushType
      DEF TypeInv, TypeOK, MemoryOK, DiskOK, LockInv, PcInv, HeadId, headflush_truncate,
          Critical, Threads, wal_truncate
  <1> QED
    BY <1>1, <1>2, <1>3, <1>4, <1>5, <1>6 DEF TypeInv, TypeOK

LEMMA cleanupRegistryTypeInv ==
  ASSUME TypeInv, cleanupRegistry
  PROVE  TypeInv'
  <1>1. MemoryOK'
    BY DEF TypeInv, TypeOK, MemoryOK, cleanupRegistry, PCs, Threads
  <1>2. DiskOK'
    BY DEF TypeInv, TypeOK, DiskOK, cleanupRegistry, disk
  <1>3. HistoryOK'
    BY DEF TypeInv, TypeOK, HistoryOK, cleanupRegistry
  <1>4. FlagsOK'
    BY Zenon DEF TypeInv, TypeOK, FlagsOK, cleanupRegistry, disk
  <1>5. LockInv'
    BY DEF TypeInv, TypeOK, MemoryOK, LockInv, cleanupRegistry, Critical, Threads
  <1>6. PcInv'
    BY
      DEF TypeInv, TypeOK, MemoryOK, DiskOK, LockInv, PcInv, HeadId, cleanupRegistry,
          Critical, Threads, disk
  <1> QED
    BY <1>1, <1>2, <1>3, <1>4, <1>5, <1>6 DEF TypeInv, TypeOK

LEMMA StopTypeInv ==
  ASSUME TypeInv, exitProcess \/ Crash \/ PowerLoss
  PROVE  TypeInv'
  <1>1. /\ Halt /\ UNCHANGED <<dir, wal, accepted, used, nput, nflush>>
        /\ nstop' \in 0 .. MaxStops
    BY DEF TypeInv, TypeOK, HistoryOK, exitProcess, Crash, PowerLoss, disk, history
  <1>2. /\ files' \in [ChunkIds -> File]
        /\ \A i \in ChunkIds : files'[i].pts = files[i].pts
              /\ (files'[i].state # "none" => files[i].state # "none")
        /\ dirty' \subseteq ChunkIds
    <2>1. CASE UNCHANGED disk
      BY <2>1 DEF TypeInv, TypeOK, DiskOK, disk
    <2>2. CASE PowerLoss
      <3>1. PICK lost \in SUBSET {i \in dirty : files[i].state = "whole"} :
              files' = [i \in ChunkIds |->
                          IF i \in lost THEN [files[i] EXCEPT !.state = "torn"] ELSE files[i]]
        BY <2>2 DEF PowerLoss
      <3>2. \A i \in ChunkIds : files[i] \in File
        BY DEF TypeInv, TypeOK, DiskOK
      <3> QED
        BY <2>2, <3>1, <3>2, ZenonT(40) DEF PowerLoss, File, TypeInv, TypeOK, DiskOK
    <2> QED
      BY <2>1, <2>2 DEF exitProcess, Crash, PowerLoss
  <1> QED
    BY <1>1, <1>2, HaltTypeInv DEF TypeInv, TypeOK, HistoryOK

LEMMA WritebackTypeInv ==
  ASSUME TypeInv, NEW i \in ChunkIds, Writeback(i)
  PROVE  TypeInv'
  <1>1. MemoryOK'
    BY DEF TypeInv, TypeOK, MemoryOK, Writeback, memory, history
  <1>2. DiskOK'
    BY DEF TypeInv, TypeOK, DiskOK, Writeback, memory, history
  <1>3. HistoryOK'
    BY DEF TypeInv, TypeOK, HistoryOK, Writeback, memory, history
  <1>4. FlagsOK'
    BY Zenon DEF TypeInv, TypeOK, FlagsOK, Writeback, memory, history
  <1>5. LockInv'
    BY DEF TypeInv, TypeOK, MemoryOK, LockInv, Writeback, memory, history, Critical, Threads
  <1>6. PcInv'
    BY
      DEF TypeInv, TypeOK, MemoryOK, DiskOK, LockInv, PcInv, HeadId, Writeback, memory,
          history, Critical, Threads
  <1> QED
    BY <1>1, <1>2, <1>3, <1>4, <1>5, <1>6 DEF TypeInv, TypeOK

LEMMA loadRegistryTypeInv ==
  ASSUME TypeInv, loadRegistry
  PROVE  TypeInv'
  <1>0. head' \in [pts : Seq(Sent), last : Int]
    <2>1. CASE UNCHANGED head
      BY <2>1 DEF TypeInv, TypeOK, MemoryOK
    <2>2. CASE \E g \in Garbage : head' = getNewHeadBlock(g)
      BY <2>2 DEF getNewHeadBlock
    <2> QED
      BY <2>1, <2>2 DEF loadRegistry
  <1>1. MemoryOK'
    BY <1>0 DEF TypeInv, TypeOK, MemoryOK, loadRegistry, getNewHeadBlock
  <1>2. DiskOK'
    BY DEF TypeInv, TypeOK, DiskOK, loadRegistry, getNewHeadBlock, disk
  <1>3. HistoryOK'
    BY DEF TypeInv, TypeOK, HistoryOK, loadRegistry, getNewHeadBlock, history
  <1>4. FlagsOK'
    BY Zenon DEF TypeInv, TypeOK, FlagsOK, loadRegistry, getNewHeadBlock, disk
  <1>5. LockInv'
    BY DEF TypeInv, TypeOK, MemoryOK, LockInv, loadRegistry, getNewHeadBlock, Critical, Threads
  <1>6. PcInv'
    BY
      DEF TypeInv, TypeOK, MemoryOK, DiskOK, LockInv, PcInv, HeadId, loadRegistry,
          getNewHeadBlock, Critical, Threads, disk
  <1> QED
    BY <1>1, <1>2, <1>3, <1>4, <1>5, <1>6 DEF TypeInv, TypeOK

LEMMA loadChunkMetadataTypeInv ==
  ASSUME TypeInv, NEW i \in ChunkIds, loadChunkMetadata(i)
  PROVE  TypeInv'
  <1>0. chunks' \in Seq(ChunkMetadata)
    <2> DEFINE pts == files[i].pts
    <2>1. CASE chunks' = chunks
      BY <2>1 DEF TypeInv, TypeOK, MemoryOK
    <2>2. CASE /\ files[i].state = "whole"
               /\ chunks' = Append(chunks, [start_ts |-> pts[1].ts,
                                            end_ts |-> pts[Len(pts)].ts,
                                            id |-> i])
      <3>1. pts \in Seq(Sent) /\ pts # << >>
        BY <2>2 DEF TypeInv, TypeOK, DiskOK, PcInv, File
      <3>2. pts[1] \in Sent /\ pts[Len(pts)] \in Sent
        BY <3>1, EmptySeq, ElementOfSeq
      <3> QED
        BY <2>2, <3>2, AppendProperties, ZenonT(40)
           DEF TypeInv, TypeOK, MemoryOK, ChunkMetadata, Sent
    <2> QED
      BY <2>1, <2>2 DEF loadChunkMetadata, LoadedMeta, LeftToLoad
  <1>1. MemoryOK'
    BY <1>0 DEF TypeInv, TypeOK, MemoryOK, loadChunkMetadata, LoadedMeta, LeftToLoad
  <1>2. DiskOK'
    BY DEF TypeInv, TypeOK, DiskOK, loadChunkMetadata, disk, LoadedMeta, LeftToLoad
  <1>3. HistoryOK'
    BY DEF TypeInv, TypeOK, HistoryOK, loadChunkMetadata, history, LoadedMeta, LeftToLoad
  <1>4. FlagsOK'
    BY Zenon DEF TypeInv, TypeOK, FlagsOK, loadChunkMetadata, disk, LoadedMeta, LeftToLoad
  <1>5. LockInv'
    BY
      DEF TypeInv, TypeOK, MemoryOK, LockInv, loadChunkMetadata, Critical, Threads,
          LoadedMeta, LeftToLoad
  <1>6. PcInv'
    BY
      DEF TypeInv, TypeOK, MemoryOK, DiskOK, LockInv, PcInv, HeadId, loadChunkMetadata,
          Critical, Threads, disk, LoadedMeta, LeftToLoad
  <1> QED
    BY <1>1, <1>2, <1>3, <1>4, <1>5, <1>6 DEF TypeInv, TypeOK

LEMMA wal_replayTypeInv ==
  ASSUME TypeInv, wal_replay
  PROVE  TypeInv'
  <1>0. head' \in [pts : Seq(Sent), last : Int]
    <2>1. head.pts \in Seq(Sent) /\ wal[rpos] \in Sent
      BY ElementOfSeq DEF TypeInv, TypeOK, MemoryOK, DiskOK, wal_replay, ReplaySkips
    <2>2. /\ Append(head.pts, wal[rpos]) \in Seq(Sent)
          /\ wal[rpos].ts \in Int
      BY <2>1, AppendFacts DEF Sent
    <2>3. head' = head \/ head' = PUT_value(head, wal[rpos])
      BY DEF wal_replay, ReplaySkips
    <2> QED
      BY <2>2, <2>3, SMTT(40) DEF TypeInv, TypeOK, MemoryOK, PUT_value
  <1>1. MemoryOK'
    BY <1>0 DEF TypeInv, TypeOK, MemoryOK, wal_replay, ReplaySkips
  <1>2. DiskOK'
    BY DEF TypeInv, TypeOK, DiskOK, wal_replay, disk, ReplaySkips
  <1>3. HistoryOK'
    BY DEF TypeInv, TypeOK, HistoryOK, wal_replay, history, ReplaySkips
  <1>4. FlagsOK'
    BY Zenon DEF TypeInv, TypeOK, FlagsOK, wal_replay, disk, ReplaySkips
  <1>5. LockInv'
    BY DEF TypeInv, TypeOK, MemoryOK, LockInv, wal_replay, Critical, Threads, ReplaySkips
  <1>6. PcInv'
    BY
      DEF TypeInv, TypeOK, MemoryOK, DiskOK, LockInv, PcInv, HeadId, wal_replay, Critical,
          Threads, disk, ReplaySkips
  <1> QED
    BY <1>1, <1>2, <1>3, <1>4, <1>5, <1>6 DEF TypeInv, TypeOK

LEMMA loadRegistry_doneTypeInv ==
  ASSUME TypeInv, loadRegistry_done
  PROVE  TypeInv'
  <1>1. MemoryOK'
    BY DEF TypeInv, TypeOK, MemoryOK, loadRegistry_done
  <1>2. DiskOK'
    BY DEF TypeInv, TypeOK, DiskOK, loadRegistry_done, disk
  <1>3. HistoryOK'
    BY DEF TypeInv, TypeOK, HistoryOK, loadRegistry_done, history
  <1>4. FlagsOK'
    BY Zenon DEF TypeInv, TypeOK, FlagsOK, loadRegistry_done, disk
  <1>5. LockInv'
    BY DEF TypeInv, TypeOK, MemoryOK, LockInv, loadRegistry_done, Critical, Threads
  <1>6. PcInv'
    BY
      DEF TypeInv, TypeOK, MemoryOK, DiskOK, LockInv, PcInv, HeadId, loadRegistry_done,
          Critical, Threads, disk
  <1> QED
    BY <1>1, <1>2, <1>3, <1>4, <1>5, <1>6 DEF TypeInv, TypeOK

LEMMA StutterTypeInv ==
  ASSUME TypeInv, UNCHANGED vars
  PROVE  TypeInv'
  <1>1. TypeOK'
    BY DEF TypeInv, TypeOK, MemoryOK, DiskOK, HistoryOK, FlagsOK, vars, memory, disk, history
  <1>2. LockInv' /\ PcInv'
    BY DEF TypeInv, LockInv, PcInv, HeadId, vars, memory, disk, history
  <1> QED
    BY <1>1, <1>2 DEF TypeInv

\* Which actions a step can be: the disjuncts of Next, one by one.
LEMMA Steps ==
  ASSUME [Next]_vars
  PROVE  \/ \E t \in Clients, ts \in Timestamps : Head_PUT_lookup(t, ts)
         \/ \E t \in Clients : headflush_lookup(t) \/ Head_PUT_try(t) \/ Head_PUT_log(t)
         \/ \E t \in Threads : \/ headflush_open(t) \/ flushtochunk(t)
                               \/ headflush_register(t) \/ headflush_truncate(t)
         \/ cleanupRegistry
         \/ exitProcess \/ Crash \/ PowerLoss
         \/ \E i \in ChunkIds : Writeback(i) \/ loadChunkMetadata(i)
         \/ loadRegistry \/ wal_replay \/ loadRegistry_done
         \/ UNCHANGED vars
  BY DEF Next, Request, Serve, Flush, Load, Quiescent, Threads

LEMMA NextTypeInv ==
  ASSUME TypeInv, [Next]_vars
  PROVE  TypeInv'
  BY Steps, Head_PUT_lookupTypeInv, Head_PUT_tryTypeInv, Head_PUT_logTypeInv,
     headflush_lookupTypeInv, headflush_openTypeInv, flushtochunkTypeInv,
     headflush_registerTypeInv, headflush_truncateTypeInv, cleanupRegistryTypeInv,
     StopTypeInv, WritebackTypeInv, loadRegistryTypeInv, loadChunkMetadataTypeInv,
     wal_replayTypeInv, loadRegistry_doneTypeInv, StutterTypeInv, Zenon

\* In every environment, whatever fails: the variables have their types, at
\* most one thread is between a lock and an unlock of head->lock, headflush
\* never reads timestamps[0] of an empty block, and a chunk file whose header
\* loadChunkMetadata reads holds at least one point.
THEOREM TypeCorrect == Spec => []TypeInv
  <1>1. Init => TypeInv
    BY InitTypeInv
  <1>2. TypeInv /\ [Next]_vars => TypeInv'
    BY NextTypeInv
  <1> QED
    BY <1>1, <1>2, PTL DEF Spec

\* Every variable keeps its type, whatever fails: in particular the chunk list
\* only names files of chunk ids, so that chunk ids never leave 32 bits.
COROLLARY TypeSafe == Spec => []TypeOK
  <1>1. TypeInv => TypeOK
    BY DEF TypeInv
  <1> QED
    BY <1>1, TypeCorrect, PTL

=============================================================================
