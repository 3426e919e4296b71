------------------------------- MODULE Engine -------------------------------
(***************************************************************************)
(* The write path and the recovery path of the storage engine, for one     *)
(* metric: Head_PUT, headflush, the write-ahead log, the chunk files, the  *)
(* registry's chunk list, loadRegistry at start and cleanupRegistry at     *)
(* shutdown (registry.c, head.c, flush.c, chunk.c, wal.c, server.c).       *)
(*                                                                         *)
(* Client threads run concurrently and share the head block under          *)
(* head->lock; the process can be killed between any two steps.  A step    *)
(* ends where another thread or a crash could see the difference: at a     *)
(* lock operation, at a change of a file, at a change of the chunk list    *)
(* (which readers scan without a lock).                                    *)
(***************************************************************************)
EXTENDS HeadBlock, Functions

CONSTANTS
    Clients,            \* the handler threads that serve PUT and FLUSH
    Main,               \* the main thread, which runs cleanupRegistry
    NoThread,           \* owner of a free lock
    Timestamps,         \* timestamps that clients send
    ChunkIdMod,         \* 2^32: a chunk id is the first timestamp as uint32_t
    Garbage,            \* what malloc may leave in lastTimestamp
    UniqueTimestamps,   \* TRUE: clients send one point per timestamp
    Failures,           \* the I/O failures that may happen
    MaxPuts, MaxFlushes, MaxStops   \* bounds: PUTs, FLUSHes, crashes + shutdowns

FailureKinds ==
    {"fopen_wal", "fopen_chunk", "fwrite_chunk", "fclose_chunk", "remove_wal", "power"}

ASSUME EngineAssumption ==
    /\ Main \notin Clients
    /\ NoThread \notin Clients \cup {Main}
    /\ Timestamps \subseteq Int
    /\ ChunkIdMod \in Nat \ {0}
    /\ Garbage \subseteq Int
    /\ UniqueTimestamps \in BOOLEAN
    /\ Failures \subseteq FailureKinds
    /\ MaxPuts \in Nat /\ MaxFlushes \in Nat /\ MaxStops \in Nat

\* Every delta fits the 14 bits of the timestamp code, so a chunk decodes to
\* the points it was built from; TimestampCodec is about the others.
ASSUME EncodableAssumption ==
    \A a, b \in Timestamps : a - b \in -8192 .. 8191

Threads == Clients \cup {Main}

ChunkId_narrow(ts) == ts % 2                    \* mutant: kept in a narrower integer
ChunkId(ts) == ts % ChunkIdMod
ChunkIds == {ChunkId(ts) : ts \in Timestamps}

\* The points that clients send; PUTs are numbered from 1.
Sent == [ts : Timestamps, val : 1 .. MaxPuts]
NoPoint == [ts |-> 0, val |-> 0]

\* A chunk file.  Only a "whole" one passes chunkread; a "torn" one has been
\* truncated by fopen or is short, and pts is what it was to hold.
NoFile == [state |-> "none", pts |-> << >>]
File == [state : {"none", "torn", "whole"}, pts : Seq(Sent)]

\* ChunkMetadata: the bounds and the file name, which the chunk id decides.
ChunkMetadata == [start_ts : Int, end_ts : Int, id : ChunkIds]

VARIABLES
    \* process memory
    proc,           \* "down", "load" (in loadRegistry) or "up"
    registered,     \* the metric has an entry in the hash table
    head,           \* entry->head
    chunks,         \* entry->chunks[0 .. chunkCount-1]
    lock,           \* owner of head->lock
    pc,             \* where each thread is
    pt,             \* the point a thread's PUT carries, else NoPoint
    unloaded,       \* loadRegistry: chunk files readdir has not returned yet
    rpos,           \* wal_replay: number of the next record to read
    \* disk
    dir,            \* the metric's directory exists
    wal,            \* the records of wal.log (a missing file has none)
    files,          \* chunk files by chunk id
    dirty,          \* chunk files the kernel has not written back
    \* history and bounds
    accepted,       \* points whose Head_PUT returned true
    used,           \* timestamps sent so far
    nput, nflush, nstop

memory == <<proc, registered, head, chunks, lock, pc, pt, unloaded, rpos>>
disk == <<dir, wal, files, dirty>>
history == <<accepted, used, nput, nflush, nstop>>
vars == <<memory, disk, history>>

PCs == {"idle", "put", "wal", "flush", "reput", "write", "register", "truncate", "exit"}

MemoryOK ==
    /\ proc \in {"down", "load", "up"}
    /\ head \in [pts : Seq(Sent), last : Int]
    /\ chunks \in Seq(ChunkMetadata)
    /\ lock \in Threads \cup {NoThread}
    /\ pc \in [Threads -> PCs]
    /\ pt \in [Threads -> Sent \cup {NoPoint}]
    /\ unloaded \subseteq ChunkIds
    /\ rpos \in Nat \ {0}

DiskOK ==
    /\ wal \in Seq(Sent)
    /\ files \in [ChunkIds -> File]
    /\ dirty \subseteq ChunkIds

HistoryOK ==
    /\ accepted \subseteq Sent
    /\ used \subseteq Timestamps
    /\ nput \in 0 .. MaxPuts /\ nflush \in 0 .. MaxFlushes /\ nstop \in 0 .. MaxStops

FlagsOK == registered \in BOOLEAN /\ dir \in BOOLEAN

TypeOK == MemoryOK /\ DiskOK /\ HistoryOK /\ FlagsOK

Init ==
    /\ proc = "down"
    /\ registered = FALSE
    /\ head = getNewHeadBlock(0)
    /\ chunks = << >>
    /\ lock = NoThread
    /\ pc = [t \in Threads |-> "idle"]
    /\ pt = [t \in Threads |-> NoPoint]
    /\ unloaded = {}
    /\ rpos = 1
    /\ dir = FALSE
    /\ wal = << >>
    /\ files = [i \in ChunkIds |-> NoFile]
    /\ dirty = {}
    /\ accepted = {}
    /\ used = {}
    /\ nput = 0 /\ nflush = 0 /\ nstop = 0

-----------------------------------------------------------------------------
(***************************************************************************)
(* Head_PUT.                                                               *)
(***************************************************************************)

\* Under registry_lock: find the metric, or create it with an empty block.
Head_PUT_lookup(t, ts) ==
    /\ proc = "up" /\ pc[t] = "idle" /\ nput < MaxPuts
    /\ UniqueTimestamps => ts \notin used
    /\ nput' = nput + 1
    /\ used' = used \cup {ts}
    /\ pt' = [pt EXCEPT ![t] = [ts |-> ts, val |-> nput']]
    /\ pc' = [pc EXCEPT ![t] = "put"]
    /\ registered' = TRUE
    /\ \/ registered /\ head' = head
       \/ ~ registered /\ \E g \in Garbage : head' = getNewHeadBlock(g)
    /\ UNCHANGED <<proc, chunks, lock, unloaded, rpos, disk, accepted, nflush, nstop>>

\* Lock the head and try PUT_value.  Accepted: keep the lock until the point
\* is in the log.  Refused by a full block the first time: unlock and flush.
\* Refused otherwise: return false, which handlePUT's caller ignores.
Head_PUT_try(t) ==
    /\ pc[t] \in {"put", "reput"} /\ lock = NoThread
    /\ \/ /\ PUT_accepts(head, pt[t])
          /\ head' = PUT_value(head, pt[t])
          /\ lock' = t
          /\ pc' = [pc EXCEPT ![t] = "wal"]
          /\ pt' = pt
       \/ /\ ~ PUT_accepts(head, pt[t])
          /\ pc[t] = "put" /\ IsFull(head)
          /\ pc' = [pc EXCEPT ![t] = "flush"]
          /\ UNCHANGED <<head, lock, pt>>
       \/ /\ ~ PUT_accepts(head, pt[t])
          /\ ~ (pc[t] = "put" /\ IsFull(head))
          /\ pc' = [pc EXCEPT ![t] = "idle"]
          /\ pt' = [pt EXCEPT ![t] = NoPoint]
          /\ UNCHANGED <<head, lock>>
    /\ UNCHANGED <<proc, registered, chunks, unloaded, rpos, disk, history>>

\* The log with one record more.
wal_append_none(log, p) == log                  \* mutant: the record is not written
wal_append(log, p) == Append(log, p)

\* wal_append and unlock.  A log that cannot be opened (or flushed) is not reported: the
\* PUT still returns true.
Head_PUT_log(t) ==
    /\ pc[t] = "wal"
    /\ dir' = TRUE
    /\ \/ wal' = wal_append(wal, pt[t])
       \/ "fopen_wal" \in Failures /\ wal' = wal
    /\ accepted' = accepted \cup {pt[t]}
    /\ lock' = NoThread
    /\ pc' = [pc EXCEPT ![t] = "idle"]
    /\ pt' = [pt EXCEPT ![t] = NoPoint]
    /\ UNCHANGED <<proc, registered, head, chunks, unloaded, rpos, files, dirty,
                   used, nput, nflush, nstop>>

-----------------------------------------------------------------------------
(***************************************************************************)
(* The process stops: memory is gone, files stay.                          *)
(***************************************************************************)
Halt ==
    /\ proc' = "down"
    /\ registered' = FALSE
    /\ head' = getNewHeadBlock(0)
    /\ chunks' = << >>
    /\ lock' = NoThread
    /\ pc' = [t \in Threads |-> "idle"]
    /\ pt' = [t \in Threads |-> NoPoint]
    /\ unloaded' = {}
    /\ rpos' = 1

(***************************************************************************)
(* headflush, called by FLUSH, by a PUT that met a full block, and by      *)
(* cleanupRegistry.                                                        *)
(***************************************************************************)

\* A FLUSH request: the lookup under registry_lock.  For an unknown metric
\* getMetricFromHashTable dereferences NULL and the process dies.
headflush_lookup(t) ==
    /\ proc = "up" /\ pc[t] = "idle" /\ nflush < MaxFlushes
    /\ nflush' = nflush + 1
    /\ \/ /\ registered
          /\ pc' = [pc EXCEPT ![t] = "flush"]
          /\ UNCHANGED <<proc, registered, head, chunks, lock, pt, unloaded, rpos>>
       \/ ~ registered /\ Halt
    /\ UNCHANGED <<disk, accepted, used, nput, nstop>>

\* Where a thread goes on when headflush returns.
AfterFlush_stuck(t) ==                          \* mutant: cleanupRegistry does not advance
    IF t = Main THEN "flush" ELSE IF pt[t] = NoPoint THEN "idle" ELSE "reput"
AfterFlush_again(t) ==                          \* mutant: PUT retries as often as it likes
    IF t = Main THEN "exit" ELSE IF pt[t] = NoPoint THEN "idle" ELSE "put"
AfterFlush(t) ==
    IF t = Main THEN "exit" ELSE IF pt[t] = NoPoint THEN "idle" ELSE "reput"

HeadId == ChunkId(head.pts[1].ts)

\* Lock the head; an empty block is done.  Otherwise make the directory and
\* open the chunk file, which truncates it (or fails: unlock, return false).
headflush_open(t) ==
    /\ pc[t] = "flush" /\ lock = NoThread
    /\ \/ /\ head.pts = << >>
          /\ pc' = [pc EXCEPT ![t] = AfterFlush(t)]
          /\ UNCHANGED <<lock, dir, files, dirty>>
       \/ /\ head.pts # << >>
          /\ dir' = TRUE
          /\ lock' = t
          /\ files' = [files EXCEPT ![HeadId] = [state |-> "torn", pts |-> head.pts]]
          /\ dirty' = dirty \ {HeadId}
          /\ pc' = [pc EXCEPT ![t] = "write"]
       \/ /\ head.pts # << >> /\ "fopen_chunk" \in Failures
          /\ dir' = TRUE
          /\ pc' = [pc EXCEPT ![t] = AfterFlush(t)]
          /\ UNCHANGED <<lock, files, dirty>>
    /\ UNCHANGED <<proc, registered, head, chunks, pt, unloaded, rpos, wal, history>>

\* flushtochunk writes header and payload.  A short fwrite is reported: unlock
\* and return false.  A failure when fclose writes the buffer is not.
flushtochunk(t) ==
    /\ pc[t] = "write"
    /\ \/ /\ files' = [files EXCEPT ![HeadId].state = "whole"]
          /\ dirty' = dirty \cup {HeadId}
          /\ pc' = [pc EXCEPT ![t] = "register"]
          /\ lock' = lock
       \/ /\ "fwrite_chunk" \in Failures
          /\ pc' = [pc EXCEPT ![t] = AfterFlush(t)]
          /\ lock' = NoThread
          /\ UNCHANGED <<files, dirty>>
       \/ /\ "fclose_chunk" \in Failures
          /\ pc' = [pc EXCEPT ![t] = "register"]
          /\ UNCHANGED <<files, dirty, lock>>
    /\ UNCHANGED <<proc, registered, head, chunks, pt, unloaded, rpos, dir, wal, history>>

\* The metadata of the chunk, and the block afterwards.
NewMeta_uncut(h) ==                             \* mutant: the id is not cut to 32 bits
    [start_ts |-> h.pts[1].ts, end_ts |-> h.last, id |-> h.pts[1].ts]
NewMeta_start(h) ==                             \* mutant: the end is not stored
    [start_ts |-> h.pts[1].ts, end_ts |-> h.pts[1].ts, id |-> ChunkId(h.pts[1].ts)]
NewMeta(h) == [start_ts |-> h.pts[1].ts, end_ts |-> h.last, id |-> ChunkId(h.pts[1].ts)]

EmptiedHead_kept(h) == h                        \* mutant: size is not reset
EmptiedHead(h) == [pts |-> << >>, last |-> 0]

\* Append the chunk's metadata to the registry and empty the block.
headflush_register(t) ==
    /\ pc[t] = "register"
    /\ chunks' = Append(chunks, NewMeta(head))
    /\ head' = EmptiedHead(head)
    /\ pc' = [pc EXCEPT ![t] = "truncate"]
    /\ UNCHANGED <<proc, registered, lock, pt, unloaded, rpos, disk, history>>

\* The log after its file is removed.
wal_truncate_kept(log) == log                   \* mutant: the file is not removed
wal_truncate(log) == << >>

\* wal_truncate (whose failure is only printed) and unlock.
headflush_truncate(t) ==
    /\ pc[t] = "truncate"
    /\ \/ wal' = wal_truncate(wal)
       \/ "remove_wal" \in Failures /\ wal' = wal
    /\ lock' = NoThread
    /\ pc' = [pc EXCEPT ![t] = AfterFlush(t)]
    /\ UNCHANGED <<proc, registered, head, chunks, pt, unloaded, rpos,
                   dir, files, dirty, history>>

-----------------------------------------------------------------------------
(***************************************************************************)
(* Shutdown and crashes.                                                   *)
(***************************************************************************)

\* SIGINT/SIGTERM: the accept loop ends and the main thread enters
\* cleanupRegistry.  Client threads are detached and keep running.
cleanupRegistry ==
    /\ proc = "up" /\ pc[Main] = "idle" /\ nstop < MaxStops
    /\ nstop' = nstop + 1
    /\ pc' = [pc EXCEPT ![Main] =
                 IF registered /\ Len(head.pts) > 0 THEN "flush" ELSE "exit"]
    /\ UNCHANGED <<proc, registered, head, chunks, lock, pt, unloaded, rpos, disk,
                   accepted, used, nput, nflush>>

\* The registry is freed, main returns and the process ends.
exitProcess ==
    /\ pc[Main] = "exit"
    /\ Halt
    /\ UNCHANGED <<disk, history>>

\* The process is killed.
Crash ==
    /\ proc # "down" /\ nstop < MaxStops
    /\ nstop' = nstop + 1
    /\ Halt
    /\ UNCHANGED <<disk, accepted, used, nput, nflush>>

\* The machine loses power: chunk files are never fsynced, so any of those
\* not yet written back may be left short.
PowerLoss ==
    /\ "power" \in Failures
    /\ proc # "down" /\ nstop < MaxStops
    /\ nstop' = nstop + 1
    /\ Halt
    /\ \E lost \in SUBSET {i \in dirty : files[i].state = "whole"} :
         files' = [i \in ChunkIds |->
                     IF i \in lost THEN [files[i] EXCEPT !.state = "torn"] ELSE files[i]]
    /\ dirty' = {}
    /\ UNCHANGED <<dir, wal, accepted, used, nput, nflush>>

\* The kernel writes a chunk file back.
Writeback(i) ==
    /\ "power" \in Failures
    /\ i \in dirty
    /\ dirty' = dirty \ {i}
    /\ UNCHANGED <<memory, dir, wal, files, history>>

-----------------------------------------------------------------------------
(***************************************************************************)
(* Start: loadRegistry.                                                    *)
(***************************************************************************)

\* A metric directory gets an entry with a new head block.
loadRegistry ==
    /\ proc = "down"
    /\ \/ /\ dir
          /\ proc' = "load"
          /\ registered' = TRUE
          /\ \E g \in Garbage : head' = getNewHeadBlock(g)
          /\ unloaded' = {i \in ChunkIds : files[i].state # "none"}
       \/ /\ ~ dir
          /\ proc' = "up"
          /\ UNCHANGED <<registered, head, unloaded>>
    /\ UNCHANGED <<chunks, lock, pc, pt, rpos, disk, history>>

\* The metadata that the header of file i gives.
LoadedMeta_start(i) ==                          \* mutant: the end is not read
    [start_ts |-> files[i].pts[1].ts, end_ts |-> files[i].pts[1].ts, id |-> i]
LoadedMeta(i) == [start_ts |-> files[i].pts[1].ts,
                  end_ts |-> files[i].pts[Len(files[i].pts)].ts,
                  id |-> i]

\* The files that are left once file i has been read.
LeftToLoad_retry(i) ==                          \* mutant: an unreadable file is read again
    IF files[i].state = "whole" THEN unloaded \ {i} ELSE unloaded
LeftToLoad(i) == unloaded \ {i}

\* readdir returns chunk files in any order; one that chunkread refuses is
\* left out of the registry.
loadChunkMetadata(i) ==
    /\ proc = "load" /\ i \in unloaded
    /\ unloaded' = LeftToLoad(i)
    /\ chunks' = IF files[i].state = "whole" THEN Append(chunks, LoadedMeta(i)) ELSE chunks
    /\ UNCHANGED <<proc, registered, head, lock, pc, pt, rpos, disk, history>>

\* wal_replay takes a record for one that a chunk already covers.
ReplaySkips_wide(p, h) == p.ts <= h.last + 1    \* mutant: off by one
ReplaySkips(p, h) == p.ts <= h.last

\* One iteration of wal_replay: a record that is not skipped goes through
\* PUT_value, whose refusal is not an error.
wal_replay ==
    /\ proc = "load" /\ unloaded = {} /\ rpos <= Len(wal)
    /\ rpos' = rpos + 1
    /\ head' = IF ~ ReplaySkips(wal[rpos], head) /\ PUT_accepts(head, wal[rpos])
               THEN PUT_value(head, wal[rpos])
               ELSE head
    /\ UNCHANGED <<proc, registered, chunks, lock, pc, pt, unloaded, disk, history>>

\* End of the log: the accept loop starts.
loadRegistry_done ==
    /\ proc = "load" /\ unloaded = {} /\ rpos = Len(wal) + 1
    /\ proc' = "up"
    /\ rpos' = 1
    /\ UNCHANGED <<registered, head, chunks, lock, pc, pt, unloaded, disk, history>>

-----------------------------------------------------------------------------
\* A running server that waits for requests.
Quiescent ==
    /\ proc = "up" /\ \A t \in Threads : pc[t] = "idle"
    /\ UNCHANGED vars

Flush(t) ==
    \/ headflush_open(t) \/ flushtochunk(t)
    \/ headflush_register(t) \/ headflush_truncate(t)

\* The steps of a request that has been received.
Serve(t) == Head_PUT_try(t) \/ Head_PUT_log(t) \/ Flush(t)

Request(t) == headflush_lookup(t) \/ \E ts \in Timestamps : Head_PUT_lookup(t, ts)

Load == wal_replay \/ loadRegistry_done \/ \E i \in ChunkIds : loadChunkMetadata(i)

Next ==
    \/ \E t \in Clients : Request(t) \/ Serve(t)
    \/ Flush(Main) \/ cleanupRegistry \/ exitProcess
    \/ Crash \/ PowerLoss \/ \E i \in ChunkIds : Writeback(i)
    \/ loadRegistry \/ Load
    \/ Quiescent

Spec == Init /\ [][Next]_vars

\* The scheduler runs every thread that can run; pthread mutexes promise no
\* more than that.  Requests, signals and crashes are not promised.
Fairness ==
    /\ \A t \in Clients : WF_vars(Serve(t))
    /\ WF_vars(Flush(Main)) /\ WF_vars(exitProcess)
    /\ WF_vars(loadRegistry) /\ WF_vars(Load)

FairSpec == Spec /\ Fairness

-----------------------------------------------------------------------------
(***************************************************************************)
(* Properties.                                                             *)
(***************************************************************************)

Whole(i) == files[i].state = "whole"
FilePoints(i) == Range(files[i].pts)

\* p survives a kill of the process.
Durable(p) == p \in Range(wal) \/ \E i \in ChunkIds : Whole(i) /\ p \in FilePoints(i)

\* A scan for p's timestamp reaches p in chunk k: the bounds in the registry
\* let it through, and the file is readable and holds it.
InChunk(p, k) ==
    LET c == chunks[k] IN
    /\ c.start_ts <= p.ts /\ p.ts <= c.end_ts
    /\ Whole(c.id) /\ p \in FilePoints(c.id)

\* A query for p's timestamp finds p.
Visible(p) == p \in Range(head.pts) \/ \E k \in DOMAIN chunks : InChunk(p, k)

DurablePoints == {p \in Sent : Durable(p)}
VisiblePoints == {p \in Sent : proc = "up" /\ Visible(p)}

\* The environment in which the engine keeps its promise: clients never repeat
\* a timestamp, distinct timestamps give distinct chunk files, what malloc
\* leaves in lastTimestamp is older than all of them, and only failures that
\* headflush notices happen.
Benign ==
    /\ UniqueTimestamps
    /\ \A a, b \in Timestamps : ChunkId(a) = ChunkId(b) => a = b
    /\ \A g \in Garbage, ts \in Timestamps : g < ts
    /\ Failures \subseteq {"fopen_chunk", "fwrite_chunk"}

\* A point whose PUT returned true can be found whenever the server is up,
\* through flushes that truncate and rewrite chunk files, crashes at any step
\* and recovery from chunk files and log (Head_PUT, headflush, loadRegistry).
NoAckedLoss == proc = "up" => \A p \in accepted : Visible(p)

\* Between two critical sections the log holds exactly the head block, record
\* by record and in order: this is what lets headflush remove the log after
\* the flush and lets wal_replay rebuild the block.
WalMirrorsHead == proc = "up" /\ lock = NoThread => wal = head.pts

\* A readable chunk file is truncated only while the log still holds each of
\* its points, so that a kill before the rewrite loses nothing (headflush
\* opens the file with "wb"; wal_truncate comes after the write).
OverwriteProtected ==
    [][\A i \in ChunkIds : Whole(i) /\ files'[i].state # "whole"
                              => FilePoints(i) \subseteq Range(wal)]_vars

\* The engine implements the abstract series, whatever is flushed, killed and
\* reloaded.
Abstract == INSTANCE Series WITH
    Points <- Sent,
    stored <- DurablePoints,
    open <- proc = "up",
    view <- VisiblePoints

\* The refinement as a property: durable points are never dropped, a restart
\* shows exactly the durable points, and a query sees at most one point that
\* is not durable yet (Head_PUT holds head->lock from PUT_value to wal_append).
ImplementsSeries == Abstract!SeriesSpec

\* How often a scan over everything returns p.
Occurrences(p) ==
    Cardinality({k \in DOMAIN chunks : InChunk(p, k)})
        + Cardinality({j \in DOMAIN head.pts : head.pts[j] = p})

\* As long as the process is not restarted, an acknowledged point is stored once:
\* a PUT that meets a full block, flushes and tries again puts it once, and
\* headflush empties the block exactly when it registers the chunk, also after
\* flushes that failed half-way and with a log that was not removed.
ExactlyOnce == proc = "up" => \A p \in accepted : Occurrences(p) = 1

\* As long as the log works, what is lost was in a chunk file that was left
\* short: a silent fclose failure, or a power loss before it was written back.
LossOnlyInTornChunk ==
    proc = "up" =>
      \A p \in accepted :
        Visible(p) \/ \E i \in ChunkIds : files[i].state = "torn" /\ p \in FilePoints(i)

\* Every request ends, whoever holds the lock and whichever call of headflush
\* fails: no path leaves head->lock held.
RequestsFinish == \A t \in Clients : pc[t] # "idle" ~> pc[t] = "idle"

\* A shutdown ends although detached clients still contend for the lock.
ShutdownFinishes == pc[Main] # "idle" ~> proc = "down"

\* A start ends with the server up or with another crash.
LoadFinishes == proc = "load" ~> proc # "load"

-----------------------------------------------------------------------------
(***************************************************************************)
(* What the documents say of the program and the code does not do.         *)
(***************************************************************************)

\* wal.h:12-13: replay skips records "so a partial WAL that overlaps an
\* already-flushed chunk does not produce duplicates" - no acknowledged point is
\* stored twice, also after a restart.
NoDuplicates == proc = "up" => \A p \in accepted : Occurrences(p) <= 1

\* README.md:84: the head block is "Automatically flushed to disk periodically" -
\* a point in the block eventually leaves it, without a request.
PeriodicFlush == head.pts # << >> ~> head.pts = << >>

\* README.md:88: a chunk is an "Immutable compressed storage unit".
ChunksImmutable ==
    [][\A i \in ChunkIds : Whole(i) => files'[i] = files[i]]_vars

\* design.pdf 1.2: "Out-of-order PUTs are rejected" - an accepted point is not
\* older than one that was accepted before it.
OutOfOrderRejected ==
    [][\A p \in accepted' \ accepted : \A q \in accepted : q.ts <= p.ts]_vars

\* registry.c:474-477 returns false for a metric that does not exist: a
\* request never ends the process; only a signal or a shutdown does.
RequestsDoNotKill ==
    [][proc = "up" /\ proc' = "down" => pc[Main] = "exit" \/ nstop' > nstop]_vars

\* design.pdf 3.1: cleanupRegistry "flushes all dirty head blocks to disk
\* before freeing memory".
ShutdownFlushes ==
    [][pc[Main] = "exit" /\ proc' = "down" /\ nstop' = nstop => head.pts = << >>]_vars

=============================================================================
