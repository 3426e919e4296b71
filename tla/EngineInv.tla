----------------------------- MODULE EngineInv ------------------------------
(***************************************************************************)
(* The inductive invariants of Engine: TypeInv in every environment, IInv  *)
(* in one where the log works, OnceInv in one without restarts.            *)
(***************************************************************************)
EXTENDS Engine

Critical == {"wal", "write", "register", "truncate"}

\* A thread is in a critical section exactly when it owns the lock.
LockInv ==
    /\ \A t \in Threads : pc[t] \in Critical <=> lock = t
    /\ proc # "up" => \A t \in Threads : pc[t] = "idle"

\* What a thread, or the loader, relies on where it stands.
PcInv ==
    /\ \A t \in Threads : pc[t] \in {"put", "reput", "wal"} => pt[t] # NoPoint
    /\ \A t \in Threads : pc[t] \in {"write", "register"} =>
         head.pts # << >> /\ files[HeadId].state # "none"
    /\ \A i \in ChunkIds : files[i].state # "none" => files[i].pts # << >>
    /\ ~ registered => \A t \in Threads : pc[t] \in {"idle", "exit"}
    /\ rpos <= Len(wal) + 1
    /\ proc # "load" => rpos = 1

TypeInv == TypeOK /\ LockInv /\ PcInv

-----------------------------------------------------------------------------
(***************************************************************************)
(* IInv holds where the log works.  Chunk files may still be cut short,    *)
(* unnoticed: then IInv is about all files, also those that no longer can  *)
(* be read, otherwise about the readable ones.                             *)
(***************************************************************************)
LogWorks ==
    /\ UniqueTimestamps
    /\ \A a, b \in Timestamps : ChunkId(a) = ChunkId(b) => a = b
    /\ \A g \in Garbage, ts \in Timestamps : g < ts
    /\ Failures \subseteq {"fopen_chunk", "fwrite_chunk", "fclose_chunk", "power"}

\* A chunk file may be cut short although flushtochunk has succeeded.
Lossy == Failures \cap {"fclose_chunk", "power"} # {}

Kept(i) == Whole(i) \/ (Lossy /\ files[i].state = "torn")

\* p is in the log or was written to a chunk file; without silent failures this
\* is Durable(p).
Stored(p) == p \in Range(wal) \/ \E i \in ChunkIds : Kept(i) /\ p \in FilePoints(i)

Sorted(pts) == \A j, k \in DOMAIN pts : j < k => pts[j].ts < pts[k].ts

\* The log and the block are sorted, and the log fits in a block.
SortedInv ==
    /\ Sorted(wal) /\ Len(wal) <= HEAD_CAPACITY
    /\ Sorted(head.pts) /\ Len(head.pts) <= HEAD_CAPACITY
    /\ head.pts # << >> => head.last = head.pts[Len(head.pts)].ts

\* How far the block and the log are apart, by what the lock's owner has done.
HeadInv ==
    /\ proc = "down" => head.pts = << >>
    /\ proc = "up" /\ lock = NoThread => head.pts = wal
    /\ \A t \in Threads :
         /\ pc[t] = "wal" => head.pts = Append(wal, pt[t])
         /\ pc[t] \in {"write", "register"} => head.pts = wal
         /\ pc[t] = "truncate" => head.pts = << >>

\* During recovery the block is the part of the log that has been read.
LoadInv ==
    proc = "load" =>
      /\ registered
      /\ Len(head.pts) = rpos - 1
      /\ \A j \in 1 .. rpos - 1 : head.pts[j] = wal[j]
      /\ rpos = 1 => head.last \in Garbage

\* A metric without an entry has no files; one without a directory neither.
DirInv ==
    /\ ~ dir => wal = << >> /\ \A i \in ChunkIds : ~ Kept(i)
    /\ proc = "up" /\ ~ registered => ~ dir /\ head.pts = << >>

HasMeta(i) == \E k \in DOMAIN chunks : chunks[k] = LoadedMeta(i)

\* A file is sorted and named after its first point; the registry knows it if it
\* can be read, unless a flush or the loader is about to add it.
FileInv ==
    \A i \in ChunkIds :
      /\ Kept(i) => Sorted(files[i].pts) /\ ChunkId(files[i].pts[1].ts) = i
      /\ Whole(i) =>
           /\ proc = "up" => HasMeta(i) \/ \E t \in Threads : pc[t] = "register" /\ i = HeadId
           /\ proc = "load" => HasMeta(i) \/ i \in unloaded

\* What a flush has done to its file, step by step.
FlushInv ==
    /\ \A t \in Threads :
         /\ pc[t] = "write" => files[HeadId] = [state |-> "torn", pts |-> head.pts]
         /\ pc[t] = "register" => Kept(HeadId) /\ files[HeadId].pts = head.pts
         /\ pc[t] = "truncate" => \E i \in ChunkIds : Kept(i) /\ files[i].pts = wal
    \* The file that the next flush truncates holds nothing but logged points.
    /\ wal # << >> /\ Kept(ChunkId(wal[1].ts)) =>
         FilePoints(ChunkId(wal[1].ts)) \subseteq Range(wal)

\* The timestamp of a PUT on its way is on no other point.
FreshInv ==
    /\ \A p \in Sent : Stored(p) => p.ts \in used
    /\ \A t \in Threads : pt[t] # NoPoint =>
         /\ pt[t].ts \in used
         /\ \A p \in Sent : Stored(p) => p.ts # pt[t].ts
         /\ \A u \in Threads \ {t} : pt[u] # NoPoint => pt[u].ts # pt[t].ts

\* An acknowledged point is on disk, or was.
AckedInv == \A p \in accepted : Stored(p)

RecoveryInv ==
    /\ SortedInv /\ HeadInv /\ LoadInv /\ DirInv
    /\ FileInv /\ FlushInv /\ FreshInv /\ AckedInv

\* The inductive invariant: where the log works it holds in every state,
\* between and inside the critical sections of Head_PUT and headflush and
\* during loadRegistry.
IInv == TypeInv /\ RecoveryInv

-----------------------------------------------------------------------------
(***************************************************************************)
(* While the server runs, nothing is stored twice: OnceInv, inductive with *)
(* TypeInv in an environment without restarts.  The log may fail, nobody   *)
(* reads it there.                                                         *)
(***************************************************************************)
NoRestart ==
    /\ MaxStops = 0
    /\ UniqueTimestamps
    /\ \A a, b \in Timestamps : ChunkId(a) = ChunkId(b) => a = b
    /\ "fclose_chunk" \notin Failures

\* Only a FLUSH of an unknown metric ends the process, and then nothing has been
\* stored.
RunInv ==
    /\ proc # "load" /\ pc[Main] = "idle"
    /\ proc = "down" => ~ registered
    /\ ~ registered => ~ dir /\ chunks = << >> /\ head.pts = << >> /\ accepted = {}

\* The registry describes its chunk files.
ListedInv ==
    \A k \in DOMAIN chunks :
      LET i == chunks[k].id IN
      /\ Whole(i) /\ chunks[k] = LoadedMeta(i)
      /\ Sorted(files[i].pts) /\ ChunkId(files[i].pts[1].ts) = i

BlockInv ==
    /\ Sorted(head.pts)
    /\ head.pts # << >> => head.last = head.pts[Len(head.pts)].ts
    /\ \A t \in Threads :
         /\ pc[t] = "wal" => pt[t] \in Range(head.pts)
         /\ pc[t] = "write" => files[HeadId] = [state |-> "torn", pts |-> head.pts]
         /\ pc[t] = "register" => files[HeadId] = [state |-> "whole", pts |-> head.pts]

\* The timestamps in the block and in a listed chunk.
HeadTimes == {p.ts : p \in Range(head.pts)}
ChunkTimes(k) == {p.ts : p \in FilePoints(chunks[k].id)}

\* No timestamp is in two places: the block, the listed chunks, the PUTs on
\* their way.
ApartInv ==
    /\ HeadTimes \subseteq used
    /\ \A k \in DOMAIN chunks :
         /\ ChunkTimes(k) \subseteq used /\ ChunkTimes(k) \cap HeadTimes = {}
         /\ \A j \in DOMAIN chunks \ {k} : ChunkTimes(j) \cap ChunkTimes(k) = {}
    /\ \A t \in Threads : pt[t] # NoPoint =>
         /\ pt[t].ts \in used
         /\ pc[t] # "wal" => pt[t].ts \notin HeadTimes
         /\ \A k \in DOMAIN chunks : pt[t].ts \notin ChunkTimes(k)
         /\ \A u \in Threads \ {t} : pt[u] # NoPoint => pt[u].ts # pt[t].ts

\* An acknowledged point is in one of them.
PlacedInv ==
    \A p \in accepted :
      p \in Range(head.pts) \/ \E k \in DOMAIN chunks : p \in FilePoints(chunks[k].id)

OnceInv == RunInv /\ ListedInv /\ BlockInv /\ ApartInv /\ PlacedInv
=============================================================================
