----------------------------- MODULE Downsample ------------------------------
(***************************************************************************)
(* Downsampling of one metric and what becomes of it: the background       *)
(* thread that turns old raw chunks into chunks of one-minute averages,    *)
(* the directory <metric>_1m it writes to, the .done markers, restarts,    *)
(* and the branch of Head_AGG that reads the averages (downsample.c,       *)
(* registry.c).                                                            *)
(*                                                                         *)
(* At the next start every directory is loaded as a metric, <metric>_1m    *)
(* too, and is downsampled itself: level 0 is the metric, level l+1 the    *)
(* coarse directory of level l.  A point has a timestamp and the set of    *)
(* client points it averages.  Changes of the chunk list are one step:     *)
(* Retention is about their races.  A raw chunk file is written in one     *)
(* step: Engine is about its crashes.                                      *)
(*                                                                         *)
(* A file keeps the points that were encoded; a reader gets what the       *)
(* decoder makes of them (Decoded).  Timestamps are below Horizon, so that *)
(* no delta of deltas needs more than 32 bits.                             *)
(***************************************************************************)
EXTENDS Integers, Sequences, FiniteSets, Functions

CONSTANTS
    Minute,         \* COARSE_BUCKET_SECONDS
    After,          \* DOWNSAMPLE_AFTER_SECONDS
    Blocks,         \* sequences of timestamps: the blocks that are flushed
    Retained,       \* age at which retention deletes a raw chunk
    Times,          \* readings of the clock
    W14,            \* values of the field of the first delta of a chunk: 2^14
    IntRange,       \* values of an int: 2^32
    Horizon,        \* timestamps are smaller: 2^31 - 60
    MaxLevel,       \* bound: levels of directories
    MaxFlushes, MaxCrashes, MaxFails    \* bounds: flushes, crashes, failures of malloc and fopen

ASSUME DownsampleAssumption ==
    /\ Minute \in Nat \ {0} /\ After \in Nat /\ Retained \in Nat
    /\ Blocks \subseteq Seq(Nat) /\ << >> \notin Blocks
    /\ \A b \in Blocks : \A i, j \in DOMAIN b : i <= j => b[i] <= b[j]
    /\ Horizon \in Nat /\ \A b \in Blocks : \A i \in DOMAIN b : b[i] < Horizon
    /\ W14 \in Nat \ {0} /\ W14 % 2 = 0
    /\ IntRange \in Nat \ {0} /\ Horizon + Minute <= IntRange \div 2
    /\ Times \subseteq Nat /\ 0 \in Times
    /\ MaxFlushes \in Nat /\ MaxCrashes \in Nat /\ MaxLevel \in Nat /\ MaxLevel > MaxCrashes
    /\ MaxFails \in Nat

Levels == 0 .. MaxLevel

\* The start of the minute of ts.
Align_up(ts) == ((ts + Minute - 1) \div Minute) * Minute    \* mutant: rounds up
Align(ts) == (ts \div Minute) * Minute

\* A chunk is named after its first timestamp.
Starts == {b[1] : b \in Blocks} \cup {Align(b[1]) : b \in Blocks}
NoFile == [state |-> "none", pts |-> << >>]

VARIABLES
    proc,       \* "up", "stop" (downsample_stop) or "down"
    order,      \* the metrics (levels) in the registry, in the order of HASH_ITER
    chunks,     \* chunk list of each level: start_ts and end_ts
    ds,         \* the downsampling thread
    dirs,       \* levels whose directory exists
    files,      \* files[l][s]: chunk file of level l that starts at s
    done,       \* markers: <<l, id>> says that chunk id of level l is done
    now,
    \* history
    read,       \* read[l][id]: what the file held when the chunk was last read
    failed,     \* <<l, id>> for which no coarse file was written
    nflush, ncrash, nfail

counts == <<nflush, ncrash, nfail>>
vars == <<proc, order, chunks, ds, dirs, files, done, now, read, failed, counts>>

\* The loop of write_coarse_chunk: k points are behind it; the open bucket starts at
\* start and has the points src; out: the buckets in out_ts and out_val, [ts, src].
NoBuckets == [k |-> 0, start |-> 0, src |-> {}, out |-> << >>]

Asleep == [pc |-> "sleep", m |-> 0, i |-> 0, cutoff |-> 0, id |-> 0, pts |-> << >>, b |-> NoBuckets]

Init ==
    /\ proc = "up"
    /\ order = << >>
    /\ chunks = [l \in Levels |-> << >>]
    /\ ds = Asleep
    /\ dirs = {}
    /\ files = [l \in Levels |-> [s \in Starts |-> NoFile]]
    /\ done = {}
    /\ now = 0
    /\ read = [l \in Levels |-> [s \in Starts |-> << >>]]
    /\ failed = {}
    /\ nflush = 0 /\ ncrash = 0 /\ nfail = 0

-----------------------------------------------------------------------------
(***************************************************************************)
(* The timestamps that a reader of a chunk gets (timestamp.c; see Drift in *)
(* TimestampCodec).                                                        *)
(***************************************************************************)

\* The first delta is cut to 14 bits and sign-extended.  The delta that the decoder
\* goes on with is too small by Shift, at every point.
Field14(d) == LET u == d % W14 IN IF u >= W14 \div 2 THEN u - W14 ELSE u
Shift(pts) ==
    IF Len(pts) < 2 THEN 0
    ELSE (pts[2].ts - pts[1].ts) - Field14(pts[2].ts - pts[1].ts)
Decoded(pts) == [k \in DOMAIN pts |-> [pts[k] EXCEPT !.ts = @ - (k - 1) * Shift(pts)]]

-----------------------------------------------------------------------------
(***************************************************************************)
(* write_coarse_chunk.                                                     *)
(***************************************************************************)

\* The first bucket.
FirstBucket(pts) == [NoBuckets EXCEPT !.start = Align(pts[1].ts)]

\* The open bucket goes to the arrays.
Closed(b) == Append(b.out, [ts |-> b.start, src |-> b.src])

\* One point: the buckets that end before it are closed, then it is added.
AddPoint_kept(b, p) ==                          \* mutant: sum and count are not reset
    IF p.ts < b.start + Minute THEN [b EXCEPT !.k = @ + 1, !.src = @ \cup p.src]
    ELSE [k |-> b.k + 1, start |-> Align(p.ts), src |-> b.src \cup p.src, out |-> Closed(b)]
AddPoint(b, p) ==
    IF p.ts < b.start + Minute THEN [b EXCEPT !.k = @ + 1, !.src = @ \cup p.src]
    ELSE [k |-> b.k + 1, start |-> Align(p.ts), src |-> p.src, out |-> Closed(b)]

\* Division in C, and the conversion of a long to int.
CDiv(a, m) == IF a >= 0 THEN a \div m ELSE -((-a) \div m)
AsInt(x) == LET u == x % IntRange IN IF u >= IntRange \div 2 THEN u - IntRange ELSE u

\* The size of the arrays they are collected in.
max_buckets_tight(pts) ==                       \* mutant: without the last +1
    AsInt(CDiv(pts[Len(pts)].ts - pts[1].ts + Minute, Minute))
max_buckets(pts) == AsInt(CDiv(pts[Len(pts)].ts - pts[1].ts + Minute, Minute)) + 1

-----------------------------------------------------------------------------
(***************************************************************************)
(* The thread.  It holds registry_lock except while it reads and writes    *)
(* files ("read", "alloc", "bucket", "open", "write", "mark").             *)
(***************************************************************************)

Level == order[ds.m]

\* Five minutes are over.
downsample_thread ==
    /\ proc = "up" /\ ds.pc = "sleep"
    /\ ds' = [Asleep EXCEPT !.pc = "chunk", !.m = 1, !.i = 1, !.cutoff = now - After]
    /\ UNCHANGED <<proc, order, chunks, dirs, files, done, now, read, failed, counts>>

\* A chunk is left for this pass, or for ever.
Skip_ordered(c) ==          \* mutant: expects the list to be in order of time
    \/ \E k \in 1 .. ds.i : chunks[Level][k].end_ts >= ds.cutoff
    \/ <<Level, c.start_ts>> \in done
Skip(c) == c.end_ts >= ds.cutoff \/ <<Level, c.start_ts>> \in done

\* The loops over metrics and chunks, under the lock, up to the next chunk that
\* is to be downsampled: its directory is made and the lock dropped.
downsample_metric ==
    /\ ds.pc = "chunk"
    /\ \/ /\ ds.m > Len(order)
          /\ ds' = Asleep
          /\ UNCHANGED dirs
       \/ /\ ds.m <= Len(order) /\ ds.i > Len(chunks[Level])
          /\ ds' = [ds EXCEPT !.m = @ + 1, !.i = 1, !.cutoff = now - After]
          /\ UNCHANGED dirs
       \/ /\ ds.m <= Len(order) /\ ds.i <= Len(chunks[Level])
          /\ Skip(chunks[Level][ds.i])
          /\ ds' = [ds EXCEPT !.i = @ + 1]
          /\ UNCHANGED dirs
       \/ /\ ds.m <= Len(order) /\ ds.i <= Len(chunks[Level])
          /\ ~ Skip(chunks[Level][ds.i])
          /\ Level < MaxLevel
          /\ dirs' = dirs \cup {Level + 1}
          /\ ds' = [ds EXCEPT !.pc = "read", !.id = chunks[Level][ds.i].start_ts]
    /\ UNCHANGED <<proc, order, chunks, files, done, now, read, failed, counts>>

\* Lock again and go on behind the index, whatever has become of the list.
NextChunk == [ds EXCEPT !.pc = "chunk", !.i = @ + 1, !.id = 0, !.pts = << >>, !.b = NoBuckets]

\* The client points behind the points of a chunk.
Sources(pts) == UNION {p.src : p \in Range(pts)}

\* A call of malloc or fopen fails.
Fails == nfail < MaxFails /\ nfail' = nfail + 1

\* decompress_all; a file that is gone, or too large for malloc, is left alone.
decompress_all ==
    /\ ds.pc = "read"
    /\ LET f == files[Level][ds.id] IN
       \/ /\ f.state = "whole"
          /\ ds' = [ds EXCEPT !.pc = "alloc", !.pts = Decoded(f.pts)]
          /\ read' = [read EXCEPT ![Level][ds.id] = f.pts]
          /\ UNCHANGED nfail
       \/ /\ IF f.state = "whole" THEN Fails ELSE UNCHANGED nfail
          /\ ds' = NextChunk
          /\ read' = read
    /\ UNCHANGED <<proc, order, chunks, dirs, files, done, now, failed, nflush, ncrash>>

\* No coarse file is written for the chunk, and the caller does not know.
NoCoarse ==
    /\ failed' = failed \cup {<<Level, ds.id>>}
    /\ ds' = [ds EXCEPT !.pc = "mark"]

\* The arrays for the averages.  malloc fails for a negative number of buckets and
\* may fail for another; it returns a pointer for none at all.
allocate ==
    /\ ds.pc = "alloc"
    /\ \/ /\ max_buckets(ds.pts) >= 0
          /\ ds' = [ds EXCEPT !.pc = "bucket", !.b = FirstBucket(ds.pts)]
          /\ UNCHANGED <<failed, nfail>>
       \/ max_buckets(ds.pts) < 0 /\ NoCoarse /\ UNCHANGED nfail
       \/ max_buckets(ds.pts) >= 0 /\ NoCoarse /\ Fails
    /\ UNCHANGED <<proc, order, chunks, dirs, files, done, now, read, nflush, ncrash>>

\* The loop over the points, and the last bucket.
average ==
    /\ ds.pc = "bucket"
    /\ \/ /\ ds.b.k < Len(ds.pts)
          /\ ds' = [ds EXCEPT !.b = AddPoint(@, ds.pts[@.k + 1])]
       \/ /\ ds.b.k = Len(ds.pts)
          /\ ds' = [ds EXCEPT !.pc = "open", !.b = [@ EXCEPT !.out = Closed(ds.b)]]
    /\ UNCHANGED <<proc, order, chunks, dirs, files, done, now, read, failed, counts>>

CoarseName == ds.b.out[1].ts

\* flushtochunk opens the coarse file, which truncates it, and writes it.  A
\* failure of either is not reported to the caller.
write_coarse_open ==
    /\ ds.pc = "open"
    /\ \/ /\ files' = [files EXCEPT ![Level + 1][CoarseName] = [state |-> "torn", pts |-> << >>]]
          /\ ds' = [ds EXCEPT !.pc = "write"]
          /\ UNCHANGED <<failed, nfail>>
       \/ NoCoarse /\ Fails /\ UNCHANGED files
    /\ UNCHANGED <<proc, order, chunks, dirs, done, now, read, nflush, ncrash>>

write_coarse_chunk ==
    /\ ds.pc = "write"
    /\ \/ /\ files' = [files EXCEPT ![Level + 1][CoarseName] =
                         [state |-> "whole", pts |-> ds.b.out]]
          /\ ds' = [ds EXCEPT !.pc = "mark"]
          /\ UNCHANGED <<failed, nfail>>
       \/ NoCoarse /\ Fails /\ UNCHANGED files
    /\ UNCHANGED <<proc, order, chunks, dirs, done, now, read, nflush, ncrash>>

\* fopen makes the marker, or fails and leaves the chunk to the next pass.
create_marker ==
    /\ ds.pc = "mark"
    /\ \/ done' = done \cup {<<Level, ds.id>>} /\ UNCHANGED nfail
       \/ Fails /\ UNCHANGED done
    /\ ds' = NextChunk
    /\ UNCHANGED <<proc, order, chunks, dirs, files, now, read, failed, nflush, ncrash>>

-----------------------------------------------------------------------------
(***************************************************************************)
(* The rest of the server.                                                 *)
(***************************************************************************)

\* A block of the metric becomes a chunk.  Point k of flush n is [n, k, ts, of], of
\* the first timestamp of its block.
headflush(b) ==
    /\ proc # "down" /\ nflush < MaxFlushes
    /\ nflush' = nflush + 1
    /\ dirs' = dirs \cup {0}
    /\ order' = IF 0 \in Range(order) THEN order ELSE Append(order, 0)
    /\ chunks' = [chunks EXCEPT ![0] = Append(@, [start_ts |-> b[1], end_ts |-> b[Len(b)]])]
    /\ files' = [files EXCEPT ![0][b[1]] =
         [state |-> "whole",
          pts |-> [k \in DOMAIN b |->
                     [ts |-> b[k], src |-> {[n |-> nflush', k |-> k, ts |-> b[k], of |-> b[1]]}]]]]
    /\ UNCHANGED <<proc, ds, done, now, read, failed, ncrash, nfail>>

\* A chunk list without its i-th entry.
Without(list, i) == [k \in 1 .. Len(list) - 1 |-> IF k < i THEN list[k] ELSE list[k + 1]]

\* Retention deletes a raw chunk while it can have registry_lock.
expire_chunk(i) ==
    /\ proc = "up" /\ ds.pc # "chunk"
    /\ chunks[0][i].end_ts < now - Retained
    /\ files' = [files EXCEPT ![0][chunks[0][i].start_ts] = NoFile]
    /\ chunks' = [chunks EXCEPT ![0] = Without(@, i)]
    /\ UNCHANGED <<proc, order, ds, dirs, done, now, read, failed, counts>>

Tick(t) ==
    /\ now < t
    /\ now' = t
    /\ UNCHANGED <<proc, order, chunks, ds, dirs, files, done, read, failed, counts>>

\* Shutdown: g_stop is set and the main thread waits in pthread_join.  The thread
\* finishes its pass and does not wake again; client threads still run.
downsample_stop ==
    /\ proc = "up" /\ ncrash < MaxCrashes
    /\ proc' = "stop"
    /\ UNCHANGED <<order, chunks, ds, dirs, files, done, now, read, failed, counts>>

\* The process ends, killed or after the join.
Crash ==
    /\ proc # "down" /\ ncrash < MaxCrashes
    /\ ncrash' = ncrash + 1
    /\ proc' = "down"
    /\ order' = << >>
    /\ chunks' = [l \in Levels |-> << >>]
    /\ ds' = Asleep
    /\ UNCHANGED <<dirs, files, done, now, read, failed, nflush, nfail>>

\* The orders in which readdir may name the members of S.
Listings(S) == Injection(1 .. Cardinality(S), S)

\* The chunk list that the readable files of level l give.
Whole(l) == {s \in Starts : files[l][s].state = "whole"}
Meta(l, s) == [start_ts |-> s, end_ts |-> files[l][s].pts[Len(files[l][s].pts)].ts]
Loaded(l) == {[k \in DOMAIN q |-> Meta(l, q[k])] : q \in Listings(Whole(l))}

\* loadRegistry: every directory becomes a metric.
loadRegistry ==
    /\ proc = "down"
    /\ proc' = "up"
    /\ order' \in Listings(dirs)
    /\ \E lists \in [Levels -> UNION {Loaded(l) : l \in Levels}] :
         (\A l \in Levels : lists[l] \in Loaded(l)) /\ chunks' = lists
    /\ UNCHANGED <<ds, dirs, files, done, now, read, failed, counts>>

Waiting == proc = "up" /\ UNCHANGED vars

Work ==
    \/ downsample_metric \/ decompress_all \/ allocate \/ average
    \/ write_coarse_open \/ write_coarse_chunk \/ create_marker

Next ==
    \/ downsample_thread \/ Work
    \/ \E b \in Blocks : headflush(b)
    \/ \E i \in DOMAIN chunks[0] : expire_chunk(i)
    \/ \E t \in Times : Tick(t)
    \/ downsample_stop \/ Crash \/ loadRegistry \/ Waiting

Spec == Init /\ [][Next]_vars

\* The thread wakes again and again and runs when it can.
FairSpec ==
    Spec /\ WF_vars(downsample_thread) /\ WF_vars(Work) /\ WF_vars(loadRegistry)

-----------------------------------------------------------------------------
(***************************************************************************)
(* Head_AGG on coarse data, and the properties.                            *)
(***************************************************************************)

\* Head_AGG takes the coarse branch for a long range in large buckets as soon as
\* the coarse directory exists.
downsample_should_use(from, to, bucket) ==
    to - from >= After /\ bucket >= Minute /\ 1 \in dirs

\* The client points behind the averages that it collects: all readable files of
\* the directory, and of these the averages with ts in [from, to).
CoarsePoints(l) == UNION {Range(Decoded(files[l][s].pts)) : s \in Whole(l)}
CoarseAnswer(from, to) ==
    UNION {p.src : p \in {q \in CoarsePoints(1) : from <= q.ts /\ q.ts < to}}

InRange(ps, from, to) == {p \in ps : from <= p.ts /\ p.ts < to}

\* The coarse file of a chunk is its own: no chunk that begins in the same
\* minute has been downsampled, and no write failed.
Undisturbed(id) ==
    /\ \A o \in Starts : o # id /\ Align(o) = Align(id) => read[0][o] = << >>
    /\ \A o \in Starts : Align(o) = Align(id) => <<0, o>> \notin failed

\* The first two points of a chunk are less than half a field apart: less than
\* 8192 seconds.
Fits14(pts) == Len(pts) >= 2 => pts[2].ts - pts[1].ts < W14 \div 2

\* In ranges of whole minutes, for each chunk that is marked done, a coarse AGG
\* counts the points that the thread read from it and no others, although
\* the thread has worked without the lock and may have been killed between file
\* and marker.  Excepted are: chunks that begin in the same minute, which share a
\* coarse file; chunks for which no coarse file was written, which are marked all the
\* same; and chunks of which the raw or the coarse file decodes shifted, because
\* its first two points are too far apart.
CoarseAggExact ==
    \A id \in Starts : \A from, to \in {Align(s) : s \in Starts} \cup {Minute * 100} :
      /\ <<0, id>> \in done /\ Undisturbed(id)
      /\ Fits14(read[0][id]) /\ Fits14(files[1][Align(id)].pts)
      => InRange(Sources(read[0][id]), from, to)
           = CoarseAnswer(from, to) \cap Sources(read[0][id])

\* No client point is averaged twice in one directory, whatever is repeated
\* after a crash: a chunk that is downsampled again replaces its coarse file,
\* also where the chunk is itself one of averages (loadRegistry makes the coarse
\* directories metrics).
CountedOnce ==
    \A l \in Levels \ {0} : \A p, q \in CoarsePoints(l) : p # q => p.src \cap q.src = {}

\* The averages of a chunk fit the arrays that write_coarse_chunk allocates, if the
\* timestamps that it gets end with the latest one.
BucketsFit ==
    ds.pc \in {"bucket", "open"} /\ (\A k \in DOMAIN ds.pts : ds.pts[k].ts <= ds.pts[Len(ds.pts)].ts)
      => Len(ds.b.out) <= max_buckets(ds.pts)

\* downsample.c:131: max_buckets is an "Upper-bound on number of buckets".
BucketsBounded == ds.pc \in {"bucket", "open"} => Len(ds.b.out) <= max_buckets(ds.pts)

\* A raw chunk that is old enough is marked, or leaves the list, even if
\* retention shifts the list while the lock is dropped and the thread passes
\* over an entry, or the marker could not be made.
OldGetsMarked ==
    \A id \in Starts :
      (\E k \in DOMAIN chunks[0] : chunks[0][k].start_ts = id /\ chunks[0][k].end_ts < now - After)
        ~> (<<0, id>> \in done \/ files[0][id].state = "none" \/ proc # "up")

\* downsample.h:14-19: Head_AGG is to "read coarse chunks for the old portion of
\* the range (end_ts < now - 3600) and raw chunks + head block for the recent
\* portion" - an answer counts every point in the range of a recent chunk.
RecentCounted ==
    \A from, to \in Times, k \in DOMAIN chunks[0] :
      downsample_should_use(from, to, Minute) /\ chunks[0][k].end_ts >= now - After =>
        InRange(Sources(files[0][chunks[0][k].start_ts].pts), from, to)
          \subseteq CoarseAnswer(from, to)
=============================================================================
