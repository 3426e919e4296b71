------------------------------- MODULE Query --------------------------------
(***************************************************************************)
(* The read path over the engine: Head_GET, Head_AGG on raw chunks and     *)
(* Head_STATS (registry.c), run by client threads of their own.            *)
(*                                                                         *)
(* GET and AGG walk entry->chunks without any lock, one chunk per step,    *)
(* and then lock the head block and read it; STATS reads the block first   *)
(* and the chunk list afterwards.  Flushes run in between.  Formatting is  *)
(* left out; Aggregate is what AGG computes from the points it collects.   *)
(***************************************************************************)
EXTENDS Engine

CONSTANTS
    Readers,        \* client threads that serve GET, AGG and STATS
    Ranges          \* <<from, to>> pairs that they ask for

ASSUME QueryAssumption ==
    /\ Readers \cap (Threads \cup {NoThread}) = {}
    /\ Ranges \subseteq Int \X Int

VARIABLE reader     \* the local variables of each reader

\* got: the points collected, in order; body: the points whose text the reply
\* contains; first, last, size: what STATS reports; known: ghost, the points
\* accepted when the request came; moved: ghost, a chunk was registered
\* between the end of the scan and the lock of the head.
Reader(pc_, kind, range) ==
    [pc |-> pc_, kind |-> kind, from |-> range[1], to |-> range[2], i |-> 1,
     got |-> << >>, body |-> << >>, first |-> -1, last |-> -1, size |-> 0, known |-> accepted,
     len |-> 0, moved |-> FALSE]

NoReader == [Reader("idle", "GET", <<0, 0>>) EXCEPT !.known = {}]

queryVars == <<vars, reader>>

QueryInit == Init /\ reader = [r \in Readers |-> NoReader]

-----------------------------------------------------------------------------
\* A reader serves one request.  The lookup is under registry_lock; a metric
\* without an entry has no points: GET returns NULL, AGG "(0 buckets)", STATS
\* "Metric not found".  AGG refuses an empty range before that.
Query_lookup(r, kind, range) ==
    /\ proc = "up" /\ reader[r].pc = "idle"
    /\ kind = "AGG" => range[1] < range[2]
    /\ reader' = [reader EXCEPT ![r] =
                    Reader(IF ~ registered THEN "reply"
                           ELSE IF kind = "STATS" THEN "head" ELSE "scan", kind, range)]

\* The metadata lets the scan through: GET compares with <=, AGG with <.
Overlaps_tight(q, c) ==     \* mutant: the chunk that ends where the range starts is left out
    /\ c.start_ts < q.to /\ c.end_ts > q.from
Overlaps(q, c) ==
    /\ IF q.kind = "GET" THEN c.start_ts <= q.to ELSE c.start_ts < q.to
    /\ c.end_ts >= q.from

\* The scan goes on to the next chunk.
Advance_stuck(q) == q       \* mutant: `continue' before the increment
Advance(q) == [q EXCEPT !.i = @ + 1]

\* What decoding a readable chunk, and reading the block, adds to the answer.
ChunkPoints(q, c) == Select(files[c.id].pts, q.from, q.to)
HeadPoints(q) == GET_value(head, q.from, q.to)

\* One iteration of the loop over entry->chunks.  GET passes over a file that
\* cannot be read; AGG gives up with "ERR disk read".
Scan_chunk(r) ==
    LET q == reader[r]
        c == chunks[q.i]
    IN /\ q.pc = "scan" /\ q.i <= Len(chunks)
       /\ \/ /\ ~ Overlaps(q, c)
             /\ reader' = [reader EXCEPT ![r] = Advance(q)]
          \/ /\ Overlaps(q, c) /\ files[c.id].state = "whole"
             /\ reader' = [reader EXCEPT ![r] = [Advance(q) EXCEPT !.got = @ \o ChunkPoints(q, c)]]
          \/ /\ Overlaps(q, c) /\ files[c.id].state # "whole" /\ q.kind = "GET"
             /\ reader' = [reader EXCEPT ![r] = Advance(q)]
          \/ /\ Overlaps(q, c) /\ files[c.id].state # "whole" /\ q.kind = "AGG"
             /\ reader' = [reader EXCEPT ![r].pc = "error"]

\* The loop reads chunkCount once more and ends.
Scan_end(r) ==
    /\ reader[r].pc = "scan" /\ reader[r].i > Len(chunks)
    /\ reader' = [reader EXCEPT ![r].pc = "head", ![r].len = Len(chunks)]

\* GET and AGG lock the head and add its points.  AGG aggregates them all.  GET
\* appends their text but not their length: the footer is written over it.
Head_read_unlocked(r) ==    \* mutant: without head->lock
    LET q == reader[r]
        got == q.got \o HeadPoints(q)
    IN /\ q.pc = "head" /\ q.kind # "STATS"
       /\ reader' = [reader EXCEPT ![r].pc = "reply", ![r].got = got,
                                   ![r].body = IF q.kind = "GET" THEN q.got ELSE got,
                                   ![r].moved = Len(chunks) # q.len]
Head_read(r) ==
    LET q == reader[r]
        got == q.got \o HeadPoints(q)
    IN /\ q.pc = "head" /\ q.kind # "STATS" /\ lock = NoThread
       /\ reader' = [reader EXCEPT ![r].pc = "reply", ![r].got = got,
                                   ![r].body = IF q.kind = "GET" THEN q.got ELSE got,
                                   ![r].moved = Len(chunks) # q.len]

\* STATS: size and bounds of the block, under its lock, and then, without a
\* lock, chunkCount and the bounds of the chunks.  A disk value wins for the first
\* timestamp, a block value for the last; -1 means that there is none.
Stats_swapped(r) ==         \* mutant: the chunks before the block
    LET q == reader[r] IN
    \/ /\ q.pc = "head" /\ q.kind = "STATS"
       /\ reader' = [reader EXCEPT ![r] = [q EXCEPT !.pc = "chunks", !.len = Len(chunks),
                        !.first = IF chunks = << >> THEN -1 ELSE chunks[1].start_ts,
                        !.last = IF chunks = << >> THEN -1 ELSE chunks[Len(chunks)].end_ts]]
    \/ /\ q.pc = "chunks" /\ lock = NoThread
       /\ reader' = [reader EXCEPT ![r] = [q EXCEPT !.pc = "reply", !.size = Len(head.pts),
                        !.first = IF @ = -1 /\ head.pts # << >> THEN head.pts[1].ts ELSE @,
                        !.last = IF head.pts # << >> THEN head.last ELSE @]]
Stats(r) ==
    LET q == reader[r] IN
    \/ /\ q.pc = "head" /\ q.kind = "STATS" /\ lock = NoThread
       /\ reader' = [reader EXCEPT ![r] = [q EXCEPT !.pc = "chunks", !.size = Len(head.pts),
                        !.first = IF head.pts = << >> THEN -1 ELSE head.pts[1].ts,
                        !.last = IF head.pts = << >> THEN -1 ELSE head.last]]
    \/ /\ q.pc = "chunks"
       /\ reader' = [reader EXCEPT ![r] = [q EXCEPT !.pc = "reply", !.len = Len(chunks),
                        !.first = IF chunks # << >> THEN chunks[1].start_ts ELSE @,
                        !.last = IF @ = -1 /\ chunks # << >>
                                 THEN chunks[Len(chunks)].end_ts ELSE @]]

ReadStep(r) == Scan_chunk(r) \/ Scan_end(r) \/ Head_read(r) \/ Stats(r)

Read(r) ==
    \/ \E kind \in {"GET", "AGG", "STATS"}, range \in Ranges : Query_lookup(r, kind, range)
    \/ ReadStep(r)

\* A step of the engine; when the process ends so do the readers.
Write == Next /\ reader' = IF proc' = "down" THEN [r \in Readers |-> NoReader] ELSE reader

QueryNext == Write \/ (UNCHANGED vars /\ \E r \in Readers : Read(r))

QuerySpec == QueryInit /\ [][QueryNext]_queryVars

\* The scheduler runs every thread of the server that can run.
FairQuerySpec ==
    /\ QuerySpec
    /\ \A t \in Clients : WF_queryVars(Write /\ Serve(t))
    /\ WF_queryVars(Write /\ Flush(Main))
    /\ \A r \in Readers : WF_queryVars(UNCHANGED vars /\ ReadStep(r))

-----------------------------------------------------------------------------
(***************************************************************************)
(* Properties.                                                             *)
(***************************************************************************)

Got(r) == Range(reader[r].got)
Asked(r) == {p \in reader[r].known : InRange(p, reader[r].from, reader[r].to)}
Answered(r, kinds) == reader[r].pc = "reply" /\ reader[r].kind \in kinds

\* A reply contains only points whose PUT has been logged: Head_PUT keeps
\* head->lock from PUT_value until wal_append has returned, and a reader cannot
\* see the point in between.
ReadsCommitted == \A r \in Readers : Got(r) \subseteq accepted

\* A query returns every point of its range that was accepted before it began,
\* unless a flush registered a chunk between the end of its scan and the lock
\* of the head: the one window that the unlocked scan leaves open.
CompleteUnlessMoved ==
    \A r \in Readers :
      Answered(r, {"GET", "AGG"}) /\ ~ reader[r].moved => Asked(r) \subseteq Got(r)

\* A query never counts a point twice, although flushes move points from the
\* block to the chunk list while it runs (headflush changes both before it
\* unlocks, and the scan comes before the block).
NoDoubleRead ==
    \A r \in Readers : \A j, k \in DOMAIN reader[r].got :
      reader[r].got[j] = reader[r].got[k] => j = k

\* STATS never reports "N/A" for a metric that had points when it was asked,
\* however flushes move them: it reads the block before the chunk list.
StatsSeesData ==
    \A r \in Readers :
      Answered(r, {"STATS"}) /\ reader[r].known # {} =>
        /\ reader[r].first # -1 /\ reader[r].last # -1
        /\ reader[r].size > 0 \/ reader[r].len > 0

\* A query ends although flushes lengthen the list it walks and contend for the
\* head: the scan reads chunkCount again in every iteration.
QueriesFinish ==
    \A r \in Readers :
      reader[r].pc \in {"scan", "head", "chunks"} ~> reader[r].pc \in {"reply", "error", "idle"}

\* README.md:103: "Thread-safe registry access with mutex locks" - a query
\* returns every point of its range that was accepted before it began.
QueryComplete ==
    \A r \in Readers : Answered(r, {"GET", "AGG"}) => Asked(r) \subseteq Got(r)

\* design.pdf 4.5.1, GET: "The head block is then scanned linearly for in-range
\* points. The merged string is returned to the client." - the text of a reply has
\* a line for each point that its footer counts.
BodyMatchesCount ==
    \A r \in Readers : Answered(r, {"GET"}) => Len(reader[r].body) = Len(reader[r].got)
=============================================================================
