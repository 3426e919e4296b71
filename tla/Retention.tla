------------------------------ MODULE Retention ------------------------------
(***************************************************************************)
(* The chunk list of one metric (entry->chunks, chunkCount, chunkCapacity) *)
(* and the three parties that use it: headflush appends under head->lock,  *)
(* the retention thread deletes under registry_lock, and queries walk it   *)
(* under no lock (registry.c, retention.c).  No lock is common to the      *)
(* first two, so a step ends at each access to chunkCount, to the pointer  *)
(* entry->chunks and to the array: `chunkCount++' and `chunkCount--' are a *)
(* load and a store, each field of an entry is stored by a step of its own *)
(* that reads chunkCount again, and a pointer is loaded in one step and    *)
(* used in a later one.                                                    *)
(*                                                                         *)
(* realloc frees the array before headflush stores the new pointer.  A     *)
(* thread that still uses the old pointer then works on freed memory: it   *)
(* reads what was there or anything else, what it writes is kept (the      *)
(* array has grown in place) or lost, or the access faults.                *)
(*                                                                         *)
(* A chunk has a number, its bounds, and a file named after start_ts.      *)
(* Array slots are numbered from 0, as in C.                               *)
(***************************************************************************)
EXTENDS Integers, Sequences, FiniteSets

CONSTANTS
    Bounds,             \* <<start_ts, end_ts>> of the blocks that are flushed
    Metric,             \* the metric
    Specs,              \* <<metric, seconds>> pairs given with --retention
    RETENTION_MAX_RULES,
    InitialCapacity,    \* 4
    CapRange,           \* 2^16: chunkCapacity is an int16_t
    Times,              \* readings of the clock
    MaxChunks, MaxScans     \* bounds: flushes, queries

ASSUME RetentionAssumption ==
    /\ Bounds \subseteq Nat \X Nat
    /\ \A s \in Specs : s[2] \in Int
    /\ RETENTION_MAX_RULES \in Nat
    /\ InitialCapacity \in Nat \ {0}
    /\ CapRange \in Nat /\ InitialCapacity < CapRange \div 2
    /\ Times \subseteq Nat /\ 0 \in Times
    /\ MaxChunks \in Nat /\ MaxScans \in Nat

Starts == {b[1] : b \in Bounds}
Chunk == [start_ts : Starts, end_ts : {b[2] : b \in Bounds}]

\* An entry of the array: the bounds, and the number of the chunk whose file
\* name it holds.  Unset is memory nobody has written.
Slot == [n : 0 .. MaxChunks, start_ts : Starts \cup {0}, end_ts : {b[2] : b \in Bounds} \cup {0}]
Unset == [n |-> 0, start_ts |-> 0, end_ts |-> 0]

VARIABLES
    mem, count, \* entry->chunks and entry->chunkCount
    files,      \* number of the chunk that each file holds, 0 for no file
    fl,         \* the thread that runs headflush: at most one, it holds head->lock
    ret,        \* the retention thread
    rules,      \* g_cfg
    scan,       \* a query
    proc,       \* "args", "up", "stop" (retention_stop), "died" or "fault"
    now,        \* time(NULL)
    \* history
    flushed,    \* the chunks whose files have been written, by number
    expired,    \* numbers of the chunks that expire_chunk has removed
    raced,      \* headflush and the retention thread have met in the list
    nscan

list == <<mem, count>>
history == <<flushed, expired, nscan>>
vars == <<list, files, fl, ret, rules, scan, proc, now, history, raced>>

Capacity == Cardinality(DOMAIN mem)

\* headflush has looked at chunkCount and not yet stored the new one.
Appending(pc) == pc \in {"realloc", "publish", "start_ts", "end_ts", "filename", "inc", "incw"}

\* expire_chunk has taken its pointer and not yet stored the new chunkCount.
Deleting(pc) == pc \in {"remove", "tail", "chunks", "move", "dec", "decw"}

\* The retention thread has registry_lock.
Walking(pc) == pc \in {"check", "read", "expire"} \/ Deleting(pc)

\* The array at a pointer that was loaded when it had this size has been freed.
Stale(at) == at # Capacity \/ fl.pc = "publish"

RetentionTypeOK ==
    /\ mem \in [0 .. Capacity - 1 -> Slot]
    /\ count \in Nat
    /\ files \in [Starts -> 0 .. MaxChunks]
    /\ fl \in [pc : {"idle", "grow", "realloc", "publish", "start_ts", "end_ts",
                     "filename", "inc", "incw"},
               n : 0 .. MaxChunks, k : Nat, c : Nat]
    /\ ret \in [pc : {"off", "sleep", "check", "read", "expire", "remove", "tail",
                      "chunks", "move", "dec", "decw", "joined"},
                i : Int, cutoff : Int, at : Nat, c : Nat]
    /\ rules \in Seq(Specs)
    /\ proc \in {"args", "up", "stop", "died", "fault"}
    /\ now \in Times
    /\ flushed \in Seq(Chunk) /\ Len(flushed) <= MaxChunks
    /\ expired \subseteq 1 .. MaxChunks
    /\ raced \in BOOLEAN

NoFlush == [pc |-> "idle", n |-> 0, k |-> 0, c |-> 0]
NoScan == [pc |-> "idle", i |-> 0, at |-> 0, old |-> Unset, got |-> << >>,
           known |-> {}, disturbed |-> FALSE]

RetentionInit ==
    /\ mem = [k \in 0 .. InitialCapacity - 1 |-> Unset]
    /\ count = 0
    /\ files = [s \in Starts |-> 0]
    /\ fl = NoFlush
    /\ ret = [pc |-> "off", i |-> -1, cutoff |-> 0, at |-> 0, c |-> 0]
    /\ rules = << >>
    /\ scan = NoScan
    /\ proc = "args"
    /\ now = 0
    /\ flushed = << >> /\ expired = {} /\ raced = FALSE /\ nscan = 0

-----------------------------------------------------------------------------
(***************************************************************************)
(* Rules and the life of the thread.                                       *)
(***************************************************************************)

\* handleArguements passes a --retention argument to retention_add_rule, which
\* refuses a rule too many and an age that is not positive.
retention_add_rule(spec) ==
    /\ proc = "args"
    /\ Len(rules) < RETENTION_MAX_RULES /\ spec[2] > 0
    /\ \A k \in DOMAIN rules : rules[k] # spec         \* bound: no argument twice
    /\ rules' = Append(rules, spec)
    /\ UNCHANGED <<list, files, fl, ret, scan, proc, now, history>>

\* The age of the first rule for the metric, or -1.
retention_get(cfg) ==
    LET hits == {k \in DOMAIN cfg : cfg[k][1] = Metric}
    IN IF hits = {} THEN -1 ELSE cfg[CHOOSE k \in hits : \A j \in hits : k <= j][2]

\* The server starts; there is a thread only if there are rules.
retention_start ==
    /\ proc = "args"
    /\ proc' = "up"
    /\ ret' = [ret EXCEPT !.pc = IF rules = << >> THEN "off" ELSE "sleep"]
    /\ UNCHANGED <<list, files, fl, rules, scan, now, history>>

\* Shutdown: g_stop is set and the main thread waits in pthread_join.
retention_stop ==
    /\ proc = "up"
    /\ proc' = "stop"
    /\ UNCHANGED <<list, files, fl, ret, rules, scan, now, history>>

\* The thread sees g_stop between two passes.
retention_thread_exit ==
    /\ proc = "stop" /\ ret.pc = "sleep"
    /\ ret' = [ret EXCEPT !.pc = "joined"]
    /\ UNCHANGED <<list, files, fl, rules, scan, proc, now, history>>

\* The last slot, where the walk begins.
LastIndex_early == count - 2                    \* mutant: off by one
LastIndex == count - 1

\* A minute is over: run_expiry locks the registry, computes the cutoff and
\* loads chunkCount.
run_expiry_unstopped ==                         \* mutant: g_stop is not looked at again
    /\ ret.pc = "sleep"
    /\ retention_get(rules) > 0
    /\ ret' = [ret EXCEPT !.pc = "check", !.i = LastIndex,
                          !.cutoff = now - retention_get(rules)]
    /\ UNCHANGED <<list, files, fl, rules, scan, proc, now, history>>
run_expiry ==
    /\ proc = "up" /\ ret.pc = "sleep"
    /\ retention_get(rules) > 0
    /\ ret' = [ret EXCEPT !.pc = "check", !.i = LastIndex,
                          !.cutoff = now - retention_get(rules)]
    /\ UNCHANGED <<list, files, fl, rules, scan, proc, now, history>>

\* One iteration of the backward walk loads entry->chunks; at -1 unlock and sleep.
run_expiry_check ==
    /\ ret.pc = "check"
    /\ \/ /\ ret.i < 0
          /\ ret' = [ret EXCEPT !.pc = "sleep", !.cutoff = 0]
       \/ /\ ret.i >= 0
          /\ ret' = [ret EXCEPT !.pc = "read", !.at = Capacity]
    /\ UNCHANGED <<list, files, fl, rules, scan, proc, now, history>>

\* A chunk is older than the cutoff.
TooOld_start(m) == m.start_ts < ret.cutoff      \* mutant: compares the wrong end
TooOld(m) == m.end_ts < ret.cutoff

\* What the comparison of end_ts can give: anything in memory that was freed or
\* never written.
Verdicts ==
    IF Stale(ret.at) \/ mem[ret.i] = Unset THEN BOOLEAN ELSE {TooOld(mem[ret.i])}

run_expiry_read ==
    /\ ret.pc = "read"
    /\ \/ /\ TRUE \in Verdicts
          /\ ret' = [ret EXCEPT !.pc = "expire", !.at = 0]
       \/ /\ FALSE \in Verdicts
          /\ ret' = [ret EXCEPT !.pc = "check", !.i = @ - 1, !.at = 0]
    /\ UNCHANGED <<list, files, fl, rules, scan, proc, now, history>>

\* expire_chunk: cm = &entry->chunks[idx]
expire_chunk ==
    /\ ret.pc = "expire"
    /\ ret' = [ret EXCEPT !.pc = "remove", !.at = Capacity]
    /\ UNCHANGED <<list, files, fl, rules, scan, proc, now, history>>

\* The file named in the entry is removed; a name that names nothing, which
\* can be read in freed or unwritten memory, is only reported.
expire_chunk_remove ==
    LET n == mem[ret.i].n
    IN /\ ret.pc = "remove"
       /\ \/ /\ n # 0
             /\ files' = [files EXCEPT ![flushed[n].start_ts] = 0]
             /\ expired' = expired \cup {n}
          \/ /\ Stale(ret.at) \/ n = 0
             /\ UNCHANGED <<files, expired>>
       /\ ret' = [ret EXCEPT !.pc = "tail", !.at = 0]
       /\ UNCHANGED <<list, fl, rules, scan, proc, now, flushed, nscan>>

\* tail = chunkCount - idx - 1: nothing is moved behind the last entry.
expire_chunk_tail ==
    /\ ret.pc = "tail"
    /\ ret' = [ret EXCEPT !.pc = IF count - ret.i - 1 > 0 THEN "chunks" ELSE "dec",
                          !.c = count]
    /\ UNCHANGED <<list, files, fl, rules, scan, proc, now, history>>

\* entry->chunks is loaded for memmove.
expire_chunk_chunks ==
    /\ ret.pc = "chunks"
    /\ ret' = [ret EXCEPT !.pc = "move", !.at = Capacity]
    /\ UNCHANGED <<list, files, fl, rules, scan, proc, now, history>>

\* A scan during which a deletion is under way is disturbed.
Disturbed(s) == [s EXCEPT !.disturbed = @ \/ s.pc \in {"next", "open"}]

\* The array after memmove has shifted the entries from slot i + 1 to slot c - 1.
Shifted_none(i, c) == mem                       \* mutant: no memmove
Shifted(i, c) ==
    [k \in DOMAIN mem |-> IF i <= k /\ k < c - 1 THEN mem[k + 1] ELSE mem[k]]

\* memmove.  If a pointer is stale the array that headflush goes on with is not
\* shifted, or it is, or some of what is moved comes from freed memory.
expire_chunk_move ==
    /\ ret.pc = "move"
    /\ \/ mem' = Shifted(ret.i, ret.c)
       \/ Stale(ret.at) /\ mem' = mem
       \/ /\ Stale(ret.at)
          /\ \E lost \in SUBSET (ret.i .. ret.c - 2) :
               mem' = [k \in DOMAIN mem |->
                         IF k \in lost THEN Unset ELSE Shifted(ret.i, ret.c)[k]]
    /\ ret' = [ret EXCEPT !.pc = "dec", !.at = 0]
    /\ scan' = Disturbed(scan)
    /\ UNCHANGED <<count, files, fl, rules, proc, now, history>>

\* entry->chunkCount--: the compiler may load it again or use what it has.
expire_chunk_load ==
    /\ ret.pc = "dec"
    /\ \E c \in {ret.c, count} : ret' = [ret EXCEPT !.pc = "decw", !.c = c]
    /\ scan' = Disturbed(scan)
    /\ UNCHANGED <<list, files, fl, rules, proc, now, history>>

\* Where the walk goes on after a deletion.
NextIndex_stuck(i) == i                         \* mutant: the shifted entry is looked at again
NextIndex(i) == i - 1

expire_chunk_store ==
    /\ ret.pc = "decw"
    /\ count' = ret.c - 1
    /\ ret' = [ret EXCEPT !.pc = "check", !.i = NextIndex(@), !.c = 0]
    /\ scan' = Disturbed(scan)
    /\ UNCHANGED <<mem, files, fl, rules, proc, now, history>>

-----------------------------------------------------------------------------
(***************************************************************************)
(* headflush: the part that changes the list, under head->lock alone.      *)
(***************************************************************************)

\* The chunk file is written, over an older one of the same name.  The lookup
\* of the metric needed registry_lock, but it changes nothing and was over
\* before the thread got head->lock.
headflush_write(b) ==
    /\ proc \in {"up", "stop"} /\ fl.pc = "idle"
    /\ Len(flushed) < MaxChunks
    /\ files' = [files EXCEPT ![b[1]] = Len(flushed) + 1]
    /\ flushed' = Append(flushed, [start_ts |-> b[1], end_ts |-> b[2]])
    /\ fl' = [NoFlush EXCEPT !.pc = "grow", !.n = Len(flushed) + 1]
    /\ UNCHANGED <<list, ret, rules, scan, proc, now, expired, nscan>>

\* x as an int16_t.
Int16(x) == IF x % CapRange >= CapRange \div 2 THEN (x % CapRange) - CapRange ELSE x % CapRange

\* The list has no free slot.
ListFull_late == count > Capacity               \* mutant: off by one
ListFull == count >= Capacity

headflush_grow ==
    /\ fl.pc = "grow"
    /\ fl' = [fl EXCEPT !.pc = IF ListFull THEN "realloc" ELSE "start_ts", !.k = count]
    /\ UNCHANGED <<list, files, ret, rules, scan, proc, now, history>>

\* A full array is doubled: realloc copies it and frees the old one.  A
\* capacity that has become negative is a huge size_t: realloc returns NULL and
\* the next line faults.
headflush_realloc ==
    /\ fl.pc = "realloc"
    /\ \/ /\ Int16(2 * Capacity) > 0
          /\ fl' = [fl EXCEPT !.pc = "publish"]
          /\ proc' = proc
       \/ /\ Int16(2 * Capacity) <= 0
          /\ proc' = "died"
          /\ fl' = fl
    /\ UNCHANGED <<list, files, ret, rules, scan, now, history>>

\* The new pointer is stored in entry->chunks.
headflush_publish ==
    /\ fl.pc = "publish"
    /\ mem' = [k \in 0 .. 2 * Capacity - 1 |-> IF k \in DOMAIN mem THEN mem[k] ELSE Unset]
    /\ fl' = [fl EXCEPT !.pc = "start_ts"]
    /\ UNCHANGED <<count, files, ret, rules, scan, proc, now, history>>

\* The entry is stored field by field; each line names the slot by chunkCount,
\* which it loads again, unless the compiler uses what it has.
headflush_start_ts ==
    /\ fl.pc = "start_ts"
    /\ \E k \in {fl.k, count} :
         /\ mem' = [mem EXCEPT ![k].start_ts = flushed[fl.n].start_ts]
         /\ fl' = [fl EXCEPT !.pc = "end_ts", !.k = k]
    /\ UNCHANGED <<count, files, ret, rules, scan, proc, now, history>>

headflush_end_ts ==
    /\ fl.pc = "end_ts"
    /\ \E k \in {fl.k, count} :
         /\ mem' = [mem EXCEPT ![k].end_ts = flushed[fl.n].end_ts]
         /\ fl' = [fl EXCEPT !.pc = "filename", !.k = k]
    /\ UNCHANGED <<count, files, ret, rules, scan, proc, now, history>>

headflush_filename ==
    /\ fl.pc = "filename"
    /\ \E k \in {fl.k, count} :
         /\ mem' = [mem EXCEPT ![k].n = fl.n]
         /\ fl' = [fl EXCEPT !.pc = "inc", !.k = k]
    /\ UNCHANGED <<count, files, ret, rules, scan, proc, now, history>>

\* entry->chunkCount++
headflush_load ==
    /\ fl.pc = "inc"
    /\ \E c \in {fl.k, count} : fl' = [fl EXCEPT !.pc = "incw", !.c = c]
    /\ UNCHANGED <<list, files, ret, rules, scan, proc, now, history>>

headflush_store ==
    /\ fl.pc = "incw"
    /\ count' = fl.c + 1
    /\ fl' = NoFlush
    /\ UNCHANGED <<mem, files, ret, rules, scan, proc, now, history>>

-----------------------------------------------------------------------------
(***************************************************************************)
(* A query walks the list without a lock.                                  *)
(***************************************************************************)

\* The lookup, under registry_lock.
Head_GET ==
    /\ proc \in {"up", "stop"} /\ scan.pc = "idle" /\ ~ Walking(ret.pc)
    /\ nscan < MaxScans
    /\ nscan' = nscan + 1
    /\ scan' = [NoScan EXCEPT !.pc = "next", !.known = {mem[k].n : k \in 0 .. count - 1}]
    /\ UNCHANGED <<list, files, fl, ret, rules, proc, now, flushed, expired>>

\* The loop condition reads chunkCount anew.
MoreChunks_short == scan.i < count - 1           \* mutant: off by one
MoreChunks == scan.i < count

\* The loop takes a pointer into the array, or ends.
Head_GET_next ==
    /\ scan.pc = "next"
    /\ \/ /\ MoreChunks
          /\ scan' = [scan EXCEPT !.pc = "open", !.at = Capacity, !.old = mem[scan.i]]
       \/ /\ ~ MoreChunks
          /\ scan' = [scan EXCEPT !.pc = "done"]
    /\ UNCHANGED <<list, files, fl, ret, rules, proc, now, history>>

\* The file is opened through the pointer.  If realloc has freed the array the
\* name is still there, or it names nothing.
Head_GET_open ==
    LET Reads(m) == scan' = [scan EXCEPT !.pc = "next", !.i = @ + 1,
                               !.at = 0, !.old = Unset,
                               !.got = IF m.n # 0 /\ files[flushed[m.n].start_ts] # 0
                                       THEN Append(@, files[flushed[m.n].start_ts]) ELSE @]
    IN /\ scan.pc = "open"
       /\ \/ ~ Stale(scan.at) /\ Reads(mem[scan.i])
          \/ Stale(scan.at) /\ Reads(scan.old)
          \/ Stale(scan.at) /\ scan' = [scan EXCEPT !.pc = "next", !.i = @ + 1,
                                        !.at = 0, !.old = Unset, !.disturbed = TRUE]
       /\ UNCHANGED <<list, files, fl, ret, rules, proc, now, history>>

\* The reply is sent.
Head_GET_reply ==
    /\ scan.pc = "done"
    /\ scan' = NoScan
    /\ UNCHANGED <<list, files, fl, ret, rules, proc, now, history>>

\* The memory of a freed array may no longer be mapped.
FreedAccess ==
    /\ \/ ret.pc \in {"read", "remove", "move"} /\ Stale(ret.at)
       \/ scan.pc = "open" /\ Stale(scan.at)
    /\ proc' = "fault"
    /\ UNCHANGED <<list, files, fl, ret, rules, scan, now, history>>

Tick(time) ==
    /\ proc = "up" /\ now < time
    /\ now' = time
    /\ UNCHANGED <<list, files, fl, ret, rules, scan, proc, history>>

\* A process that has died takes no step.
Alive == proc \notin {"died", "fault"}

\* Nothing is left to do: cleanupRegistry follows.
Stopped ==
    /\ ~ Alive \/ (proc = "stop" /\ fl.pc = "idle" /\ ret.pc \in {"off", "joined"})
    /\ UNCHANGED <<list, files, fl, ret, rules, scan, proc, now, history>>

Flush == \/ headflush_grow \/ headflush_realloc \/ headflush_publish
         \/ headflush_start_ts \/ headflush_end_ts \/ headflush_filename
         \/ headflush_load \/ headflush_store
Expire == \/ run_expiry_check \/ run_expiry_read
          \/ expire_chunk \/ expire_chunk_remove \/ expire_chunk_tail
          \/ expire_chunk_chunks \/ expire_chunk_move
          \/ expire_chunk_load \/ expire_chunk_store
Scan == Head_GET_next \/ Head_GET_open \/ Head_GET_reply

\* headflush updates the list while expire_chunk does, or frees the array while
\* the walk reads an entry.
Conflict ==
    \/ Appending(fl.pc) /\ Deleting(ret.pc)
    \/ fl.pc = "publish" /\ ret.pc = "read"

RetentionNext ==
    /\ \/ Alive /\ (\/ \E spec \in Specs : retention_add_rule(spec)
                    \/ retention_start \/ retention_stop \/ retention_thread_exit
                    \/ run_expiry \/ Expire
                    \/ (\E b \in Bounds : headflush_write(b)) \/ Flush
                    \/ Head_GET \/ Scan \/ FreedAccess
                    \/ \E time \in Times : Tick(time))
       \/ Stopped
    /\ raced' = (raced \/ Conflict')

RetentionSpec == RetentionInit /\ [][RetentionNext]_vars

\* A step of these, with the history variable.
Step(A) == Alive /\ A /\ raced' = (raced \/ Conflict')

\* Every thread of the server runs when it can; the retention thread wakes
\* again and again.  Requests, the clock and a shutdown are not promised.
FairRetentionSpec ==
    /\ RetentionSpec
    /\ WF_vars(Step(Flush)) /\ WF_vars(Step(Scan))
    /\ WF_vars(Step(run_expiry)) /\ WF_vars(Step(Expire))
    /\ WF_vars(Step(retention_thread_exit))

-----------------------------------------------------------------------------
(***************************************************************************)
(* Properties.                                                             *)
(***************************************************************************)

\* The chunks whose file names are in the list, those whose entries are whole,
\* and those that headflush has put there.
ListedNow == {mem[k].n : k \in 0 .. count - 1}
Entry(n) == [n |-> n, start_ts |-> flushed[n].start_ts, end_ts |-> flushed[n].end_ts]
WholeNow == {n \in DOMAIN flushed : \E k \in 0 .. count - 1 : mem[k] = Entry(n)}
Registered == DOMAIN flushed \ {fl.n}

\* The chunk's newest point is within the period of the first rule, or there
\* is no rule for the metric.
Period == {rules[k][2] : k \in {j \in DOMAIN rules :
             rules[j][1] = Metric /\ \A i \in 1 .. j - 1 : rules[i][1] # Metric}}
Fresh(n) == \A age \in Period : flushed[n].end_ts >= now - age

\* Another chunk has been written to the file of this one.
Shared(n) == \E o \in DOMAIN flushed : o # n /\ flushed[o].start_ts = flushed[n].start_ts

\* As long as headflush has not updated the list, from its look at chunkCount on,
\* in the middle of a deletion or the other way round, the list between updates
\* is what was registered less what was expired, every entry whole, each chunk
\* once and in order.
IndexExact ==
    ~ raced /\ ~ Appending(fl.pc) /\ ~ Deleting(ret.pc) =>
      /\ ListedNow = Registered \ expired
      /\ \A k \in 0 .. count - 1 : mem[k] = Entry(mem[k].n)
      /\ \A j, k \in 0 .. count - 1 : j < k => mem[j].n < mem[k].n

\* The retention thread removes no file whose chunk is within its period, although
\* headflush appends and reallocates in the middle of its walk, as long as the
\* two have not met inside a deletion or a read.  Chunks that share a file name
\* are excepted.
FreshKept ==
    ~ raced => \A n \in DOMAIN flushed :
                 Fresh(n) /\ ~ Shared(n) => files[flushed[n].start_ts] = n

\* headflush stores inside the array whatever the retention thread does to
\* chunkCount between the check and each of the stores, and the doubling of a
\* 16-bit capacity ends the process only once 2^14 chunks are listed.
CapacitySafe ==
    /\ fl.pc \in {"start_ts", "end_ts", "filename"} => count < Capacity /\ fl.k < Capacity
    /\ count <= Capacity
    /\ proc = "died" => fl.k >= CapRange \div 4

\* A query finds every chunk that was listed when it began and whose file is
\* still there, while flushes append to the list and move it, unless the list
\* was shifted under it or it met freed memory.
ScanComplete ==
    scan.pc = "done" /\ ~ scan.disturbed =>
      \A n \in DOMAIN flushed : n \in scan.known /\ files[flushed[n].start_ts] = n
                                => n \in {scan.got[k] : k \in DOMAIN scan.got}

\* A chunk with a whole entry that has outlived its period leaves the list, also
\* after a race, unless the server stops.
ExpiredGo ==
    \A n \in 1 .. MaxChunks :
      (proc = "up" /\ n \in WholeNow /\ ~ Fresh(n)) ~> (proc # "up" \/ n \notin WholeNow)

\* retention_stop returns: the thread ends its walk and sees g_stop.
StopJoins == proc = "stop" ~> (ret.pc \in {"off", "joined"} \/ ~ Alive)

\* retention.h:11: "delete chunks whose end_ts < now - max_age" - the thread
\* removes no other file than that of a chunk that has outlived its period.
OnlyOldRemoved ==
    \A n \in DOMAIN flushed : Fresh(n) /\ ~ Shared(n) => files[flushed[n].start_ts] = n
=============================================================================
