------------------------------- MODULE WalFile -------------------------------
(***************************************************************************)
(* The write-ahead log as a file of 8-byte words (wal.c).  A record is two *)
(* words, a timestamp and a double; wal_append adds them at the end of the *)
(* file and wal_replay reads the file two words at a time.  Engine has a   *)
(* log of whole records; this module is about records that are cut short   *)
(* because a write to the disk fails or the process dies.                  *)
(*                                                                         *)
(* A word is an integer: a timestamp, or the bits of a double read as an   *)
(* int64_t.  The head block is the one of HeadBlock, with values as words. *)
(***************************************************************************)
EXTENDS HeadBlock

CONSTANTS
    Timestamps,     \* timestamps that clients send
    Doubles,        \* bits of the values that clients send
    Garbage,        \* what malloc may leave in lastTimestamp
    MaxPuts, MaxCrashes     \* bounds

ASSUME WalFileAssumption ==
    /\ Timestamps \subseteq Nat \ {0}
    /\ Doubles \subseteq Int
    /\ Garbage \subseteq Int /\ Garbage # {}
    /\ MaxPuts \in Nat /\ MaxCrashes \in Nat

VARIABLES
    proc,       \* "up", "down" or "replay"
    head,       \* the head block
    words,      \* the contents of wal.log
    rpos,       \* the next word that wal_replay reads
    records,    \* history: the PUTs since the log was removed, with the words written of each
    sent,       \* history: timestamps of all PUTs
    unset,      \* history: lastTimestamp of the block as malloc left it
    ncrash

walVars == <<proc, head, words, rpos, records, sent, unset, ncrash>>

WalInit ==
    /\ proc = "up"
    /\ unset \in Garbage
    /\ head = getNewHeadBlock(unset)
    /\ words = << >> /\ rpos = 1
    /\ records = << >> /\ sent = << >> /\ ncrash = 0

\* The file after `len' words of the record of p have reached it.
Written(p, len) == words \o SubSeq(<<p.ts, p.val>>, 1, len)

\* Head_PUT: the block first, then the log, under one lock.  wal_append reports
\* nothing: no word is written if fopen fails, one if the second does not fit
\* on the disk.  Clients send increasing timestamps.  A full block, which is
\* flushed first, is part of Engine, and so is a log that cannot be removed.
wal_append(p, len) ==
    /\ proc = "up" /\ Len(sent) < MaxPuts /\ ~ IsFull(head)
    /\ \A k \in DOMAIN sent : sent[k] < p.ts
    /\ sent' = Append(sent, p.ts)
    /\ \/ /\ PUT_accepts(head, p)
          /\ head' = PUT_value(head, p)
          /\ words' = Written(p, len)
          /\ records' = Append(records, [p |-> p, len |-> len])
       \/ /\ ~ PUT_accepts(head, p)
          /\ UNCHANGED <<head, words, records>>
    /\ UNCHANGED <<proc, rpos, unset, ncrash>>

\* headflush: the block goes to a chunk and the log is removed.
wal_truncate ==
    /\ proc = "up" /\ head.pts # << >>
    /\ head' = [pts |-> << >>, last |-> 0]
    /\ words' = << >>
    /\ records' = << >>
    /\ UNCHANGED <<proc, rpos, sent, unset, ncrash>>

\* The process dies; the next one allocates a block and sets size alone.
WalCrash(garbage) ==
    /\ proc # "down" /\ ncrash < MaxCrashes
    /\ ncrash' = ncrash + 1
    /\ proc' = "down"
    /\ unset' = garbage
    /\ head' = getNewHeadBlock(garbage)
    /\ rpos' = 1
    /\ UNCHANGED <<words, records, sent>>

\* loadRegistry opens the log.
Restart ==
    /\ proc = "down"
    /\ proc' = "replay"
    /\ UNCHANGED <<head, words, rpos, records, sent, unset, ncrash>>

\* Both words of the next record can be read.
Readable_half == rpos <= Len(words)             \* mutant: the second fread is not checked
Readable == rpos + 1 <= Len(words)

\* The record there; a double that was not read keeps its old bits.
Record == [ts |-> words[rpos],
           val |-> IF rpos + 1 <= Len(words) THEN words[rpos + 1] ELSE 0]

\* A record that is taken for one which a chunk covers.
Skipped_wide(p) == p.ts <= head.last + 1        \* mutant: off by one
Skipped(p) == p.ts <= head.last

\* One iteration of wal_replay, or its end.
wal_replay ==
    /\ proc = "replay"
    /\ \/ /\ Readable
          /\ head' = IF ~ Skipped(Record) /\ PUT_accepts(head, Record)
                     THEN PUT_value(head, Record) ELSE head
          /\ rpos' = rpos + 2
          /\ proc' = proc
       \/ /\ ~ Readable
          /\ proc' = "up"
          /\ rpos' = 1
          /\ head' = head
    /\ UNCHANGED <<words, records, sent, unset, ncrash>>

Waiting == proc = "up" /\ UNCHANGED walVars

WalNext ==
    \/ \E ts \in Timestamps, val \in Doubles, len \in 0 .. 2 :
         wal_append([ts |-> ts, val |-> val], len)
    \/ \E garbage \in Garbage : WalCrash(garbage)
    \/ wal_truncate \/ Restart \/ wal_replay \/ Waiting

WalSpec == WalInit /\ [][WalNext]_walVars

-----------------------------------------------------------------------------
(***************************************************************************)
(* Properties.                                                             *)
(***************************************************************************)

\* The records before the first one that was cut in half; the ones of which
\* nothing was written leave no trace in the file.
Aligned(k) == \A j \in 1 .. k : records[j].len # 1
Intact == {k \in DOMAIN records : Aligned(k) /\ records[k].len = 2}

\* Half a record lies in front of other words.
Misaligned == \E k \in DOMAIN records : records[k].len = 1
                /\ \E j \in k + 1 .. Len(records) : records[j].len > 0

\* The places of a record's point in the block.
Places(k) == {i \in DOMAIN head.pts : head.pts[i] = records[k].p}

\* The whole records that replay can take: they are younger than what malloc left
\* in lastTimestamp, and there is room for them and all before them.  A log is
\* longer than a block only if an earlier replay has skipped some of it.
Taken == {k \in Intact : records[k].p.ts > unset /\ k <= HEAD_CAPACITY}

\* Half a record, wherever it lies and however often the server has restarted
\* since, costs no record in front of it: those that are younger than the unset
\* lastTimestamp are in the block again after a replay, each once and in order
\* (wal_replay reads from the start of the file).
PrefixRecovered ==
    proc = "up" /\ ncrash > 0 =>
      /\ \A k \in Taken : \E i \in DOMAIN head.pts : Places(k) = {i}
      /\ \A k, l \in Taken : \A i \in Places(k), j \in Places(l) : k < l => i < j

\* A replay brings back only points that a client has sent: a half record at
\* the end of the file is passed over.  Only when a later PUT is appended
\* behind it does the file turn into points that nobody sent.
NoPhantom ==
    \A k \in DOMAIN head.pts :
      Misaligned \/ \E j \in DOMAIN records : records[j].p = head.pts[k]
=============================================================================
