--------------------------- MODULE RetentionProofs ---------------------------
(***************************************************************************)
(* Theorems about Retention, for every set of blocks, rules and clock      *)
(* readings, every width of the capacity and any number of flushes and     *)
(* queries: the list keeps its type and its bounds through all races; as   *)
(* long as headflush and the retention thread have not met in the list it  *)
(* is exact and no fresh chunk is removed; and an undisturbed query finds  *)
(* what was listed.                                                        *)
(***************************************************************************)
EXTENDS Retention, FiniteSetTheorems, NaturalsInduction, WellFoundedInduction, TLAPS

-----------------------------------------------------------------------------
(***************************************************************************)
(* The base invariant: types and bounds, whatever races there are.         *)
(***************************************************************************)

\* The threads' records, as RetentionTypeOK types them.
FlushRec == [pc : {"idle", "grow", "realloc", "publish", "start_ts", "end_ts",
                   "filename", "inc", "incw"},
             n : 0 .. MaxChunks, k : Nat, c : Nat]
RetRec == [pc : {"off", "sleep", "check", "read", "expire", "remove", "tail",
                 "chunks", "move", "dec", "decw", "joined"},
           i : Int, cutoff : Int, at : Nat, c : Nat]

\* headflush has made sure that there is a slot.
Storing(pc) == pc \in {"start_ts", "end_ts", "filename", "inc", "incw"}

\* The array has room for what is counted and for the entry that headflush is
\* storing: retention only lowers chunkCount.  The capacity is a positive int16_t.
RoomInv ==
    /\ Capacity \in Nat \ {0} /\ Capacity < CapRange \div 2
    /\ count <= Capacity
    /\ Appending(fl.pc) => count <= fl.k /\ fl.k <= Capacity
    /\ fl.pc \in {"realloc", "publish"} => fl.k = Capacity
    /\ fl.pc = "publish" => 2 * Capacity < CapRange \div 2
    /\ Storing(fl.pc) => fl.k < Capacity
    /\ fl.pc = "incw" => count <= fl.c /\ fl.c <= fl.k
    /\ proc = "died" => fl.k >= CapRange \div 4

\* Entries name chunks that were flushed, headflush works on the last of them.
SlotsInv ==
    /\ \A j \in DOMAIN mem : mem[j].n <= Len(flushed)
    /\ fl.n = IF fl.pc = "idle" THEN 0 ELSE Len(flushed)
    /\ fl.pc # "idle" => Len(flushed) >= 1
    /\ \A n \in expired : n <= Len(flushed)

\* The walk looks at counted slots only; what it has loaded of chunkCount is not
\* more than the count.
WalkInv ==
    /\ Walking(ret.pc) => ret.i >= -1 /\ ret.i < count
    /\ Walking(ret.pc) /\ ret.pc # "check" => ret.i >= 0
    /\ ret.pc \in {"chunks", "move", "dec", "decw"} => ret.i < ret.c /\ ret.c <= count

\* Before the server is up nothing has happened to the list.
ArgsInv ==
    proc = "args" => ret.pc = "off" /\ fl.pc = "idle" /\ flushed = << >>

BaseInv == RetentionTypeOK /\ RoomInv /\ SlotsInv /\ WalkInv /\ ArgsInv

\* The capacity of an array with slots 0 .. n - 1.
LEMMA CapacityIs ==
  ASSUME NEW n \in Nat, DOMAIN mem = 0 .. n - 1
  PROVE  Capacity = n
  <1>1. Cardinality(0 .. n - 1) = IF 0 > n - 1 THEN 0 ELSE n - 1 - 0 + 1
    BY FS_Interval
  <1> QED
    BY <1>1 DEF Capacity

\* The doubled capacity as an int16_t: it is what was meant as long as it is
\* below half the range, and not positive from there on.
LEMMA DoubleFacts ==
  ASSUME RetentionAssumption, NEW n \in Nat, 0 < n, n < CapRange \div 2
  PROVE  /\ Int16(2 * n) > 0 => 2 * n < CapRange \div 2
         /\ Int16(2 * n) <= 0 => n >= CapRange \div 4
  <1>1. CapRange \in Nat /\ CapRange > 0
    BY DEF RetentionAssumption
  <1>2. 2 * n < CapRange
    BY <1>1
  <1>3. (2 * n) % CapRange = 2 * n
    BY <1>1, <1>2
  <1> QED
    BY <1>1, <1>2, <1>3 DEF Int16

\* The initial array has the positive capacity that the code gives it.
LEMMA InitBase ==
  ASSUME RetentionAssumption, RetentionInit
  PROVE  BaseInv
  <1>1. Capacity = InitialCapacity
    <2>1. InitialCapacity \in Nat /\ DOMAIN mem = 0 .. InitialCapacity - 1
      BY DEF RetentionInit, RetentionAssumption
    <2> QED
      BY <2>1, CapacityIs
  <1>0. Unset \in Slot /\ Unset.n = 0
    BY DEF Unset, Slot, RetentionAssumption
  <1>2. RetentionTypeOK
    <2>1. mem \in [0 .. Capacity - 1 -> Slot]
      BY <1>0, <1>1 DEF RetentionInit
    <2>2. fl \in FlushRec
      BY DEF RetentionInit, NoFlush, FlushRec, RetentionAssumption
    <2>3. files \in [Starts -> 0 .. MaxChunks]
      BY DEF RetentionInit, RetentionAssumption
    <2>4. rules \in Seq(Specs) /\ now \in Times
      BY DEF RetentionInit, RetentionAssumption
    <2>5. /\ count \in Nat
          /\ ret \in RetRec
          /\ proc \in {"args", "up", "stop", "died", "fault"}
          /\ expired \subseteq 1 .. MaxChunks
      BY DEF RetentionInit, RetRec
    <2>6. raced \in BOOLEAN
      BY DEF RetentionInit
    <2>7. flushed \in Seq(Chunk) /\ Len(flushed) <= MaxChunks
      BY DEF RetentionInit, RetentionAssumption
    <2> QED
      BY <2>1, <2>2, <2>3, <2>4, <2>5, <2>6, <2>7, Zenon DEF RetentionTypeOK, FlushRec, RetRec
  <1>3. RoomInv
    BY <1>1 DEF RetentionInit, RetentionAssumption, RoomInv, NoFlush, Appending, Storing
  <1>4. SlotsInv
    BY <1>0 DEF RetentionInit, SlotsInv, NoFlush
  <1>5. WalkInv /\ ArgsInv
    BY DEF RetentionInit, WalkInv, ArgsInv, NoFlush, Walking, Deleting
  <1> QED
    BY <1>2, <1>3, <1>4, <1>5 DEF BaseInv

\* What the base invariant says of single variables.
LEMMA BaseFacts ==
  ASSUME BaseInv
  PROVE  /\ mem \in [0 .. Capacity - 1 -> Slot] /\ DOMAIN mem = 0 .. Capacity - 1
         /\ Capacity \in Nat /\ Capacity > 0 /\ count \in Nat /\ count <= Capacity
         /\ files \in [Starts -> 0 .. MaxChunks] /\ DOMAIN files = Starts
         /\ fl \in FlushRec /\ ret \in RetRec
         /\ fl.k \in Nat /\ fl.c \in Nat /\ fl.n \in Int
         /\ ret.i \in Int /\ ret.c \in Nat /\ ret.at \in Nat /\ ret.cutoff \in Int
         /\ flushed \in Seq(Chunk) /\ Len(flushed) \in Nat /\ DOMAIN flushed = 1 .. Len(flushed)
         /\ \A j \in DOMAIN mem : mem[j].n \in Nat /\ mem[j] \in Slot
         /\ \A n \in DOMAIN flushed : flushed[n] \in Chunk /\ flushed[n].start_ts \in Starts
         /\ rules \in Seq(Specs) /\ now \in Times
  <1>1. /\ mem \in [0 .. Capacity - 1 -> Slot] /\ Capacity \in Nat /\ Capacity > 0
        /\ count \in Nat /\ count <= Capacity
        /\ files \in [Starts -> 0 .. MaxChunks]
        /\ fl \in FlushRec /\ ret \in RetRec
        /\ flushed \in Seq(Chunk) /\ rules \in Seq(Specs) /\ now \in Times
    BY DEF BaseInv, RetentionTypeOK, RoomInv, FlushRec, RetRec
  <1>2. fl.k \in Nat /\ fl.c \in Nat /\ fl.n \in Int
    BY <1>1 DEF FlushRec
  <1>3. ret.i \in Int /\ ret.c \in Nat /\ ret.at \in Nat /\ ret.cutoff \in Int
    BY <1>1 DEF RetRec
  <1>4. \A s \in Slot : s.n \in Nat
    BY DEF Slot
  <1>5. \A m \in Chunk : m.start_ts \in Starts
    BY DEF Chunk
  <1>6. Len(flushed) \in Nat /\ DOMAIN flushed = 1 .. Len(flushed)
        /\ \A n \in DOMAIN flushed : flushed[n] \in Chunk
    BY <1>1
  <1> QED
    BY <1>1, <1>2, <1>3, <1>4, <1>5, <1>6

\* Steps that change neither the list nor the threads that write it: the rules,
\* a shutdown, queries, a fault and the clock.
BaseFrame == UNCHANGED <<mem, count, files, fl, ret, flushed, expired>>

LEMMA KeepsBase ==
  ASSUME BaseInv, BaseFrame, rules' \in Seq(Specs), now' \in Times, raced' \in BOOLEAN,
         proc' = proc \/ proc' \in {"stop", "fault"}
  PROVE  BaseInv'
  <1>1. Capacity' = Capacity
    BY DEF BaseFrame, Capacity
  <1>2. RetentionTypeOK'
    <2>1. proc' \in {"args", "up", "stop", "died", "fault"}
      BY DEF BaseInv, RetentionTypeOK
    <2> QED
      BY <1>1, <2>1 DEF BaseInv, BaseFrame, RetentionTypeOK
  <1>3. RoomInv'
    BY <1>1 DEF BaseInv, RoomInv, BaseFrame, Appending, Storing
  <1>4. SlotsInv' /\ WalkInv' /\ ArgsInv'
    BY DEF BaseInv, BaseFrame, SlotsInv, WalkInv, ArgsInv, Walking, Deleting
  <1> QED
    BY <1>2, <1>3, <1>4 DEF BaseInv

\* Steps of the retention thread that leave the list alone, its own fields aside.
LEMMA WalksBase ==
  ASSUME BaseInv, UNCHANGED <<mem, count, fl, rules, now, flushed>>, raced' \in BOOLEAN,
         files' \in [Starts -> 0 .. MaxChunks], expired' \subseteq 1 .. MaxChunks,
         \A n \in expired' : n <= Len(flushed),
         ret' \in RetRec, WalkInv', proc' = proc \/ (proc = "args" /\ proc' = "up"),
         proc' = "args" => ret'.pc = "off"
  PROVE  BaseInv'
  <1>1. Capacity' = Capacity
    BY DEF Capacity
  <1>2. RetentionTypeOK'
    <2>1. proc' \in {"args", "up", "stop", "died", "fault"}
      BY DEF BaseInv, RetentionTypeOK
    <2> QED
      BY <1>1, <2>1 DEF BaseInv, RetentionTypeOK, RetRec
  <1>3. RoomInv'
    BY <1>1 DEF BaseInv, RoomInv, Appending, Storing
  <1>4. SlotsInv' /\ ArgsInv'
    BY DEF BaseInv, SlotsInv, ArgsInv
  <1> QED
    BY <1>2, <1>3, <1>4 DEF BaseInv

\* retention_get yields an age that is given in a rule, or -1.
LEMMA LeastNat ==
  ASSUME NEW T, T \subseteq Nat, T # {}
  PROVE  \E m \in T : \A k \in T : m <= k
  <1>1. PICK m \in T : \A k \in T : ~ (<<k, m>> \in OpToRel(<, Nat))
    BY NatLessThanWellFounded, WFMin, Zenon
  <1>2. \A k \in T : ~ (k < m)
    BY <1>1 DEF OpToRel
  <1> QED
    BY <1>2

LEMMA GetFacts ==
  ASSUME RetentionAssumption, rules \in Seq(Specs), retention_get(rules) > 0
  PROVE  retention_get(rules) \in Period /\ retention_get(rules) \in Int
  <1> DEFINE hits == {k \in DOMAIN rules : rules[k][1] = Metric}
             first == CHOOSE k \in hits : \A j \in hits : k <= j
  <1>1. hits \subseteq Nat /\ DOMAIN rules = 1 .. Len(rules) /\ Len(rules) \in Nat
    OBVIOUS
  <1>2. hits # {}
    BY DEF retention_get
  <1>3. \E k \in hits : \A j \in hits : k <= j
    <2> HIDE DEF hits
    <2> QED
      BY <1>1, <1>2, LeastNat
  <1>4. first \in hits /\ \A j \in hits : first <= j
    <2> HIDE DEF hits
    <2> QED
      BY <1>3
  <1>5. retention_get(rules) = rules[first][2]
    BY <1>2 DEF retention_get
  <1> HIDE DEF first
  <1>6. \A i \in 1 .. first - 1 : rules[i][1] # Metric
    <2> SUFFICES ASSUME NEW i \in 1 .. first - 1, rules[i][1] = Metric
                 PROVE  FALSE
      OBVIOUS
    <2>1. i \in hits
      BY <1>1, <1>4
    <2> HIDE DEF hits
    <2> QED
      BY <1>1, <1>4, <2>1
  <1>7. rules[first] \in Specs
    BY <1>1, <1>4
  <1> QED
    BY <1>4, <1>5, <1>6, <1>7 DEF Period, RetentionAssumption

\* What the steps of the retention thread do to its record.
LEMMA RetMoves ==
  ASSUME RetentionAssumption, BaseInv
  PROVE  /\ retention_start => ret' \in RetRec /\ ret'.pc \in {"off", "sleep"}
         /\ retention_thread_exit => ret' \in RetRec /\ ret'.pc = "joined" /\ ret.pc = "sleep"
         /\ run_expiry => /\ ret' \in RetRec /\ ret.pc = "sleep" /\ ret'.pc = "check"
                          /\ ret'.i = count - 1 /\ ret'.cutoff = now - retention_get(rules)
         /\ run_expiry_check =>
              /\ ret' \in RetRec /\ ret.pc = "check" /\ ret'.i = ret.i
              /\ \/ ret'.pc = "sleep"
                 \/ ret'.pc = "read" /\ ret.i >= 0 /\ ret'.at = Capacity /\ ret'.cutoff = ret.cutoff
         /\ run_expiry_read =>
              /\ ret' \in RetRec /\ ret.pc = "read" /\ ret'.cutoff = ret.cutoff
              /\ \/ TRUE \in Verdicts /\ ret'.pc = "expire" /\ ret'.i = ret.i
                 \/ FALSE \in Verdicts /\ ret'.pc = "check" /\ ret'.i = ret.i - 1
  <1>1. ret \in RetRec /\ ret.i \in Int /\ ret.i - 1 \in Int /\ Capacity \in Nat /\ 0 \in Nat
        /\ 0 \in Int /\ count \in Nat
    BY BaseFacts
  <1>2. retention_start => ret' \in RetRec /\ ret'.pc \in {"off", "sleep"}
    BY <1>1 DEF retention_start, RetRec
  <1>3. retention_thread_exit => ret' \in RetRec /\ ret'.pc = "joined" /\ ret.pc = "sleep"
    BY <1>1 DEF retention_thread_exit, RetRec
  <1>4. ASSUME run_expiry
        PROVE  /\ ret' \in RetRec /\ ret.pc = "sleep" /\ ret'.pc = "check"
               /\ ret'.i = count - 1 /\ ret'.cutoff = now - retention_get(rules)
    <2>1. retention_get(rules) \in Int /\ now \in Int
      <3>1. rules \in Seq(Specs) /\ now \in Times
        BY BaseFacts
      <3>2. retention_get(rules) > 0
        BY <1>4 DEF run_expiry
      <3> QED
        BY <3>1, <3>2, GetFacts DEF RetentionAssumption
    <2>2. PICK x \in Int : x = now - retention_get(rules)
      BY <2>1
    <2>3. PICK y \in Int : y = count - 1
      BY <1>1
    <2>4. ret' = [ret EXCEPT !.pc = "check", !.i = y, !.cutoff = x] /\ ret.pc = "sleep"
      BY <1>4, <2>2, <2>3 DEF run_expiry, LastIndex
    <2>5. ret' \in RetRec /\ ret'.pc = "check" /\ ret'.i = y /\ ret'.cutoff = x
      BY <1>1, <2>4 DEF RetRec
    <2> QED
      BY <2>2, <2>3, <2>4, <2>5
  <1>5. ASSUME run_expiry_check
        PROVE  /\ ret' \in RetRec /\ ret.pc = "check" /\ ret'.i = ret.i
               /\ \/ ret'.pc = "sleep"
                  \/ ret'.pc = "read" /\ ret.i >= 0 /\ ret'.at = Capacity /\ ret'.cutoff = ret.cutoff
    <2>1. CASE ret' = [ret EXCEPT !.pc = "sleep", !.cutoff = 0]
      BY <1>1, <1>5, <2>1 DEF run_expiry_check, RetRec
    <2>2. CASE ret.i >= 0 /\ ret' = [ret EXCEPT !.pc = "read", !.at = Capacity]
      BY <1>1, <1>5, <2>2 DEF run_expiry_check, RetRec
    <2> QED
      BY <1>5, <2>1, <2>2 DEF run_expiry_check
  <1>6. ASSUME run_expiry_read
        PROVE  /\ ret' \in RetRec /\ ret.pc = "read" /\ ret'.cutoff = ret.cutoff
               /\ \/ TRUE \in Verdicts /\ ret'.pc = "expire" /\ ret'.i = ret.i
                  \/ FALSE \in Verdicts /\ ret'.pc = "check" /\ ret'.i = ret.i - 1
    <2>0. ret.pc = "read"
      BY <1>6 DEF run_expiry_read
    <2>1. CASE TRUE \in Verdicts /\ ret' = [ret EXCEPT !.pc = "expire", !.at = 0]
      <3>1. ret' \in RetRec /\ ret'.cutoff = ret.cutoff /\ ret'.pc = "expire" /\ ret'.i = ret.i
        BY <1>1, <2>1 DEF RetRec
      <3> QED
        BY <2>0, <2>1, <3>1
    <2>2. CASE FALSE \in Verdicts /\ ret' = [ret EXCEPT !.pc = "check", !.i = @ - 1, !.at = 0]
      <3>0. PICK y \in Int : y = ret.i - 1
        BY <1>1
      <3>2. ret' = [ret EXCEPT !.pc = "check", !.i = y, !.at = 0]
        BY <2>2, <3>0
      <3>1. ret' \in RetRec /\ ret'.cutoff = ret.cutoff /\ ret'.pc = "check" /\ ret'.i = y
        BY <1>1, <3>2 DEF RetRec
      <3> QED
        BY <2>0, <2>2, <3>0, <3>1
    <2> QED
      BY <1>6, <2>1, <2>2 DEF run_expiry_read
  <1> QED
    BY <1>2, <1>3, <1>4, <1>5, <1>6

\* The same for expire_chunk.
LEMMA ExpireMoves ==
  ASSUME BaseInv
  PROVE  /\ expire_chunk => /\ ret' \in RetRec /\ ret.pc = "expire" /\ ret'.pc = "remove"
                            /\ ret'.i = ret.i /\ ret'.at = Capacity /\ ret'.cutoff = ret.cutoff
         /\ expire_chunk_remove => /\ ret' \in RetRec /\ ret.pc = "remove" /\ ret'.pc = "tail"
                                   /\ ret'.i = ret.i /\ ret'.cutoff = ret.cutoff
         /\ expire_chunk_tail => /\ ret' \in RetRec /\ ret.pc = "tail"
                                 /\ ret'.pc \in {"chunks", "dec"}
                                 /\ ret'.pc = "chunks" => ret.i < count - 1
                                 /\ ret'.pc = "dec" => ~ (ret.i < count - 1)
                                 /\ ret'.i = ret.i /\ ret'.c = count /\ ret'.cutoff = ret.cutoff
         /\ expire_chunk_chunks => /\ ret' \in RetRec /\ ret.pc = "chunks" /\ ret'.pc = "move"
                                   /\ ret'.i = ret.i /\ ret'.c = ret.c /\ ret'.at = Capacity
                                   /\ ret'.cutoff = ret.cutoff
         /\ expire_chunk_move => /\ ret' \in RetRec /\ ret.pc = "move" /\ ret'.pc = "dec"
                                 /\ ret'.i = ret.i /\ ret'.c = ret.c /\ ret'.cutoff = ret.cutoff
         /\ expire_chunk_load => /\ ret' \in RetRec /\ ret.pc = "dec" /\ ret'.pc = "decw"
                                 /\ ret'.i = ret.i /\ ret'.c \in {ret.c, count}
                                 /\ ret'.cutoff = ret.cutoff
         /\ expire_chunk_store => /\ ret' \in RetRec /\ ret.pc = "decw" /\ ret'.pc = "check"
                                  /\ ret'.i = ret.i - 1 /\ ret'.cutoff = ret.cutoff
                                  /\ count' = ret.c - 1
  <1>1. ret \in RetRec /\ ret.i \in Int /\ Capacity \in Nat /\ 0 \in Nat /\ count \in Nat
        /\ ret.c \in Nat
    BY BaseFacts
  <1>2. ASSUME expire_chunk
        PROVE  /\ ret' \in RetRec /\ ret.pc = "expire" /\ ret'.pc = "remove"
               /\ ret'.i = ret.i /\ ret'.at = Capacity /\ ret'.cutoff = ret.cutoff
    BY <1>1, <1>2 DEF expire_chunk, RetRec
  <1>3. ASSUME expire_chunk_remove
        PROVE  /\ ret' \in RetRec /\ ret.pc = "remove" /\ ret'.pc = "tail"
               /\ ret'.i = ret.i /\ ret'.cutoff = ret.cutoff
    <2>1. ret.pc = "remove" /\ ret' = [ret EXCEPT !.pc = "tail", !.at = 0]
      BY <1>3 DEF expire_chunk_remove
    <2> QED
      BY <1>1, <2>1 DEF RetRec
  <1>4. ASSUME expire_chunk_tail
        PROVE  /\ ret' \in RetRec /\ ret.pc = "tail" /\ ret'.pc \in {"chunks", "dec"}
               /\ ret'.pc = "chunks" => ret.i < count - 1
               /\ ret'.pc = "dec" => ~ (ret.i < count - 1)
               /\ ret'.i = ret.i /\ ret'.c = count /\ ret'.cutoff = ret.cutoff
    <2>1. PICK p \in {"chunks", "dec"} : p = IF count - ret.i - 1 > 0 THEN "chunks" ELSE "dec"
      OBVIOUS
    <2>2. ret.pc = "tail" /\ ret' = [ret EXCEPT !.pc = p, !.c = count]
      BY <1>4, <2>1 DEF expire_chunk_tail
    <2>3. /\ ret' \in RetRec /\ ret'.pc = p /\ ret'.i = ret.i /\ ret'.c = count
          /\ ret'.cutoff = ret.cutoff
      BY <1>1, <2>1, <2>2 DEF RetRec
    <2> QED
      BY <1>1, <2>1, <2>2, <2>3
  <1>5. ASSUME expire_chunk_chunks
        PROVE  /\ ret' \in RetRec /\ ret.pc = "chunks" /\ ret'.pc = "move"
               /\ ret'.i = ret.i /\ ret'.c = ret.c /\ ret'.at = Capacity
               /\ ret'.cutoff = ret.cutoff
    BY <1>1, <1>5 DEF expire_chunk_chunks, RetRec
  <1>6. ASSUME expire_chunk_move
        PROVE  /\ ret' \in RetRec /\ ret.pc = "move" /\ ret'.pc = "dec"
               /\ ret'.i = ret.i /\ ret'.c = ret.c /\ ret'.cutoff = ret.cutoff
    <2>1. ret.pc = "move" /\ ret' = [ret EXCEPT !.pc = "dec", !.at = 0]
      BY <1>6 DEF expire_chunk_move
    <2> QED
      BY <1>1, <2>1 DEF RetRec
  <1>7. ASSUME expire_chunk_load
        PROVE  /\ ret' \in RetRec /\ ret.pc = "dec" /\ ret'.pc = "decw"
               /\ ret'.i = ret.i /\ ret'.c \in {ret.c, count} /\ ret'.cutoff = ret.cutoff
    <2>1. PICK c \in {ret.c, count} : ret' = [ret EXCEPT !.pc = "decw", !.c = c]
      BY <1>7 DEF expire_chunk_load
    <2>2. ret.pc = "dec" /\ c \in Nat
      BY <1>1, <1>7, <2>1 DEF expire_chunk_load
    <2>3. /\ ret' \in RetRec /\ ret'.pc = "decw" /\ ret'.i = ret.i /\ ret'.c = c
          /\ ret'.cutoff = ret.cutoff
      BY <1>1, <2>1, <2>2 DEF RetRec
    <2> QED
      BY <2>1, <2>2, <2>3
  <1>8. ASSUME expire_chunk_store
        PROVE  /\ ret' \in RetRec /\ ret.pc = "decw" /\ ret'.pc = "check"
               /\ ret'.i = ret.i - 1 /\ ret'.cutoff = ret.cutoff /\ count' = ret.c - 1
    <2>1. PICK y \in Int : y = ret.i - 1
      BY <1>1
    <2>2. /\ ret' = [ret EXCEPT !.pc = "check", !.i = y, !.c = 0]
          /\ ret.pc = "decw" /\ count' = ret.c - 1
      BY <1>8, <2>1 DEF expire_chunk_store, NextIndex
    <2>3. ret' \in RetRec /\ ret'.pc = "check" /\ ret'.i = y /\ ret'.cutoff = ret.cutoff
      BY <1>1, <2>2 DEF RetRec
    <2> QED
      BY <2>1, <2>2, <2>3
  <1> QED
    BY <1>2, <1>3, <1>4, <1>5, <1>6, <1>7, <1>8

\* The steps of the retention thread that touch neither list nor files.
Looks == \/ retention_start \/ retention_thread_exit \/ run_expiry \/ run_expiry_check
         \/ run_expiry_read \/ expire_chunk \/ expire_chunk_tail \/ expire_chunk_chunks

LEMMA LooksFrame ==
  ASSUME Looks \/ expire_chunk_load
  PROVE  /\ UNCHANGED <<mem, count, files, fl, rules, now, flushed, expired>>
         /\ Looks => scan' = scan
         /\ proc' = proc \/ (proc = "args" /\ proc' = "up")
         /\ retention_start \/ proc' = proc
  BY DEF Looks, retention_start, retention_thread_exit, run_expiry, run_expiry_check,
         run_expiry_read, expire_chunk, expire_chunk_tail, expire_chunk_chunks,
         expire_chunk_load, list, history

LEMMA LooksBase ==
  ASSUME RetentionAssumption, BaseInv, Looks \/ expire_chunk_load, raced' \in BOOLEAN
  PROVE  BaseInv'
  <1>1. /\ UNCHANGED <<mem, count, files, fl, rules, now, flushed, expired>>
        /\ proc' = proc \/ (proc = "args" /\ proc' = "up")
    BY LooksFrame
  <1>2. ret.i \in Int /\ count \in Nat /\ ret.c \in Nat
    BY BaseFacts
  <1>3. /\ files' \in [Starts -> 0 .. MaxChunks] /\ expired' \subseteq 1 .. MaxChunks
        /\ \A n \in expired' : n <= Len(flushed)
    BY <1>1 DEF BaseInv, RetentionTypeOK, SlotsInv
  <1>4. ret' \in RetRec /\ WalkInv'
    <2>1. CASE retention_start \/ retention_thread_exit
      BY <2>1, RetMoves DEF WalkInv, Walking, Deleting
    <2>2. CASE run_expiry
      <3>1. ret' \in RetRec /\ ret'.pc = "check" /\ ret'.i = count - 1
        BY <2>2, RetMoves
      <3> QED
        BY <1>1, <1>2, <3>1 DEF WalkInv, Walking, Deleting
    <2>3. CASE run_expiry_check
      <3>1. /\ ret' \in RetRec /\ ret.pc = "check" /\ ret'.i = ret.i
            /\ ret'.pc = "sleep" \/ (ret'.pc = "read" /\ ret.i >= 0)
        BY <2>3, RetMoves
      <3> QED
        BY <1>1, <1>2, <3>1 DEF BaseInv, WalkInv, Walking, Deleting
    <2>4. CASE run_expiry_read
      <3>1. /\ ret' \in RetRec /\ ret.pc = "read"
            /\ \/ ret'.pc = "expire" /\ ret'.i = ret.i
               \/ ret'.pc = "check" /\ ret'.i = ret.i - 1
        BY <2>4, RetMoves
      <3> QED
        BY <1>1, <1>2, <3>1 DEF BaseInv, WalkInv, Walking, Deleting
    <2>5. CASE expire_chunk
      <3>1. ret' \in RetRec /\ ret.pc = "expire" /\ ret'.pc = "remove" /\ ret'.i = ret.i
        BY <2>5, ExpireMoves
      <3> QED
        BY <1>1, <1>2, <3>1 DEF BaseInv, WalkInv, Walking, Deleting
    <2>6. CASE expire_chunk_tail
      <3>1. /\ ret' \in RetRec /\ ret.pc = "tail" /\ ret'.pc \in {"chunks", "dec"}
            /\ ret'.i = ret.i /\ ret'.c = count
        BY <2>6, ExpireMoves
      <3> QED
        BY <1>1, <1>2, <3>1 DEF BaseInv, WalkInv, Walking, Deleting
    <2>7. CASE expire_chunk_chunks
      BY <1>1, <1>2, <2>7, ExpireMoves DEF BaseInv, WalkInv, Walking, Deleting
    <2>8. CASE expire_chunk_load
      BY <1>1, <1>2, <2>8, ExpireMoves DEF BaseInv, WalkInv, Walking, Deleting
    <2> QED
      BY <2>1, <2>2, <2>3, <2>4, <2>5, <2>6, <2>7, <2>8 DEF Looks
  <1>5. proc' = "args" => ret'.pc = "off"
    <2>1. retention_start => proc' # "args"
      BY DEF retention_start
    <2>2. ret.pc # "off" => proc # "args"
      BY DEF BaseInv, ArgsInv
    <2>3. retention_start \/ (ret.pc # "off" /\ proc' = proc)
      <3>1. retention_start \/ ret.pc # "off"
        BY RetMoves, ExpireMoves DEF Looks
      <3> QED
        BY <3>1, LooksFrame
    <2> QED
      BY <2>1, <2>2, <2>3
  <1> QED
    BY <1>1, <1>3, <1>4, <1>5, WalksBase

\* The slot that the walk looks at.
LEMMA WalkSlot ==
  ASSUME BaseInv, Walking(ret.pc), ret.i >= 0
  PROVE  /\ ret.i \in 0 .. count - 1 /\ ret.i \in DOMAIN mem
         /\ mem[ret.i].n \in Nat /\ mem[ret.i].n <= Len(flushed)
  <1>1. /\ ret.i \in Int /\ count \in Nat /\ count <= Capacity /\ Capacity \in Nat
        /\ DOMAIN mem = 0 .. Capacity - 1 /\ \A j \in DOMAIN mem : mem[j].n \in Nat
    BY BaseFacts
  <1>2. ret.i < count
    BY DEF BaseInv, WalkInv
  <1>3. ret.i \in 0 .. count - 1 /\ ret.i \in DOMAIN mem
    BY <1>1, <1>2
  <1> QED
    BY <1>1, <1>3 DEF BaseInv, SlotsInv

LEMMA RemoveBase ==
  ASSUME RetentionAssumption, BaseInv, expire_chunk_remove, raced' \in BOOLEAN
  PROVE  BaseInv'
  <1>1. /\ UNCHANGED <<mem, count, fl, rules, now, flushed, proc>> /\ ret.pc = "remove"
    BY DEF expire_chunk_remove, list
  <1>2. ret' \in RetRec /\ ret'.pc = "tail" /\ ret'.i = ret.i
    BY ExpireMoves
  <1>3. WalkInv' /\ proc' # "args"
    BY <1>1, <1>2 DEF BaseInv, WalkInv, Walking, Deleting, ArgsInv
  <1>4. PICK n : n = mem[ret.i].n
    OBVIOUS
  <1>5. n \in Nat /\ n <= Len(flushed) /\ Len(flushed) \in Nat /\ Len(flushed) <= MaxChunks
    BY <1>1, <1>4, WalkSlot, BaseFacts DEF Walking, Deleting, BaseInv, WalkInv, RetentionTypeOK
  <1>6. /\ files' \in [Starts -> 0 .. MaxChunks] /\ expired' \subseteq 1 .. MaxChunks
        /\ \A x \in expired' : x <= Len(flushed)
    <2>1. CASE UNCHANGED <<files, expired>>
      BY <2>1 DEF BaseInv, RetentionTypeOK, SlotsInv
    <2>2. CASE /\ n # 0 /\ files' = [files EXCEPT ![flushed[n].start_ts] = 0]
               /\ expired' = expired \cup {n}
      <3>1. n \in 1 .. MaxChunks /\ 0 \in 0 .. MaxChunks
        BY <1>5, <2>2 DEF RetentionAssumption
      <3>2. expired' \subseteq 1 .. MaxChunks /\ \A x \in expired' : x <= Len(flushed)
        BY <1>5, <2>2, <3>1 DEF BaseInv, RetentionTypeOK, SlotsInv
      <3>3. files' \in [Starts -> 0 .. MaxChunks]
        BY <2>2, <3>1 DEF BaseInv, RetentionTypeOK
      <3> QED
        BY <3>2, <3>3
    <2> QED
      BY <1>4, <2>1, <2>2 DEF expire_chunk_remove
  <1> QED
    BY <1>1, <1>2, <1>3, <1>6, WalksBase

\* memmove: what lies in a slot afterwards was in some slot before, or is unset.
LEMMA ShiftFacts ==
  ASSUME BaseInv, ret.pc = "move"
  PROVE  /\ DOMAIN Shifted(ret.i, ret.c) = DOMAIN mem
         /\ \A k \in DOMAIN mem :
              /\ ret.i <= k /\ k < ret.c - 1 => k + 1 \in DOMAIN mem
                                                /\ Shifted(ret.i, ret.c)[k] = mem[k + 1]
              /\ ~ (ret.i <= k /\ k < ret.c - 1) => Shifted(ret.i, ret.c)[k] = mem[k]
  <1>1. /\ DOMAIN mem = 0 .. Capacity - 1 /\ Capacity \in Nat
        /\ count \in Nat /\ ret.i \in Int /\ count <= Capacity /\ ret.c \in Nat
    BY BaseFacts
  <1>2. ret.i >= 0 /\ ret.c <= count
    BY DEF BaseInv, WalkInv, Walking, Deleting
  <1> QED
    BY <1>1, <1>2 DEF Shifted

LEMMA MoveBase ==
  ASSUME RetentionAssumption, BaseInv, expire_chunk_move, raced' \in BOOLEAN
  PROVE  BaseInv' /\ Capacity' = Capacity /\ DOMAIN mem' = DOMAIN mem
  <1>1. /\ UNCHANGED <<count, files, fl, rules, proc, now, flushed, expired>> /\ ret.pc = "move"
    BY DEF expire_chunk_move, history
  <1>2. ret' \in RetRec /\ ret'.pc = "dec" /\ ret'.i = ret.i /\ ret'.c = ret.c
    BY ExpireMoves
  <1>3. Unset \in Slot /\ Unset.n = 0
    BY DEF Unset, Slot, RetentionAssumption
  <1>4. /\ DOMAIN mem' = DOMAIN mem
        /\ \A k \in DOMAIN mem : mem'[k] = Unset \/ \E j \in DOMAIN mem : mem'[k] = mem[j]
    <2>1. PICK a : a = Shifted(ret.i, ret.c)
      OBVIOUS
    <2>2. /\ DOMAIN a = DOMAIN mem
          /\ \A k \in DOMAIN mem : \E j \in DOMAIN mem : a[k] = mem[j]
      BY <1>1, <2>1, ShiftFacts
    <2>3. \/ mem' = a \/ mem' = mem
          \/ \E lost : mem' = [k \in DOMAIN mem |-> IF k \in lost THEN Unset ELSE a[k]]
      BY <2>1 DEF expire_chunk_move
    <2>4. CASE mem' = a
      BY <2>2, <2>4
    <2>5. CASE mem' = mem
      BY <2>5
    <2>6. CASE \E lost : mem' = [k \in DOMAIN mem |-> IF k \in lost THEN Unset ELSE a[k]]
      BY <2>2, <2>6
    <2> QED
      BY <2>3, <2>4, <2>5, <2>6
  <1>5. Capacity' = Capacity
    BY <1>4 DEF Capacity
  <1>6. mem' \in [0 .. Capacity - 1 -> Slot] /\ \A j \in DOMAIN mem : mem'[j].n <= Len(flushed)
    <2>1. \A j \in DOMAIN mem : mem[j] \in Slot /\ mem[j].n <= Len(flushed)
      BY BaseFacts DEF BaseInv, SlotsInv
    <2>2. Len(flushed) >= 0 /\ DOMAIN mem = 0 .. Capacity - 1
      BY BaseFacts
    <2>3. \A k \in DOMAIN mem : mem'[k] \in Slot /\ mem'[k].n <= Len(flushed)
      BY <1>3, <1>4, <2>1, <2>2
    <2>4. mem' = [k \in DOMAIN mem' |-> mem'[k]]
      <3>1. \/ mem' = Shifted(ret.i, ret.c) \/ mem' = mem
            \/ \E lost : mem' = [k \in DOMAIN mem |-> IF k \in lost THEN Unset
                                                      ELSE Shifted(ret.i, ret.c)[k]]
        BY DEF expire_chunk_move
      <3>2. mem = [k \in DOMAIN mem |-> mem[k]]
        BY BaseFacts
      <3> QED
        BY <3>1, <3>2 DEF Shifted
    <2> QED
      BY <1>4, <2>2, <2>3, <2>4
  <1>7. RetentionTypeOK'
    BY <1>1, <1>2, <1>5, <1>6 DEF BaseInv, RetentionTypeOK, RetRec
  <1>8. RoomInv'
    BY <1>1, <1>5 DEF BaseInv, RoomInv, Appending, Storing
  <1>9. SlotsInv'
    BY <1>1, <1>4, <1>6 DEF BaseInv, SlotsInv
  <1>10. WalkInv' /\ ArgsInv'
    BY <1>1, <1>2 DEF BaseInv, WalkInv, ArgsInv, Walking, Deleting
  <1> QED
    BY <1>4, <1>5, <1>7, <1>8, <1>9, <1>10 DEF BaseInv

LEMMA StoreBase ==
  ASSUME BaseInv, expire_chunk_store, raced' \in BOOLEAN
  PROVE  BaseInv'
  <1>1. UNCHANGED <<mem, files, fl, rules, proc, now, flushed, expired>>
    BY DEF expire_chunk_store, history
  <1>2. /\ ret' \in RetRec /\ ret.pc = "decw" /\ ret'.pc = "check" /\ ret'.i = ret.i - 1
        /\ count' = ret.c - 1
    BY ExpireMoves
  <1>3. ret.i \in Int /\ ret.c \in Nat /\ count \in Nat
    BY BaseFacts
  <1>4. ret.i >= 0 /\ ret.i < ret.c /\ ret.c <= count
    BY <1>2 DEF BaseInv, WalkInv, Deleting, Walking
  <1>5. Capacity' = Capacity
    BY <1>1 DEF Capacity
  <1>6. count' \in Nat /\ count' < count
    BY <1>2, <1>3, <1>4
  <1>7. RetentionTypeOK'
    BY <1>1, <1>2, <1>5, <1>6 DEF BaseInv, RetentionTypeOK, RetRec
  <1>8. RoomInv'
    <2>1. Capacity \in Nat /\ fl.k \in Nat /\ fl.c \in Nat
      BY BaseFacts
    <2> QED
      BY <1>1, <1>3, <1>5, <1>6, <2>1, SMTT(40) DEF BaseInv, RoomInv, Appending, Storing
  <1>9. SlotsInv'
    BY <1>1 DEF BaseInv, SlotsInv
  <1>10. WalkInv' /\ ArgsInv'
    BY <1>1, <1>2, <1>3, <1>4, <1>6 DEF BaseInv, WalkInv, ArgsInv, Walking, Deleting
  <1> QED
    BY <1>7, <1>8, <1>9, <1>10 DEF BaseInv

\* The block that headflush writes becomes the last of the flushed chunks.
LEMMA NewChunk ==
  ASSUME RetentionAssumption, BaseInv, NEW b \in Bounds, headflush_write(b)
  PROVE  /\ flushed' \in Seq(Chunk) /\ Len(flushed') = Len(flushed) + 1
         /\ DOMAIN flushed' = 1 .. Len(flushed) + 1
         /\ Len(flushed) + 1 \in 0 .. MaxChunks
         /\ \A n \in DOMAIN flushed : n \in DOMAIN flushed' /\ flushed'[n] = flushed[n]
                                      /\ n <= Len(flushed)
         /\ \A n \in DOMAIN flushed' : n \in DOMAIN flushed \/ n = Len(flushed) + 1
         /\ flushed'[Len(flushed) + 1].start_ts = b[1] /\ b[1] \in Starts
         /\ fl' \in FlushRec /\ fl'.pc = "grow" /\ fl'.n = Len(flushed) + 1 /\ fl.pc = "idle"
         /\ files' = [files EXCEPT ![b[1]] = Len(flushed) + 1]
         /\ files' \in [Starts -> 0 .. MaxChunks]
         /\ UNCHANGED <<mem, count, ret, rules, scan, proc, now, expired>>
         /\ proc \in {"up", "stop"}
  <1> DEFINE m == [start_ts |-> b[1], end_ts |-> b[2]]
  <1>1. flushed \in Seq(Chunk) /\ Len(flushed) \in Nat /\ DOMAIN flushed = 1 .. Len(flushed)
    BY BaseFacts
  <1>2. m \in Chunk /\ m.start_ts = b[1] /\ b[1] \in Starts
    BY DEF Chunk, Starts
  <1>3. /\ Len(flushed) < MaxChunks /\ MaxChunks \in Nat /\ flushed' = Append(flushed, m)
        /\ files' = [files EXCEPT ![b[1]] = Len(flushed) + 1] /\ fl.pc = "idle"
        /\ fl' = [NoFlush EXCEPT !.pc = "grow", !.n = Len(flushed) + 1]
        /\ UNCHANGED <<mem, count, ret, rules, scan, proc, now, expired>>
        /\ proc \in {"up", "stop"}
    BY DEF headflush_write, RetentionAssumption, list
  <1> HIDE DEF m
  <1>4. /\ flushed' \in Seq(Chunk) /\ Len(flushed') = Len(flushed) + 1
        /\ \A n \in 1 .. Len(flushed) : flushed'[n] = flushed[n]
        /\ flushed'[Len(flushed) + 1] = m
    BY <1>1, <1>2, <1>3
  <1>5. DOMAIN flushed' = 1 .. Len(flushed) + 1
    BY <1>4
  <1>6. Len(flushed) + 1 \in 0 .. MaxChunks
    BY <1>1, <1>3
  <1>7. fl' \in FlushRec /\ fl'.pc = "grow" /\ fl'.n = Len(flushed) + 1
    <2>1. fl' = [pc |-> "grow", n |-> Len(flushed) + 1, k |-> 0, c |-> 0]
      BY <1>3 DEF NoFlush
    <2> QED
      BY <1>6, <2>1 DEF FlushRec
  <1>8. files' \in [Starts -> 0 .. MaxChunks]
    BY <1>3, <1>6, BaseFacts
  <1>9. /\ \A n \in DOMAIN flushed : n \in DOMAIN flushed' /\ flushed'[n] = flushed[n]
                                     /\ n <= Len(flushed)
        /\ \A n \in DOMAIN flushed' : n \in DOMAIN flushed \/ n = Len(flushed) + 1
    BY <1>1, <1>4, <1>5
  <1> QED
    BY <1>2, <1>3, <1>4, <1>5, <1>6, <1>7, <1>8, <1>9

LEMMA WriteBase ==
  ASSUME RetentionAssumption, BaseInv, NEW b \in Bounds, headflush_write(b), raced' \in BOOLEAN
  PROVE  BaseInv'
  <1>1. /\ flushed' \in Seq(Chunk) /\ Len(flushed') = Len(flushed) + 1
        /\ Len(flushed) + 1 \in 0 .. MaxChunks
        /\ fl' \in FlushRec /\ fl'.pc = "grow" /\ fl'.n = Len(flushed) + 1
        /\ files' \in [Starts -> 0 .. MaxChunks]
        /\ UNCHANGED <<mem, count, ret, rules, proc, now, expired>>
        /\ proc \in {"up", "stop"}
    BY NewChunk
  <1>2. Len(flushed) \in Nat /\ \A j \in DOMAIN mem : mem[j].n \in Nat
    BY BaseFacts
  <1>3. Capacity' = Capacity
    BY <1>1 DEF Capacity
  <1>4. RetentionTypeOK'
    <2>1. Len(flushed') <= MaxChunks
      BY <1>1, <1>2 DEF RetentionAssumption
    <2> QED
      BY <1>1, <1>3, <2>1 DEF BaseInv, RetentionTypeOK, FlushRec
  <1>5. RoomInv'
    BY <1>1, <1>3 DEF BaseInv, RoomInv, Appending, Storing
  <1>6. SlotsInv'
    <2>1. \A n \in expired : n \in Nat
      BY DEF BaseInv, RetentionTypeOK
    <2>2. \A j \in DOMAIN mem : mem[j].n <= Len(flushed) + 1
      BY <1>2 DEF BaseInv, SlotsInv
    <2>3. \A n \in expired : n <= Len(flushed) + 1
      BY <1>2, <2>1 DEF BaseInv, SlotsInv
    <2> QED
      BY <1>1, <1>2, <2>2, <2>3 DEF SlotsInv
  <1>7. WalkInv' /\ ArgsInv'
    BY <1>1 DEF BaseInv, WalkInv, ArgsInv
  <1> QED
    BY <1>4, <1>5, <1>6, <1>7 DEF BaseInv

\* What the steps of headflush do to its record.
LEMMA FlushMoves ==
  ASSUME RetentionAssumption, BaseInv
  PROVE  /\ headflush_grow => /\ fl' \in FlushRec /\ fl.pc = "grow" /\ fl'.n = fl.n
                              /\ fl'.k = count
                              /\ \/ fl'.pc = "realloc" /\ count >= Capacity
                                 \/ fl'.pc = "start_ts" /\ ~ (count >= Capacity)
         /\ headflush_realloc => /\ fl' \in FlushRec /\ fl.pc = "realloc" /\ fl'.n = fl.n
                                 /\ fl'.k = fl.k /\ fl'.pc \in {"realloc", "publish"}
         /\ headflush_publish => /\ fl' \in FlushRec /\ fl.pc = "publish" /\ fl'.n = fl.n
                                 /\ fl'.k = fl.k /\ fl'.pc = "start_ts"
         /\ headflush_start_ts =>
              /\ fl' \in FlushRec /\ fl.pc = "start_ts" /\ fl'.n = fl.n /\ fl'.pc = "end_ts"
              /\ fl'.k \in {fl.k, count}
              /\ mem' = [mem EXCEPT ![fl'.k].start_ts = flushed[fl.n].start_ts]
         /\ headflush_end_ts =>
              /\ fl' \in FlushRec /\ fl.pc = "end_ts" /\ fl'.n = fl.n /\ fl'.pc = "filename"
              /\ fl'.k \in {fl.k, count}
              /\ mem' = [mem EXCEPT ![fl'.k].end_ts = flushed[fl.n].end_ts]
         /\ headflush_filename =>
              /\ fl' \in FlushRec /\ fl.pc = "filename" /\ fl'.n = fl.n /\ fl'.pc = "inc"
              /\ fl'.k \in {fl.k, count}
              /\ mem' = [mem EXCEPT ![fl'.k].n = fl.n]
         /\ headflush_load => /\ fl' \in FlushRec /\ fl.pc = "inc" /\ fl'.n = fl.n
                              /\ fl'.pc = "incw" /\ fl'.k = fl.k /\ fl'.c \in {fl.k, count}
         /\ headflush_store => /\ fl' \in FlushRec /\ fl.pc = "incw" /\ fl'.pc = "idle"
                               /\ fl'.n = 0 /\ count' = fl.c + 1
  <1>1. fl \in FlushRec /\ fl.k \in Nat /\ count \in Nat /\ fl.n \in 0 .. MaxChunks
    BY BaseFacts DEF FlushRec
  <1>2. ASSUME headflush_grow
        PROVE  /\ fl' \in FlushRec /\ fl.pc = "grow" /\ fl'.n = fl.n /\ fl'.k = count
               /\ \/ fl'.pc = "realloc" /\ count >= Capacity
                  \/ fl'.pc = "start_ts" /\ ~ (count >= Capacity)
    <2>1. PICK p \in {"realloc", "start_ts"} : p = IF ListFull THEN "realloc" ELSE "start_ts"
      OBVIOUS
    <2>2. fl.pc = "grow" /\ fl' = [fl EXCEPT !.pc = p, !.k = count]
      BY <1>2, <2>1 DEF headflush_grow
    <2>3. fl' \in FlushRec /\ fl'.n = fl.n /\ fl'.k = count /\ fl'.pc = p
      BY <1>1, <2>1, <2>2 DEF FlushRec
    <2> QED
      BY <2>1, <2>2, <2>3 DEF ListFull
  <1>3. headflush_realloc => /\ fl' \in FlushRec /\ fl.pc = "realloc" /\ fl'.n = fl.n
                             /\ fl'.k = fl.k /\ fl'.pc \in {"realloc", "publish"}
    BY <1>1 DEF headflush_realloc, FlushRec
  <1>4. headflush_publish => /\ fl' \in FlushRec /\ fl.pc = "publish" /\ fl'.n = fl.n
                             /\ fl'.k = fl.k /\ fl'.pc = "start_ts"
    BY <1>1 DEF headflush_publish, FlushRec
  <1>5. ASSUME NEW p \in {"end_ts", "filename", "inc"}, NEW k \in {fl.k, count},
               fl' = [fl EXCEPT !.pc = p, !.k = k]
        PROVE  fl' \in FlushRec /\ fl'.n = fl.n /\ fl'.pc = p /\ fl'.k = k
    <2>1. k \in Nat
      BY <1>1
    <2> QED
      BY <1>1, <1>5, <2>1 DEF FlushRec
  <1>6. ASSUME headflush_start_ts
        PROVE  /\ fl' \in FlushRec /\ fl.pc = "start_ts" /\ fl'.n = fl.n /\ fl'.pc = "end_ts"
               /\ fl'.k \in {fl.k, count}
               /\ mem' = [mem EXCEPT ![fl'.k].start_ts = flushed[fl.n].start_ts]
    <2>1. PICK k \in {fl.k, count} :
            /\ mem' = [mem EXCEPT ![k].start_ts = flushed[fl.n].start_ts]
            /\ fl' = [fl EXCEPT !.pc = "end_ts", !.k = k]
      BY <1>6 DEF headflush_start_ts
    <2>2. fl' \in FlushRec /\ fl'.n = fl.n /\ fl'.pc = "end_ts" /\ fl'.k = k
      BY <1>5, <2>1
    <2> QED
      BY <1>6, <2>1, <2>2 DEF headflush_start_ts
  <1>7. ASSUME headflush_end_ts
        PROVE  /\ fl' \in FlushRec /\ fl.pc = "end_ts" /\ fl'.n = fl.n /\ fl'.pc = "filename"
               /\ fl'.k \in {fl.k, count}
               /\ mem' = [mem EXCEPT ![fl'.k].end_ts = flushed[fl.n].end_ts]
    <2>1. PICK k \in {fl.k, count} :
            /\ mem' = [mem EXCEPT ![k].end_ts = flushed[fl.n].end_ts]
            /\ fl' = [fl EXCEPT !.pc = "filename", !.k = k]
      BY <1>7 DEF headflush_end_ts
    <2>2. fl' \in FlushRec /\ fl'.n = fl.n /\ fl'.pc = "filename" /\ fl'.k = k
      BY <1>5, <2>1
    <2> QED
      BY <1>7, <2>1, <2>2 DEF headflush_end_ts
  <1>8. ASSUME headflush_filename
        PROVE  /\ fl' \in FlushRec /\ fl.pc = "filename" /\ fl'.n = fl.n /\ fl'.pc = "inc"
               /\ fl'.k \in {fl.k, count}
               /\ mem' = [mem EXCEPT ![fl'.k].n = fl.n]
    <2>1. PICK k \in {fl.k, count} :
            /\ mem' = [mem EXCEPT ![k].n = fl.n]
            /\ fl' = [fl EXCEPT !.pc = "inc", !.k = k]
      BY <1>8 DEF headflush_filename
    <2>2. fl' \in FlushRec /\ fl'.n = fl.n /\ fl'.pc = "inc" /\ fl'.k = k
      BY <1>5, <2>1
    <2> QED
      BY <1>8, <2>1, <2>2 DEF headflush_filename
  <1>9. ASSUME headflush_load
        PROVE  /\ fl' \in FlushRec /\ fl.pc = "inc" /\ fl'.n = fl.n
               /\ fl'.pc = "incw" /\ fl'.k = fl.k /\ fl'.c \in {fl.k, count}
    <2>1. PICK c \in {fl.k, count} : fl' = [fl EXCEPT !.pc = "incw", !.c = c]
      BY <1>9 DEF headflush_load
    <2>2. c \in Nat /\ fl.pc = "inc"
      BY <1>1, <1>9, <2>1 DEF headflush_load
    <2>3. fl' \in FlushRec /\ fl'.n = fl.n /\ fl'.pc = "incw" /\ fl'.k = fl.k /\ fl'.c = c
      BY <1>1, <2>1, <2>2 DEF FlushRec
    <2> QED
      BY <2>1, <2>2, <2>3
  <1>10. headflush_store => /\ fl' \in FlushRec /\ fl.pc = "incw" /\ fl'.pc = "idle"
                            /\ fl'.n = 0 /\ count' = fl.c + 1
    <2>1. 0 \in 0 .. MaxChunks
      BY DEF RetentionAssumption
    <2> QED
      BY <2>1 DEF headflush_store, NoFlush, FlushRec
  <1> QED
    BY <1>2, <1>3, <1>4, <1>6, <1>7, <1>8, <1>9, <1>10

\* Steps of headflush that leave the array and the count alone.
LEMMA FlushBase ==
  ASSUME BaseInv, UNCHANGED <<mem, count, files, ret, rules, now, flushed, expired>>,
         raced' \in BOOLEAN, fl' \in FlushRec, fl.pc # "idle", fl'.pc # "idle", fl'.n = fl.n,
         RoomInv', proc' = proc \/ proc' = "died"
  PROVE  BaseInv'
  <1>1. Capacity' = Capacity
    BY DEF Capacity
  <1>2. RetentionTypeOK'
    <2>1. proc' \in {"args", "up", "stop", "died", "fault"}
      BY DEF BaseInv, RetentionTypeOK
    <2> QED
      BY <1>1, <2>1 DEF BaseInv, RetentionTypeOK, FlushRec
  <1>3. SlotsInv' /\ WalkInv' /\ ArgsInv'
    BY DEF BaseInv, SlotsInv, WalkInv, ArgsInv, Walking, Deleting
  <1> QED
    BY <1>2, <1>3 DEF BaseInv

LEMMA GrowBase ==
  ASSUME RetentionAssumption, BaseInv, headflush_grow, raced' \in BOOLEAN, Alive
  PROVE  BaseInv'
  <1>1. UNCHANGED <<mem, count, files, ret, rules, proc, now, flushed, expired>>
    BY DEF headflush_grow, list, history
  <1>2. /\ fl' \in FlushRec /\ fl.pc = "grow" /\ fl'.n = fl.n /\ fl'.k = count
        /\ \/ fl'.pc = "realloc" /\ count >= Capacity
           \/ fl'.pc = "start_ts" /\ ~ (count >= Capacity)
    BY FlushMoves
  <1>3. Capacity \in Nat /\ count \in Nat
    BY BaseFacts
  <1>4. Capacity' = Capacity
    BY <1>1 DEF Capacity
  <1>5. RoomInv'
    BY <1>1, <1>2, <1>3, <1>4 DEF BaseInv, RoomInv, Appending, Storing, Alive
  <1>6. fl.pc # "idle" /\ fl'.pc # "idle"
    BY <1>2
  <1> QED
    BY <1>1, <1>2, <1>5, <1>6, FlushBase

LEMMA ReallocBase ==
  ASSUME RetentionAssumption, BaseInv, headflush_realloc, raced' \in BOOLEAN, Alive
  PROVE  BaseInv'
  <1>1. UNCHANGED <<mem, count, files, ret, rules, now, flushed, expired>>
        /\ (proc' = proc \/ proc' = "died")
    BY DEF headflush_realloc, list, history
  <1>2. /\ fl' \in FlushRec /\ fl.pc = "realloc" /\ fl'.n = fl.n /\ fl'.k = fl.k
        /\ fl'.pc \in {"realloc", "publish"}
    BY FlushMoves
  <1>3. Capacity \in Nat /\ Capacity > 0 /\ count \in Nat /\ fl.k \in Nat
    BY BaseFacts
  <1>4. Capacity' = Capacity
    BY <1>1 DEF Capacity
  <1>5. Capacity < CapRange \div 2 /\ fl.k = Capacity
    BY <1>2 DEF BaseInv, RoomInv
  <1>6. /\ proc' = "died" => fl.k >= CapRange \div 4
        /\ fl'.pc = "publish" => 2 * Capacity < CapRange \div 2
    <2>1. PICK c \in Nat : c = Capacity
      BY <1>3
    <2>2. /\ Int16(2 * c) > 0 => 2 * c < CapRange \div 2
          /\ Int16(2 * c) <= 0 => c >= CapRange \div 4
      BY <1>3, <1>5, <2>1, DoubleFacts
    <2>3. /\ proc' = "died" => Int16(2 * c) <= 0
          /\ fl'.pc = "publish" => Int16(2 * c) > 0
      BY <1>2, <2>1 DEF headflush_realloc, Alive
    <2> QED
      BY <1>5, <2>1, <2>2, <2>3
  <1>7. RoomInv'
    BY <1>1, <1>2, <1>3, <1>4, <1>5, <1>6 DEF BaseInv, RoomInv, Appending, Storing, Alive
  <1>8. fl.pc # "idle" /\ fl'.pc # "idle"
    BY <1>2
  <1> QED
    BY <1>1, <1>2, <1>6, <1>7, <1>8, FlushBase

\* The new array has twice the slots, and the old entries in the first half.
LEMMA PublishFacts ==
  ASSUME BaseInv, headflush_publish
  PROVE  /\ DOMAIN mem' = 0 .. 2 * Capacity - 1 /\ Capacity' = 2 * Capacity
         /\ \A k \in DOMAIN mem : k \in DOMAIN mem' /\ mem'[k] = mem[k]
         /\ \A k \in DOMAIN mem' : ~ (k \in DOMAIN mem) => mem'[k] = Unset
         /\ mem' = [k \in 0 .. 2 * Capacity - 1 |-> IF k \in DOMAIN mem THEN mem[k] ELSE Unset]
  <1>1. Capacity \in Nat /\ DOMAIN mem = 0 .. Capacity - 1
    BY BaseFacts
  <1>2. mem' = [k \in 0 .. 2 * Capacity - 1 |-> IF k \in DOMAIN mem THEN mem[k] ELSE Unset]
    BY DEF headflush_publish
  <1>3. DOMAIN mem' = 0 .. 2 * Capacity - 1
    BY <1>2
  <1>4. Capacity' = 2 * Capacity
    <2>1. PICK c \in Nat : c = 2 * Capacity
      BY <1>1
    <2>2. DOMAIN mem' = 0 .. c - 1
      BY <1>3, <2>1
    <2>3. Cardinality(0 .. c - 1) = IF 0 > c - 1 THEN 0 ELSE c - 1 - 0 + 1
      BY FS_Interval
    <2>4. Cardinality(DOMAIN mem') = c
      BY <2>2, <2>3
    <2> QED
      BY <2>1, <2>4 DEF Capacity
  <1>5. \A k \in DOMAIN mem : k \in DOMAIN mem'
    BY <1>1, <1>3
  <1> QED
    BY <1>2, <1>3, <1>4, <1>5

LEMMA PublishBase ==
  ASSUME RetentionAssumption, BaseInv, headflush_publish, raced' \in BOOLEAN, Alive
  PROVE  BaseInv'
  <1>1. UNCHANGED <<count, files, ret, rules, proc, now, flushed, expired>>
    BY DEF headflush_publish, history
  <1>2. /\ fl' \in FlushRec /\ fl.pc = "publish" /\ fl'.n = fl.n /\ fl'.k = fl.k
        /\ fl'.pc = "start_ts"
    BY FlushMoves
  <1>3. /\ Capacity \in Nat /\ Capacity > 0 /\ count \in Nat /\ fl.k \in Nat
        /\ \A j \in DOMAIN mem : mem[j] \in Slot
        /\ Len(flushed) \in Nat
    BY BaseFacts
  <1>4. /\ DOMAIN mem' = 0 .. 2 * Capacity - 1 /\ Capacity' = 2 * Capacity
        /\ \A k \in DOMAIN mem : mem'[k] = mem[k]
        /\ \A k \in DOMAIN mem' : ~ (k \in DOMAIN mem) => mem'[k] = Unset
        /\ mem' = [k \in 0 .. 2 * Capacity - 1 |-> IF k \in DOMAIN mem THEN mem[k] ELSE Unset]
    BY PublishFacts
  <1>5. Unset \in Slot /\ Unset.n = 0
    BY DEF Unset, Slot, RetentionAssumption
  <1>6. \A k \in DOMAIN mem' : mem'[k] \in Slot /\ mem'[k].n <= Len(flushed)
    <2>1. \A k \in DOMAIN mem : mem[k] \in Slot /\ mem[k].n <= Len(flushed)
      BY <1>3 DEF BaseInv, SlotsInv
    <2> QED
      BY <1>3, <1>4, <1>5, <2>1
  <1>7. mem' \in [0 .. Capacity' - 1 -> Slot]
    BY <1>4, <1>6
  <1>8. RetentionTypeOK'
    BY <1>1, <1>2, <1>7 DEF BaseInv, RetentionTypeOK, FlushRec
  <1>9. RoomInv'
    <2>1. 2 * Capacity < CapRange \div 2 /\ fl.k = Capacity /\ count <= fl.k
      BY <1>2 DEF BaseInv, RoomInv, Appending
    <2> QED
      BY <1>1, <1>2, <1>3, <1>4, <2>1 DEF RoomInv, Appending, Storing, Alive
  <1>10. SlotsInv'
    BY <1>1, <1>2, <1>6 DEF BaseInv, SlotsInv
  <1>11. WalkInv' /\ ArgsInv'
    BY <1>1, <1>2 DEF BaseInv, WalkInv, ArgsInv, Walking, Deleting
  <1> QED
    BY <1>8, <1>9, <1>10, <1>11 DEF BaseInv

\* The steps that store one field of the entry, in a slot of the array.
StoresField == headflush_start_ts \/ headflush_end_ts \/ headflush_filename

\* A field of one slot is stored; the others and the other slots stay.
LEMMA FieldFacts ==
  ASSUME RetentionAssumption, BaseInv, StoresField
  PROVE  /\ fl' \in FlushRec /\ fl'.n = fl.n /\ fl'.k \in {fl.k, count}
         /\ fl.pc \in {"start_ts", "end_ts", "filename"}
         /\ fl'.pc \in {"end_ts", "filename", "inc"}
         /\ fl'.k \in DOMAIN mem /\ DOMAIN mem' = DOMAIN mem /\ Capacity' = Capacity
         /\ fl'.k \in Nat /\ fl'.k < Capacity
         /\ fl.n \in DOMAIN flushed /\ fl.n = Len(flushed)
         /\ \A j \in DOMAIN mem : j # fl'.k => mem'[j] = mem[j]
         /\ headflush_start_ts => mem'[fl'.k] = [mem[fl'.k] EXCEPT !.start_ts = flushed[fl.n].start_ts]
         /\ headflush_end_ts => mem'[fl'.k] = [mem[fl'.k] EXCEPT !.end_ts = flushed[fl.n].end_ts]
         /\ headflush_filename => mem'[fl'.k] = [mem[fl'.k] EXCEPT !.n = fl.n]
         /\ mem' \in [0 .. Capacity - 1 -> Slot]
         /\ UNCHANGED <<count, files, ret, rules, scan, proc, now, flushed, expired>>
  <1>1. /\ mem \in [0 .. Capacity - 1 -> Slot] /\ DOMAIN mem = 0 .. Capacity - 1
        /\ Capacity \in Nat /\ count \in Nat /\ fl.k \in Nat
        /\ Len(flushed) \in Nat /\ DOMAIN flushed = 1 .. Len(flushed)
        /\ \A n \in DOMAIN flushed : flushed[n] \in Chunk
    BY BaseFacts
  <1>2. /\ fl' \in FlushRec /\ fl'.n = fl.n /\ fl'.k \in {fl.k, count}
        /\ fl.pc \in {"start_ts", "end_ts", "filename"}
        /\ fl'.pc \in {"end_ts", "filename", "inc"}
    <2>1. CASE headflush_start_ts
      BY <2>1, FlushMoves
    <2>2. CASE headflush_end_ts
      BY <2>2, FlushMoves
    <2>3. CASE headflush_filename
      BY <2>3, FlushMoves
    <2> QED
      BY <2>1, <2>2, <2>3 DEF StoresField
  <1>3. PICK k : k = fl'.k
    OBVIOUS
  <1>4. count <= fl.k /\ fl.k < Capacity /\ fl.n = Len(flushed) /\ Len(flushed) >= 1
    BY <1>2 DEF BaseInv, RoomInv, SlotsInv, Appending, Storing
  <1>5. k \in Nat /\ k < Capacity /\ k \in DOMAIN mem
    BY <1>1, <1>2, <1>3, <1>4
  <1>6. fl.n \in DOMAIN flushed /\ fl.n \in 0 .. MaxChunks
    BY <1>1, <1>2, <1>4 DEF BaseInv, RetentionTypeOK, FlushRec
  <1>7. /\ headflush_start_ts => mem' = [mem EXCEPT ![k].start_ts = flushed[fl.n].start_ts]
        /\ headflush_end_ts => mem' = [mem EXCEPT ![k].end_ts = flushed[fl.n].end_ts]
        /\ headflush_filename => mem' = [mem EXCEPT ![k].n = fl.n]
    <2>1. headflush_start_ts => mem' = [mem EXCEPT ![k].start_ts = flushed[fl.n].start_ts]
      BY <1>3, FlushMoves
    <2>2. headflush_end_ts => mem' = [mem EXCEPT ![k].end_ts = flushed[fl.n].end_ts]
      BY <1>3, FlushMoves
    <2>3. headflush_filename => mem' = [mem EXCEPT ![k].n = fl.n]
      BY <1>3, FlushMoves
    <2> QED
      BY <2>1, <2>2, <2>3
  <1>8. PICK m \in Slot : \/ headflush_start_ts /\ m = [mem[k] EXCEPT !.start_ts = flushed[fl.n].start_ts]
                          \/ headflush_end_ts /\ m = [mem[k] EXCEPT !.end_ts = flushed[fl.n].end_ts]
                          \/ headflush_filename /\ m = [mem[k] EXCEPT !.n = fl.n]
    <2>1. mem[k] \in Slot /\ flushed[fl.n] \in Chunk
      BY <1>1, <1>5, <1>6
    <2>2. [mem[k] EXCEPT !.start_ts = flushed[fl.n].start_ts] \in Slot
      BY <2>1 DEF Slot, Chunk
    <2>3. [mem[k] EXCEPT !.end_ts = flushed[fl.n].end_ts] \in Slot
      BY <2>1 DEF Slot, Chunk
    <2>4. [mem[k] EXCEPT !.n = fl.n] \in Slot
      BY <1>6, <2>1 DEF Slot
    <2> QED
      BY <2>2, <2>3, <2>4 DEF StoresField
  <1>9. mem' = [mem EXCEPT ![k] = m]
    <2>1. CASE headflush_start_ts /\ m = [mem[k] EXCEPT !.start_ts = flushed[fl.n].start_ts]
      BY <1>7, <2>1
    <2>2. CASE headflush_end_ts /\ m = [mem[k] EXCEPT !.end_ts = flushed[fl.n].end_ts]
      BY <1>7, <2>2
    <2>3. CASE headflush_filename /\ m = [mem[k] EXCEPT !.n = fl.n]
      BY <1>7, <2>3
    <2> QED
      BY <1>8, <2>1, <2>2, <2>3
  <1>10. /\ DOMAIN mem' = DOMAIN mem /\ mem' \in [0 .. Capacity - 1 -> Slot]
         /\ \A j \in DOMAIN mem : j # k => mem'[j] = mem[j]
    BY <1>1, <1>5, <1>9
  <1>11. Capacity' = Capacity
    BY <1>10 DEF Capacity
  <1>12. /\ headflush_start_ts => mem'[k] = [mem[k] EXCEPT !.start_ts = flushed[fl.n].start_ts]
         /\ headflush_end_ts => mem'[k] = [mem[k] EXCEPT !.end_ts = flushed[fl.n].end_ts]
         /\ headflush_filename => mem'[k] = [mem[k] EXCEPT !.n = fl.n]
    BY <1>1, <1>5, <1>7
  <1>13. UNCHANGED <<count, files, ret, rules, scan, proc, now, flushed, expired>>
    BY DEF StoresField, headflush_start_ts, headflush_end_ts, headflush_filename, history
  <1> QED
    BY <1>2, <1>3, <1>4, <1>5, <1>6, <1>10, <1>11, <1>12, <1>13, Zenon

LEMMA FieldBase ==
  ASSUME RetentionAssumption, BaseInv, StoresField, raced' \in BOOLEAN, Alive
  PROVE  BaseInv'
  <1>1. /\ fl' \in FlushRec /\ fl'.n = fl.n /\ fl'.k \in {fl.k, count}
        /\ fl.pc \in {"start_ts", "end_ts", "filename"}
        /\ fl'.pc \in {"end_ts", "filename", "inc"}
        /\ fl'.k \in DOMAIN mem /\ DOMAIN mem' = DOMAIN mem /\ Capacity' = Capacity
        /\ fl'.k \in Nat /\ fl'.k < Capacity /\ fl.n = Len(flushed)
        /\ \A j \in DOMAIN mem : j # fl'.k => mem'[j] = mem[j]
        /\ mem' \in [0 .. Capacity - 1 -> Slot]
        /\ UNCHANGED <<count, files, ret, rules, proc, now, flushed, expired>>
    BY FieldFacts
  <1>2. /\ Capacity \in Nat /\ count \in Nat /\ fl.k \in Nat /\ Len(flushed) \in Nat
        /\ \A j \in DOMAIN mem : mem[j] \in Slot
    BY BaseFacts
  <1>3. mem'[fl'.k].n = mem[fl'.k].n \/ mem'[fl'.k].n = fl.n
    <2>1. PICK k \in DOMAIN mem : k = fl'.k
      BY <1>1
    <2>2. \/ mem'[k] = [mem[k] EXCEPT !.start_ts = flushed[fl.n].start_ts]
          \/ mem'[k] = [mem[k] EXCEPT !.end_ts = flushed[fl.n].end_ts]
          \/ mem'[k] = [mem[k] EXCEPT !.n = fl.n]
      BY <2>1, FieldFacts, Zenon DEF StoresField
    <2>3. mem[k] \in Slot
      BY <1>2
    <2> QED
      BY <2>1, <2>2, <2>3 DEF Slot
  <1>4. \A j \in DOMAIN mem' : mem'[j].n <= Len(flushed)
    <2>1. \A j \in DOMAIN mem : mem[j].n <= Len(flushed)
      BY DEF BaseInv, SlotsInv
    <2>2. mem'[fl'.k].n <= Len(flushed)
      BY <1>1, <1>2, <1>3, <2>1
    <2> QED
      BY <1>1, <2>1, <2>2
  <1>5. RetentionTypeOK'
    BY <1>1 DEF BaseInv, RetentionTypeOK, FlushRec
  <1>6. RoomInv'
    <2>1. count <= fl.k /\ fl.k < Capacity
      BY <1>1 DEF BaseInv, RoomInv, Appending, Storing
    <2>2. count <= fl'.k /\ fl'.k <= Capacity
      BY <1>1, <1>2, <2>1, SMTT(40)
    <2> QED
      BY <1>1, <1>2, <2>2 DEF BaseInv, RoomInv, Appending, Storing, Alive
  <1>7. SlotsInv'
    BY <1>1, <1>4 DEF BaseInv, SlotsInv
  <1>8. WalkInv' /\ ArgsInv'
    BY <1>1 DEF BaseInv, WalkInv, ArgsInv, Walking, Deleting
  <1> QED
    BY <1>5, <1>6, <1>7, <1>8 DEF BaseInv

LEMMA LoadBase ==
  ASSUME RetentionAssumption, BaseInv, headflush_load, raced' \in BOOLEAN, Alive
  PROVE  BaseInv'
  <1>1. UNCHANGED <<mem, count, files, ret, rules, proc, now, flushed, expired>>
    BY DEF headflush_load, list, history
  <1>2. /\ fl' \in FlushRec /\ fl.pc = "inc" /\ fl'.n = fl.n /\ fl'.k = fl.k
        /\ fl'.pc = "incw" /\ fl'.c \in {fl.k, count}
    BY FlushMoves
  <1>3. Capacity \in Nat /\ count \in Nat /\ fl.k \in Nat
    BY BaseFacts
  <1>4. Capacity' = Capacity
    BY <1>1 DEF Capacity
  <1>5. RoomInv'
    BY <1>1, <1>2, <1>3, <1>4 DEF BaseInv, RoomInv, Appending, Storing, Alive
  <1>6. fl.pc # "idle" /\ fl'.pc # "idle"
    BY <1>2
  <1> QED
    BY <1>1, <1>2, <1>5, <1>6, FlushBase

LEMMA CountedBase ==
  ASSUME RetentionAssumption, BaseInv, headflush_store, raced' \in BOOLEAN, Alive
  PROVE  BaseInv'
  <1>1. UNCHANGED <<mem, files, ret, rules, proc, now, flushed, expired>>
    BY DEF headflush_store, history
  <1>2. fl' \in FlushRec /\ fl.pc = "incw" /\ fl'.pc = "idle" /\ fl'.n = 0 /\ count' = fl.c + 1
    BY FlushMoves
  <1>3. Capacity \in Nat /\ count \in Nat /\ fl.k \in Nat /\ fl.c \in Nat /\ ret.i \in Int
        /\ ret.c \in Nat
    BY BaseFacts
  <1>4. Capacity' = Capacity
    BY <1>1 DEF Capacity
  <1>5. count <= fl.c /\ fl.c <= fl.k /\ fl.k < Capacity
    BY <1>2 DEF BaseInv, RoomInv, Storing
  <1>6. count' \in Nat /\ count' > count /\ count' <= Capacity
    BY <1>2, <1>3, <1>5
  <1>7. RetentionTypeOK'
    BY <1>1, <1>2, <1>4, <1>6 DEF BaseInv, RetentionTypeOK, FlushRec
  <1>8. RoomInv'
    BY <1>1, <1>2, <1>4, <1>6 DEF BaseInv, RoomInv, Appending, Storing, Alive
  <1>9. SlotsInv'
    BY <1>1, <1>2 DEF BaseInv, SlotsInv
  <1>10. WalkInv' /\ ArgsInv'
    BY <1>1, <1>2, <1>3, <1>6 DEF BaseInv, WalkInv, ArgsInv, Walking, Deleting
  <1> QED
    BY <1>7, <1>8, <1>9, <1>10 DEF BaseInv

\* The steps that concern neither the list nor the threads that write it.
Quiet == \/ \E spec \in Specs : retention_add_rule(spec)
         \/ retention_stop \/ FreedAccess \/ (\E time \in Times : Tick(time)) \/ Stopped
Queries == Head_GET \/ Head_GET_next \/ Head_GET_open \/ Head_GET_reply

LEMMA QuietFrame ==
  ASSUME rules \in Seq(Specs), now \in Times, Quiet
  PROVE  /\ BaseFrame /\ rules' \in Seq(Specs) /\ now' \in Times /\ scan' = scan
         /\ proc' = proc \/ proc' \in {"stop", "fault"}
  <1>1. CASE \E spec \in Specs : retention_add_rule(spec)
    <2>1. PICK spec \in Specs : retention_add_rule(spec)
      BY <1>1
    <2>2. /\ rules' = Append(rules, spec)
          /\ UNCHANGED <<mem, count, files, fl, ret, scan, proc, now, flushed, expired>>
      BY <2>1 DEF retention_add_rule, list, history
    <2> QED
      BY <2>2 DEF BaseFrame
  <1>2. CASE retention_stop
    BY <1>2 DEF retention_stop, BaseFrame, list, history
  <1>3. CASE FreedAccess
    BY <1>3 DEF FreedAccess, BaseFrame, list, history
  <1>4. CASE \E time \in Times : Tick(time)
    BY <1>4 DEF Tick, BaseFrame, list, history
  <1>5. CASE Stopped
    BY <1>5 DEF Stopped, BaseFrame, list, history
  <1> QED
    BY <1>1, <1>2, <1>3, <1>4, <1>5 DEF Quiet

LEMMA QueryFrame ==
  ASSUME Queries
  PROVE  BaseFrame /\ UNCHANGED <<rules, proc, now>>
  BY DEF Queries, Head_GET, Head_GET_next, Head_GET_open, Head_GET_reply, BaseFrame, list, history

\* The steps of the specification, sorted.
Steps == \/ Quiet \/ Queries \/ Looks
         \/ expire_chunk_remove \/ expire_chunk_move \/ expire_chunk_load \/ expire_chunk_store
         \/ (\E b \in Bounds : headflush_write(b))
         \/ headflush_grow \/ headflush_realloc \/ headflush_publish \/ StoresField
         \/ headflush_load \/ headflush_store

LEMMA RetentionSteps ==
  ASSUME RetentionNext
  PROVE  Steps /\ raced' = (raced \/ Conflict') /\ (Alive \/ Quiet)
  BY DEF RetentionNext, Steps, Quiet, Queries, Looks, StoresField, Expire, Flush, Scan

LEMMA BaseStep ==
  ASSUME RetentionAssumption, BaseInv, [RetentionNext]_vars
  PROVE  BaseInv'
  <1>0. rules \in Seq(Specs) /\ now \in Times /\ raced \in BOOLEAN
    BY BaseFacts DEF BaseInv, RetentionTypeOK
  <1>1. CASE UNCHANGED vars
    <2>1. BaseFrame /\ UNCHANGED <<rules, now, raced, proc>>
      BY <1>1 DEF vars, list, history, BaseFrame
    <2> QED
      BY <1>0, <2>1, KeepsBase
  <1>2. CASE RetentionNext
    <2>1. raced' \in BOOLEAN
      <3>1. raced' = (raced \/ Conflict')
        BY <1>2, RetentionSteps
      <3> QED
        BY <1>0, <3>1, Zenon
    <2>2. CASE Quiet
      BY <1>0, <2>1, <2>2, QuietFrame, KeepsBase
    <2>3. CASE Queries
      <3>1. BaseFrame /\ UNCHANGED <<rules, proc, now>>
        BY <2>3, QueryFrame
      <3> QED
        BY <1>0, <2>1, <3>1, KeepsBase
    <2>4. CASE ~ Quiet /\ ~ Queries
      <3>1. Alive /\ Steps
        BY <1>2, <2>4, RetentionSteps
      <3>2. CASE Looks \/ expire_chunk_load
        BY <2>1, <3>2, LooksBase
      <3>3. CASE expire_chunk_remove
        BY <2>1, <3>3, RemoveBase
      <3>4. CASE expire_chunk_move
        BY <2>1, <3>4, MoveBase
      <3>5. CASE expire_chunk_store
        BY <2>1, <3>5, StoreBase
      <3>6. CASE \E b \in Bounds : headflush_write(b)
        BY <2>1, <3>6, WriteBase
      <3>7. CASE headflush_grow
        BY <2>1, <3>1, <3>7, GrowBase
      <3>8. CASE headflush_realloc
        BY <2>1, <3>1, <3>8, ReallocBase
      <3>9. CASE headflush_publish
        BY <2>1, <3>1, <3>9, PublishBase
      <3>10. CASE StoresField
        BY <2>1, <3>1, <3>10, FieldBase
      <3>11. CASE headflush_load
        BY <2>1, <3>1, <3>11, LoadBase
      <3>12. CASE headflush_store
        BY <2>1, <3>1, <3>12, CountedBase
      <3> QED
        BY <2>4, <3>1, <3>2, <3>3, <3>4, <3>5, <3>6, <3>7, <3>8, <3>9, <3>10, <3>11, <3>12
           DEF Steps
    <2> QED
      BY <2>2, <2>3, <2>4
  <1> QED
    BY <1>1, <1>2

\* The variables keep their types and the list its bounds, whatever the
\* retention thread and headflush do to it at the same time.
THEOREM RetentionTypeCorrect == RetentionSpec => []RetentionTypeOK
  <1>1. RetentionInit => BaseInv
    BY InitBase, RetentionAssumption
  <1>2. BaseInv /\ [RetentionNext]_vars => BaseInv'
    BY BaseStep, RetentionAssumption
  <1>3. BaseInv => RetentionTypeOK
    BY DEF BaseInv
  <1> QED
    BY <1>1, <1>2, <1>3, PTL DEF RetentionSpec

\* headflush stores each field of an entry inside the array, although the
\* retention thread lowers chunkCount between any two of its accesses, and
\* realloc fails for want of an int16_t only once 2^14 chunks are listed.
THEOREM CapacityTheorem == RetentionSpec => []CapacitySafe
  <1>1. RetentionInit => BaseInv
    BY InitBase, RetentionAssumption
  <1>2. BaseInv /\ [RetentionNext]_vars => BaseInv'
    BY BaseStep, RetentionAssumption
  <1>3. BaseInv => CapacitySafe
    <2> SUFFICES ASSUME BaseInv PROVE CapacitySafe
      OBVIOUS
    <2>1. Capacity \in Nat /\ count \in Nat /\ fl.k \in Nat
      BY BaseFacts
    <2> QED
      BY <2>1 DEF BaseInv, RoomInv, CapacitySafe, Appending, Storing
  <1> QED
    BY <1>1, <1>2, <1>3, PTL DEF RetentionSpec

-----------------------------------------------------------------------------
(***************************************************************************)
(* As long as headflush and the retention thread have not met, the list    *)
(* holds what it should.                                                   *)
(***************************************************************************)

\* The entry of chunk n, and arrays whose first c slots hold the entries of
\* these chunks, in order.
EntryOf(f, n) == [n |-> n, start_ts |-> f[n].start_ts, end_ts |-> f[n].end_ts]
Holds(f, a, c, S) ==
    /\ {a[k].n : k \in 0 .. c - 1} = S
    /\ \A k \in 0 .. c - 1 : a[k] = EntryOf(f, a[k].n)
    /\ \A j, k \in 0 .. c - 1 : j < k => a[j].n < a[k].n

Due == Registered \ expired

\* The file is gone and the entry is on its way out of the list.
Cut(pc) == pc \in {"tail", "chunks", "move", "dec", "decw"}

ListInv ==
    /\ ~ Cut(ret.pc) => Holds(flushed, mem, count, Due)
    /\ ret.pc \in {"tail", "chunks", "move"} =>
         Holds(flushed, mem, count, Due \cup {mem[ret.i].n}) /\ mem[ret.i].n \in expired
    /\ ret.pc \in {"dec", "decw"} => Holds(flushed, mem, count - 1, Due)
    /\ fl.n \notin expired

\* What the retention thread has loaded is what is there.
LoadInv ==
    /\ ret.pc \in {"chunks", "move", "dec", "decw"} => ret.c = count
    /\ ret.pc \in {"read", "remove", "move"} => ~ Stale(ret.at)
    /\ ret.pc \in {"expire", "remove"} => TooOld(mem[ret.i])

\* headflush stores the entry behind the last one.
PutInv ==
    /\ Appending(fl.pc) => fl.k = count
    /\ fl.pc \in {"end_ts", "filename", "inc", "incw"} =>
         mem[count].start_ts = flushed[fl.n].start_ts
    /\ fl.pc \in {"filename", "inc", "incw"} => mem[count].end_ts = flushed[fl.n].end_ts
    /\ fl.pc \in {"inc", "incw"} => mem[count].n = fl.n
    /\ fl.pc = "incw" => fl.c = count

Exact == ~ Conflict /\ ListInv /\ LoadInv /\ PutInv
ExactInv == ~ raced => Exact

LEMMA HoldsSame ==
  ASSUME NEW f, NEW a, NEW b, NEW c, NEW S, Holds(f, a, c, S), \A k \in 0 .. c - 1 : b[k] = a[k]
  PROVE  Holds(f, b, c, S)
  <1>1. {b[k].n : k \in 0 .. c - 1} = {a[k].n : k \in 0 .. c - 1}
    OBVIOUS
  <1> QED
    BY <1>1 DEF Holds

\* A chunk more has been written.
LEMMA HoldsGrown ==
  ASSUME NEW f, NEW g, NEW a, NEW c, NEW S, Holds(f, a, c, S), \A n \in S : g[n] = f[n]
  PROVE  Holds(g, a, c, S)
  <1>1. \A k \in 0 .. c - 1 : a[k].n \in S
    BY DEF Holds
  <1> QED
    BY <1>1 DEF Holds, EntryOf

\* One entry more, with a number above all others.
LEMMA HoldsMore ==
  ASSUME NEW f, NEW a, NEW c \in Nat, NEW S, Holds(f, a, c, S), \A x \in S : x < a[c].n,
         a[c] = EntryOf(f, a[c].n)
  PROVE  Holds(f, a, c + 1, S \cup {a[c].n})
  <1>1. \A k : k \in 0 .. c + 1 - 1 <=> k \in 0 .. c - 1 \/ k = c
    OBVIOUS
  <1>2. \A k \in 0 .. c - 1 : a[k].n \in S
    BY DEF Holds
  <1>3. {a[k].n : k \in 0 .. c + 1 - 1} = S \cup {a[c].n}
    BY <1>1 DEF Holds
  <1>4. ASSUME NEW j \in 0 .. c + 1 - 1, NEW k \in 0 .. c + 1 - 1, j < k
        PROVE  a[j].n < a[k].n
    <2>1. j \in 0 .. c - 1
      BY <1>4
    <2> QED
      BY <1>1, <1>2, <1>4, <2>1 DEF Holds
  <1>5. \A k \in 0 .. c + 1 - 1 : a[k] = EntryOf(f, a[k].n)
    BY <1>1 DEF Holds
  <1> QED
    BY <1>3, <1>4, <1>5 DEF Holds

\* One entry less, those behind it shifted.
LEMMA HoldsLess ==
  ASSUME NEW f, NEW a, NEW b, NEW c \in Nat, NEW S, Holds(f, a, c, S), NEW i \in 0 .. c - 1,
         \A k \in 0 .. c - 1 : a[k].n \in Int,
         \A k \in 0 .. c - 2 : b[k] = IF i <= k THEN a[k + 1] ELSE a[k]
  PROVE  Holds(f, b, c - 1, S \ {a[i].n})
  <1>1. ASSUME NEW k \in 0 .. c - 1 - 1
        PROVE  /\ k \in 0 .. c - 1 /\ k + 1 \in 0 .. c - 1
               /\ i <= k => b[k] = a[k + 1] /\ k + 1 # i
               /\ ~ (i <= k) => b[k] = a[k] /\ k # i
    BY <1>1
  <1>2. \A k \in 0 .. c - 1 : k # i => a[k].n # a[i].n
    <2> SUFFICES ASSUME NEW k \in 0 .. c - 1, k # i, a[k].n = a[i].n
                 PROVE  FALSE
      OBVIOUS
    <2>1. k < i \/ i < k
      OBVIOUS
    <2> QED
      BY <2>1 DEF Holds
  <1>3. \A k \in 0 .. c - 1 - 1 : b[k].n \in S \ {a[i].n}
    BY <1>1, <1>2 DEF Holds
  <1>4. ASSUME NEW x \in S \ {a[i].n}
        PROVE  \E k \in 0 .. c - 1 - 1 : b[k].n = x
    <2>1. PICK k \in 0 .. c - 1 : a[k].n = x /\ k # i
      BY <1>4 DEF Holds
    <2>2. CASE k < i
      <3>1. k \in 0 .. c - 1 - 1 /\ ~ (i <= k)
        BY <2>1, <2>2
      <3> QED
        BY <1>1, <2>1, <3>1
    <2>3. CASE i < k
      <3>1. PICK j \in 0 .. c - 1 - 1 : k = j + 1 /\ i <= j
        <4>1. k - 1 \in 0 .. c - 1 - 1 /\ k = (k - 1) + 1 /\ i <= k - 1
          BY <2>1, <2>3
        <4> QED
          BY <4>1
      <3> QED
        BY <1>1, <2>1, <3>1
    <2> QED
      BY <2>1, <2>2, <2>3
  <1>5. {b[k].n : k \in 0 .. c - 1 - 1} = S \ {a[i].n}
    BY <1>3, <1>4
  <1>6. ASSUME NEW j \in 0 .. c - 1 - 1, NEW k \in 0 .. c - 1 - 1, j < k
        PROVE  b[j].n < b[k].n
    <2>1. PICK p \in 0 .. c - 1 : b[j] = a[p] /\ p = IF i <= j THEN j + 1 ELSE j
      BY <1>1
    <2>2. PICK q \in 0 .. c - 1 : b[k] = a[q] /\ q = IF i <= k THEN k + 1 ELSE k
      BY <1>1
    <2>3. p < q
      BY <1>6, <2>1, <2>2
    <2> QED
      BY <2>1, <2>2, <2>3 DEF Holds
  <1>7. ASSUME NEW k \in 0 .. c - 1 - 1
        PROVE  b[k] = EntryOf(f, b[k].n)
    <2>1. PICK p \in 0 .. c - 1 : b[k] = a[p]
      BY <1>1
    <2>2. a[p] = EntryOf(f, a[p].n)
      BY DEF Holds
    <2> QED
      BY <2>1, <2>2
  <1> QED
    BY <1>5, <1>6, <1>7 DEF Holds

\* The entry that a walk looks at is one of a chunk that is due.
LEMMA WalkEntry ==
  ASSUME BaseInv, ListInv, ret.pc \in {"read", "expire", "remove"}
  PROVE  /\ mem[ret.i].n \in Due /\ mem[ret.i].n \in DOMAIN flushed /\ mem[ret.i].n # 0
         /\ mem[ret.i] = EntryOf(flushed, mem[ret.i].n) /\ mem[ret.i] # Unset
         /\ ret.i \in 0 .. count - 1
  <1>1. Holds(flushed, mem, count, Due)
    BY DEF ListInv, Cut
  <1>2. ret.i \in 0 .. count - 1
    BY WalkSlot DEF Walking, Deleting, BaseInv, WalkInv
  <1>3. mem[ret.i].n \in Due /\ mem[ret.i] = EntryOf(flushed, mem[ret.i].n)
    BY <1>1, <1>2 DEF Holds
  <1>4. DOMAIN flushed = 1 .. Len(flushed) /\ Len(flushed) \in Nat
    BY BaseFacts
  <1>5. mem[ret.i].n \in DOMAIN flushed
    BY <1>3 DEF Due, Registered
  <1>6. mem[ret.i].n # 0
    BY <1>4, <1>5
  <1>7. Unset.n = 0
    BY DEF Unset
  <1> QED
    BY <1>2, <1>3, <1>5, <1>6, <1>7

\* Steps that change neither the list nor its writers.
LEMMA ExactFrame ==
  ASSUME Exact, UNCHANGED <<mem, count, fl, ret, flushed, expired>>
  PROVE  Exact'
  BY DEF Exact, Conflict, ListInv, LoadInv, PutInv, Due, Registered, Stale, Capacity, TooOld

\* The steps of the retention thread that touch neither list nor files keep the
\* slot it looks at apart from the one that headflush fills.
LEMMA ExactLooks ==
  ASSUME RetentionAssumption, BaseInv, Exact, Looks \/ expire_chunk_load, ~ Conflict'
  PROVE  Exact'
  <1>1. UNCHANGED <<mem, count, fl, flushed, expired>>
    BY LooksFrame
  <1>2. Due' = Due /\ Capacity' = Capacity
    BY <1>1 DEF Due, Registered, Capacity
  <1>3. PutInv'
    BY <1>1 DEF Exact, PutInv
  <1>4. /\ Appending(fl.pc) => ~ Deleting(ret'.pc)
        /\ fl.pc = "publish" => ret'.pc # "read"
    BY <1>1 DEF Conflict
  <1>5. fl.n \notin expired
    BY DEF Exact, ListInv
  <1>6. CASE retention_start \/ retention_thread_exit \/ run_expiry
    <2>1. ret.pc \in {"sleep", "off"} /\ ret'.pc \in {"off", "sleep", "joined", "check"}
      <3>1. retention_start => ret.pc = "off"
        BY DEF retention_start, BaseInv, ArgsInv
      <3>2. CASE retention_start
        BY <3>1, <3>2, RetMoves
      <3>3. CASE retention_thread_exit
        BY <3>3, RetMoves
      <3>4. CASE run_expiry
        BY <3>4, RetMoves
      <3> QED
        BY <1>6, <3>2, <3>3, <3>4
    <2>2. ListInv' /\ LoadInv'
      BY <1>1, <1>2, <2>1 DEF Exact, ListInv, LoadInv, Cut
    <2> QED
      BY <1>3, <2>2 DEF Exact
  <1>7. CASE run_expiry_check
    <2>1. /\ ret.pc = "check"
          /\ ret'.pc = "sleep" \/ (ret'.pc = "read" /\ ret'.at = Capacity)
      BY <1>7, RetMoves
    <2>2. ListInv'
      BY <1>1, <1>2, <2>1 DEF Exact, ListInv, Cut
    <2>3. LoadInv'
      BY <1>1, <1>2, <1>4, <2>1 DEF LoadInv, Stale
    <2> QED
      BY <1>3, <2>2, <2>3 DEF Exact
  <1>8. CASE run_expiry_read
    <2>1. /\ ret.pc = "read" /\ ret'.cutoff = ret.cutoff
          /\ \/ TRUE \in Verdicts /\ ret'.pc = "expire" /\ ret'.i = ret.i
             \/ ret'.pc = "check"
      BY <1>8, RetMoves
    <2>2. ListInv'
      BY <1>1, <1>2, <2>1 DEF Exact, ListInv, Cut
    <2>3. Verdicts = {TooOld(mem[ret.i])}
      BY <2>1, WalkEntry DEF Exact, LoadInv, Verdicts
    <2>4. TRUE \in Verdicts => TooOld(mem[ret.i])
      BY <2>3, Zenon
    <2>5. LoadInv'
      BY <1>1, <2>1, <2>4 DEF LoadInv, TooOld
    <2> QED
      BY <1>3, <2>2, <2>5 DEF Exact
  <1>9. CASE expire_chunk
    <2>1. /\ ret.pc = "expire" /\ ret'.pc = "remove" /\ ret'.i = ret.i /\ ret'.at = Capacity
          /\ ret'.cutoff = ret.cutoff
      BY <1>9, ExpireMoves
    <2>2. ListInv'
      BY <1>1, <1>2, <2>1 DEF Exact, ListInv, Cut
    <2>3. LoadInv'
      BY <1>1, <1>2, <1>4, <2>1 DEF Exact, LoadInv, Stale, TooOld, Appending, Deleting
    <2> QED
      BY <1>3, <2>2, <2>3 DEF Exact
  <1>10. CASE expire_chunk_tail
    <2>1. /\ ret.pc = "tail" /\ ret'.pc \in {"chunks", "dec"} /\ ret'.i = ret.i /\ ret'.c = count
          /\ ret'.pc = "dec" => ~ (ret.i < count - 1)
      BY <1>10, ExpireMoves
    <2>2. LoadInv'
      BY <1>1, <2>1 DEF LoadInv
    <2>3. PICK x : x = mem[ret.i].n
      OBVIOUS
    <2>4. Holds(flushed, mem, count, Due \cup {x}) /\ x \notin Due /\ x \in expired
      BY <2>1, <2>3 DEF Exact, ListInv, Due
    <2>5. ASSUME ret'.pc = "dec"
          PROVE  Holds(flushed, mem, count - 1, Due)
      <3>1. /\ ret.i \in 0 .. count - 1 /\ count \in Nat /\ ret.i = count - 1
            /\ \A k \in 0 .. count - 1 : mem[k].n \in Int
        <4>1. ret.i \in 0 .. count - 1
          BY <2>1, WalkSlot DEF Walking, Deleting, BaseInv, WalkInv
        <4>2. /\ count \in Nat /\ count <= Capacity /\ Capacity \in Nat
              /\ DOMAIN mem = 0 .. Capacity - 1 /\ \A j \in DOMAIN mem : mem[j].n \in Nat
          BY BaseFacts
        <4> QED
          BY <2>1, <2>5, <4>1, <4>2
      <3>2. Holds(flushed, mem, count - 1, (Due \cup {x}) \ {mem[ret.i].n})
        <4>1. \A k \in 0 .. count - 2 : mem[k] = IF ret.i <= k THEN mem[k + 1] ELSE mem[k]
          BY <3>1
        <4> QED
          BY <2>4, <3>1, <4>1, HoldsLess
      <3>3. (Due \cup {x}) \ {mem[ret.i].n} = Due
        BY <2>3, <2>4
      <3> QED
        BY <3>2, <3>3
    <2>6. ListInv'
      BY <1>1, <1>2, <1>5, <2>1, <2>3, <2>4, <2>5 DEF ListInv, Cut
    <2> QED
      BY <1>3, <2>2, <2>6 DEF Exact
  <1>11. CASE expire_chunk_chunks
    <2>1. /\ ret.pc = "chunks" /\ ret'.pc = "move" /\ ret'.i = ret.i /\ ret'.c = ret.c
          /\ ret'.at = Capacity
      BY <1>11, ExpireMoves
    <2>2. ListInv'
      BY <1>1, <1>2, <2>1 DEF Exact, ListInv, Cut
    <2>3. LoadInv'
      BY <1>1, <1>2, <1>4, <2>1 DEF Exact, LoadInv, Stale, Appending, Deleting
    <2> QED
      BY <1>3, <2>2, <2>3 DEF Exact
  <1>12. CASE expire_chunk_load
    <2>1. /\ ret.pc = "dec" /\ ret'.pc = "decw" /\ ret'.i = ret.i /\ ret'.c \in {ret.c, count}
      BY <1>12, ExpireMoves
    <2>2. ListInv'
      BY <1>1, <1>2, <2>1 DEF Exact, ListInv, Cut
    <2>3. LoadInv'
      BY <1>1, <1>2, <2>1 DEF Exact, LoadInv
    <2> QED
      BY <1>3, <2>2, <2>3 DEF Exact
  <1> QED
    BY <1>6, <1>7, <1>8, <1>9, <1>10, <1>11, <1>12 DEF Looks

\* The file of an entry is removed: the chunk is no longer due.
LEMMA ExactRemove ==
  ASSUME RetentionAssumption, BaseInv, Exact, expire_chunk_remove, ~ Conflict'
  PROVE  Exact'
  <1>1. UNCHANGED <<mem, count, fl, flushed>> /\ ret.pc = "remove"
    BY DEF expire_chunk_remove, list
  <1>2. ret'.pc = "tail" /\ ret'.i = ret.i
    BY ExpireMoves
  <1>3. PICK x : x = mem[ret.i].n
    OBVIOUS
  <1>4. x \in Due /\ x # 0
    BY <1>1, <1>3, WalkEntry DEF Exact
  <1>5. expired' = expired \cup {x}
    BY <1>1, <1>3, <1>4 DEF expire_chunk_remove, Exact, LoadInv
  <1>6. Due' = Due \ {x}
    BY <1>1, <1>5 DEF Due, Registered
  <1>7. Due' \cup {x} = Due /\ x \in expired' /\ fl'.n \notin expired'
    BY <1>1, <1>4, <1>5, <1>6 DEF Due, Registered, Exact, ListInv
  <1>8. Holds(flushed, mem, count, Due)
    BY <1>1 DEF Exact, ListInv, Cut
  <1>9. ListInv'
    BY <1>1, <1>2, <1>3, <1>7, <1>8 DEF ListInv, Cut
  <1>10. LoadInv' /\ PutInv'
    BY <1>1, <1>2 DEF Exact, LoadInv, PutInv
  <1> QED
    BY <1>9, <1>10 DEF Exact

\* memmove closes the gap.
LEMMA ExactMove ==
  ASSUME RetentionAssumption, BaseInv, Exact, expire_chunk_move, ~ Conflict'
  PROVE  Exact'
  <1>1. UNCHANGED <<count, fl, flushed, expired>> /\ ret.pc = "move"
    BY DEF expire_chunk_move, history
  <1>2. ret'.pc = "dec" /\ ret'.i = ret.i /\ ret'.c = ret.c
    BY ExpireMoves
  <1>3. mem' = Shifted(ret.i, ret.c) /\ ret.c = count
    BY <1>1 DEF expire_chunk_move, Exact, LoadInv
  <1>4. PICK x : x = mem[ret.i].n
    OBVIOUS
  <1>5. Holds(flushed, mem, count, Due \cup {x}) /\ x \notin Due /\ fl.n \notin expired
    BY <1>1, <1>4 DEF Exact, ListInv, Due
  <1>6. /\ count \in Nat /\ count <= Capacity /\ Capacity \in Nat /\ ret.i \in 0 .. count - 1
        /\ DOMAIN mem = 0 .. Capacity - 1 /\ \A j \in DOMAIN mem : mem[j].n \in Nat
    BY <1>1, BaseFacts, WalkSlot DEF Walking, Deleting, BaseInv, WalkInv
  <1>7. \A k \in 0 .. count - 1 : mem[k].n \in Int
    BY <1>6
  <1>8. \A k \in 0 .. count - 2 : mem'[k] = IF ret.i <= k THEN mem[k + 1] ELSE mem[k]
    <2>1. \A k \in 0 .. count - 2 : k \in DOMAIN mem /\ k < count - 1
      BY <1>6
    <2> QED
      BY <1>1, <1>3, <2>1, ShiftFacts
  <1>9. Holds(flushed, mem', count - 1, (Due \cup {x}) \ {mem[ret.i].n})
    BY <1>5, <1>6, <1>7, <1>8, HoldsLess
  <1>10. (Due \cup {x}) \ {mem[ret.i].n} = Due /\ Due' = Due
    BY <1>1, <1>4, <1>5 DEF Due, Registered
  <1>11. ListInv'
    BY <1>1, <1>2, <1>5, <1>9, <1>10 DEF ListInv, Cut
  <1>12. LoadInv'
    BY <1>1, <1>2, <1>3 DEF LoadInv
  <1>13. PutInv'
    BY <1>1 DEF PutInv, Exact, Conflict, Deleting, Appending
  <1> QED
    BY <1>11, <1>12, <1>13 DEF Exact

LEMMA ExactStore ==
  ASSUME RetentionAssumption, BaseInv, Exact, expire_chunk_store, ~ Conflict'
  PROVE  Exact'
  <1>1. UNCHANGED <<mem, fl, flushed, expired>>
    BY DEF expire_chunk_store, history
  <1>2. ret.pc = "decw" /\ ret'.pc = "check" /\ count' = ret.c - 1
    BY ExpireMoves
  <1>3. ret.c = count /\ Holds(flushed, mem, count - 1, Due) /\ fl.n \notin expired
        /\ ~ Appending(fl.pc)
    BY <1>2 DEF Exact, LoadInv, ListInv, Conflict, Deleting
  <1>4. Due' = Due
    BY <1>1 DEF Due, Registered
  <1>5. ListInv' /\ LoadInv'
    BY <1>1, <1>2, <1>3, <1>4 DEF ListInv, LoadInv, Cut
  <1>6. PutInv'
    BY <1>1, <1>3 DEF PutInv, Appending
  <1> QED
    BY <1>5, <1>6 DEF Exact

\* A chunk more has been written, and is not registered yet.
LEMMA ExactWrite ==
  ASSUME RetentionAssumption, BaseInv, Exact, NEW b \in Bounds, headflush_write(b), ~ Conflict'
  PROVE  Exact'
  <1>1. /\ DOMAIN flushed' = 1 .. Len(flushed) + 1
        /\ \A n \in DOMAIN flushed : flushed'[n] = flushed[n]
        /\ fl'.pc = "grow" /\ fl'.n = Len(flushed) + 1 /\ fl.pc = "idle"
        /\ UNCHANGED <<mem, count, ret, expired>>
    BY NewChunk
  <1>2. DOMAIN flushed = 1 .. Len(flushed) /\ Len(flushed) \in Nat /\ fl.n = 0
    BY <1>1, BaseFacts DEF BaseInv, SlotsInv
  <1>3. \A n \in expired : n \in DOMAIN flushed
    BY <1>2 DEF BaseInv, SlotsInv, RetentionTypeOK
  <1>4. Due' = Due
    <2>1. DOMAIN flushed' \ {fl'.n} = DOMAIN flushed \ {fl.n}
      BY <1>1, <1>2
    <2> QED
      BY <1>1, <2>1 DEF Due, Registered
  <1>5. ASSUME NEW c, NEW x, x \in expired
        PROVE  /\ Holds(flushed, mem, c, Due) => Holds(flushed', mem, c, Due)
               /\ Holds(flushed, mem, c, Due \cup {x}) => Holds(flushed', mem, c, Due \cup {x})
    <2>1. \A n \in Due \cup {x} : flushed'[n] = flushed[n]
      BY <1>1, <1>3, <1>5 DEF Due, Registered
    <2> QED
      BY <2>1, HoldsGrown
  <1>6. ASSUME NEW c
        PROVE  Holds(flushed, mem, c, Due) => Holds(flushed', mem, c, Due)
    <2>1. \A n \in Due : flushed'[n] = flushed[n]
      BY <1>1 DEF Due, Registered
    <2> QED
      BY <2>1, HoldsGrown
  <1>7. fl'.n \notin expired'
    BY <1>1, <1>2, <1>3
  <1>8. ListInv'
    BY <1>1, <1>4, <1>5, <1>6, <1>7 DEF Exact, ListInv, Cut
  <1>9. LoadInv' /\ PutInv'
    BY <1>1 DEF Exact, LoadInv, PutInv, Stale, Capacity, TooOld, Appending
  <1> QED
    BY <1>8, <1>9 DEF Exact

LEMMA ExactGrow ==
  ASSUME RetentionAssumption, BaseInv, Exact, headflush_grow \/ headflush_realloc, ~ Conflict'
  PROVE  Exact'
  <1>1. UNCHANGED <<mem, count, ret, flushed, expired>>
    BY DEF headflush_grow, headflush_realloc, list, history
  <1>2. /\ fl'.n = fl.n /\ fl'.pc \in {"realloc", "publish", "start_ts"}
        /\ fl.pc \in {"grow", "realloc"} /\ fl'.k = count
    <2>1. CASE headflush_grow
      BY <2>1, FlushMoves
    <2>2. CASE headflush_realloc
      <3>1. fl'.n = fl.n /\ fl'.pc \in {"realloc", "publish"} /\ fl.pc = "realloc" /\ fl'.k = fl.k
        BY <2>2, FlushMoves
      <3> QED
        BY <3>1 DEF Exact, PutInv, Appending
    <2> QED
      BY <2>1, <2>2
  <1>3. Due' = Due /\ Capacity' = Capacity
    BY <1>1, <1>2 DEF Due, Registered, Capacity
  <1>4. ListInv'
    BY <1>1, <1>2, <1>3 DEF Exact, ListInv
  <1>5. LoadInv'
    BY <1>1, <1>2, <1>3 DEF Exact, LoadInv, Stale, TooOld, Conflict, Appending, Deleting
  <1>6. PutInv'
    BY <1>1, <1>2 DEF PutInv
  <1> QED
    BY <1>4, <1>5, <1>6 DEF Exact

LEMMA ExactPublish ==
  ASSUME RetentionAssumption, BaseInv, Exact, headflush_publish, ~ Conflict'
  PROVE  Exact'
  <1>1. UNCHANGED <<count, ret, flushed, expired>>
    BY DEF headflush_publish, history
  <1>2. fl.pc = "publish" /\ fl'.n = fl.n /\ fl'.k = fl.k /\ fl'.pc = "start_ts"
    BY FlushMoves
  <1>3. ~ Deleting(ret.pc) /\ ret.pc # "read" /\ fl.k = count
    BY <1>2 DEF Exact, Conflict, Appending, PutInv
  <1>4. \A k \in DOMAIN mem : mem'[k] = mem[k]
    BY PublishFacts
  <1>5. count \in Nat /\ count <= Capacity /\ Capacity \in Nat /\ DOMAIN mem = 0 .. Capacity - 1
    BY BaseFacts
  <1>6. \A k \in 0 .. count - 1 : mem'[k] = mem[k]
    BY <1>4, <1>5
  <1>7. Holds(flushed, mem', count, Due) /\ fl.n \notin expired
    BY <1>3, <1>6, HoldsSame DEF Exact, ListInv, Cut, Deleting
  <1>8. Due' = Due
    BY <1>1, <1>2 DEF Due, Registered
  <1>9. ListInv'
    BY <1>1, <1>2, <1>3, <1>7, <1>8 DEF ListInv, Cut, Deleting
  <1>10. LoadInv'
    <2>1. ret.pc = "expire" => mem'[ret.i] = mem[ret.i]
      BY <1>6, WalkEntry DEF Exact
    <2> QED
      BY <1>1, <1>3, <2>1 DEF Exact, LoadInv, TooOld, Deleting
  <1>11. PutInv'
    BY <1>1, <1>2, <1>3 DEF PutInv
  <1> QED
    BY <1>9, <1>10, <1>11 DEF Exact

\* The fields of the new entry are stored in the slot behind the last.
LEMMA ExactField ==
  ASSUME RetentionAssumption, BaseInv, Exact, StoresField, ~ Conflict'
  PROVE  Exact'
  <1>1. /\ UNCHANGED <<count, ret, flushed, expired>> /\ fl'.n = fl.n /\ fl'.k \in {fl.k, count}
        /\ fl.pc \in {"start_ts", "end_ts", "filename"}
        /\ fl'.pc \in {"end_ts", "filename", "inc"}
        /\ fl'.k \in DOMAIN mem /\ Capacity' = Capacity
        /\ \A j \in DOMAIN mem : j # fl'.k => mem'[j] = mem[j]
    BY FieldFacts
  <1>2. fl.k = count /\ ~ Deleting(ret.pc)
    BY <1>1 DEF Exact, PutInv, Conflict, Appending
  <1>3. fl'.k = count
    BY <1>1, <1>2
  <1>4. count \in Nat /\ count <= Capacity /\ Capacity \in Nat /\ DOMAIN mem = 0 .. Capacity - 1
        /\ \A j \in DOMAIN mem : mem[j] \in Slot
    BY BaseFacts
  <1>5. \A k \in 0 .. count - 1 : mem'[k] = mem[k]
    <2>1. \A k \in 0 .. count - 1 : k \in DOMAIN mem /\ k # count
      BY <1>4
    <2> QED
      BY <1>1, <1>3, <2>1
  <1>6. Holds(flushed, mem', count, Due) /\ fl.n \notin expired
    BY <1>2, <1>5, HoldsSame DEF Exact, ListInv, Cut, Deleting
  <1>7. Due' = Due
    BY <1>1 DEF Due, Registered
  <1>8. ListInv'
    BY <1>1, <1>2, <1>6, <1>7 DEF ListInv, Cut, Deleting
  <1>9. LoadInv'
    <2>1. ret.pc = "expire" => mem'[ret.i] = mem[ret.i]
      BY <1>5, WalkEntry DEF Exact
    <2> QED
      BY <1>1, <1>2, <2>1 DEF Exact, LoadInv, TooOld, Deleting, Stale
  <1>10. PutInv'
    <2>1. mem[count] \in Slot
      BY <1>1, <1>3, <1>4
    <2>2. CASE headflush_start_ts
      <3>1. /\ fl'.pc = "end_ts" /\ mem'[count] = [mem[count] EXCEPT !.start_ts = flushed[fl.n].start_ts]
        BY <1>3, <2>2, FieldFacts, FlushMoves
      <3>2. mem'[count].start_ts = flushed[fl.n].start_ts
        BY <2>1, <3>1 DEF Slot
      <3> QED
        BY <1>1, <1>3, <3>1, <3>2 DEF PutInv
    <2>3. CASE headflush_end_ts
      <3>1. /\ fl'.pc = "filename" /\ mem'[count] = [mem[count] EXCEPT !.end_ts = flushed[fl.n].end_ts]
            /\ fl.pc = "end_ts"
        BY <1>3, <2>3, FieldFacts, FlushMoves
      <3>2. mem'[count].start_ts = mem[count].start_ts /\ mem'[count].end_ts = flushed[fl.n].end_ts
        BY <2>1, <3>1 DEF Slot
      <3> QED
        BY <1>1, <1>3, <3>1, <3>2 DEF PutInv, Exact
    <2>4. CASE headflush_filename
      <3>1. /\ fl'.pc = "inc" /\ mem'[count] = [mem[count] EXCEPT !.n = fl.n]
            /\ fl.pc = "filename"
        BY <1>3, <2>4, FieldFacts, FlushMoves
      <3>2. /\ mem'[count].start_ts = mem[count].start_ts /\ mem'[count].end_ts = mem[count].end_ts
            /\ mem'[count].n = fl.n
        BY <2>1, <3>1 DEF Slot
      <3> QED
        BY <1>1, <1>3, <3>1, <3>2 DEF PutInv, Exact
    <2> QED
      BY <2>2, <2>3, <2>4 DEF StoresField
  <1> QED
    BY <1>8, <1>9, <1>10 DEF Exact

LEMMA ExactLoad ==
  ASSUME RetentionAssumption, BaseInv, Exact, headflush_load, ~ Conflict'
  PROVE  Exact'
  <1>1. UNCHANGED <<mem, count, ret, flushed, expired>>
    BY DEF headflush_load, list, history
  <1>2. /\ fl.pc = "inc" /\ fl'.n = fl.n /\ fl'.pc = "incw" /\ fl'.k = fl.k
        /\ fl'.c \in {fl.k, count}
    BY FlushMoves
  <1>3. Due' = Due /\ Capacity' = Capacity
    BY <1>1, <1>2 DEF Due, Registered, Capacity
  <1>4. ListInv' /\ LoadInv'
    BY <1>1, <1>2, <1>3 DEF Exact, ListInv, LoadInv, Stale, TooOld
  <1>5. PutInv'
    BY <1>1, <1>2 DEF Exact, PutInv, Appending
  <1> QED
    BY <1>4, <1>5 DEF Exact

\* chunkCount++ registers the chunk.
LEMMA ExactCounted ==
  ASSUME RetentionAssumption, BaseInv, Exact, headflush_store, ~ Conflict'
  PROVE  Exact'
  <1>1. UNCHANGED <<mem, ret, flushed, expired>>
    BY DEF headflush_store, history
  <1>2. fl.pc = "incw" /\ fl'.pc = "idle" /\ fl'.n = 0 /\ count' = fl.c + 1
    BY FlushMoves
  <1>3. /\ fl.c = count /\ ~ Deleting(ret.pc) /\ mem[count].n = fl.n
        /\ mem[count].start_ts = flushed[fl.n].start_ts
        /\ mem[count].end_ts = flushed[fl.n].end_ts
    BY <1>2 DEF Exact, PutInv, Conflict, Appending
  <1>4. /\ count \in Nat /\ Capacity \in Nat /\ count < Capacity /\ count \in DOMAIN mem
        /\ mem[count] \in Slot
        /\ DOMAIN flushed = 1 .. Len(flushed) /\ Len(flushed) \in Nat
        /\ fl.n = Len(flushed) /\ fl.n \in DOMAIN flushed
    <2>1. count <= fl.k /\ fl.k < Capacity /\ fl.n = Len(flushed) /\ Len(flushed) >= 1
      BY <1>2 DEF BaseInv, RoomInv, SlotsInv, Appending, Storing
    <2>2. /\ fl.k \in Nat /\ count \in Nat /\ Capacity \in Nat /\ DOMAIN mem = 0 .. Capacity - 1
          /\ DOMAIN flushed = 1 .. Len(flushed) /\ Len(flushed) \in Nat
          /\ \A j \in DOMAIN mem : mem[j] \in Slot
      BY BaseFacts
    <2>3. count \in DOMAIN mem
      BY <2>1, <2>2
    <2> QED
      BY <2>1, <2>2, <2>3
  <1>5. mem[count] = EntryOf(flushed, mem[count].n)
    BY <1>3, <1>4 DEF EntryOf, Slot
  <1>6. Holds(flushed, mem, count, Due) /\ fl.n \notin expired
    BY <1>3 DEF Exact, ListInv, Cut, Deleting
  <1>7. \A x \in Due : x < mem[count].n
    BY <1>3, <1>4 DEF Due, Registered
  <1>8. Holds(flushed, mem, count + 1, Due \cup {mem[count].n})
    BY <1>4, <1>5, <1>6, <1>7, HoldsMore
  <1>9. Due' = Due \cup {mem[count].n}
    BY <1>1, <1>2, <1>3, <1>4, <1>6 DEF Due, Registered
  <1>10. 0 \notin expired
    BY DEF BaseInv, RetentionTypeOK
  <1>11. ListInv'
    BY <1>1, <1>2, <1>3, <1>8, <1>9, <1>10 DEF ListInv, Cut, Deleting
  <1>12. LoadInv'
    <2>1. Capacity' = Capacity
      BY <1>1 DEF Capacity
    <2> QED
      BY <1>1, <1>2, <1>3, <2>1 DEF Exact, LoadInv, TooOld, Deleting, Stale
  <1>13. PutInv'
    BY <1>2 DEF PutInv, Appending
  <1> QED
    BY <1>11, <1>12, <1>13 DEF Exact

LEMMA ExactStep ==
  ASSUME RetentionAssumption, BaseInv, ExactInv, [RetentionNext]_vars
  PROVE  ExactInv'
  <1>1. CASE UNCHANGED vars
    <2>1. UNCHANGED <<mem, count, fl, ret, flushed, expired, raced>>
      BY <1>1 DEF vars, list, history
    <2> QED
      BY <2>1, ExactFrame DEF ExactInv
  <1>2. CASE RetentionNext
    <2> SUFFICES ASSUME ~ raced'
                 PROVE  Exact'
      BY DEF ExactInv
    <2>1. raced \in BOOLEAN /\ raced' = (raced \/ Conflict') /\ Steps
      BY <1>2, RetentionSteps DEF BaseInv, RetentionTypeOK
    <2>2. Exact /\ ~ Conflict'
      BY <2>1, Zenon DEF ExactInv
    <2>3. CASE Quiet \/ Queries
      <3>1. BaseFrame
        BY <2>3, BaseFacts, QuietFrame, QueryFrame
      <3> QED
        BY <2>2, <3>1, ExactFrame DEF BaseFrame
    <2>4. CASE Looks \/ expire_chunk_load
      BY <2>2, <2>4, ExactLooks
    <2>5. CASE expire_chunk_remove
      BY <2>2, <2>5, ExactRemove
    <2>6. CASE expire_chunk_move
      BY <2>2, <2>6, ExactMove
    <2>7. CASE expire_chunk_store
      BY <2>2, <2>7, ExactStore
    <2>8. CASE \E b \in Bounds : headflush_write(b)
      BY <2>2, <2>8, ExactWrite
    <2>9. CASE headflush_grow \/ headflush_realloc
      BY <2>2, <2>9, ExactGrow
    <2>10. CASE headflush_publish
      BY <2>2, <2>10, ExactPublish
    <2>11. CASE StoresField
      BY <2>2, <2>11, ExactField
    <2>12. CASE headflush_load
      BY <2>2, <2>12, ExactLoad
    <2>13. CASE headflush_store
      BY <2>2, <2>13, ExactCounted
    <2> QED
      BY <2>1, <2>3, <2>4, <2>5, <2>6, <2>7, <2>8, <2>9, <2>10, <2>11, <2>12, <2>13 DEF Steps
  <1> QED
    BY <1>1, <1>2

LEMMA InitExact ==
  ASSUME RetentionAssumption, RetentionInit
  PROVE  ExactInv
  <1>1. /\ count = 0 /\ flushed = << >> /\ expired = {} /\ fl.pc = "idle" /\ fl.n = 0
        /\ ret.pc = "off"
    BY DEF RetentionInit, NoFlush
  <1>2. Due = {}
    BY <1>1 DEF Due, Registered
  <1>3. \A k : k \notin 0 .. count - 1
    BY <1>1
  <1>4. Holds(flushed, mem, count, Due)
    BY <1>2, <1>3 DEF Holds
  <1> QED
    BY <1>1, <1>4 DEF ExactInv, Exact, Conflict, ListInv, LoadInv, PutInv, Cut, Appending, Deleting

\* The base and the exact invariant together.
LEMMA BaseSafe == RetentionSpec => [](BaseInv /\ ExactInv)
  <1>1. RetentionInit => BaseInv /\ ExactInv
    BY InitBase, InitExact, RetentionAssumption
  <1>2. BaseInv /\ ExactInv /\ [RetentionNext]_vars => (BaseInv /\ ExactInv)'
    BY BaseStep, ExactStep, RetentionAssumption
  <1> QED
    BY <1>1, <1>2, PTL DEF RetentionSpec

\* As long as no update of headflush has met a deletion the list is exactly what
\* was registered less what was expired, every entry with the bounds of its chunk
\* and its file name, in order: an append whose steps fall between those of a
\* pass, or a pass between two appends, loses, doubles or mixes nothing.
THEOREM IndexExactSafe == RetentionSpec => []IndexExact
  <1>1. BaseInv /\ ExactInv => IndexExact
    <2> SUFFICES ASSUME BaseInv, ExactInv, ~ raced, ~ Appending(fl.pc), ~ Deleting(ret.pc)
                 PROVE  /\ ListedNow = Registered \ expired
                        /\ \A k \in 0 .. count - 1 : mem[k] = Entry(mem[k].n)
                        /\ \A j, k \in 0 .. count - 1 : j < k => mem[j].n < mem[k].n
      BY DEF IndexExact
    <2>1. Holds(flushed, mem, count, Due)
      BY DEF ExactInv, Exact, ListInv, Cut, Deleting
    <2> QED
      BY <2>1 DEF Holds, Due, ListedNow, Entry, EntryOf
  <1> QED
    BY <1>1, BaseSafe, PTL

-----------------------------------------------------------------------------
(***************************************************************************)
(* Retention removes no fresh chunk.                                       *)
(***************************************************************************)

\* The cutoff of a walk is one that the rule for the metric gives, or gave
\* earlier.
CutoffInv == Walking(ret.pc) => \E age \in Period : ret.cutoff <= now - age

FreshInv == CutoffInv /\ FreshKept

\* Time passes and the rules stay: a chunk that is fresh was fresh.
LEMMA FreshBefore ==
  ASSUME RetentionAssumption, BaseInv, rules' = rules, now' \in Times,
         now' = now \/ now < now', NEW n \in DOMAIN flushed, flushed'[n] = flushed[n]
  PROVE  Period' = Period /\ (Fresh(n)' => Fresh(n))
  <1>1. Period' = Period
    BY DEF Period
  <1>2. now \in Int /\ now' \in Int /\ flushed[n].end_ts \in Int
    <2>1. now \in Times /\ Times \subseteq Nat /\ Bounds \subseteq Nat \X Nat
          /\ flushed[n] \in Chunk
      BY BaseFacts DEF RetentionAssumption
    <2>2. flushed[n].end_ts \in {b[2] : b \in Bounds}
      BY <2>1 DEF Chunk
    <2>3. PICK b \in Bounds : flushed[n].end_ts = b[2]
      BY <2>2
    <2>4. b[2] \in Nat
      BY <2>1
    <2>5. now \in Nat /\ now' \in Nat
      BY <2>1
    <2> QED
      BY <2>3, <2>4, <2>5
  <1>3. \A age \in Period : age \in Int
    BY SMTT(40) DEF Period, BaseInv, RetentionTypeOK, RetentionAssumption
  <1> QED
    BY <1>1, <1>2, <1>3 DEF Fresh

\* What the steps do to the rules and the clock.
LEMMA ClockMoves ==
  ASSUME BaseInv, RetentionNext
  PROVE  /\ now' \in Times /\ (now' = now \/ now < now')
         /\ rules' = rules \/ proc = "args"
         /\ rules' = rules \/ BaseFrame
         /\ raced => raced'
  <1>0. now \in Times /\ raced \in BOOLEAN /\ raced' = (raced \/ Conflict')
    BY BaseFacts, RetentionSteps DEF BaseInv, RetentionTypeOK
  <1>1. CASE \E spec \in Specs : retention_add_rule(spec)
    BY <1>0, <1>1 DEF retention_add_rule, BaseFrame, list, history
  <1>2. CASE \E time \in Times : Tick(time)
    BY <1>0, <1>2 DEF Tick
  <1>3. CASE retention_stop \/ FreedAccess \/ Stopped
    BY <1>0, <1>3 DEF retention_stop, FreedAccess, Stopped
  <1>4. CASE Queries
    BY <1>0, <1>4, QueryFrame
  <1>5. CASE Looks \/ expire_chunk_load
    BY <1>0, <1>5, LooksFrame
  <1>6. CASE expire_chunk_remove \/ expire_chunk_move \/ expire_chunk_store
    BY <1>0, <1>6 DEF expire_chunk_remove, expire_chunk_move, expire_chunk_store
  <1>7. CASE \E b \in Bounds : headflush_write(b)
    BY <1>0, <1>7 DEF headflush_write
  <1>8. CASE headflush_grow \/ headflush_realloc \/ headflush_publish \/ StoresField
             \/ headflush_load \/ headflush_store
    BY <1>0, <1>8 DEF headflush_grow, headflush_realloc, headflush_publish, StoresField,
         headflush_start_ts, headflush_end_ts, headflush_filename, headflush_load, headflush_store
  <1> QED
    BY <1>1, <1>2, <1>3, <1>4, <1>5, <1>6, <1>7, <1>8, RetentionSteps DEF Steps, Quiet

\* Which files and chunks change: headflush writes one, retention removes one.
LEMMA FileMoves ==
  ASSUME BaseInv, RetentionNext, ~ expire_chunk_remove, ~ \E b \in Bounds : headflush_write(b)
  PROVE  UNCHANGED <<files, flushed>>
  <1>1. CASE Quiet \/ Queries
    BY <1>1, BaseFacts, QuietFrame, QueryFrame DEF BaseFrame
  <1>2. CASE Looks \/ expire_chunk_load
    BY <1>2, LooksFrame
  <1>3. CASE expire_chunk_move \/ expire_chunk_store
    BY <1>3 DEF expire_chunk_move, expire_chunk_store, history
  <1>4. CASE headflush_grow \/ headflush_realloc \/ headflush_publish \/ StoresField
             \/ headflush_load \/ headflush_store
    BY <1>4 DEF headflush_grow, headflush_realloc, headflush_publish, StoresField,
         headflush_start_ts, headflush_end_ts, headflush_filename, headflush_load,
         headflush_store, history
  <1> QED
    BY <1>1, <1>2, <1>3, <1>4, RetentionSteps DEF Steps

\* A walk keeps its cutoff.
LEMMA CutoffMoves ==
  ASSUME RetentionAssumption, BaseInv, RetentionNext, Walking(ret'.pc), ~ run_expiry
  PROVE  Walking(ret.pc) /\ ret'.cutoff = ret.cutoff
  <1>1. CASE ret' = ret
    BY <1>1
  <1>2. CASE Looks
    <2>1. CASE retention_start \/ retention_thread_exit
      BY <2>1, RetMoves DEF Walking, Deleting
    <2>2. CASE run_expiry_check
      <3>1. ret.pc = "check" /\ (ret'.pc = "sleep" \/ ret'.cutoff = ret.cutoff)
        BY <2>2, RetMoves
      <3> QED
        BY <3>1 DEF Walking, Deleting
    <2>3. CASE run_expiry_read
      <3>1. ret.pc = "read" /\ ret'.cutoff = ret.cutoff
        BY <2>3, RetMoves
      <3> QED
        BY <3>1 DEF Walking
    <2>4. CASE expire_chunk \/ expire_chunk_tail \/ expire_chunk_chunks
      <3>1. ret.pc \in {"expire", "tail", "chunks"} /\ ret'.cutoff = ret.cutoff
        BY <2>4, ExpireMoves
      <3> QED
        BY <3>1 DEF Walking, Deleting
    <2> QED
      BY <1>2, <2>1, <2>2, <2>3, <2>4 DEF Looks
  <1>3. CASE expire_chunk_remove \/ expire_chunk_move \/ expire_chunk_load \/ expire_chunk_store
    <2>1. ret.pc \in {"remove", "move", "dec", "decw"} /\ ret'.cutoff = ret.cutoff
      BY <1>3, ExpireMoves
    <2> QED
      BY <2>1 DEF Walking, Deleting
  <1>4. CASE Quiet \/ Queries
    BY <1>1, <1>4, BaseFacts, QuietFrame, QueryFrame DEF BaseFrame
  <1>5. CASE \E b \in Bounds : headflush_write(b)
    BY <1>1, <1>5 DEF headflush_write
  <1>6. CASE headflush_grow \/ headflush_realloc \/ headflush_publish \/ StoresField
             \/ headflush_load \/ headflush_store
    BY <1>1, <1>6 DEF headflush_grow, headflush_realloc, headflush_publish, StoresField,
         headflush_start_ts, headflush_end_ts, headflush_filename, headflush_load, headflush_store
  <1> QED
    BY <1>2, <1>3, <1>4, <1>5, <1>6, RetentionSteps DEF Steps

LEMMA CutoffStep ==
  ASSUME RetentionAssumption, BaseInv, CutoffInv, RetentionNext
  PROVE  CutoffInv'
  <1> SUFFICES ASSUME Walking(ret'.pc)
               PROVE  \E age \in Period' : ret'.cutoff <= now' - age
    BY DEF CutoffInv
  <1>1. CASE run_expiry
    <2>1. ret'.cutoff = now - retention_get(rules) /\ UNCHANGED <<rules, now>>
      BY <1>1, RetMoves DEF run_expiry
    <2>2. retention_get(rules) \in Period /\ retention_get(rules) \in Int /\ now \in Int
      BY <1>1, BaseFacts, GetFacts DEF run_expiry, RetentionAssumption
    <2>3. Period' = Period
      BY <2>1 DEF Period
    <2>4. PICK age \in Period : age = retention_get(rules)
      BY <2>2
    <2> QED
      BY <2>1, <2>2, <2>3, <2>4
  <1>2. CASE ~ run_expiry
    <2>1. Walking(ret.pc) /\ ret'.cutoff = ret.cutoff
      BY <1>2, CutoffMoves
    <2>2. PICK age \in Period : ret.cutoff <= now - age
      BY <2>1 DEF CutoffInv
    <2>3. proc # "args"
      BY <2>1 DEF BaseInv, ArgsInv, Walking, Deleting
    <2>4. rules' = rules /\ now' \in Times /\ (now' = now \/ now < now')
      BY <2>3, ClockMoves
    <2>5. Period' = Period
      BY <2>4 DEF Period
    <2>6. now \in Int /\ now' \in Int /\ age \in Int /\ ret.cutoff \in Int
      <3>1. age \in Int
        BY <2>2 DEF Period, BaseInv, RetentionTypeOK, RetentionAssumption
      <3>2. now \in Times /\ ret.cutoff \in Int
        BY BaseFacts
      <3>3. Times \subseteq Nat
        BY DEF RetentionAssumption
      <3> QED
        BY <2>4, <3>1, <3>2, <3>3
    <2> QED
      BY <2>1, <2>2, <2>4, <2>5, <2>6
  <1> QED
    BY <1>1, <1>2

\* A new file does not touch those of other chunks, unless they share it.
LEMMA FreshWrite ==
  ASSUME RetentionAssumption, BaseInv, FreshKept, NEW b \in Bounds, headflush_write(b), ~ raced
  PROVE  FreshKept'
  <1>1. /\ \A n \in DOMAIN flushed : n \in DOMAIN flushed' /\ flushed'[n] = flushed[n]
        /\ \A n \in DOMAIN flushed' : n \in DOMAIN flushed \/ n = Len(flushed) + 1
        /\ Len(flushed) + 1 \in DOMAIN flushed'
        /\ flushed'[Len(flushed) + 1].start_ts = b[1] /\ b[1] \in Starts
        /\ files' = [files EXCEPT ![b[1]] = Len(flushed) + 1]
        /\ UNCHANGED <<rules, now>>
    <2>1. Len(flushed) \in Nat
      BY BaseFacts
    <2>2. Len(flushed) + 1 \in 1 .. Len(flushed) + 1
      BY <2>1
    <2> QED
      BY <2>2, NewChunk
  <1>2. DOMAIN files = Starts
    BY BaseFacts
  <1>3. \A n \in DOMAIN flushed : flushed[n].start_ts \in Starts /\ n # Len(flushed) + 1
    <2>1. \A n \in DOMAIN flushed : n # Len(flushed) + 1
      BY BaseFacts
    <2> QED
      BY <2>1, BaseFacts
  <1>4. ASSUME NEW o \in DOMAIN flushed', Fresh(o)', ~ Shared(o)'
        PROVE  files'[flushed'[o].start_ts] = o
    <2>1. CASE o = Len(flushed) + 1
      BY <1>1, <1>2, <2>1
    <2>2. CASE o \in DOMAIN flushed
      <3>1. flushed'[o] = flushed[o] /\ flushed[o].start_ts # b[1]
        BY <1>1, <1>3, <1>4, <2>2 DEF Shared
      <3>2. Fresh(o)
        BY <1>1, <1>4, <2>2 DEF Fresh, Period
      <3>3. ~ Shared(o)
        BY <1>1, <1>4, <2>2 DEF Shared
      <3>4. files[flushed[o].start_ts] = o
        BY <2>2, <3>2, <3>3 DEF FreshKept
      <3> QED
        BY <1>1, <1>2, <1>3, <2>2, <3>1, <3>4
    <2> QED
      BY <1>1, <2>1, <2>2
  <1> QED
    BY <1>4 DEF FreshKept

\* The file that is removed is that of a chunk older than the cutoff.
LEMMA FreshRemove ==
  ASSUME RetentionAssumption, BaseInv, Exact, CutoffInv, FreshKept, expire_chunk_remove, ~ raced
  PROVE  FreshKept'
  <1>1. UNCHANGED <<rules, now, flushed>> /\ ret.pc = "remove"
    BY DEF expire_chunk_remove
  <1>2. PICK n : n = mem[ret.i].n
    OBVIOUS
  <1>3. n \in DOMAIN flushed /\ mem[ret.i] = EntryOf(flushed, n)
    BY <1>1, <1>2, WalkEntry DEF Exact
  <1>4. mem[ret.i].end_ts < ret.cutoff
    BY <1>1 DEF Exact, LoadInv, TooOld
  <1>5. flushed[n].end_ts < ret.cutoff
    BY <1>3, <1>4 DEF EntryOf
  <1>6. ~ Fresh(n)
    <2>1. PICK age \in Period : ret.cutoff <= now - age
      BY <1>1 DEF CutoffInv, Walking, Deleting
    <2>2. now \in Int /\ age \in Int /\ ret.cutoff \in Int /\ flushed[n].end_ts \in Int
      <3>1. age \in Int
        BY <2>1, SMTT(40) DEF Period, BaseInv, RetentionTypeOK, RetentionAssumption
      <3>2. now \in Times /\ ret.cutoff \in Int /\ flushed[n] \in Chunk
        BY <1>3, BaseFacts
      <3>3. Times \subseteq Nat /\ Bounds \subseteq Nat \X Nat
        BY DEF RetentionAssumption
      <3>4. PICK b \in Bounds : flushed[n].end_ts = b[2]
        BY <3>2 DEF Chunk
      <3>5. b[2] \in Nat
        BY <3>3
      <3> QED
        BY <3>1, <3>2, <3>3, <3>4, <3>5
    <2> QED
      BY <1>5, <2>1, <2>2 DEF Fresh
  <1>7. files' = [files EXCEPT ![flushed[n].start_ts] = 0] \/ files' = files
    BY <1>2 DEF expire_chunk_remove
  <1>8. DOMAIN files = Starts /\ \A o \in DOMAIN flushed : flushed[o].start_ts \in Starts
    BY BaseFacts
  <1>9. ASSUME NEW o \in DOMAIN flushed, Fresh(o), ~ Shared(o)
        PROVE  files'[flushed[o].start_ts] = o
    <2>1. o # n /\ flushed[o].start_ts # flushed[n].start_ts
      BY <1>3, <1>6, <1>9 DEF Shared
    <2>2. files[flushed[o].start_ts] = o
      BY <1>9 DEF FreshKept
    <2> QED
      BY <1>7, <1>8, <2>1, <2>2
  <1>10. \A o : (Fresh(o)' => Fresh(o)) /\ (Shared(o) => Shared(o)')
    BY <1>1 DEF Fresh, Period, Shared
  <1> QED
    BY <1>1, <1>9, <1>10 DEF FreshKept

LEMMA FreshStep ==
  ASSUME RetentionAssumption, BaseInv, ExactInv, FreshInv, [RetentionNext]_vars
  PROVE  FreshInv'
  <1>1. CASE UNCHANGED vars
    BY <1>1 DEF vars, list, history, FreshInv, CutoffInv, FreshKept, Fresh, Shared, Period
  <1>2. CASE RetentionNext
    <2>1. CutoffInv'
      BY <1>2, CutoffStep DEF FreshInv
    <2>2. ASSUME ~ raced'
          PROVE  FreshKept'
      <3>1. ~ raced
        BY <1>2, <2>2, ClockMoves
      <3>2. CASE \E b \in Bounds : headflush_write(b)
        BY <3>1, <3>2, FreshWrite DEF FreshInv
      <3>3. CASE expire_chunk_remove
        BY <3>1, <3>3, FreshRemove DEF FreshInv, ExactInv
      <3>4. CASE ~ expire_chunk_remove /\ ~ \E b \in Bounds : headflush_write(b)
        <4>1. UNCHANGED <<files, flushed>>
          BY <1>2, <3>4, FileMoves
        <4>2. CASE proc = "args"
          <5>1. DOMAIN flushed' = {}
            BY <4>1, <4>2 DEF BaseInv, ArgsInv
          <5> QED
            BY <5>1 DEF FreshKept
        <4>3. CASE proc # "args"
          <5>1. rules' = rules /\ now' \in Times /\ (now' = now \/ now < now')
            BY <1>2, <4>3, ClockMoves
          <5>2. \A n \in DOMAIN flushed : Fresh(n)' => Fresh(n)
            BY <4>1, <5>1, FreshBefore
          <5>3. \A n \in DOMAIN flushed : Shared(n) => Shared(n)'
            BY <4>1 DEF Shared
          <5> QED
            BY <3>1, <4>1, <5>2, <5>3 DEF FreshInv, FreshKept
        <4> QED
          BY <4>2, <4>3
      <3> QED
        BY <3>2, <3>3, <3>4
    <2>3. raced' => FreshKept'
      BY DEF FreshKept
    <2> QED
      BY <2>1, <2>2, <2>3 DEF FreshInv
  <1> QED
    BY <1>1, <1>2

\* As long as headflush and the retention thread have not met inside a deletion
\* or a read, no file is removed whose chunk is within its period: the cutoff is
\* older than the clock, the entry that is compared is whole and the one whose
\* file is removed is the one that was compared, although appends and realloc
\* happen between the two.
THEOREM FreshKeptSafe == RetentionSpec => []FreshKept
  <1>1. RetentionInit => FreshInv
    BY DEF RetentionInit, FreshInv, CutoffInv, FreshKept, Walking, Deleting
  <1>2. BaseInv /\ ExactInv /\ FreshInv /\ [RetentionNext]_vars => FreshInv'
    BY FreshStep, RetentionAssumption
  <1>3. FreshInv => FreshKept
    BY DEF FreshInv
  <1> QED
    BY <1>1, <1>2, <1>3, BaseSafe, PTL DEF RetentionSpec

-----------------------------------------------------------------------------
(***************************************************************************)
(* An undisturbed query is complete: the slots that were counted when it   *)
(* began are as they were.                                                 *)
(***************************************************************************)

ScanType == [pc : {"idle", "next", "open", "done"}, i : Nat, at : Nat,
             old : Slot, got : Seq(0 .. MaxChunks),
             known : SUBSET (0 .. MaxChunks), disturbed : BOOLEAN]

Got == {scan.got[k] : k \in DOMAIN scan.got}

\* The file of chunk n holds it.
There(n) == n # 0 /\ files[flushed[n].start_ts] = n

\* n slots were counted when the scan began.
ScanFrom(n) ==
    /\ scan.known = {mem[k].n : k \in 0 .. n - 1}
    /\ scan.pc = "open" /\ scan.i < n => scan.old = mem[scan.i]
    /\ \A k \in 0 .. n - 1 : k < scan.i /\ There(mem[k].n) => mem[k].n \in Got

ScanInv ==
    /\ scan \in ScanType
    /\ \A n \in scan.known : n <= Len(flushed)
    /\ scan.pc = "open" => scan.i < scan.at /\ scan.old.n <= Len(flushed)
    /\ scan.pc \in {"next", "open"} /\ ~ scan.disturbed => \E n \in 0 .. count : ScanFrom(n)
    /\ ScanComplete

\* The counted slots name chunks, or none.
LEMMA CountedSlots ==
  ASSUME BaseInv
  PROVE  /\ count \in Nat /\ Len(flushed) \in Nat /\ DOMAIN flushed = 1 .. Len(flushed)
         /\ \A k \in 0 .. count - 1 : k \in DOMAIN mem /\ mem[k] \in Slot /\ mem[k].n \in Nat
                                      /\ mem[k].n <= Len(flushed)
         /\ \A k \in 0 .. count - 1 : mem[k].n # 0 => mem[k].n \in DOMAIN flushed
         /\ \A n \in DOMAIN flushed : flushed[n].start_ts \in Starts /\ n # 0
         /\ \A n \in Nat : n # 0 /\ n <= Len(flushed) => n \in DOMAIN flushed
  <1>1. /\ count \in Nat /\ count <= Capacity /\ Capacity \in Nat /\ DOMAIN mem = 0 .. Capacity - 1
        /\ Len(flushed) \in Nat /\ DOMAIN flushed = 1 .. Len(flushed)
        /\ \A j \in DOMAIN mem : mem[j].n \in Nat /\ mem[j] \in Slot
        /\ \A n \in DOMAIN flushed : flushed[n].start_ts \in Starts
    BY BaseFacts
  <1>2. \A j \in DOMAIN mem : mem[j].n <= Len(flushed)
    BY DEF BaseInv, SlotsInv
  <1>3. \A k \in 0 .. count - 1 : k \in DOMAIN mem
    BY <1>1
  <1>4. \A n \in Nat : n # 0 /\ n <= Len(flushed) => n \in DOMAIN flushed
    BY <1>1
  <1>5. \A n \in DOMAIN flushed : n # 0
    BY <1>1
  <1> QED
    BY <1>1, <1>2, <1>3, <1>4, <1>5

\* A step keeps the chunks there are, and a file comes to hold a new one only.
FilesKept ==
    /\ \A n \in DOMAIN flushed : n \in DOMAIN flushed' /\ flushed'[n] = flushed[n]
    /\ Len(flushed') >= Len(flushed)
    /\ \A n \in DOMAIN flushed : There(n)' => There(n)

\* The slots that are counted stay as they are.
SlotsKept ==
    /\ \A k \in 0 .. count - 1 : mem'[k] = mem[k]
    /\ count' >= count /\ count' \in Nat

LEMMA ScanKept ==
  ASSUME BaseInv, ScanInv, scan' = scan, FilesKept, SlotsKept, flushed' \in Seq(Chunk)
  PROVE  ScanInv'
  <1>1. /\ count \in Nat /\ Len(flushed) \in Nat /\ DOMAIN flushed = 1 .. Len(flushed)
        /\ \A k \in 0 .. count - 1 : mem[k].n # 0 => mem[k].n \in DOMAIN flushed
        /\ \A n \in Nat : n # 0 /\ n <= Len(flushed) => n \in DOMAIN flushed
        /\ \A n \in DOMAIN flushed : n # 0
    BY CountedSlots
  <1>2. /\ scan \in ScanType /\ scan.old.n \in Nat /\ scan.i \in Nat
        /\ \A n \in scan.known : n \in Nat /\ n <= Len(flushed)
    BY DEF ScanInv, ScanType, Slot
  <1>6. Len(flushed') \in Nat
    OBVIOUS
  <1>3. /\ \A n \in scan.known : n <= Len(flushed')
        /\ scan.pc = "open" => scan.i < scan.at /\ scan.old.n <= Len(flushed')
    BY <1>1, <1>2, <1>6 DEF ScanInv, FilesKept
  <1>4. ScanComplete'
    <2> SUFFICES ASSUME scan.pc = "done", ~ scan.disturbed, NEW n \in DOMAIN flushed',
                        n \in scan.known, files'[flushed'[n].start_ts] = n
                 PROVE  n \in Got
      BY DEF ScanComplete, Got
    <2>1. CASE n # 0
      <3>1. n \in DOMAIN flushed
        BY <1>1, <1>2, <2>1
      <3>2. There(n)'
        BY <2>1 DEF There
      <3>3. There(n)
        BY <3>1, <3>2 DEF FilesKept
      <3> QED
        BY <3>1, <3>3 DEF ScanInv, ScanComplete, Got, There
    <2>2. CASE n = 0
      <3>1. FALSE
        <4>1. DOMAIN flushed' = 1 .. Len(flushed')
          OBVIOUS
        <4> QED
          BY <2>2, <4>1
      <3> QED
        BY <3>1
    <2> QED
      BY <2>1, <2>2
  <1>5. ASSUME scan.pc \in {"next", "open"}, ~ scan.disturbed
        PROVE  \E n \in 0 .. count' : ScanFrom(n)'
    <2>1. PICK n \in 0 .. count : ScanFrom(n)
      BY <1>5 DEF ScanInv
    <2>2. \A k \in 0 .. n - 1 : k \in 0 .. count - 1 /\ mem'[k] = mem[k]
      BY <1>1, <2>1 DEF SlotsKept
    <2>3. {mem'[k].n : k \in 0 .. n - 1} = {mem[k].n : k \in 0 .. n - 1}
      BY <2>2
    <2>4. scan.pc = "open" /\ scan.i < n => scan.old = mem'[scan.i]
      <3>1. scan.i < n => scan.i \in 0 .. n - 1
        BY <1>2, <2>1
      <3> QED
        BY <2>1, <2>2, <3>1 DEF ScanFrom
    <2>5. ASSUME NEW k \in 0 .. n - 1, k < scan.i, There(mem[k].n)'
          PROVE  mem'[k].n \in Got
      <3>1. mem'[k] = mem[k] /\ k \in 0 .. count - 1
        BY <2>2
      <3>2. PICK x : x = mem[k].n
        OBVIOUS
      <3>3. x # 0 /\ files'[flushed'[x].start_ts] = x
        BY <2>5, <3>1, <3>2 DEF There
      <3>4. x \in DOMAIN flushed
        BY <1>1, <3>1, <3>2, <3>3
      <3>5. There(x)
        BY <3>3, <3>4 DEF FilesKept, There
      <3> QED
        BY <2>1, <2>5, <3>1, <3>2, <3>5 DEF ScanFrom
    <2>6. ScanFrom(n)'
      <3>1. Got' = Got
        BY DEF Got
      <3>2. scan.known = {mem'[k].n : k \in 0 .. n - 1}
        BY <2>1, <2>3 DEF ScanFrom
      <3> QED
        BY <2>4, <2>5, <3>1, <3>2 DEF ScanFrom
    <2>7. n \in 0 .. count'
      BY <1>1, <2>1 DEF SlotsKept
    <2> QED
      BY <2>6, <2>7
  <1> QED
    BY <1>2, <1>3, <1>4, <1>5 DEF ScanInv

\* A deletion disturbs a query that walks the list.
LEMMA ScanShifted ==
  ASSUME ScanInv, scan' = Disturbed(scan), UNCHANGED <<files, flushed>>
  PROVE  ScanInv'
  <1>1. scan \in ScanType
    BY DEF ScanInv
  <1>2. PICK d \in BOOLEAN : d = (scan.disturbed \/ scan.pc \in {"next", "open"})
    OBVIOUS
  <1>3. scan' = [scan EXCEPT !.disturbed = d]
    BY <1>2 DEF Disturbed
  <1>4. /\ scan' \in ScanType /\ scan'.pc = scan.pc /\ scan'.i = scan.i /\ scan'.at = scan.at
        /\ scan'.got = scan.got /\ scan'.known = scan.known /\ scan'.disturbed = d
        /\ scan'.old = scan.old
    BY <1>1, <1>3 DEF ScanType
  <1>5. scan.pc \in {"next", "open"} => scan'.disturbed
    BY <1>2, <1>4
  <1>6. ~ scan'.disturbed => ~ scan.disturbed
    BY <1>2, <1>4
  <1>7. ScanComplete'
    BY <1>4, <1>6 DEF ScanInv, ScanComplete
  <1> QED
    BY <1>4, <1>5, <1>7 DEF ScanInv

\* The query begins.
LEMMA ScanBegins ==
  ASSUME RetentionAssumption, BaseInv, ScanInv, Head_GET
  PROVE  ScanInv'
  <1>1. UNCHANGED <<mem, count, files, flushed>>
    BY DEF Head_GET, list
  <1> DEFINE known == {mem[k].n : k \in 0 .. count - 1}
  <1>2. \A n \in known : n \in 0 .. MaxChunks /\ n <= Len(flushed)
    <2>1. \A k \in 0 .. count - 1 : mem[k] \in Slot /\ mem[k].n <= Len(flushed)
      BY CountedSlots
    <2>2. \A m \in Slot : m.n \in 0 .. MaxChunks
      BY DEF Slot
    <2> QED
      BY <2>1, <2>2
  <1>3. scan' = [NoScan EXCEPT !.pc = "next", !.known = known]
    BY DEF Head_GET
  <1>4. known \in SUBSET (0 .. MaxChunks)
    BY <1>2
  <1>0. Unset \in Slot
    BY DEF Unset, Slot, RetentionAssumption
  <1> HIDE DEF known
  <1>5. /\ scan' \in ScanType /\ scan'.pc = "next" /\ scan'.i = 0 /\ scan'.known = known
    <2>1. scan' = [pc |-> "next", i |-> 0, at |-> 0, old |-> Unset, got |-> << >>,
                   known |-> known, disturbed |-> FALSE]
      BY <1>3 DEF NoScan
    <2>2. << >> \in Seq(0 .. MaxChunks)
      OBVIOUS
    <2> QED
      BY <1>0, <1>4, <2>1, <2>2 DEF ScanType
  <1>6. ScanFrom(count)'
    <2>1. \A k \in 0 .. count - 1 : ~ (k < 0)
      BY CountedSlots
    <2> QED
      BY <1>1, <1>5, <2>1 DEF ScanFrom, known
  <1>7. count' \in 0 .. count'
    BY <1>1, CountedSlots
  <1> QED
    BY <1>1, <1>2, <1>5, <1>6, <1>7 DEF ScanInv, ScanComplete

\* The loop takes the next entry, or ends behind all that was counted.
LEMMA ScanNext ==
  ASSUME RetentionAssumption, BaseInv, ScanInv, Head_GET_next
  PROVE  ScanInv'
  <1>1. /\ UNCHANGED <<mem, count, files, flushed>> /\ scan.pc = "next" /\ scan \in ScanType
        /\ scan.i \in Nat
    BY DEF Head_GET_next, list, history, ScanInv, ScanType
  <1>0. /\ count \in Nat /\ count <= Capacity /\ Capacity \in Nat
        /\ \A k \in 0 .. count - 1 : mem[k] \in Slot /\ mem[k].n <= Len(flushed)
    BY BaseFacts, CountedSlots
  <1>2. CASE scan.i < count /\ scan' = [scan EXCEPT !.pc = "open", !.at = Capacity, !.old = mem[scan.i]]
    <2>1. mem[scan.i] \in Slot /\ scan.i < Capacity /\ mem[scan.i].n <= Len(flushed)
      <3>1. scan.i \in 0 .. count - 1
        BY <1>0, <1>1, <1>2
      <3> QED
        BY <1>0, <1>1, <1>2, <3>1
    <2>2. PICK m \in Slot : m = mem[scan.i]
      BY <2>1
    <2>3. PICK c \in Nat : c = Capacity
      BY <1>0
    <2>4. scan' = [scan EXCEPT !.pc = "open", !.at = c, !.old = m]
      BY <1>2, <2>2, <2>3
    <2>5. /\ scan' \in ScanType /\ scan'.pc = "open" /\ scan'.i = scan.i /\ scan'.at = c
          /\ scan'.old = m /\ scan'.got = scan.got /\ scan'.known = scan.known
          /\ scan'.disturbed = scan.disturbed
      BY <1>1, <2>4 DEF ScanType
    <2>6. Got' = Got
      BY <2>5 DEF Got
    <2>7. ASSUME NEW n \in 0 .. count, ScanFrom(n) PROVE ScanFrom(n)'
      BY <1>1, <2>2, <2>5, <2>6, <2>7 DEF ScanFrom, There
    <2>8. ~ scan.disturbed => \E n \in 0 .. count' : ScanFrom(n)'
      BY <1>1, <2>7 DEF ScanInv
    <2> QED
      BY <1>1, <2>1, <2>2, <2>3, <2>5, <2>8 DEF ScanInv, ScanComplete
  <1>3. CASE ~ (scan.i < count) /\ scan' = [scan EXCEPT !.pc = "done"]
    <2>1. /\ scan' \in ScanType /\ scan'.pc = "done"
          /\ scan'.got = scan.got /\ scan'.known = scan.known
          /\ scan'.disturbed = scan.disturbed
      BY <1>1, <1>3 DEF ScanType
    <2>2. ASSUME ~ scan.disturbed, NEW x \in DOMAIN flushed, x \in scan.known,
                 files[flushed[x].start_ts] = x
          PROVE  x \in Got
      <3>1. PICK n \in 0 .. count : ScanFrom(n)
        BY <1>1, <2>2 DEF ScanInv
      <3>2. PICK k \in 0 .. n - 1 : x = mem[k].n
        BY <2>2, <3>1 DEF ScanFrom
      <3>3. k < scan.i
        BY <1>0, <1>1, <1>3, <3>1, <3>2, SMTT(40)
      <3>4. There(mem[k].n)
        BY <2>2, <3>2, CountedSlots DEF There
      <3> QED
        BY <3>1, <3>2, <3>3, <3>4 DEF ScanFrom
    <2>3. ScanComplete'
      BY <1>1, <2>1, <2>2 DEF ScanComplete, Got
    <2> QED
      BY <1>1, <2>1, <2>3 DEF ScanInv
  <1> QED
    BY <1>2, <1>3 DEF Head_GET_next, MoreChunks

\* What is appended to the result is in it, with all that was.
LEMMA GotMore ==
  ASSUME NEW g \in Seq(0 .. MaxChunks), NEW x \in 0 .. MaxChunks, NEW h, h = Append(g, x)
  PROVE  /\ h \in Seq(0 .. MaxChunks)
         /\ \A k \in DOMAIN g : k \in DOMAIN h /\ h[k] = g[k]
         /\ Len(g) + 1 \in DOMAIN h /\ h[Len(g) + 1] = x
  <1>1. /\ h \in Seq(0 .. MaxChunks) /\ DOMAIN g = 1 .. Len(g) /\ Len(g) \in Nat
        /\ DOMAIN h = 1 .. Len(g) + 1
        /\ \A k \in 1 .. Len(g) : h[k] = g[k]
        /\ h[Len(g) + 1] = x
    OBVIOUS
  <1>2. Len(g) + 1 \in 1 .. Len(g) + 1 /\ \A k \in 1 .. Len(g) : k \in 1 .. Len(g) + 1
    BY <1>1
  <1> QED
    BY <1>1, <1>2

\* The file that slot m names, 0 if there is none.
FileOf(m) == IF m.n = 0 THEN 0 ELSE files[flushed[m.n].start_ts]

\* The file of an entry is read: whatever the entry, the result stays typed, and
\* an entry whose file is there is in it.
LEMMA ScanReads ==
  ASSUME RetentionAssumption, BaseInv, ScanInv, scan.pc = "open",
         UNCHANGED <<mem, count, files, flushed>>,
         NEW m \in Slot, m.n <= Len(flushed),
         scan.disturbed \/ \A n \in 0 .. count : ScanFrom(n) /\ scan.i < n => m = mem[scan.i],
         scan' = [scan EXCEPT !.pc = "next", !.i = @ + 1, !.at = 0, !.old = Unset,
                              !.got = IF FileOf(m) # 0 THEN Append(@, FileOf(m)) ELSE @]
  PROVE  ScanInv'
  <1>1. scan \in ScanType /\ scan.i \in Nat /\ scan.got \in Seq(0 .. MaxChunks) /\ count \in Nat
    BY CountedSlots DEF ScanInv, ScanType
  <1>0. PICK x \in 0 .. MaxChunks : x = FileOf(m)
    <2>1. CASE m.n = 0
      BY <2>1 DEF FileOf, RetentionAssumption
    <2>2. CASE m.n # 0
      <3>1. m.n \in DOMAIN flushed
        <4>1. m.n \in Nat
          BY DEF Slot
        <4> QED
          BY <2>2, <4>1, CountedSlots
      <3>2. flushed[m.n].start_ts \in Starts /\ files \in [Starts -> 0 .. MaxChunks]
        BY <3>1, BaseFacts
      <3> QED
        BY <2>2, <3>2 DEF FileOf
    <2> QED
      BY <2>1, <2>2
  <1>2. PICK g \in Seq(0 .. MaxChunks) :
          /\ g = IF x # 0 THEN Append(scan.got, x) ELSE scan.got
          /\ \A y \in Got : y \in {g[k] : k \in DOMAIN g}
          /\ x # 0 => x \in {g[k] : k \in DOMAIN g}
    <2>1. CASE x # 0
      <3>4. PICK f \in Seq(0 .. MaxChunks) : f = scan.got
        BY <1>1
      <3>5. PICK h : h = Append(f, x)
        OBVIOUS
      <3>6. h \in Seq(0 .. MaxChunks) /\ h = Append(scan.got, x)
        BY <3>4, <3>5, GotMore
      <3>7. /\ \A k \in DOMAIN f : k \in DOMAIN h /\ h[k] = f[k]
            /\ \E k \in DOMAIN h : h[k] = x
        <4>1. \A k \in DOMAIN f : k \in DOMAIN h /\ h[k] = f[k]
          BY <3>5, GotMore, SMTT(40)
        <4>2. Len(f) + 1 \in DOMAIN h /\ h[Len(f) + 1] = x
          BY <3>5, GotMore
        <4> QED
          BY <4>1, <4>2
      <3>8. /\ \A y \in Got : y \in {h[k] : k \in DOMAIN h}
            /\ x \in {h[k] : k \in DOMAIN h}
        BY <3>4, <3>7 DEF Got
      <3> QED
        BY <2>1, <3>6, <3>8
    <2>2. CASE x = 0
      BY <1>1, <2>2 DEF Got
    <2> QED
      BY <2>1, <2>2
  <1>3. PICK j \in Nat : j = scan.i + 1
    BY <1>1
  <1>4. scan' = [scan EXCEPT !.pc = "next", !.i = j, !.at = 0, !.old = Unset, !.got = g]
    BY <1>0, <1>2, <1>3
  <1>5. /\ scan' \in ScanType /\ scan'.pc = "next" /\ scan'.i = j /\ scan'.got = g
        /\ scan'.known = scan.known /\ scan'.disturbed = scan.disturbed
    <2>1. Unset \in Slot
      BY DEF Unset, Slot, RetentionAssumption
    <2>2. 0 \in Nat
      OBVIOUS
    <2> QED
      BY <1>1, <1>4, <2>1, <2>2, ZenonT(40) DEF ScanType
  <1>6. Got' = {g[k] : k \in DOMAIN g}
    BY <1>5 DEF Got
  <1>7. ASSUME ~ scan.disturbed
        PROVE  \E n \in 0 .. count : ScanFrom(n)'
    <2>1. PICK n \in 0 .. count : ScanFrom(n)
      BY <1>7 DEF ScanInv
    <2>2. ASSUME NEW k \in 0 .. n - 1, k < j, There(mem[k].n)
          PROVE  mem[k].n \in Got'
      <3>1. CASE k < scan.i
        BY <1>2, <1>6, <2>1, <2>2, <3>1 DEF ScanFrom
      <3>2. CASE k = scan.i
        <4>1. m = mem[k]
          <5>1. scan.i < n
            BY <1>1, <2>1, <2>2, <3>2, SMTT(40)
          <5> QED
            BY <1>7, <2>1, <3>2, <5>1
        <4>2. x = mem[k].n /\ x # 0
          BY <1>0, <2>2, <4>1 DEF FileOf, There
        <4> QED
          BY <1>2, <1>6, <4>2
      <3>3. k < scan.i \/ k = scan.i
        <4>1. PICK z \in Nat : z = scan.i
          BY <1>1
        <4>2. k \in Int /\ k < z + 1
          BY <1>3, <2>1, <2>2, <4>1
        <4>3. k < z \/ k = z
          BY <4>1, <4>2, SMTT(40)
        <4> QED
          BY <4>1, <4>3
      <3> QED
        BY <3>1, <3>2, <3>3
    <2>3. scan.known = {mem[k].n : k \in 0 .. n - 1}
      BY <2>1 DEF ScanFrom
    <2>4. ScanFrom(n)'
      BY <1>5, <2>2, <2>3, SMTT(40) DEF ScanFrom, There
    <2> QED
      BY <2>4
  <1> QED
    BY <1>5, <1>7 DEF ScanInv, ScanComplete

LEMMA ScanOpens ==
  ASSUME RetentionAssumption, BaseInv, ScanInv, Head_GET_open
  PROVE  ScanInv'
  <1>1. /\ UNCHANGED <<mem, count, files, flushed>> /\ scan.pc = "open" /\ scan \in ScanType
        /\ scan.i \in Nat /\ scan.at \in Nat /\ scan.i < scan.at /\ scan.old \in Slot
        /\ scan.old.n <= Len(flushed)
    BY DEF Head_GET_open, list, history, ScanInv, ScanType
  <1>2. ASSUME ~ Stale(scan.at) PROVE mem[scan.i] \in Slot /\ mem[scan.i].n <= Len(flushed)
    <2>1. scan.at = Capacity /\ Capacity \in Nat /\ DOMAIN mem = 0 .. Capacity - 1
      BY <1>2, BaseFacts DEF Stale
    <2>2. scan.i \in DOMAIN mem
      BY <1>1, <2>1
    <2> QED
      BY <2>2, BaseFacts DEF BaseInv, SlotsInv
  <1>3. \A n \in 0 .. count : ScanFrom(n) /\ scan.i < n => scan.old = mem[scan.i]
    BY <1>1 DEF ScanFrom
  <1>4. CASE scan' = [scan EXCEPT !.pc = "next", !.i = @ + 1, !.at = 0, !.old = Unset,
                                  !.disturbed = TRUE]
    <2>1. PICK j \in Nat : j = scan.i + 1
      BY <1>1
    <2>2. scan' = [scan EXCEPT !.pc = "next", !.i = j, !.at = 0, !.old = Unset,
                               !.disturbed = TRUE]
      BY <1>4, <2>1
    <2>0. Unset \in Slot
      BY DEF Unset, Slot, RetentionAssumption
    <2>3. scan' \in ScanType /\ scan'.pc = "next" /\ scan'.known = scan.known /\ scan'.disturbed
      BY <1>1, <2>0, <2>2 DEF ScanType
    <2> QED
      BY <1>1, <2>3 DEF ScanInv, ScanComplete
  <1>5. ASSUME NEW m,
               scan' = [scan EXCEPT !.pc = "next", !.i = @ + 1, !.at = 0, !.old = Unset,
                          !.got = IF m.n # 0 /\ files[flushed[m.n].start_ts] # 0
                                  THEN Append(@, files[flushed[m.n].start_ts]) ELSE @]
        PROVE  scan' = [scan EXCEPT !.pc = "next", !.i = @ + 1, !.at = 0, !.old = Unset,
                          !.got = IF FileOf(m) # 0 THEN Append(@, FileOf(m)) ELSE @]
    <2>1. (IF m.n # 0 /\ files[flushed[m.n].start_ts] # 0
           THEN Append(scan.got, files[flushed[m.n].start_ts]) ELSE scan.got)
          = (IF FileOf(m) # 0 THEN Append(scan.got, FileOf(m)) ELSE scan.got)
      BY DEF FileOf
    <2> QED
      BY <1>5, <2>1, Zenon
  <1>6. CASE ~ Stale(scan.at) /\ scan' # [scan EXCEPT !.pc = "next", !.i = @ + 1, !.at = 0,
                                                      !.old = Unset, !.disturbed = TRUE]
    <2>1. scan' = [scan EXCEPT !.pc = "next", !.i = @ + 1, !.at = 0, !.old = Unset,
                     !.got = IF FileOf(mem[scan.i]) # 0 THEN Append(@, FileOf(mem[scan.i])) ELSE @]
      BY <1>5, <1>6, Zenon DEF Head_GET_open
    <2>2. PICK m \in Slot : m = mem[scan.i]
      BY <1>2, <1>6
    <2> QED
      BY <1>1, <1>2, <1>6, <2>1, <2>2, ScanReads
  <1>7. CASE Stale(scan.at) /\ scan' # [scan EXCEPT !.pc = "next", !.i = @ + 1, !.at = 0,
                                                    !.old = Unset, !.disturbed = TRUE]
    <2>1. scan' = [scan EXCEPT !.pc = "next", !.i = @ + 1, !.at = 0, !.old = Unset,
                     !.got = IF FileOf(scan.old) # 0 THEN Append(@, FileOf(scan.old)) ELSE @]
      BY <1>5, <1>7, Zenon DEF Head_GET_open
    <2>2. PICK m \in Slot : m = scan.old
      BY <1>1
    <2> QED
      BY <1>1, <1>3, <1>7, <2>1, <2>2, ScanReads
  <1> QED
    BY <1>4, <1>6, <1>7

LEMMA ScanEnds ==
  ASSUME RetentionAssumption, Head_GET_reply
  PROVE  ScanInv'
  <1>1. scan' = NoScan
    BY DEF Head_GET_reply
  <1>2. NoScan \in ScanType
    <2>1. << >> \in Seq(0 .. MaxChunks) /\ Unset \in Slot
      BY DEF Unset, Slot, RetentionAssumption
    <2> QED
      BY <2>1 DEF NoScan, ScanType
  <1> QED
    BY <1>1, <1>2 DEF ScanInv, ScanComplete, NoScan

\* Steps that keep the files.
LEMMA SameFiles ==
  ASSUME BaseInv, UNCHANGED <<files, flushed>>
  PROVE  FilesKept
  <1>1. Len(flushed) \in Nat
    BY BaseFacts
  <1> QED
    BY <1>1 DEF FilesKept, There

LEMMA ScanStep ==
  ASSUME RetentionAssumption, BaseInv, ScanInv, BaseInv', [RetentionNext]_vars
  PROVE  ScanInv'
  <1>0. /\ count \in Nat /\ Len(flushed) \in Nat
        /\ count' \in Nat /\ flushed' \in Seq(Chunk)
        /\ \A k \in 0 .. count - 1 : k \in DOMAIN mem
    <2>1. count' \in Nat /\ flushed' \in Seq(Chunk)
      BY DEF BaseInv, RetentionTypeOK
    <2> QED
      BY <2>1, CountedSlots
  <1>1. ASSUME UNCHANGED <<scan, files, flushed, mem, count>>
        PROVE  ScanInv'
    <2>1. SlotsKept
      BY <1>0, <1>1 DEF SlotsKept
    <2> QED
      BY <1>0, <1>1, <2>1, SameFiles, ScanKept
  <1>2. CASE UNCHANGED vars
    BY <1>1, <1>2 DEF vars, list, history
  <1>3. CASE Quiet
    BY <1>1, <1>3, BaseFacts, QuietFrame DEF BaseFrame
  <1>4. CASE Looks
    BY <1>1, <1>4, LooksFrame
  <1>5. CASE expire_chunk_remove
    <2>1. UNCHANGED <<scan, flushed, mem, count>>
      BY <1>5 DEF expire_chunk_remove, list
    <2>2. files' = files \/ \E s : files' = [files EXCEPT ![s] = 0]
      BY <1>5 DEF expire_chunk_remove
    <2>3. FilesKept
      <3>1. DOMAIN files = Starts /\ \A n \in DOMAIN flushed : flushed[n].start_ts \in Starts
        BY BaseFacts
      <3>2. \A s \in Starts : files'[s] = files[s] \/ files'[s] = 0
        BY <2>2, <3>1
      <3> QED
        BY <1>0, <2>1, <3>1, <3>2 DEF FilesKept, There
    <2>4. SlotsKept
      BY <1>0, <2>1 DEF SlotsKept
    <2> QED
      BY <1>0, <2>1, <2>3, <2>4, ScanKept
  <1>6. CASE expire_chunk_move \/ expire_chunk_load \/ expire_chunk_store
    BY <1>6, ScanShifted DEF expire_chunk_move, expire_chunk_load, expire_chunk_store, history
  <1>7. CASE \E b \in Bounds : headflush_write(b)
    <2>1. PICK b \in Bounds : headflush_write(b)
      BY <1>7
    <2>2. /\ \A n \in DOMAIN flushed : n \in DOMAIN flushed' /\ flushed'[n] = flushed[n]
                                       /\ n <= Len(flushed)
          /\ Len(flushed') = Len(flushed) + 1
          /\ files' = [files EXCEPT ![b[1]] = Len(flushed) + 1]
          /\ UNCHANGED <<mem, count, scan>>
      BY <2>1, NewChunk
    <2>3. FilesKept
      <3>1. \A n \in DOMAIN flushed : There(n)' => There(n)
        <4> SUFFICES ASSUME NEW n \in DOMAIN flushed, n # 0, files'[flushed[n].start_ts] = n
                     PROVE  files[flushed[n].start_ts] = n
          BY <2>2 DEF There
        <4>1. DOMAIN files = Starts /\ flushed[n].start_ts \in Starts
          BY BaseFacts
        <4>2. n # Len(flushed) + 1
          BY <1>0, <2>2
        <4> QED
          BY <2>2, <4>1, <4>2
      <3>2. Len(flushed') >= Len(flushed)
        BY <1>0, <2>2
      <3> QED
        BY <2>2, <3>1, <3>2 DEF FilesKept
    <2>4. SlotsKept
      BY <1>0, <2>2 DEF SlotsKept
    <2> QED
      BY <1>0, <2>2, <2>3, <2>4, ScanKept
  <1>8. CASE headflush_grow \/ headflush_realloc \/ headflush_load
    BY <1>1, <1>8 DEF headflush_grow, headflush_realloc, headflush_load, list, history
  <1>9. CASE headflush_publish
    <2>1. UNCHANGED <<scan, files, flushed, count>> /\ \A k \in DOMAIN mem : mem'[k] = mem[k]
      BY <1>9, PublishFacts DEF headflush_publish, history
    <2>2. SlotsKept
      BY <1>0, <2>1 DEF SlotsKept
    <2> QED
      BY <1>0, <2>1, <2>2, SameFiles, ScanKept
  <1>10. CASE StoresField
    <2>1. /\ UNCHANGED <<scan, files, flushed, count>> /\ fl'.k \in {fl.k, count}
          /\ fl.pc \in {"start_ts", "end_ts", "filename"}
          /\ \A j \in DOMAIN mem : j # fl'.k => mem'[j] = mem[j]
      BY <1>10, FieldFacts
    <2>2. count <= fl.k /\ fl.k \in Nat
      BY <2>1, BaseFacts DEF BaseInv, RoomInv, Appending
    <2>3. \A k \in 0 .. count - 1 : k # fl'.k
      BY <1>0, <2>1, <2>2
    <2>4. SlotsKept
      BY <1>0, <2>1, <2>3 DEF SlotsKept
    <2> QED
      BY <1>0, <2>1, <2>4, SameFiles, ScanKept
  <1>11. CASE headflush_store
    <2>1. UNCHANGED <<scan, files, flushed, mem>> /\ count' = fl.c + 1 /\ count <= fl.c
          /\ fl.c \in Nat
      BY <1>11, BaseFacts DEF headflush_store, BaseInv, RoomInv, history
    <2>2. SlotsKept
      BY <1>0, <2>1 DEF SlotsKept
    <2> QED
      BY <1>0, <2>1, <2>2, SameFiles, ScanKept
  <1>12. CASE Queries
    BY <1>12, ScanBegins, ScanNext, ScanOpens, ScanEnds DEF Queries
  <1> QED
    BY <1>2, <1>3, <1>4, <1>5, <1>6, <1>7, <1>8, <1>9, <1>10, <1>11, <1>12, RetentionSteps
       DEF Steps

\* A query that walks the list without a lock finds every chunk that was listed
\* when it began and whose file is still there, while flushes append to the list
\* and move it, unless a deletion shifted the list or the query met freed memory.
THEOREM ScanCompleteSafe == RetentionSpec => []ScanComplete
  <1>1. RetentionInit => ScanInv
    <2>1. << >> \in Seq(0 .. MaxChunks) /\ Unset \in Slot
      BY RetentionAssumption DEF Unset, Slot, RetentionAssumption
    <2>2. NoScan \in ScanType
      BY <2>1 DEF NoScan, ScanType
    <2> QED
      BY <2>2 DEF RetentionInit, ScanInv, ScanComplete, NoScan
  <1>2. BaseInv /\ ExactInv /\ (BaseInv /\ ExactInv)' /\ ScanInv /\ [RetentionNext]_vars
        => ScanInv'
    BY ScanStep, RetentionAssumption
  <1>3. ScanInv => ScanComplete
    BY DEF ScanInv
  <1> QED
    BY <1>1, <1>2, <1>3, BaseSafe, PTL DEF RetentionSpec
=============================================================================
