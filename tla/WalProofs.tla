------------------------------ MODULE WalProofs ------------------------------
(***************************************************************************)
(* Theorems about WalFile, for every number of PUTs and crashes, every set *)
(* of timestamps and doubles and every capacity of the head block: a       *)
(* replay brings back every record in front of half a record, and no point *)
(* that nobody sent until a record is appended behind half a record.       *)
(***************************************************************************)
EXTENDS WalFile, SequenceTheorems, TLAPS

USE WalFileAssumption

-----------------------------------------------------------------------------
(***************************************************************************)
(* The inductive invariant.                                                *)
(***************************************************************************)

SentPoint == [ts : Timestamps, val : Doubles]
WordPair == [ts : Int, val : Int]

WalTypeOK ==
    /\ head.pts \in Seq(WordPair)
    /\ words \in Seq(Int)
    /\ records \in Seq([p : SentPoint, len : 0 .. 2])

\* A record was cut in half.
Half == \E k \in DOMAIN records : records[k].len = 1

Sent(p) == \E k \in DOMAIN records : records[k].p = p

\* Words 2j-1 and 2j of the file, read as a record.
Pair(j) == [ts |-> words[2 * j - 1], val |-> words[2 * j]]
IsPair(j) == j \in Nat \ {0} /\ 2 * j <= Len(words)

\* wal_replay reads at odd positions only.
Reading == \E q \in Nat : rpos = 2 * q + 1

\* A file of whole records has an even number of words.
Even == \E q \in Nat : Len(words) = 2 * q

\* As long as no record lies behind half a record, the file is cut into records
\* where wal_append cut it.
WalInv ==
    /\ WalTypeOK
    /\ Reading
    /\ ~ Misaligned =>
         /\ ~ Half => Even
         /\ \A j \in Nat : IsPair(j) => Sent(Pair(j))
         /\ \A k \in DOMAIN head.pts : Sent(head.pts[k])

-----------------------------------------------------------------------------
\* A new record: what was sent stays sent, a half record stays one, and words
\* behind a half record misalign the file.
LEMMA RecordsGrow ==
  ASSUME WalTypeOK, NEW p \in SentPoint, NEW len \in 0 .. 2,
         records' = Append(records, [p |-> p, len |-> len])
  PROVE  /\ records' \in Seq([p : SentPoint, len : 0 .. 2])
         /\ \A x : Sent(x) => Sent(x)'
         /\ Sent(p)'
         /\ Half => Half'
         /\ len = 1 => Half'
         /\ Misaligned => Misaligned'
         /\ Half /\ len # 0 => Misaligned'
  <1> DEFINE n == Len(records)
             r == [p |-> p, len |-> len]
  <1>1. /\ n \in Nat /\ DOMAIN records = 1 .. n /\ DOMAIN records' = 1 .. n + 1
        /\ Len(records') = n + 1
        /\ records'[n + 1] = r
        /\ \A k \in 1 .. n : records'[k] = records[k]
        /\ records' \in Seq([p : SentPoint, len : 0 .. 2])
    BY DEF WalTypeOK
  <1>2. r.p = p /\ r.len = len
    OBVIOUS
  <1> HIDE DEF n, r
  <1>3. n + 1 \in 1 .. n + 1 /\ \A k \in 1 .. n : k \in 1 .. n + 1
    BY <1>1
  <1>4. ASSUME NEW x, Sent(x)
        PROVE  Sent(x)'
    <2>1. PICK k \in 1 .. n : records[k].p = x
      BY <1>1, <1>4 DEF Sent
    <2>2. k \in DOMAIN records' /\ records'[k].p = x
      BY <1>1, <1>3, <2>1
    <2> QED
      BY <2>2 DEF Sent
  <1>5. Sent(p)'
    BY <1>1, <1>2, <1>3 DEF Sent
  <1>6. (Half => Half') /\ (len = 1 => Half')
    BY <1>1, <1>2, <1>3 DEF Half
  <1>7. Misaligned => Misaligned'
    <2> SUFFICES ASSUME Misaligned PROVE Misaligned'
      OBVIOUS
    <2>1. PICK k \in 1 .. n : records[k].len = 1 /\ \E j \in k + 1 .. n : records[j].len > 0
      BY <1>1 DEF Misaligned, n
    <2>2. PICK j \in k + 1 .. n : records[j].len > 0
      BY <2>1
    <2>3. k \in 1 .. n + 1 /\ j \in k + 1 .. n + 1 /\ j \in 1 .. n
      BY <1>1
    <2>4. records'[k].len = 1 /\ records'[j].len > 0
      BY <1>1, <2>1, <2>2, <2>3
    <2> QED
      BY <1>1, <2>3, <2>4 DEF Misaligned
  <1>8. Half /\ len # 0 => Misaligned'
    <2> SUFFICES ASSUME Half, len # 0 PROVE Misaligned'
      OBVIOUS
    <2>1. PICK k \in 1 .. n : records[k].len = 1
      BY <1>1 DEF Half
    <2>2. k \in 1 .. n + 1 /\ n + 1 \in k + 1 .. n + 1
      BY <1>1
    <2>3. records'[k].len = 1 /\ records'[n + 1].len > 0
      BY <1>1, <1>2, <2>1
    <2> QED
      BY <1>1, <2>2, <2>3 DEF Misaligned
  <1> QED
    BY <1>1, <1>4, <1>5, <1>6, <1>7, <1>8

\* The words that a record adds.
LEMMA WordsGrow ==
  ASSUME WalTypeOK, NEW p \in SentPoint, NEW len \in 0 .. 2, words' = Written(p, len)
  PROVE  /\ words' \in Seq(Int) /\ Len(words') = Len(words) + len
         /\ \A k \in 1 .. Len(words) : words'[k] = words[k]
         /\ len = 2 => /\ words'[Len(words) + 1] = p.ts
                       /\ words'[Len(words) + 2] = p.val
  <1>1. p.ts \in Int /\ p.val \in Int
    <2>1. p.ts \in Timestamps /\ p.val \in Doubles
      BY DEF SentPoint
    <2>2. Timestamps \subseteq Int /\ Doubles \subseteq Int
      OBVIOUS
    <2> QED
      BY <2>1, <2>2
  <1>2. words \in Seq(Int) /\ Len(words) \in Nat
    BY DEF WalTypeOK
  <1> DEFINE t == <<p.ts, p.val>>
             s == SubSeq(t, 1, len)
  <1>3. t[1] = p.ts /\ t[2] = p.val /\ \A k \in 1 .. len : t[k] \in Int
    BY <1>1
  <1>4. words' = words \o s
    BY DEF Written
  <1> HIDE DEF t
  <1>5. /\ s \in Seq(Int)
        /\ Len(s) = IF 1 <= len THEN len - 1 + 1 ELSE 0
        /\ \A k \in 1 .. len - 1 + 1 : s[k] = t[1 + k - 1]
    <2>1. 1 \in Int /\ len \in Int
      OBVIOUS
    <2> QED
      BY <1>3, <2>1, SubSeqProperties
  <1> HIDE DEF s
  <1>6. Len(s) = len /\ (len = 2 => s[1] = p.ts /\ s[2] = p.val)
    <2>1. ASSUME len = 2 PROVE s[1] = t[1] /\ s[2] = t[2]
      <3>1. 1 \in 1 .. len - 1 + 1 /\ 2 \in 1 .. len - 1 + 1 /\ 1 + 1 - 1 = 1 /\ 1 + 2 - 1 = 2
        BY <2>1
      <3> QED
        BY <1>5, <3>1
    <2> QED
      BY <1>3, <1>5, <2>1
  <1>7. /\ words' \in Seq(Int) /\ Len(words') = Len(words) + len
        /\ \A k \in 1 .. Len(words) : words'[k] = words[k]
    BY <1>2, <1>4, <1>5, <1>6
  <1>8. ASSUME len = 2
        PROVE  words'[Len(words) + 1] = p.ts /\ words'[Len(words) + 2] = p.val
    <2>1. \A k \in 1 .. Len(words) + Len(s) :
            words'[k] = IF k <= Len(words) THEN words[k] ELSE s[k - Len(words)]
      BY <1>2, <1>4, <1>5, ConcatProperties
    <2> DEFINE n == Len(words)
    <2>2. n \in Nat /\ Len(s) = 2
      BY <1>2, <1>6, <1>8
    <2> HIDE DEF n
    <2>3. /\ n + 1 \in 1 .. n + Len(s) /\ n + 2 \in 1 .. n + Len(s)
          /\ ~ (n + 1 <= n) /\ ~ (n + 2 <= n) /\ n + 1 - n = 1 /\ n + 2 - n = 2
      BY <2>2
    <2>4. words'[n + 1] = s[1] /\ words'[n + 2] = s[2]
      BY <2>1, <2>3 DEF n
    <2> QED
      BY <1>6, <1>8, <2>4 DEF n
  <1> QED
    BY <1>7, <1>8

\* wal_append keeps the file cut where it cut it.
LEMMA AppendWal ==
  ASSUME WalInv, NEW ts \in Timestamps, NEW val \in Doubles, NEW len \in 0 .. 2,
         wal_append([ts |-> ts, val |-> val], len)
  PROVE  WalInv'
  <1> DEFINE p == [ts |-> ts, val |-> val]
  <1>1. p \in SentPoint /\ p \in WordPair /\ p.ts = ts /\ p.val = val
    BY DEF SentPoint, WordPair
  <1> HIDE DEF p
  <1>2. WalTypeOK /\ Reading /\ Reading'
    BY DEF WalInv, wal_append, Reading
  <1>3. CASE ~ PUT_accepts(head, p)
    <2>1. UNCHANGED <<head, words, records>>
      BY <1>3 DEF wal_append, p
    <2> QED
      BY <1>2, <2>1 DEF WalInv, WalTypeOK, Half, Sent, Pair, IsPair, Even, Misaligned
  <1>4. CASE PUT_accepts(head, p)
    <2>1. /\ head' = PUT_value(head, p)
          /\ words' = Written(p, len)
          /\ records' = Append(records, [p |-> p, len |-> len])
      BY <1>4 DEF wal_append, p
    <2>2. /\ records' \in Seq([p : SentPoint, len : 0 .. 2])
          /\ \A x : Sent(x) => Sent(x)'
          /\ Sent(p)'
          /\ Half => Half'
          /\ len = 1 => Half'
          /\ Misaligned => Misaligned'
          /\ Half /\ len # 0 => Misaligned'
      BY <1>1, <1>2, <2>1, RecordsGrow
    <2>3. /\ words' \in Seq(Int) /\ Len(words') = Len(words) + len
          /\ \A k \in 1 .. Len(words) : words'[k] = words[k]
          /\ len = 2 => /\ words'[Len(words) + 1] = ts
                        /\ words'[Len(words) + 2] = val
      BY <1>1, <1>2, <2>1, WordsGrow
    <2>4. head.pts \in Seq(WordPair) /\ head'.pts = Append(head.pts, p)
      BY <1>2, <2>1 DEF WalTypeOK, PUT_value
    <2>5. /\ head'.pts \in Seq(WordPair) /\ Len(head'.pts) = Len(head.pts) + 1
          /\ head'.pts[Len(head.pts) + 1] = p
          /\ \A k \in 1 .. Len(head.pts) : head'.pts[k] = head.pts[k]
      BY <1>1, <2>4
    <2>6. WalTypeOK'
      BY <2>2, <2>3, <2>5 DEF WalTypeOK
    <2>7. ASSUME ~ Misaligned'
          PROVE  /\ ~ Half' => Even'
                 /\ \A j \in Nat : IsPair(j)' => Sent(Pair(j))'
                 /\ \A k \in DOMAIN head'.pts : Sent(head.pts[k])'
      <3>1. ~ Misaligned
        BY <2>2, <2>7
      <3>2. /\ ~ Half => Even
            /\ \A j \in Nat : IsPair(j) => Sent(Pair(j))
            /\ \A k \in DOMAIN head.pts : Sent(head.pts[k])
        BY <3>1 DEF WalInv
      <3>3. words \in Seq(Int) /\ Len(words) \in Nat
        BY <1>2 DEF WalTypeOK
      <3>4. ~ Half' => Even'
        <4> SUFFICES ASSUME ~ Half' PROVE Even'
          OBVIOUS
        <4>1. ~ Half /\ len \in {0, 2}
          BY <2>2
        <4>2. PICK q \in Nat : Len(words) = 2 * q
          BY <3>2, <4>1 DEF Even
        <4>3. CASE len = 0
          BY <2>3, <4>2, <4>3, SMTT(40) DEF Even
        <4>4. CASE len = 2
          <5>1. q + 1 \in Nat /\ Len(words') = 2 * (q + 1)
            BY <2>3, <4>2, <4>4
          <5> QED
            BY <5>1 DEF Even
        <4> QED
          BY <4>1, <4>3, <4>4
      <3>5. \A j \in Nat : IsPair(j)' => Sent(Pair(j))'
        <4> SUFFICES ASSUME NEW j \in Nat, IsPair(j)' PROVE Sent(Pair(j))'
          OBVIOUS
        <4>0. j \in Nat \ {0} /\ 2 * j <= Len(words) + len
          BY <2>3 DEF IsPair
        <4>1. CASE 2 * j <= Len(words)
          <5>1. 2 * j - 1 \in 1 .. Len(words) /\ 2 * j \in 1 .. Len(words)
            BY <3>3, <4>0, <4>1
          <5>2. Pair(j)' = Pair(j)
            BY <2>3, <5>1 DEF Pair
          <5>3. Sent(Pair(j))
            BY <3>2, <4>0, <4>1 DEF IsPair
          <5>4. PICK k \in DOMAIN records' : records'[k].p = Pair(j)
            BY <2>2, <5>3 DEF Sent
          <5> QED
            BY <5>2, <5>4 DEF Sent
        <4>2. CASE 2 * j > Len(words)
          <5>1. len # 0
            BY <3>3, <4>0, <4>2
          <5>2. PICK q \in Nat : Len(words) = 2 * q
            BY <2>2, <2>7, <3>2, <5>1 DEF Even
          <5>3. len = 2 /\ 2 * j = Len(words) + 2 /\ 2 * j - 1 = Len(words) + 1
            BY <3>3, <4>0, <4>2, <5>1, <5>2
          <5>4. Pair(j)' = p
            BY <2>3, <5>3 DEF Pair, p
          <5>5. PICK k \in DOMAIN records' : records'[k].p = p
            BY <2>2 DEF Sent
          <5> QED
            BY <5>4, <5>5 DEF Sent
        <4> QED
          BY <3>3, <4>0, <4>1, <4>2
      <3>6. \A k \in DOMAIN head'.pts : Sent(head.pts[k])'
        <4> SUFFICES ASSUME NEW k \in DOMAIN head'.pts PROVE Sent(head.pts[k])'
          OBVIOUS
        <4>1. k \in 1 .. Len(head.pts) \/ k = Len(head.pts) + 1
          BY <2>4, <2>5
        <4>2. CASE k = Len(head.pts) + 1
          BY <2>2, <2>5, <4>2 DEF Sent
        <4>3. CASE k \in 1 .. Len(head.pts)
          <5>1. Sent(head.pts[k]) /\ head'.pts[k] = head.pts[k]
            BY <2>4, <2>5, <3>2, <4>3
          <5>2. PICK j \in DOMAIN records' : records'[j].p = head.pts[k]
            BY <2>2, <5>1 DEF Sent
          <5> QED
            BY <5>1, <5>2 DEF Sent
        <4> QED
          BY <4>1, <4>2, <4>3
      <3> QED
        BY <3>4, <3>5, <3>6
    <2> QED
      BY <1>2, <2>6, <2>7 DEF WalInv
  <1> QED
    BY <1>3, <1>4

\* wal_replay takes only whole records, from where they begin.
LEMMA ReplayWal ==
  ASSUME WalInv, wal_replay
  PROVE  WalInv'
  <1>1. WalTypeOK /\ Reading /\ UNCHANGED <<words, records>>
    BY DEF WalInv, wal_replay
  <1>2. CASE ~ Readable
    <2>1. head' = head /\ rpos' = 2 * 0 + 1
      BY <1>2 DEF wal_replay
    <2>2. Reading'
      BY <2>1 DEF Reading
    <2> QED
      BY <1>1, <2>1, <2>2 DEF WalInv, WalTypeOK, Half, Sent, Pair, IsPair, Even, Misaligned
  <1>3. CASE Readable
    <2>1. PICK q \in Nat : rpos = 2 * q + 1
      BY <1>1 DEF Reading
    <2>2. /\ rpos' = 2 * (q + 1) + 1 /\ q + 1 \in Nat
          /\ IsPair(q + 1) /\ Record = Pair(q + 1) /\ Record \in WordPair
      <3>1. words \in Seq(Int) /\ rpos + 1 <= Len(words)
        BY <1>1, <1>3 DEF WalTypeOK, Readable
      <3>2. /\ 2 * (q + 1) - 1 = rpos /\ 2 * (q + 1) = rpos + 1
            /\ rpos \in 1 .. Len(words) /\ rpos + 1 \in 1 .. Len(words)
        BY <2>1, <3>1
      <3>3. words[rpos] \in Int /\ words[rpos + 1] \in Int
        BY <3>1, <3>2, ElementOfSeq
      <3>4. Record = [ts |-> words[rpos], val |-> words[rpos + 1]]
        BY <3>1 DEF Record
      <3>5. rpos' = rpos + 2
        BY <1>3 DEF wal_replay
      <3> QED
        BY <2>1, <3>1, <3>2, <3>3, <3>4, <3>5 DEF IsPair, Pair, WordPair
    <2>3. Reading'
      BY <2>2 DEF Reading
    <2>4. head' = head \/ head' = PUT_value(head, Record)
      BY <1>3 DEF wal_replay
    <2>5. CASE head' = head
      BY <1>1, <2>3, <2>5 DEF WalInv, WalTypeOK, Half, Sent, Pair, IsPair, Even, Misaligned
    <2>6. CASE head' = PUT_value(head, Record)
      <3>1. head.pts \in Seq(WordPair) /\ head'.pts = Append(head.pts, Pair(q + 1))
        BY <1>1, <2>2, <2>6 DEF WalTypeOK, PUT_value
      <3>2. /\ head'.pts \in Seq(WordPair) /\ Len(head'.pts) = Len(head.pts) + 1
            /\ head'.pts[Len(head.pts) + 1] = Pair(q + 1)
            /\ \A k \in 1 .. Len(head.pts) : head'.pts[k] = head.pts[k]
        BY <2>2, <3>1
      <3>3. WalTypeOK'
        BY <1>1, <3>2 DEF WalTypeOK
      <3>4. /\ Misaligned' <=> Misaligned
            /\ Half' <=> Half
            /\ Even' <=> Even
            /\ \A x : Sent(x)' <=> Sent(x)
        BY <1>1 DEF Half, Sent, Pair, IsPair, Even, Misaligned
      <3>5. ASSUME ~ Misaligned, NEW k \in DOMAIN head'.pts
            PROVE  Sent(head.pts[k])'
        <4>1. k \in 1 .. Len(head.pts) \/ k = Len(head.pts) + 1
          BY <3>1, <3>2
        <4>2. Sent(Pair(q + 1)) /\ \A i \in 1 .. Len(head.pts) : Sent(head.pts[i])
          BY <2>2, <3>1, <3>5 DEF WalInv
        <4>3. Sent(head'.pts[k])
          BY <3>2, <4>1, <4>2
        <4> QED
          BY <1>1, <4>3 DEF Sent
      <3>6. ASSUME ~ Misaligned
            PROVE  \A j \in Nat : IsPair(j)' => Sent(Pair(j))'
        BY <1>1, <3>6 DEF WalInv, IsPair, Sent, Pair
      <3> QED
        BY <2>3, <3>3, <3>4, <3>5, <3>6 DEF WalInv
    <2> QED
      BY <2>4, <2>5, <2>6
  <1> QED
    BY <1>2, <1>3

\* A flush and a crash leave an empty block; a flush also an empty file.
LEMMA EmptyWal ==
  ASSUME WalInv,
         wal_truncate \/ (\E garbage \in Garbage : WalCrash(garbage)) \/ Restart \/ UNCHANGED walVars
  PROVE  WalInv'
  <1>1. CASE wal_truncate
    <2>1. /\ head'.pts = << >> /\ words' = << >> /\ records' = << >> /\ rpos' = rpos
      BY <1>1 DEF wal_truncate
    <2>2. WalTypeOK' /\ Reading'
      <3>1. \A S : << >> \in Seq(S)
        OBVIOUS
      <3> QED
        BY <2>1, <3>1, Zenon DEF WalInv, WalTypeOK, Reading
    <2>3. Even'
      BY <2>1 DEF Even
    <2>4. \A j \in Nat : ~ IsPair(j)'
      BY <2>1 DEF IsPair
    <2>5. DOMAIN head'.pts = {}
      BY <2>1
    <2> QED
      BY <2>2, <2>3, <2>4, <2>5 DEF WalInv
  <1>2. CASE \E garbage \in Garbage : WalCrash(garbage)
    <2>1. /\ head'.pts = << >> /\ UNCHANGED <<words, records>> /\ rpos' = 2 * 0 + 1
      BY <1>2 DEF WalCrash, getNewHeadBlock
    <2>2. Reading'
      BY <2>1 DEF Reading
    <2>3. DOMAIN head'.pts = {} /\ head'.pts \in Seq(WordPair)
      BY <2>1
    <2> QED
      BY <2>1, <2>2, <2>3
      DEF WalInv, WalTypeOK, Half, Sent, Pair, IsPair, Even, Misaligned
  <1>3. CASE Restart \/ UNCHANGED walVars
    <2>1. UNCHANGED <<head, words, records, rpos>>
      BY <1>3 DEF Restart, walVars
    <2> QED
      BY <2>1
      DEF WalInv, WalTypeOK, Reading, Half, Sent, Pair, IsPair, Even, Misaligned
  <1> QED
    BY <1>1, <1>2, <1>3

LEMMA InitWal ==
  ASSUME WalInit
  PROVE  WalInv
  <1>1. head.pts = << >> /\ words = << >> /\ records = << >> /\ rpos = 2 * 0 + 1
    BY DEF WalInit, getNewHeadBlock
  <1>2. WalTypeOK /\ Reading /\ DOMAIN head.pts = {}
    BY <1>1 DEF WalTypeOK, Reading
  <1>3. Even /\ \A j \in Nat : ~ IsPair(j)
    <2>1. Len(words) = 0 /\ 0 \in Nat /\ 0 = 2 * 0
      BY <1>1
    <2>2. Even
      BY <2>1 DEF Even
    <2>3. \A j \in Nat : ~ IsPair(j)
      BY <2>1 DEF IsPair
    <2> QED
      BY <2>2, <2>3
  <1> QED
    BY <1>2, <1>3 DEF WalInv

\* A replay puts only points into the head block that some client has sent since
\* the log was removed, however often the server crashes and restarts and
\* wherever the disk cuts a record short, until wal_append writes behind half a
\* record.
THEOREM NoPhantomSafe == WalSpec => []NoPhantom
  <1>1. WalInit => WalInv
    BY InitWal
  <1>2. WalInv /\ [WalNext]_walVars => WalInv'
    BY AppendWal, ReplayWal, EmptyWal DEF WalNext, Waiting
  <1>3. WalInv => NoPhantom
    BY DEF WalInv, NoPhantom, Sent
  <1> QED
    BY <1>1, <1>2, <1>3, PTL DEF WalSpec

-----------------------------------------------------------------------------
(***************************************************************************)
(* What stands in front of half a record comes back.                       *)
(***************************************************************************)

IntactPoint(p) == \E k \in Intact : records[k].p = p

\* Clients send increasing timestamps.
RecordsInv ==
    /\ sent \in Seq(Timestamps)
    /\ \A k \in DOMAIN records : \E i \in DOMAIN sent : sent[i] = records[k].p.ts
    /\ \A k, l \in DOMAIN records : k < l => records[k].p.ts < records[l].p.ts

\* The file begins with the m intact records, in their order.
PrefixInv(m) ==
    /\ m <= Len(records) /\ 2 * m <= Len(words) /\ (~ Half => Len(words) = 2 * m)
    /\ \A j \in 1 .. m : IntactPoint(Pair(j))
    /\ \A k \in Intact : \E j \in 1 .. m : j <= k /\ Pair(j) = records[k].p
    /\ \A i, j \in 1 .. m : i < j => Pair(i).ts < Pair(j).ts

\* The block is sorted, and no other point has the timestamp of an intact one.
SortedInv ==
    /\ head.pts # << >> => head.last = head.pts[Len(head.pts)].ts
    /\ \A i, j \in DOMAIN head.pts : i < j =>
         /\ head.pts[i].ts <= head.pts[j].ts
         /\ IntactPoint(head.pts[i]) \/ IntactPoint(head.pts[j])
              => head.pts[i].ts # head.pts[j].ts

Found(j) == \E i \in DOMAIN head.pts : head.pts[i] = Pair(j)

\* wal_replay takes the j-th intact record.
Wanted(j) == j <= HEAD_CAPACITY /\ Pair(j).ts > unset

\* An intact record that replay takes is in the block, or ahead of a replay whose
\* block has no more points than it has read records, all older than what is ahead.
FoundInv(m) ==
    /\ unset \in Int
    /\ proc = "up" => rpos = 1
    /\ \A j \in 1 .. m : (proc = "up" \/ 2 * j < rpos) /\ Wanted(j) => Found(j)
    /\ proc # "up" /\ rpos <= 2 * m + 1 =>
         /\ 2 * Len(head.pts) + 1 <= rpos
         /\ head.pts = << >> => head.last = unset
         /\ \A i \in DOMAIN head.pts, j \in 1 .. m : rpos < 2 * j => head.pts[i].ts < Pair(j).ts

ReplayInv ==
    /\ WalInv /\ RecordsInv /\ SortedInv
    /\ \E m \in Nat : PrefixInv(m) /\ FoundInv(m)

LEMMA RecordType ==
  ASSUME WalTypeOK, NEW k \in DOMAIN records
  PROVE  records[k].p \in SentPoint /\ records[k].p.ts \in Nat \ {0} /\ records[k].p.ts \in Int
  <1>1. records \in Seq([p : SentPoint, len : 0 .. 2]) /\ k \in 1 .. Len(records)
    BY DEF WalTypeOK
  <1>2. records[k] \in [p : SentPoint, len : 0 .. 2]
    BY <1>1, ElementOfSeq
  <1>3. records[k].p \in SentPoint
    BY <1>2
  <1>4. records[k].p.ts \in Timestamps
    BY <1>3 DEF SentPoint
  <1>5. \A t \in Timestamps : t \in Nat \ {0} /\ t \in Int
    OBVIOUS
  <1> QED
    BY <1>3, <1>4, <1>5, Zenon

\* A new record is intact if it is whole and no half record lies in front of it.
LEMMA IntactGrow ==
  ASSUME WalTypeOK, NEW p \in SentPoint, NEW len \in 0 .. 2,
         records' = Append(records, [p |-> p, len |-> len])
  PROVE  /\ \A x : IntactPoint(x)' <=> IntactPoint(x) \/ (~ Half /\ len = 2 /\ x = p)
         /\ \A k \in Intact' : \/ k \in Intact /\ records'[k] = records[k]
                               \/ k = Len(records) + 1 /\ ~ Half /\ len = 2 /\ records'[k].p = p
  <1> DEFINE r == [p |-> p, len |-> len]
  <1>0. PICK n \in Nat : n = Len(records)
    BY DEF WalTypeOK
  <1>1. /\ n \in Nat /\ DOMAIN records = 1 .. n /\ DOMAIN records' = 1 .. n + 1
        /\ records'[n + 1] = r
        /\ \A k \in 1 .. n : records'[k] = records[k]
    BY <1>0 DEF WalTypeOK
  <1>2. r.p = p /\ r.len = len
    OBVIOUS
  <1> HIDE DEF r
  <1>3. \A k \in 1 .. n : Aligned(k)' <=> Aligned(k)
    <2> SUFFICES ASSUME NEW k \in 1 .. n PROVE Aligned(k)' <=> Aligned(k)
      OBVIOUS
    <2>1. \A j \in 1 .. k : j \in 1 .. n
      BY <1>1
    <2> QED
      BY <1>1, <2>1 DEF Aligned
  <1>4. Aligned(n + 1)' <=> ~ Half /\ len # 1
    <2>1. \A j \in 1 .. n + 1 : j \in 1 .. n \/ j = n + 1
      BY <1>1
    <2>2. n + 1 \in 1 .. n + 1 /\ \A j \in 1 .. n : j \in 1 .. n + 1
      BY <1>1
    <2> QED
      BY <1>1, <1>2, <2>1, <2>2 DEF Aligned, Half
  <1>5. \A k \in 1 .. n + 1 : k \in 1 .. n \/ k = n + 1
    BY <1>1
  <1>6. n + 1 \in 1 .. n + 1 /\ \A k \in 1 .. n : k \in 1 .. n + 1
    BY <1>1
  <1>7. \A k \in 1 .. n : k \in Intact' <=> k \in Intact
    BY <1>1, <1>3, <1>6 DEF Intact
  <1>8. n + 1 \in Intact' <=> ~ Half /\ len = 2
    BY <1>1, <1>2, <1>4, <1>6 DEF Intact
  <1>9. Intact \subseteq 1 .. n /\ Intact' \subseteq 1 .. n + 1
    BY <1>1 DEF Intact
  <1>13. \A k \in Intact' : \/ k \in Intact /\ records'[k] = records[k]
                            \/ k = n + 1 /\ ~ Half /\ len = 2 /\ records'[k].p = p
    <2> SUFFICES ASSUME NEW k \in Intact'
                 PROVE  \/ k \in Intact /\ records'[k] = records[k]
                        \/ k = n + 1 /\ ~ Half /\ len = 2 /\ records'[k].p = p
      OBVIOUS
    <2>1. k \in 1 .. n \/ k = n + 1
      BY <1>5, <1>9
    <2> QED
      BY <1>1, <1>2, <1>7, <1>8, <2>1
  <1> SUFFICES ASSUME NEW x
               PROVE  IntactPoint(x)' <=> IntactPoint(x) \/ (~ Half /\ len = 2 /\ x = p)
    BY <1>0, <1>13
  <1>10. ASSUME IntactPoint(x)' PROVE IntactPoint(x) \/ (~ Half /\ len = 2 /\ x = p)
    <2>1. PICK k \in Intact' : records'[k].p = x
      BY <1>10 DEF IntactPoint
    <2> QED
      BY <1>1, <1>2, <1>5, <1>7, <1>8, <1>9, <2>1 DEF IntactPoint
  <1>11. ASSUME IntactPoint(x) PROVE IntactPoint(x)'
    BY <1>1, <1>7, <1>9, <1>11 DEF IntactPoint
  <1>12. ASSUME ~ Half, len = 2, x = p PROVE IntactPoint(x)'
    BY <1>1, <1>2, <1>8, <1>12 DEF IntactPoint
  <1> QED
    BY <1>10, <1>11, <1>12

LEMMA PrefixFrame ==
  ASSUME UNCHANGED <<words, records>>
  PROVE  /\ \A m : PrefixInv(m) <=> PrefixInv(m)'
         /\ \A j : Pair(j)' = Pair(j)
         /\ \A x : IntactPoint(x)' <=> IntactPoint(x)
  <1>1. /\ \A j : Pair(j)' = Pair(j)
        /\ \A x : IntactPoint(x)' <=> IntactPoint(x)
        /\ Intact' = Intact
    BY DEF Pair, IntactPoint, Intact, Aligned
  <1> QED
    BY <1>1 DEF PrefixInv, Half

\* Every timestamp on record was sent, and stays so.
LEMMA SentGrow ==
  ASSUME RecordsInv, NEW ts \in Timestamps, sent' = Append(sent, ts)
  PROVE  /\ sent' \in Seq(Timestamps)
         /\ \E i \in DOMAIN sent' : sent'[i] = ts
         /\ \A k \in DOMAIN records : \E i \in DOMAIN sent' : sent'[i] = records[k].p.ts
  <1> DEFINE n == Len(sent)
  <1>1. /\ n \in Nat /\ DOMAIN sent = 1 .. n /\ DOMAIN sent' = 1 .. n + 1
        /\ sent' \in Seq(Timestamps) /\ sent'[n + 1] = ts
        /\ \A i \in 1 .. n : sent'[i] = sent[i]
    BY DEF RecordsInv
  <1> HIDE DEF n
  <1>2. n + 1 \in 1 .. n + 1 /\ \A i \in 1 .. n : i \in 1 .. n + 1
    BY <1>1
  <1>3. ASSUME NEW k \in DOMAIN records
        PROVE  \E i \in DOMAIN sent' : sent'[i] = records[k].p.ts
    <2>1. PICK i \in 1 .. n : sent[i] = records[k].p.ts
      BY <1>1, <1>3 DEF RecordsInv
    <2> QED
      BY <1>1, <1>2, <2>1
  <1> QED
    BY <1>1, <1>2, <1>3

\* A record that wal_append adds is younger than all before it.
LEMMA AppendRecords ==
  ASSUME WalTypeOK, RecordsInv, NEW p \in SentPoint, NEW len \in 0 .. 2,
         \A i \in DOMAIN sent : sent[i] < p.ts,
         sent' = Append(sent, p.ts), records' = Append(records, [p |-> p, len |-> len])
  PROVE  RecordsInv' /\ \A k \in DOMAIN records : records[k].p.ts < p.ts
  <1> DEFINE r == [p |-> p, len |-> len]
  <1>1. PICK n \in Nat : n = Len(records)
    BY DEF WalTypeOK
  <1>2. /\ DOMAIN records = 1 .. n /\ DOMAIN records' = 1 .. n + 1
        /\ records'[n + 1] = r
        /\ \A k \in 1 .. n : records'[k] = records[k]
    BY <1>1 DEF WalTypeOK
  <1>3. r.p = p
    OBVIOUS
  <1> HIDE DEF r
  <1>4. p.ts \in Timestamps
    BY DEF SentPoint
  <1>5. /\ sent' \in Seq(Timestamps)
        /\ \E i \in DOMAIN sent' : sent'[i] = p.ts
        /\ \A k \in DOMAIN records : \E i \in DOMAIN sent' : sent'[i] = records[k].p.ts
    BY <1>4, SentGrow
  <1>6. \A k \in DOMAIN records : records[k].p.ts < p.ts
    <2> SUFFICES ASSUME NEW k \in DOMAIN records PROVE records[k].p.ts < p.ts
      OBVIOUS
    <2>1. PICK i \in DOMAIN sent : sent[i] = records[k].p.ts
      BY DEF RecordsInv
    <2>2. sent[i] < p.ts
      OBVIOUS
    <2> QED
      BY <2>1, <2>2
  <1>7. \A k \in 1 .. n + 1 : k \in 1 .. n \/ k = n + 1
    OBVIOUS
  <1>8. \A k \in DOMAIN records' : \E i \in DOMAIN sent' : sent'[i] = records'[k].p.ts
    BY <1>2, <1>3, <1>5, <1>7, SMTT(40)
  <1>9. ASSUME NEW k \in 1 .. n + 1, NEW l \in 1 .. n + 1, k < l
        PROVE  records'[k].p.ts < records'[l].p.ts
    <2>1. k \in 1 .. n
      BY <1>9
    <2>2. CASE l = n + 1
      BY <1>2, <1>3, <1>6, <2>1, <2>2
    <2>3. CASE l \in 1 .. n
      BY <1>2, <1>9, <2>1, <2>3 DEF RecordsInv
    <2> QED
      BY <1>7, <2>2, <2>3
  <1> QED
    BY <1>2, <1>5, <1>6, <1>8, <1>9 DEF RecordsInv

\* A point that is not older than the last one goes to the end of the block; if it
\* or one before it is intact, it is younger.
LEMMA SortedGrow ==
  ASSUME WalTypeOK, SortedInv, NEW p \in WordPair, head' = PUT_value(head, p),
         head.pts # << >> => head.last <= p.ts,
         \A i \in DOMAIN head.pts : \/ head.pts[i].ts # p.ts
                                    \/ ~ IntactPoint(p)' /\ ~ IntactPoint(head.pts[i]),
         \A x : IntactPoint(x)' => IntactPoint(x) \/ x = p
  PROVE  SortedInv'
  <1>1. PICK n \in Nat : n = Len(head.pts)
    BY DEF WalTypeOK
  <1>2. /\ DOMAIN head.pts = 1 .. n /\ DOMAIN head'.pts = 1 .. n + 1 /\ Len(head'.pts) = n + 1
        /\ head'.pts[n + 1] = p /\ head'.last = p.ts
        /\ \A i \in 1 .. n : head'.pts[i] = head.pts[i] /\ head.pts[i] \in WordPair
    BY <1>1 DEF WalTypeOK, PUT_value
  <1>3. \A i \in 1 .. n + 1 : i \in 1 .. n \/ i = n + 1
    OBVIOUS
  <1>4. p.ts \in Int /\ \A i \in 1 .. n : head.pts[i].ts \in Int
    BY <1>2 DEF WordPair
  <1>5. \A i \in 1 .. n : head.pts[i].ts <= p.ts
    <2> SUFFICES ASSUME NEW i \in 1 .. n PROVE head.pts[i].ts <= p.ts
      OBVIOUS
    <2>1. n \in 1 .. n /\ head.pts # << >> /\ (i = n \/ i < n)
      BY <1>2
    <2>2. head.pts[n].ts <= p.ts
      BY <1>1, <2>1 DEF SortedInv
    <2>3. head.pts[i].ts <= head.pts[n].ts
      BY <1>2, <1>4, <2>1, SMTT(40) DEF SortedInv
    <2> QED
      BY <1>4, <2>1, <2>2, <2>3
  <1>7. /\ \A i \in 1 .. n : IntactPoint(head.pts[i])' => \/ IntactPoint(head.pts[i])
                                                          \/ head.pts[i] = p /\ IntactPoint(p)'
        /\ IntactPoint(head.pts[n + 1])' => IntactPoint(p)'
    <2>1. ASSUME NEW i \in 1 .. n, IntactPoint(head.pts[i])'
          PROVE  IntactPoint(head.pts[i]) \/ (head.pts[i] = p /\ IntactPoint(p)')
      <3>1. PICK x : x = head.pts[i]
        OBVIOUS
      <3>2. IntactPoint(x)'
        BY <1>2, <2>1, <3>1 DEF IntactPoint
      <3> QED
        BY <3>1, <3>2
    <2>2. IntactPoint(head.pts[n + 1])' => IntactPoint(p)'
      BY <1>2 DEF IntactPoint
    <2> QED
      BY <2>1, <2>2
  <1>6. ASSUME NEW i \in 1 .. n + 1, NEW j \in 1 .. n + 1, i < j
        PROVE  /\ head'.pts[i].ts <= head'.pts[j].ts
               /\ IntactPoint(head.pts[i])' \/ IntactPoint(head.pts[j])'
                    => head'.pts[i].ts # head'.pts[j].ts
    <2>0. i \in 1 .. n
      BY <1>6
    <2>1. CASE j = n + 1
      BY <1>2, <1>5, <1>7, <2>0, <2>1
    <2>2. CASE j \in 1 .. n
      <3>1. /\ head.pts[i].ts <= head.pts[j].ts
            /\ IntactPoint(head.pts[i]) \/ IntactPoint(head.pts[j])
                 => head.pts[i].ts # head.pts[j].ts
        BY <1>2, <1>6, <2>0, <2>2 DEF SortedInv
      <3> QED
        BY <1>2, <1>7, <2>0, <2>2, <3>1
    <2> QED
      BY <1>3, <2>1, <2>2
  <1> QED
    BY <1>2, <1>6 DEF SortedInv

\* wal_append adds to the intact records if the file ends with one.
LEMMA AppendPrefix ==
  ASSUME WalTypeOK, NEW m \in Nat, PrefixInv(m), FoundInv(m),
         NEW p \in SentPoint, NEW len \in 0 .. 2,
         \A k \in DOMAIN records : records[k].p.ts < p.ts,
         proc = "up", UNCHANGED <<proc, rpos, unset>>, head' = PUT_value(head, p),
         words' = Written(p, len), records' = Append(records, [p |-> p, len |-> len])
  PROVE  \E q \in Nat : PrefixInv(q)' /\ FoundInv(q)'
  <1>1. /\ words' \in Seq(Int) /\ Len(words') = Len(words) + len
        /\ \A k \in 1 .. Len(words) : words'[k] = words[k]
        /\ len = 2 => /\ words'[Len(words) + 1] = p.ts
                      /\ words'[Len(words) + 2] = p.val
    BY WordsGrow
  <1>2. /\ \A x : IntactPoint(x)' <=> IntactPoint(x) \/ (~ Half /\ len = 2 /\ x = p)
        /\ \A k \in Intact' : \/ k \in Intact /\ records'[k] = records[k]
                              \/ k = Len(records) + 1 /\ ~ Half /\ len = 2 /\ records'[k].p = p
    BY IntactGrow
  <1>3. (Half => Half') /\ (len = 1 => Half')
    BY RecordsGrow
  <1>4. PICK w \in Nat : w = Len(words)
    BY DEF WalTypeOK
  <1>5. PICK n \in Nat : n = Len(head.pts)
    BY DEF WalTypeOK
  <1>6. /\ DOMAIN head.pts = 1 .. n /\ DOMAIN head'.pts = 1 .. n + 1
        /\ head'.pts[n + 1] = p /\ \A i \in 1 .. n : head'.pts[i] = head.pts[i]
    <2>1. p \in WordPair
      <3>1. Timestamps \subseteq Int /\ Doubles \subseteq Int
        OBVIOUS
      <3> QED
        BY <3>1 DEF SentPoint, WordPair
    <2>2. head.pts \in Seq(WordPair) /\ head'.pts = Append(head.pts, p)
      BY DEF WalTypeOK, PUT_value
    <2> QED
      BY <1>5, <2>1, <2>2
  <1>7. \A j \in 1 .. m : Pair(j)' = Pair(j)
    <2> SUFFICES ASSUME NEW j \in 1 .. m PROVE Pair(j)' = Pair(j)
      OBVIOUS
    <2>1. 2 * j - 1 \in 1 .. w /\ 2 * j \in 1 .. w
      BY <1>4 DEF PrefixInv
    <2> QED
      BY <1>1, <1>4, <2>1 DEF Pair
  <1>8. \A j \in 1 .. m : Wanted(j)' => Found(j)'
    <2> SUFFICES ASSUME NEW j \in 1 .. m, Wanted(j)' PROVE Found(j)'
      OBVIOUS
    <2>1. Found(j)
      BY <1>7 DEF FoundInv, Wanted
    <2>2. PICK i \in 1 .. n : head.pts[i] = Pair(j)
      BY <1>6, <2>1 DEF Found
    <2>3. i \in 1 .. n + 1 /\ i \in DOMAIN head'.pts /\ head'.pts[i] = Pair(j)'
      BY <1>6, <1>7, <2>2
    <2> QED
      BY <2>3 DEF Found
  <1>9. \A j \in 1 .. m : IntactPoint(Pair(j)) /\ IntactPoint(Pair(j))'
    <2> SUFFICES ASSUME NEW j \in 1 .. m PROVE IntactPoint(Pair(j)) /\ IntactPoint(Pair(j))'
      OBVIOUS
    <2>1. PICK x : x = Pair(j)
      OBVIOUS
    <2>2. IntactPoint(x) /\ IntactPoint(x)' /\ x = Pair(j)'
      BY <1>2, <1>7, <2>1 DEF PrefixInv
    <2> QED
      BY <2>1, <2>2 DEF IntactPoint
  <1>10. /\ 2 * m <= w /\ (~ Half => w = 2 * m)
         /\ m <= Len(records) /\ Len(records) \in Nat /\ Len(records') = Len(records) + 1
    BY <1>4 DEF PrefixInv, WalTypeOK
  <1>11. \A i, j \in 1 .. m : i < j => Pair(i)'.ts < Pair(j)'.ts
    BY <1>7 DEF PrefixInv
  <1>12. ASSUME NEW k \in Intact, records'[k] = records[k]
         PROVE  \E j \in 1 .. m : j <= k /\ Pair(j)' = records'[k].p
    BY <1>7, <1>12 DEF PrefixInv
  <1>13. CASE Half \/ len # 2
    <2>1. 2 * m <= Len(words') /\ (~ Half' => Len(words') = 2 * m)
      <3>1. Len(words') = w + len
        BY <1>1, <1>4
      <3>2. ~ Half' => len = 0 /\ ~ Half
        BY <1>3, <1>13
      <3>3. 2 * m <= w + len /\ (~ Half' => w + len = 2 * m)
        BY <1>10, <3>2
      <3> QED
        BY <3>1, <3>3
    <2>2. \A k \in Intact' : \E j \in 1 .. m : j <= k /\ Pair(j)' = records'[k].p
      BY <1>2, <1>12, <1>13
    <2>5. m <= Len(records')
      BY <1>10
    <2>3. PrefixInv(m)'
      BY <1>9, <1>11, <2>1, <2>2, <2>5 DEF PrefixInv
    <2>4. FoundInv(m)'
      BY <1>8 DEF FoundInv
    <2> QED
      BY <2>3, <2>4
  <1>14. CASE ~ Half /\ len = 2
    <2>1. Pair(m + 1)' = p /\ Len(words') = 2 * (m + 1) /\ m + 1 \in Nat
      <3>1. 2 * (m + 1) - 1 = w + 1 /\ 2 * (m + 1) = w + 2
        BY <1>10, <1>14
      <3>2. p = [ts |-> p.ts, val |-> p.val]
        BY DEF SentPoint
      <3>3. Len(words') = w + 2 /\ words'[w + 1] = p.ts /\ words'[w + 2] = p.val
        BY <1>1, <1>4, <1>14
      <3>4. Pair(m + 1)' = [ts |-> words'[w + 1], val |-> words'[w + 2]]
        BY <3>1, Zenon DEF Pair
      <3>5. Pair(m + 1)' = p
        BY <3>2, <3>3, <3>4, Zenon
      <3> QED
        BY <3>1, <3>3, <3>5
    <2>3. \A j \in 1 .. m + 1 : j \in 1 .. m \/ j = m + 1
      OBVIOUS
    <2>4. m + 1 \in 1 .. m + 1 /\ \A j \in 1 .. m : j \in 1 .. m + 1
      OBVIOUS
    <2>5. Found(m + 1)'
      <3>1. n + 1 \in DOMAIN head'.pts /\ head'.pts[n + 1] = Pair(m + 1)'
        BY <1>6, <2>1
      <3> QED
        BY <3>1 DEF Found
    <2>6. IntactPoint(p)' /\ IntactPoint(Pair(m + 1))'
      <3>1. IntactPoint(p)'
        BY <1>2, <1>14
      <3> QED
        BY <2>1, <3>1 DEF IntactPoint
    <2>7. ASSUME NEW k \in Intact'
          PROVE  \E j \in 1 .. m + 1 : j <= k /\ Pair(j)' = records'[k].p
      <3>1. CASE k \in Intact /\ records'[k] = records[k]
        BY <1>12, <2>4, <3>1
      <3>2. CASE k = Len(records) + 1 /\ records'[k].p = p
        BY <1>10, <2>1, <2>4, <3>2
      <3> QED
        BY <1>2, <3>1, <3>2
    <2>8. ASSUME NEW i \in 1 .. m + 1, NEW j \in 1 .. m + 1, i < j
          PROVE  Pair(i)'.ts < Pair(j)'.ts
      <3>0. i \in 1 .. m
        BY <2>8
      <3>1. CASE j \in 1 .. m
        BY <1>11, <2>8, <3>0, <3>1
      <3>2. CASE j = m + 1
        <4>1. PICK k \in DOMAIN records : records[k].p = Pair(i)
          BY <1>9, <3>0 DEF IntactPoint, Intact
        <4> QED
          BY <1>7, <2>1, <3>0, <3>2, <4>1
      <3> QED
        BY <2>3, <3>1, <3>2
    <2>9. m + 1 <= Len(records')
      BY <1>10
    <2>10. PrefixInv(m + 1)'
      <3> DEFINE l == m + 1
      <3>1. 2 * l <= Len(words') /\ (~ Half' => Len(words') = 2 * l)
        BY <2>1
      <3>2. \A j \in 1 .. l : IntactPoint(Pair(j))'
        BY <1>9, <2>3, <2>6
      <3>3. l <= Len(records')
        BY <2>9
      <3>4. \A k \in Intact' : \E j \in 1 .. l : j <= k /\ Pair(j)' = records'[k].p
        BY <2>7
      <3>5. \A i, j \in 1 .. l : i < j => Pair(i)'.ts < Pair(j)'.ts
        BY <2>8
      <3> HIDE DEF l
      <3>6. PrefixInv(l)'
        BY <3>1, <3>2, <3>3, <3>4, <3>5 DEF PrefixInv
      <3> QED
        BY <3>6 DEF l
    <2>11. FoundInv(m + 1)'
      BY <1>8, <2>3, <2>5 DEF FoundInv
    <2> QED
      BY <2>1, <2>10, <2>11
  <1> QED
    BY <1>13, <1>14

\* wal_replay refuses no intact record: it is younger than what has been read, and
\* there is room.
LEMMA TakesIntact ==
  ASSUME WalTypeOK, SortedInv, NEW m \in Nat, PrefixInv(m), FoundInv(m),
         NEW q \in Nat, q + 1 <= m, rpos = 2 * q + 1, Record = Pair(q + 1), Readable, wal_replay,
         Wanted(q + 1)
  PROVE  head' = PUT_value(head, Pair(q + 1))
  <1> DEFINE r == Pair(q + 1)
  <1>1. proc = "replay" /\ rpos <= 2 * m + 1
    BY DEF wal_replay
  <1>2. PICK n \in Nat : n = Len(head.pts)
    BY DEF WalTypeOK
  <1>3. /\ n <= q /\ (head.pts = << >> => head.last = unset)
        /\ \A i \in DOMAIN head.pts : head.pts[i].ts < r.ts
    <2>1. 2 * n + 1 <= rpos /\ q + 1 \in 1 .. m /\ rpos < 2 * (q + 1)
      BY <1>1, <1>2 DEF FoundInv
    <2> QED
      BY <1>1, <1>2, <2>1, SMTT(40) DEF FoundInv
  <1>4. r.ts \in Nat \ {0}
    <2>1. q + 1 \in 1 .. m
      OBVIOUS
    <2>2. IntactPoint(r)
      BY <2>1 DEF PrefixInv
    <2>3. PICK k \in DOMAIN records : records[k].p = r
      BY <2>2 DEF IntactPoint, Intact
    <2> QED
      BY <2>3, RecordType
  <1>5. head.last < r.ts /\ head.last \in Int
    <2>1. CASE head.pts = << >>
      BY <1>3, <2>1 DEF Wanted, FoundInv
    <2>2. CASE head.pts # << >>
      <3>1. head.pts \in Seq(WordPair) /\ n \in DOMAIN head.pts
        BY <1>2, <2>2 DEF WalTypeOK
      <3>2. head.pts[n] \in WordPair /\ head.last = head.pts[n].ts
        BY <1>2, <2>2, <3>1 DEF SortedInv
      <3> QED
        BY <1>3, <3>1, <3>2 DEF WordPair
    <2> QED
      BY <2>1, <2>2
  <1>6. ~ (n >= HEAD_CAPACITY)
    BY <1>3, CapacityAssumption DEF Wanted
  <1>7. ~ Skipped(r) /\ PUT_accepts(head, r)
    <2>1. ~ (r.ts <= head.last) /\ ~ (r.ts < head.last)
      BY <1>4, <1>5
    <2> QED
      BY <1>2, <1>6, <2>1 DEF Skipped, PUT_accepts, IsFull
  <1> QED
    BY <1>7 DEF wal_replay

\* One iteration of wal_replay.
LEMMA ReplayStep ==
  ASSUME ReplayInv, wal_replay, Readable
  PROVE  SortedInv' /\ \E m \in Nat : PrefixInv(m)' /\ FoundInv(m)'
  <1>0. /\ WalTypeOK /\ SortedInv /\ UNCHANGED <<words, records, proc, unset>>
        /\ proc = "replay" /\ Reading /\ rpos' = rpos + 2
    BY DEF ReplayInv, WalInv, wal_replay
  <1>1. PICK m \in Nat : PrefixInv(m) /\ FoundInv(m)
    BY DEF ReplayInv
  <1>2. PICK q \in Nat : rpos = 2 * q + 1
    BY <1>0 DEF Reading
  <1>3. Record = Pair(q + 1) /\ Record \in WordPair
    <2>1. words \in Seq(Int) /\ rpos + 1 <= Len(words)
      BY <1>0 DEF WalTypeOK, Readable
    <2>2. /\ 2 * (q + 1) - 1 = rpos /\ 2 * (q + 1) = rpos + 1
          /\ rpos \in 1 .. Len(words) /\ rpos + 1 \in 1 .. Len(words)
      BY <1>2, <2>1
    <2>3. words[rpos] \in Int /\ words[rpos + 1] \in Int
      BY <2>1, <2>2, ElementOfSeq
    <2>4. Record = [ts |-> words[rpos], val |-> words[rpos + 1]]
      BY <2>1 DEF Record
    <2> QED
      BY <2>2, <2>3, <2>4 DEF Pair, WordPair
  <1>4. /\ PrefixInv(m)'
        /\ \A j : Pair(j)' = Pair(j)
        /\ \A x : IntactPoint(x)' <=> IntactPoint(x)
    BY <1>0, <1>1, PrefixFrame
  <1>5. PICK n \in Nat : n = Len(head.pts)
    BY <1>0 DEF WalTypeOK
  <1>6. head.pts \in Seq(WordPair) /\ DOMAIN head.pts = 1 .. n
    BY <1>0, <1>5 DEF WalTypeOK
  <1>7. \/ head' = head
        \/ head' = PUT_value(head, Record) /\ ~ Skipped(Record)
    BY DEF wal_replay
  <1>8. head' = PUT_value(head, Record) =>
          /\ DOMAIN head'.pts = 1 .. n + 1 /\ Len(head'.pts) = n + 1
          /\ head'.pts[n + 1] = Record /\ \A i \in 1 .. n : head'.pts[i] = head.pts[i]
    <2> SUFFICES ASSUME head'.pts = Append(head.pts, Record)
                 PROVE  /\ DOMAIN head'.pts = 1 .. n + 1 /\ Len(head'.pts) = n + 1
                        /\ head'.pts[n + 1] = Record
                        /\ \A i \in 1 .. n : head'.pts[i] = head.pts[i]
      BY DEF PUT_value
    <2> QED
      BY <1>3, <1>5, <1>6
  <1>9. SortedInv'
    <2>1. CASE head' = head
      <3>1. \A i \in DOMAIN head.pts : IntactPoint(head.pts[i])' <=> IntactPoint(head.pts[i])
        BY <1>0, <2>1 DEF IntactPoint, Intact, Aligned
      <3> QED
        BY <1>0, <2>1, <3>1 DEF SortedInv
    <2>2. CASE head' = PUT_value(head, Record) /\ ~ Skipped(Record)
      <3>1. \A i \in 1 .. n : head.pts[i].ts \in Int /\ head.pts[i].ts <= head.last
        <4> SUFFICES ASSUME NEW i \in 1 .. n PROVE head.pts[i].ts \in Int /\ head.pts[i].ts <= head.last
          OBVIOUS
        <4>1. n \in 1 .. n /\ head.pts # << >> /\ (i = n \/ i < n)
          BY <1>6
        <4>2. head.pts[i] \in WordPair /\ head.pts[n] \in WordPair
          BY <1>5, <1>6, <4>1
        <4>3. head.last = head.pts[n].ts
          BY <1>0, <1>5, <4>1 DEF SortedInv
        <4>4. head.pts[i].ts \in Int /\ head.pts[n].ts \in Int
          BY <4>2 DEF WordPair
        <4>5. i < n => head.pts[i].ts <= head.pts[n].ts
          BY <1>0, <1>6, <4>1 DEF SortedInv
        <4> QED
          BY <4>1, <4>3, <4>4, <4>5
      <3>2. \A i \in 1 .. n : head.pts[i].ts # Record.ts /\ head.last \in Int
        <4> SUFFICES ASSUME NEW i \in 1 .. n PROVE head.pts[i].ts # Record.ts /\ head.last \in Int
          OBVIOUS
        <4>1. n \in 1 .. n /\ head.pts # << >>
          BY <1>6
        <4>2. head.last \in Int
          BY <1>0, <1>5, <3>1, <4>1 DEF SortedInv
        <4>3. Record.ts \in Int
          BY <1>3 DEF WordPair
        <4> QED
          BY <2>2, <3>1, <4>2, <4>3 DEF Skipped
      <3>3. head.pts # << >> => head.last <= Record.ts
        <4>1. head.pts # << >> => n \in 1 .. n
          BY <1>5, <1>6
        <4>2. Record.ts \in Int
          BY <1>3 DEF WordPair
        <4> QED
          BY <2>2, <3>2, <4>1, <4>2 DEF Skipped
      <3> DEFINE r == Record
      <3>4. PICK p \in WordPair : p = r
        BY <1>3
      <3>5. /\ head' = PUT_value(head, p) /\ (head.pts # << >> => head.last <= p.ts)
            /\ \A i \in DOMAIN head.pts : head.pts[i].ts # p.ts
        BY <1>6, <2>2, <3>2, <3>3, <3>4
      <3> QED
        BY <1>0, <1>4, <3>5, SortedGrow
    <2> QED
      BY <1>7, <2>1, <2>2
  <1>10. ASSUME q + 1 <= m, Wanted(q + 1) PROVE head' = PUT_value(head, Record)
    BY <1>0, <1>1, <1>2, <1>3, <1>10, TakesIntact
  <1>11. ASSUME NEW j \in 1 .. m, 2 * j < rpos', Wanted(j)' PROVE Found(j)'
    <2>0. Wanted(j)
      BY <1>0, <1>4, <1>11 DEF Wanted
    <2>1. CASE j <= q
      <3>1. 2 * j < rpos
        BY <1>2, <2>1
      <3>2. PICK i \in 1 .. n : head.pts[i] = Pair(j)
        BY <1>1, <1>6, <2>0, <3>1 DEF FoundInv, Found
      <3>3. i \in DOMAIN head'.pts /\ head'.pts[i] = Pair(j)'
        BY <1>4, <1>6, <1>7, <1>8, <3>2
      <3> QED
        BY <3>3 DEF Found
    <2>2. CASE j = q + 1
      <3>1. head' = PUT_value(head, Record)
        BY <1>10, <2>0, <2>2
      <3>2. n + 1 \in DOMAIN head'.pts /\ head'.pts[n + 1] = Pair(j)'
        BY <1>3, <1>4, <1>8, <2>2, <3>1
      <3> QED
        BY <3>2 DEF Found
    <2> QED
      BY <1>0, <1>2, <1>11, <2>1, <2>2
  <1>12. ASSUME rpos' <= 2 * m + 1
         PROVE  /\ 2 * Len(head'.pts) + 1 <= rpos'
                /\ head'.pts = << >> => head'.last = unset
                /\ \A i \in DOMAIN head'.pts, j \in 1 .. m :
                     rpos' < 2 * j => head'.pts[i].ts < Pair(j).ts
    <2>1. q + 1 \in 1 .. m /\ rpos' = 2 * (q + 1) + 1 /\ rpos <= 2 * m + 1
      BY <1>0, <1>2, <1>12
    <2>2. /\ 2 * n + 1 <= rpos /\ (head.pts = << >> => head.last = unset)
          /\ \A i \in DOMAIN head.pts, j \in 1 .. m : rpos < 2 * j => head.pts[i].ts < Pair(j).ts
      BY <1>0, <1>1, <1>5, <2>1 DEF FoundInv
    <2>3. \A j \in 1 .. m : rpos' < 2 * j => rpos < 2 * j /\ q + 1 < j
      BY <1>0, <1>2, <2>1
    <2>4. \A j \in 1 .. m : rpos' < 2 * j => Record.ts < Pair(j).ts
      BY <1>1, <1>3, <2>1, <2>3 DEF PrefixInv
    <2>5. CASE head' = head
      <3>1. 2 * n + 1 <= rpos'
        BY <1>0, <1>2, <2>2
      <3> QED
        BY <1>5, <2>2, <2>3, <2>5, <3>1
    <2>6. CASE head' = PUT_value(head, Record)
      <3>1. /\ DOMAIN head'.pts = 1 .. n + 1 /\ Len(head'.pts) = n + 1
            /\ head'.pts[n + 1] = Record /\ \A i \in 1 .. n : head'.pts[i] = head.pts[i]
        BY <1>8, <2>6
      <3>2. \A i \in 1 .. n + 1 : i \in 1 .. n \/ i = n + 1
        OBVIOUS
      <3>3. 2 * (n + 1) + 1 <= rpos' /\ n + 1 \in DOMAIN head'.pts
        BY <1>0, <1>2, <2>2, <3>1
      <3>4. ASSUME NEW i \in 1 .. n + 1, NEW j \in 1 .. m, rpos' < 2 * j
            PROVE  head'.pts[i].ts < Pair(j).ts
        BY <1>6, <2>2, <2>3, <2>4, <3>1, <3>2, <3>4
      <3> QED
        BY <3>1, <3>3, <3>4
    <2> QED
      BY <1>7, <2>5, <2>6
  <1>13. FoundInv(m)'
    <2>1. unset' \in Int /\ proc' # "up"
      BY <1>0, <1>1 DEF FoundInv
    <2>2. rpos' <= 2 * m + 1 =>
            /\ 2 * Len(head'.pts) + 1 <= rpos'
            /\ head'.pts = << >> => head'.last = unset'
            /\ \A i \in DOMAIN head'.pts, j \in 1 .. m :
                 rpos' < 2 * j => head'.pts[i].ts < Pair(j)'.ts
      BY <1>0, <1>4, <1>12
    <2> QED
      BY <1>11, <2>1, <2>2 DEF FoundInv
  <1> QED
    BY <1>4, <1>9, <1>13

LEMMA SortedFrame ==
  ASSUME SortedInv, UNCHANGED <<head, words, records>>
  PROVE  SortedInv'
  <1>1. \A i \in DOMAIN head.pts : IntactPoint(head.pts[i])' <=> IntactPoint(head.pts[i])
    BY DEF IntactPoint, Intact, Aligned
  <1> QED
    BY <1>1 DEF SortedInv

LEMMA AppendReplayInv ==
  ASSUME ReplayInv, NEW ts \in Timestamps, NEW val \in Doubles, NEW len \in 0 .. 2,
         wal_append([ts |-> ts, val |-> val], len)
  PROVE  ReplayInv'
  <1>1. PICK p \in SentPoint : p = [ts |-> ts, val |-> val]
    BY DEF SentPoint
  <1>2. /\ WalInv /\ WalTypeOK /\ RecordsInv /\ SortedInv /\ proc = "up" /\ ~ IsFull(head)
        /\ p.ts = ts /\ (\A i \in DOMAIN sent : sent[i] < p.ts) /\ sent' = Append(sent, p.ts)
        /\ UNCHANGED <<proc, rpos, unset>>
    BY <1>1 DEF ReplayInv, WalInv, wal_append
  <1>3. WalInv'
    BY <1>2, AppendWal
  <1>4. PICK m \in Nat : PrefixInv(m) /\ FoundInv(m)
    BY DEF ReplayInv
  <1>5. CASE ~ PUT_accepts(head, p)
    <2>1. UNCHANGED <<head, words, records>>
      BY <1>1, <1>5 DEF wal_append
    <2>2. RecordsInv'
      BY <1>2, <2>1, SentGrow DEF RecordsInv
    <2>3. PrefixInv(m)' /\ \A j : Pair(j)' = Pair(j)
      BY <1>4, <2>1, PrefixFrame
    <2>4. FoundInv(m)'
      BY <1>2, <1>4, <2>1, <2>3 DEF FoundInv, Found, Wanted
    <2> QED
      BY <1>2, <1>3, <2>1, <2>2, <2>3, <2>4, SortedFrame DEF ReplayInv
  <1>6. CASE PUT_accepts(head, p)
    <2>1. /\ head' = PUT_value(head, p)
          /\ words' = Written(p, len)
          /\ records' = Append(records, [p |-> p, len |-> len])
      BY <1>1, <1>6 DEF wal_append
    <2>2. RecordsInv' /\ \A k \in DOMAIN records : records[k].p.ts < p.ts
      BY <1>2, <2>1, AppendRecords
    <2>3. \E q \in Nat : PrefixInv(q)' /\ FoundInv(q)'
      BY <1>2, <1>4, <2>1, <2>2, AppendPrefix
    <2>4. \A x : IntactPoint(x)' <=> IntactPoint(x) \/ (~ Half /\ len = 2 /\ x = p)
      BY <1>2, <2>1, IntactGrow
    <2>5. p \in WordPair /\ p.ts \in Int
      <3>1. Timestamps \subseteq Int /\ Doubles \subseteq Int
        OBVIOUS
      <3> QED
        BY <3>1 DEF SentPoint, WordPair
    <2>6. head.pts # << >> => head.last <= p.ts
      <3> SUFFICES ASSUME head.pts # << >> PROVE head.last <= p.ts
        OBVIOUS
      <3>1. head.pts \in Seq(WordPair)
        BY <1>2 DEF WalTypeOK
      <3>2. Len(head.pts) \in Nat /\ Len(head.pts) > 0 /\ Len(head.pts) \in 1 .. Len(head.pts)
        BY <3>1
      <3>3. head.pts[Len(head.pts)] \in WordPair
        BY <3>1, <3>2, ElementOfSeq
      <3>4. head.last \in Int
        BY <1>2, <3>3 DEF SortedInv, WordPair
      <3>5. ~ (p.ts < head.last)
        BY <1>6, <3>2 DEF PUT_accepts
      <3> QED
        BY <2>5, <3>4, <3>5
    <2>7. ASSUME NEW i \in DOMAIN head.pts
          PROVE  head.pts[i].ts # p.ts \/ (~ IntactPoint(p)' /\ ~ IntactPoint(head.pts[i]))
      <3>1. \A x : IntactPoint(x) => x.ts # p.ts
        <4> SUFFICES ASSUME NEW x, IntactPoint(x) PROVE x.ts # p.ts
          OBVIOUS
        <4>1. PICK k \in DOMAIN records : records[k].p = x
          BY DEF IntactPoint, Intact
        <4>2. x.ts < p.ts /\ x.ts \in Int
          BY <1>2, <2>2, <4>1, RecordType
        <4> QED
          BY <2>5, <4>2
      <3>2. CASE Half \/ len # 2
        BY <2>4, <3>1, <3>2
      <3>3. CASE ~ Half
        <4>1. ~ Misaligned
          BY <3>3 DEF Misaligned, Half
        <4>2. PICK k \in DOMAIN records : records[k].p = head.pts[i]
          BY <1>2, <4>1 DEF WalInv, Sent
        <4>3. head.pts[i].ts < p.ts /\ head.pts[i].ts \in Int
          BY <1>2, <2>2, <4>2, RecordType
        <4> QED
          BY <2>5, <4>3
      <3> QED
        BY <3>2, <3>3
    <2>8. SortedInv'
      BY <1>2, <2>1, <2>4, <2>5, <2>6, <2>7, SortedGrow
    <2> QED
      BY <1>3, <2>2, <2>3, <2>8 DEF ReplayInv
  <1> QED
    BY <1>5, <1>6

LEMMA ReplayReplayInv ==
  ASSUME ReplayInv, wal_replay
  PROVE  ReplayInv'
  <1>1. /\ WalInv' /\ RecordsInv' /\ SortedInv /\ UNCHANGED <<words, records, unset>>
        /\ WalTypeOK /\ Reading /\ proc = "replay"
    BY ReplayWal DEF ReplayInv, WalInv, wal_replay, RecordsInv
  <1>2. CASE Readable
    BY <1>1, <1>2, ReplayStep DEF ReplayInv
  <1>3. CASE ~ Readable
    <2>1. head' = head /\ proc' = "up" /\ rpos' = 1
      BY <1>3 DEF wal_replay
    <2>2. PICK m \in Nat : PrefixInv(m) /\ FoundInv(m)
      BY DEF ReplayInv
    <2>3. PrefixInv(m)' /\ \A j : Pair(j)' = Pair(j)
      BY <1>1, <2>2, PrefixFrame
    <2>4. PICK q \in Nat : rpos = 2 * q + 1
      BY <1>1 DEF Reading
    <2>5. \A j \in 1 .. m : Wanted(j) => Found(j)
      <3> SUFFICES ASSUME NEW j \in 1 .. m, Wanted(j) PROVE Found(j)
        OBVIOUS
      <3>1. Len(words) \in Nat /\ 2 * m <= Len(words) /\ ~ (rpos + 1 <= Len(words))
        BY <1>1, <1>3, <2>2 DEF WalTypeOK, PrefixInv, Readable
      <3>2. 2 * j < rpos
        BY <2>4, <3>1
      <3> QED
        BY <2>2, <3>2 DEF FoundInv
    <2>6. FoundInv(m)'
      BY <1>1, <2>1, <2>2, <2>3, <2>5 DEF FoundInv, Found, Wanted
    <2> QED
      BY <1>1, <2>1, <2>3, <2>6, SortedFrame DEF ReplayInv
  <1> QED
    BY <1>2, <1>3

\* A flush leaves an empty file, a crash an empty block and a file to read.
LEMMA EmptyReplayInv ==
  ASSUME ReplayInv,
         wal_truncate \/ (\E garbage \in Garbage : WalCrash(garbage)) \/ Restart \/ UNCHANGED walVars
  PROVE  ReplayInv'
  <1>1. WalInv' /\ RecordsInv /\ SortedInv
    BY EmptyWal DEF ReplayInv
  <1>2. PICK m \in Nat : PrefixInv(m) /\ FoundInv(m)
    BY DEF ReplayInv
  <1>3. CASE wal_truncate
    <2>1. /\ head'.pts = << >> /\ words' = << >> /\ records' = << >> /\ sent' = sent
          /\ proc' = "up" /\ UNCHANGED <<proc, rpos, unset>>
      BY <1>3 DEF wal_truncate
    <2>2. DOMAIN head'.pts = {} /\ DOMAIN records' = {} /\ Len(words') = 2 * 0 /\ Len(records') = 0
      BY <2>1
    <2>3. Intact' = {} /\ 1 .. 0 = {}
      BY <2>2 DEF Intact
    <2>4. \A x : ~ IntactPoint(x)'
      BY <2>3 DEF IntactPoint
    <2>5. RecordsInv' /\ SortedInv'
      BY <1>1, <2>1, <2>2 DEF RecordsInv, SortedInv
    <2>6. PrefixInv(0)' /\ FoundInv(0)'
      BY <1>2, <2>1, <2>2, <2>3, <2>4 DEF PrefixInv, FoundInv
    <2> QED
      BY <1>1, <2>5, <2>6 DEF ReplayInv
  <1>4. CASE \E garbage \in Garbage : WalCrash(garbage)
    <2>1. /\ head'.pts = << >> /\ head'.last = unset' /\ unset' \in Int /\ UNCHANGED <<words, records, sent>>
          /\ proc' = "down" /\ rpos' = 1
      BY <1>4 DEF WalCrash, getNewHeadBlock
    <2>2. DOMAIN head'.pts = {} /\ Len(head'.pts) = 0
      BY <2>1
    <2>3. RecordsInv' /\ SortedInv'
      BY <1>1, <2>1, <2>2 DEF RecordsInv, SortedInv
    <2>4. PrefixInv(m)'
      BY <1>2, <2>1, PrefixFrame
    <2>5. \A j \in 1 .. m : ~ (2 * j < 1)
      OBVIOUS
    <2>6. FoundInv(m)'
      BY <2>1, <2>2, <2>5 DEF FoundInv
    <2> QED
      BY <1>1, <2>3, <2>4, <2>6 DEF ReplayInv
  <1>5. CASE Restart \/ UNCHANGED walVars
    <2>1. /\ UNCHANGED <<head, words, records, sent, rpos, unset>>
          /\ (proc' = "up" <=> proc = "up")
      BY <1>5 DEF Restart, walVars
    <2>2. RecordsInv' /\ SortedInv'
      BY <1>1, <2>1, SortedFrame DEF RecordsInv
    <2>3. PrefixInv(m)' /\ \A j : Pair(j)' = Pair(j)
      BY <1>2, <2>1, PrefixFrame
    <2>4. FoundInv(m)'
      BY <1>2, <2>1, <2>3 DEF FoundInv, Found, Wanted
    <2> QED
      BY <1>1, <2>2, <2>3, <2>4 DEF ReplayInv
  <1> QED
    BY <1>3, <1>4, <1>5

\* What wal_append has written whole, in front of any half record, is in the block
\* after every start if it is younger than what malloc left in lastTimestamp and
\* the log up to it fits in a block: each point once and in order.  However often
\* the server has crashed, also during a replay, and whatever it makes of the
\* words behind, wal_replay neither skips nor refuses it.
THEOREM PrefixRecoveredSafe == WalSpec => []PrefixRecovered
  <1>1. WalInit => ReplayInv
    <2> SUFFICES ASSUME WalInit PROVE ReplayInv
      OBVIOUS
    <2>1. /\ head.pts = << >> /\ words = << >> /\ records = << >> /\ sent = << >>
          /\ rpos = 1 /\ rpos = 2 * 0 + 1 /\ proc = "up" /\ unset \in Int
      BY DEF WalInit, getNewHeadBlock
    <2>2. /\ DOMAIN head.pts = {} /\ DOMAIN records = {} /\ Len(words) = 2 * 0 /\ 1 .. 0 = {}
          /\ Len(records) = 0
      BY <2>1
    <2>3. Intact = {}
      BY <2>2 DEF Intact
    <2>4. \A x : ~ IntactPoint(x)
      BY <2>3 DEF IntactPoint
    <2>5. WalInv
      BY InitWal
    <2>6. RecordsInv /\ SortedInv
      BY <2>1, <2>2 DEF RecordsInv, SortedInv
    <2>7. PrefixInv(0) /\ FoundInv(0)
      BY <2>1, <2>2, <2>3, <2>4 DEF PrefixInv, FoundInv
    <2> QED
      BY <2>5, <2>6, <2>7 DEF ReplayInv
  <1>2. ReplayInv /\ [WalNext]_walVars => ReplayInv'
    BY AppendReplayInv, ReplayReplayInv, EmptyReplayInv DEF WalNext, Waiting
  <1>3. ReplayInv => PrefixRecovered
    <2> SUFFICES ASSUME ReplayInv, proc = "up" PROVE PrefixRecovered
      BY DEF PrefixRecovered
    <2>0. WalTypeOK /\ RecordsInv /\ SortedInv
      BY DEF ReplayInv, WalInv
    <2>1. PICK m \in Nat : PrefixInv(m) /\ FoundInv(m)
      BY DEF ReplayInv
    <2>2. ASSUME NEW k \in Taken
          PROVE  /\ k \in DOMAIN records /\ records[k].p \in SentPoint /\ records[k].p.ts \in Int
                 /\ IntactPoint(records[k].p)
      <3>1. k \in Intact /\ k \in DOMAIN records
        BY DEF Taken, Intact
      <3> QED
        BY <2>0, <3>1, RecordType DEF IntactPoint
    <2>3. DOMAIN head.pts \subseteq Int
      BY <2>0 DEF WalTypeOK
    <2>4. ASSUME NEW k \in Taken PROVE \E i \in DOMAIN head.pts : Places(k) = {i}
      <3>0. k \in Intact /\ k \in Nat /\ k <= HEAD_CAPACITY /\ records[k].p.ts > unset
        <4>1. k \in Intact /\ k <= HEAD_CAPACITY /\ records[k].p.ts > unset
          BY DEF Taken
        <4>2. DOMAIN records \subseteq Nat
          BY <2>0 DEF WalTypeOK
        <4> QED
          BY <2>2, <4>1, <4>2
      <3>1. PICK j \in 1 .. m : j <= k /\ Pair(j) = records[k].p
        BY <2>1, <3>0 DEF PrefixInv
      <3>4. Wanted(j)
        BY <3>0, <3>1, CapacityAssumption DEF Wanted
      <3>2. PICK i \in DOMAIN head.pts : head.pts[i] = records[k].p
        BY <2>1, <3>1, <3>4 DEF FoundInv, Found
      <3>3. ASSUME NEW l \in DOMAIN head.pts, head.pts[l] = records[k].p PROVE l = i
        <4>1. l < i \/ i < l \/ l = i
          BY <2>3
        <4> QED
          BY <2>0, <2>2, <3>2, <3>3, <4>1 DEF SortedInv
      <3> QED
        BY <3>2, <3>3 DEF Places
    <2>5. ASSUME NEW k \in Taken, NEW l \in Taken, NEW i \in Places(k), NEW j \in Places(l), k < l
          PROVE  i < j
      <3>1. records[k].p.ts < records[l].p.ts
        BY <2>0, <2>2, <2>5 DEF RecordsInv
      <3>2. /\ i \in DOMAIN head.pts /\ head.pts[i] = records[k].p
            /\ j \in DOMAIN head.pts /\ head.pts[j] = records[l].p
        BY DEF Places
      <3>3. j < i => head.pts[j].ts <= head.pts[i].ts
        BY <2>0, <3>2 DEF SortedInv
      <3>4. i # j /\ ~ (j < i)
        BY <2>2, <3>1, <3>2, <3>3
      <3> QED
        BY <2>3, <3>2, <3>4
    <2> QED
      BY <2>4, <2>5 DEF PrefixRecovered
  <1> QED
    BY <1>1, <1>2, <1>3, PTL DEF WalSpec
=============================================================================
